----------------------------- MODULE KeylessKeys -----------------------------
(* The keys of the keyless provider and the contexts that use them           *)
(* (provider_keymgt.c, provider_signature.c, provider_asymcipher.c). OpenSSL *)
(* holds a key through its own handles; every signature or decryption        *)
(* context holds one too. Contexts belong to different threads, so their     *)
(* steps interleave; a key is released by whoever drops the last reference.  *)
EXTENDS Naturals, FiniteSets

CONSTANTS
  Keys,    \* the KeylessKey objects there may be
  Handles, \* OpenSSL's handles of provider keys (one reference each)
  SigCtxs, \* the signature contexts
  AcCtxs,  \* the contexts of asymmetric encryption and decryption
  NoKey,
  MaxLost  \* bound: an asymcipher context is initialised again while no key has lost so many references

ASSUME KeylessKeysAssumption ==
  /\ NoKey \notin Keys /\ MaxLost \in Nat
  /\ IsFiniteSet(Handles) /\ IsFiniteSet(SigCtxs) /\ IsFiniteSet(AcCtxs) /\ SigCtxs \cap AcCtxs = {}

VARIABLES
  holds,   \* who holds which key: handles, keyData of contexts, and the key an init brings
  refCnt,  \* KeylessKey.refCnt
  keySt,   \* "none", "live" or "freed"
  ctxSt,   \* "none", "open", or "init": inside sign_init, with the key not stored yet
  from,    \* the handle whose key an init was given: OpenSSL keeps it during the call
  lost     \* references of each key that an asymcipher init has overwritten (for the properties)

keysVars == <<holds, refCnt, keySt, ctxSt, from, lost>>

Ctxs == SigCtxs \cup AcCtxs

Pkey(h) == <<h, "pkey">>
KeyData(c) == <<c, "keyData">>
Coming(c) == <<c, "keydata">>
Slots == (Handles \X {"pkey"}) \cup (Ctxs \X {"keyData", "keydata"})

KeysInit ==
  /\ holds = [s \in Slots |-> NoKey] /\ refCnt = [k \in Keys |-> 0] /\ keySt = [k \in Keys |-> "none"]
  /\ ctxSt = [c \in Ctxs |-> "none"] /\ from = [c \in Ctxs |-> {}] /\ lost = [k \in Keys |-> 0]

\* An atomic increment.
KeyUpRef(k) == refCnt' = [refCnt EXCEPT ![k] = @ + 1] /\ UNCHANGED keySt

\* An atomic decrement; whoever gets to zero releases the key.
KeyFree(k) ==
  /\ refCnt' = [refCnt EXCEPT ![k] = @ - 1]
  /\ keySt' = [keySt EXCEPT ![k] = IF refCnt[k] > 1 THEN @ ELSE "freed"]

NewKey(h, k) ==
  /\ holds[Pkey(h)] = NoKey /\ keySt[k] = "none"
  /\ keySt' = [keySt EXCEPT ![k] = "live"] /\ refCnt' = [refCnt EXCEPT ![k] = 1]
  /\ holds' = [holds EXCEPT ![Pkey(h)] = k] /\ UNCHANGED <<ctxSt, from, lost>>

LoadKey(h, g) ==
  /\ holds[Pkey(h)] = NoKey /\ holds[Pkey(g)] # NoKey
  /\ KeyUpRef(holds[Pkey(g)])
  /\ holds' = [holds EXCEPT ![Pkey(h)] = holds[Pkey(g)]] /\ UNCHANGED <<ctxSt, from, lost>>

FreeHandle(h) ==
  /\ holds[Pkey(h)] # NoKey /\ \A c \in Ctxs : h \notin from[c]
  /\ KeyFree(holds[Pkey(h)])
  /\ holds' = [holds EXCEPT ![Pkey(h)] = NoKey] /\ UNCHANGED <<ctxSt, from, lost>>

Newctx(c) ==
  /\ ctxSt[c] = "none" /\ ctxSt' = [ctxSt EXCEPT ![c] = "open"]
  /\ UNCHANGED <<holds, refCnt, keySt, from, lost>>

\* An init takes a reference of the key it is given first ...
InitTakes(c, h) ==
  /\ ctxSt[c] = "open" /\ holds[Pkey(h)] # NoKey
  /\ KeyUpRef(holds[Pkey(h)])
  /\ holds' = [holds EXCEPT ![Coming(c)] = holds[Pkey(h)]]
  /\ ctxSt' = [ctxSt EXCEPT ![c] = "init"] /\ from' = [from EXCEPT ![c] = {h}] /\ UNCHANGED lost

\* ... and then stores it in the context.
InitStores(c) ==
  /\ ctxSt[c] = "init"
  /\ holds' = [holds EXCEPT ![KeyData(c)] = holds[Coming(c)], ![Coming(c)] = NoKey]
  /\ ctxSt' = [ctxSt EXCEPT ![c] = "open"] /\ from' = [from EXCEPT ![c] = {}]

\* sign_init and digest_sign_init.
SignInit(c, h) == c \in SigCtxs /\ InitTakes(c, h)

\* Mutant: the key of an earlier init is overwritten.
SigInitForgets(c) == c \in SigCtxs /\ InitStores(c) /\ UNCHANGED <<refCnt, keySt, lost>>

\* The key of an earlier init is given up for the new one.
SigInitInternal(c) ==
  /\ c \in SigCtxs /\ InitStores(c) /\ UNCHANGED lost
  /\ IF holds[KeyData(c)] = NoKey THEN UNCHANGED <<refCnt, keySt>> ELSE KeyFree(holds[KeyData(c)])

\* decrypt_init and encrypt_init of an asymcipher context; bounded where they would lose a reference.
AcContextInit(c, h) ==
  /\ c \in AcCtxs /\ (holds[KeyData(c)] = NoKey \/ \A k \in Keys : lost[k] < MaxLost)
  /\ InitTakes(c, h)

\* These store the new key over that of an earlier init, whose reference is lost.
AcInitStores(c) ==
  /\ c \in AcCtxs /\ InitStores(c) /\ UNCHANGED <<refCnt, keySt>>
  /\ lost' = [k \in Keys |-> IF k = holds[KeyData(c)] THEN lost[k] + 1 ELSE lost[k]]

\* A context is copied by the functions of its own kind.
SameKind(c, d) == c \in SigCtxs <=> d \in SigCtxs

\* Mutant: the copy takes no reference.
DupctxShallow(c, d) ==
  /\ ctxSt[c] = "open" /\ ctxSt[d] = "none" /\ SameKind(c, d)
  /\ holds' = [holds EXCEPT ![KeyData(d)] = holds[KeyData(c)]]
  /\ ctxSt' = [ctxSt EXCEPT ![d] = "open"] /\ UNCHANGED <<refCnt, keySt, from, lost>>

\* The copy points to the key of its source, which holds it meanwhile.
Dupctx(c, d) ==
  /\ ctxSt[c] = "open" /\ ctxSt[d] = "none" /\ SameKind(c, d)
  /\ IF holds[KeyData(c)] = NoKey THEN UNCHANGED <<refCnt, keySt>> ELSE KeyUpRef(holds[KeyData(c)])
  /\ holds' = [holds EXCEPT ![KeyData(d)] = holds[KeyData(c)]]
  /\ ctxSt' = [ctxSt EXCEPT ![d] = "open"] /\ UNCHANGED <<from, lost>>

Freectx(c) ==
  /\ ctxSt[c] = "open"
  /\ IF holds[KeyData(c)] = NoKey THEN UNCHANGED <<refCnt, keySt>> ELSE KeyFree(holds[KeyData(c)])
  /\ holds' = [holds EXCEPT ![KeyData(c)] = NoKey]
  /\ ctxSt' = [ctxSt EXCEPT ![c] = "none"] /\ UNCHANGED <<from, lost>>

KeysNext ==
  \/ \E h \in Handles : FreeHandle(h) \/ (\E k \in Keys : NewKey(h, k)) \/ (\E g \in Handles : LoadKey(h, g))
  \/ \E c \in Ctxs : \/ Newctx(c) \/ SigInitInternal(c) \/ AcInitStores(c) \/ Freectx(c)
                     \/ \E h \in Handles : SignInit(c, h) \/ AcContextInit(c, h)
                     \/ \E d \in Ctxs : Dupctx(c, d)
KeysSpec == KeysInit /\ [][KeysNext]_keysVars

----------------------------------------------------------------------------
Hold(f, k) == {s \in Slots : f[s] = k}
Holders(k) == Hold(holds, k)

Accounts(f, gone, count, st) ==
  \A k \in Keys : IF st[k] = "live" THEN count[k] = Cardinality(Hold(f, k)) + gone[k] /\ count[k] > 0
                                    ELSE Hold(f, k) = {} /\ gone[k] = 0

KeysTypeOK ==
  /\ holds \in [Slots -> Keys \cup {NoKey}] /\ refCnt \in [Keys -> Nat]
  /\ keySt \in [Keys -> {"none", "live", "freed"}] /\ ctxSt \in [Ctxs -> {"none", "open", "init"}]
  /\ from \in [Ctxs -> SUBSET Handles] /\ lost \in [Keys -> Nat]

\* Whoever holds a key, a handle of OpenSSL or a context in any of its states,
\* holds one that has not been released: keyData is dereferenced on every use.
KeyAlive == \A s \in Slots : holds[s] # NoKey => keySt[holds[s]] = "live"

\* A key that nobody holds any more has been released with its parts, whatever
\* signature contexts were initialised again, copied or freed; what an asymcipher
\* context overwrites (AcInitStores) is the one way a key stays behind.
KeyReleased == \A k \in Keys : keySt[k] = "live" /\ lost[k] = 0 => Holders(k) # {}

\* The count is the number of holders and of overwritten references: what makes
\* the two above inductive.
RefsAccount == Accounts(holds, lost, refCnt, keySt)

\* A context inside an init has not lost the key it is about to store.
ComingKept == \A c \in Ctxs : (ctxSt[c] = "none" => holds[KeyData(c)] = NoKey)
                              /\ (ctxSt[c] # "init" => holds[Coming(c)] = NoKey)

KeysInv == KeysTypeOK /\ RefsAccount /\ ComingKept
=============================================================================
