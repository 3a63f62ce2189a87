---------------------------- MODULE NativeProofs ----------------------------
(* Three components of the native glue: the keys and the callbacks of the    *)
(* keyless provider and the loader of OpenSSL, for any number of keys,       *)
(* handles and contexts, of threads, key ids and callbacks.                  *)
EXTENDS KeylessKeys, KeylessRegistry, OpenSslLoader, FiniteSetTheorems, TLAPS

-----------------------------------------------------------------------------
(* The reference counts of the provider's keys.                              *)

\* There are finitely many places for a key,
LEMMA SlotsFinite == IsFiniteSet(Slots)
<1>1. IsFiniteSet({"pkey"}) /\ IsFiniteSet({"keyData"}) /\ IsFiniteSet({"keydata"})
  BY FS_Singleton
<1>2. IsFiniteSet({"keyData", "keydata"})
  <2>1. {"keyData", "keydata"} = {"keyData"} \cup {"keydata"}
    OBVIOUS
  <2> QED BY <1>1, <2>1, FS_Union
<1>3. IsFiniteSet(Handles \X {"pkey"}) /\ IsFiniteSet(Ctxs \X {"keyData", "keydata"})
  BY <1>1, <1>2, FS_Product, FS_Union, KeylessKeysAssumption DEF Ctxs
<1> QED
  BY <1>3, FS_Union DEF Slots

\* so the holders of a key can be counted.
LEMMA HoldFinite ==
  ASSUME NEW f, NEW k
  PROVE  IsFiniteSet(Hold(f, k)) /\ Cardinality(Hold(f, k)) \in Nat
BY SlotsFinite, FS_Subset, FS_CardinalityType DEF Hold

\* An empty slot gets the key k: one holder more.
LEMMA HoldPut ==
  ASSUME NEW f \in [Slots -> Keys \cup {NoKey}], NEW s \in Slots, f[s] = NoKey, NEW k \in Keys
  PROVE  LET g == [f EXCEPT ![s] = k]
         IN  /\ Cardinality(Hold(g, k)) = Cardinality(Hold(f, k)) + 1
             /\ \A j \in Keys \ {k} : Hold(g, j) = Hold(f, j)
<1> DEFINE g == [f EXCEPT ![s] = k]
<1>1. Hold(g, k) = Hold(f, k) \cup {s} /\ s \notin Hold(f, k)
  BY KeylessKeysAssumption DEF Hold
<1>2. \A j \in Keys \ {k} : Hold(g, j) = Hold(f, j)
  BY KeylessKeysAssumption DEF Hold
<1> QED
  BY <1>1, <1>2, HoldFinite, FS_AddElement

\* A slot lets go of its key: one holder less.
LEMMA HoldTake ==
  ASSUME NEW f \in [Slots -> Keys \cup {NoKey}], NEW s \in Slots, f[s] \in Keys
  PROVE  LET g == [f EXCEPT ![s] = NoKey]
         IN  /\ Cardinality(Hold(g, f[s])) = Cardinality(Hold(f, f[s])) - 1
             /\ \A j \in Keys \ {f[s]} : Hold(g, j) = Hold(f, j)
<1> DEFINE g == [f EXCEPT ![s] = NoKey]
<1>1. Hold(g, f[s]) = Hold(f, f[s]) \ {s} /\ s \in Hold(f, f[s])
  BY KeylessKeysAssumption DEF Hold
<1>2. \A j \in Keys \ {f[s]} : Hold(g, j) = Hold(f, j)
  BY KeylessKeysAssumption DEF Hold
<1>3. Cardinality(Hold(f, f[s]) \ {s}) = Cardinality(Hold(f, f[s])) - 1
  BY <1>1, HoldFinite, FS_RemoveElement
<1> HIDE DEF g
<1>4. Cardinality(Hold(g, f[s])) = Cardinality(Hold(f, f[s])) - 1
  BY <1>1, <1>3
<1> QED
  BY <1>2, <1>4 DEF g

\* Taking a reference of a key that is alive.
LEMMA PutAccounts ==
  ASSUME NEW f \in [Slots -> Keys \cup {NoKey}], NEW n \in [Keys -> Nat], NEW r \in [Keys -> Nat], NEW t, NEW s \in Slots,
         f[s] = NoKey, NEW k \in Keys, t[k] = "live", Accounts(f, n, r, t)
  PROVE  Accounts([f EXCEPT ![s] = k], n, [r EXCEPT ![k] = @ + 1], t)
<1> DEFINE g == [f EXCEPT ![s] = k]
<1>1. Cardinality(Hold(g, k)) = Cardinality(Hold(f, k)) + 1 /\ \A j \in Keys \ {k} : Hold(g, j) = Hold(f, j)
  BY HoldPut
<1>2. ASSUME NEW j \in Keys, j # k
      PROVE  IF t[j] = "live" THEN r[j] = Cardinality(Hold(g, j)) + n[j] /\ r[j] > 0
             ELSE Hold(g, j) = {} /\ n[j] = 0
  BY <1>1, <1>2 DEF Accounts
<1>3. r[k] + 1 = Cardinality(Hold(g, k)) + n[k] /\ r[k] + 1 > 0
  <2>1. r[k] = Cardinality(Hold(f, k)) + n[k] /\ r[k] \in Nat /\ n[k] \in Nat
    BY DEF Accounts
  <2>2. Cardinality(Hold(f, k)) \in Nat
    BY HoldFinite
  <2> HIDE DEF g
  <2> QED
    BY <1>1, <2>1, <2>2
<1> HIDE DEF g
<1> QED
  BY <1>2, <1>3 DEF Accounts, g

\* A key is made, and its first holder with it.
LEMMA NewAccounts ==
  ASSUME NEW f \in [Slots -> Keys \cup {NoKey}], NEW n \in [Keys -> Nat], NEW r \in [Keys -> Nat],
         NEW t \in [Keys -> {"none", "live", "freed"}], NEW s \in Slots,
         f[s] = NoKey, NEW k \in Keys, t[k] # "live", Accounts(f, n, r, t)
  PROVE  Accounts([f EXCEPT ![s] = k], n, [r EXCEPT ![k] = 1], [t EXCEPT ![k] = "live"])
<1> DEFINE g == [f EXCEPT ![s] = k]
<1>1. Cardinality(Hold(g, k)) = Cardinality(Hold(f, k)) + 1 /\ \A j \in Keys \ {k} : Hold(g, j) = Hold(f, j)
  BY HoldPut
<1>2. Cardinality(Hold(f, k)) = 0 /\ n[k] = 0
  BY FS_EmptySet DEF Accounts
<1>3. ASSUME NEW j \in Keys, j # k
      PROVE  IF t[j] = "live" THEN r[j] = Cardinality(Hold(g, j)) + n[j] /\ r[j] > 0
             ELSE Hold(g, j) = {} /\ n[j] = 0
  BY <1>1, <1>3 DEF Accounts
<1>4. 1 = Cardinality(Hold(g, k)) + n[k]
  BY <1>1, <1>2
<1> HIDE DEF g
<1>5. Accounts(g, n, [r EXCEPT ![k] = 1], [t EXCEPT ![k] = "live"])
  BY <1>3, <1>4 DEF Accounts
<1> QED
  BY <1>5 DEF g

\* Dropping a reference, and the key with the last one.
LEMMA TakeAccounts ==
  ASSUME NEW f \in [Slots -> Keys \cup {NoKey}], NEW n \in [Keys -> Nat], NEW r \in [Keys -> Nat],
         NEW t \in [Keys -> {"none", "live", "freed"}], NEW s \in Slots,
         f[s] \in Keys, Accounts(f, n, r, t)
  PROVE  Accounts([f EXCEPT ![s] = NoKey], n, [r EXCEPT ![f[s]] = @ - 1],
                  [t EXCEPT ![f[s]] = IF r[f[s]] > 1 THEN @ ELSE "freed"])
<1> DEFINE k == f[s]
<1> DEFINE g == [f EXCEPT ![s] = NoKey]
<1>1. Cardinality(Hold(g, k)) = Cardinality(Hold(f, k)) - 1 /\ \A j \in Keys \ {k} : Hold(g, j) = Hold(f, j)
  BY HoldTake
<1>2. t[k] = "live" /\ r[k] = Cardinality(Hold(f, k)) + n[k] /\ r[k] > 0
  BY DEF Accounts, Hold
<1>3. IsFiniteSet(Hold(g, k)) /\ Cardinality(Hold(g, k)) \in Nat /\ Cardinality(Hold(f, k)) \in Nat
      /\ n[k] \in Nat /\ r[k] \in Nat
  BY HoldFinite
<1>4. r[k] <= 1 => Hold(g, k) = {} /\ n[k] = 0
  <2> HIDE DEF g, k
  <2>1. r[k] = Cardinality(Hold(g, k)) + 1 + n[k]
    BY <1>1, <1>2, <1>3
  <2>2. r[k] <= 1 => Cardinality(Hold(g, k)) = 0 /\ n[k] = 0
    BY <1>3, <2>1
  <2> QED
    BY <1>3, <2>2, FS_EmptySet
<1>5. ASSUME NEW j \in Keys, j # k
      PROVE  IF t[j] = "live" THEN r[j] = Cardinality(Hold(g, j)) + n[j] /\ r[j] > 0
             ELSE Hold(g, j) = {} /\ n[j] = 0
  BY <1>1, <1>5 DEF Accounts
<1>6. r[k] > 1 => r[k] - 1 = Cardinality(Hold(g, k)) + n[k] /\ r[k] - 1 > 0
  <2> HIDE DEF g, k
  <2> QED BY <1>1, <1>2, <1>3
<1> HIDE DEF g, k
<1>7. k \in Keys /\ r[k] \in Nat
  BY DEF k
<1>8. Accounts(g, n, [r EXCEPT ![k] = @ - 1], [t EXCEPT ![k] = IF r[k] > 1 THEN @ ELSE "freed"])
  BY <1>2, <1>4, <1>5, <1>6, <1>7 DEF Accounts
<1> QED
  BY <1>8 DEF g, k

\* A reference that moves from one slot to an empty one.
LEMMA MoveAccounts ==
  ASSUME NEW f \in [Slots -> Keys \cup {NoKey}], NEW n \in [Keys -> Nat], NEW r \in [Keys -> Nat], NEW t, NEW a \in Slots, NEW b \in Slots,
         a # b, f[a] = NoKey, Accounts(f, n, r, t)
  PROVE  Accounts([f EXCEPT ![a] = f[b], ![b] = NoKey], n, r, t)
<1> DEFINE h == [f EXCEPT ![b] = NoKey]
<1> DEFINE g == [f EXCEPT ![a] = f[b], ![b] = NoKey]
<1>1. CASE f[b] = NoKey
  <2>1. g = f
    BY <1>1
  <2> HIDE DEF g
  <2>2. Accounts(g, n, r, t)
    BY <2>1
  <2> QED
    BY <2>2 DEF g
<1>2. CASE f[b] \in Keys
  <2>1. h \in [Slots -> Keys \cup {NoKey}] /\ h[a] = NoKey /\ g = [h EXCEPT ![a] = f[b]]
    OBVIOUS
  <2>2. Cardinality(Hold(h, f[b])) = Cardinality(Hold(f, f[b])) - 1 /\ \A j \in Keys \ {f[b]} : Hold(h, j) = Hold(f, j)
    BY <1>2, HoldTake
  <2>0. /\ Cardinality(Hold([h EXCEPT ![a] = f[b]], f[b])) = Cardinality(Hold(h, f[b])) + 1
        /\ \A j \in Keys \ {f[b]} : Hold([h EXCEPT ![a] = f[b]], j) = Hold(h, j)
    <3> HIDE DEF h, g
    <3> QED BY <1>2, <2>1, HoldPut
  <2>3. Cardinality(Hold(g, f[b])) = Cardinality(Hold(h, f[b])) + 1 /\ \A j \in Keys \ {f[b]} : Hold(g, j) = Hold(h, j)
    <3> HIDE DEF h, g
    <3> QED BY <2>0, <2>1
  <2>4. t[f[b]] = "live"
    BY <1>2 DEF Accounts, Hold
  <2>5. ASSUME NEW j \in Keys, j # f[b]
        PROVE  IF t[j] = "live" THEN r[j] = Cardinality(Hold(g, j)) + n[j] /\ r[j] > 0
             ELSE Hold(g, j) = {} /\ n[j] = 0
    BY <2>2, <2>3, <2>5 DEF Accounts
  <2>6. r[f[b]] = Cardinality(Hold(g, f[b])) + n[f[b]] /\ r[f[b]] > 0
    BY <1>2, <2>2, <2>3, <2>4, HoldFinite DEF Accounts
  <2> HIDE DEF g
  <2>7. Accounts(g, n, r, t)
    BY <1>2, <2>4, <2>5, <2>6 DEF Accounts
  <2> QED
    BY <2>7 DEF g
<1> QED
  BY <1>1, <1>2

\* A slot whose key is forgotten: one holder less and one lost reference more.
LEMMA LoseAccounts ==
  ASSUME NEW f \in [Slots -> Keys \cup {NoKey}], NEW n \in [Keys -> Nat], NEW r \in [Keys -> Nat],
         NEW t, NEW s \in Slots, f[s] \in Keys, Accounts(f, n, r, t)
  PROVE  Accounts([f EXCEPT ![s] = NoKey], [k \in Keys |-> IF k = f[s] THEN n[k] + 1 ELSE n[k]], r, t)
<1> DEFINE k == f[s]
<1> DEFINE g == [f EXCEPT ![s] = NoKey]
<1> DEFINE m == [j \in Keys |-> IF j = f[s] THEN n[j] + 1 ELSE n[j]]
<1>1. Cardinality(Hold(g, k)) = Cardinality(Hold(f, k)) - 1 /\ \A j \in Keys \ {k} : Hold(g, j) = Hold(f, j)
  BY HoldTake
<1>2. t[k] = "live" /\ r[k] = Cardinality(Hold(f, k)) + n[k] /\ r[k] > 0
  BY DEF Accounts, Hold
<1>3. m[k] = n[k] + 1 /\ \A j \in Keys \ {k} : m[j] = n[j]
  OBVIOUS
<1>4. Cardinality(Hold(g, k)) \in Nat /\ Cardinality(Hold(f, k)) \in Nat /\ n[k] \in Nat
  BY HoldFinite
<1>5. r[k] = Cardinality(Hold(g, k)) + m[k]
  BY <1>1, <1>2, <1>3, <1>4
<1>6. ASSUME NEW j \in Keys, j # k
      PROVE  IF t[j] = "live" THEN r[j] = Cardinality(Hold(g, j)) + m[j] /\ r[j] > 0
             ELSE Hold(g, j) = {} /\ m[j] = 0
  BY <1>1, <1>3, <1>6 DEF Accounts
<1> HIDE DEF g, k, m
<1>7. Accounts(g, m, r, t)
  BY <1>2, <1>5, <1>6 DEF Accounts
<1> QED
  BY <1>7 DEF g, m

----------------------------------------------------------------------------
\* Handles and contexts have places of their own.
LEMMA SlotsOf ==
  /\ \A h \in Handles : Pkey(h) \in Slots
  /\ \A c \in Ctxs : KeyData(c) \in Slots /\ Coming(c) \in Slots
  /\ \A c, d \in Ctxs : KeyData(c) # Coming(d) /\ (c # d => KeyData(c) # KeyData(d) /\ Coming(c) # Coming(d))
  /\ \A c \in Ctxs, h \in Handles : Pkey(h) # Coming(c) /\ Pkey(h) # KeyData(c)
BY DEF Slots, Pkey, KeyData, Coming

\* A key somebody holds is alive.
LEMMA HeldAlive ==
  ASSUME RefsAccount, NEW s \in Slots, holds[s] \in Keys
  PROVE  keySt[holds[s]] = "live" /\ refCnt[holds[s]] > 0
BY DEF RefsAccount, Accounts, Hold

\* The invariant of the keys holds initially,
LEMMA KeysInitInv == KeysInit => KeysInv
<1> SUFFICES ASSUME KeysInit PROVE KeysInv
  OBVIOUS
<1>1. KeysTypeOK /\ ComingKept
  BY SlotsOf DEF KeysInit, KeysTypeOK, ComingKept
<1>2. RefsAccount
  BY KeylessKeysAssumption DEF KeysInit, RefsAccount, Accounts, Hold
<1> QED
  BY <1>1, <1>2 DEF KeysInv

\* and every call of the provider keeps it.
LEMMA KeysNextInv == KeysInv /\ [KeysNext]_keysVars => KeysInv'
<1> SUFFICES ASSUME KeysInv, [KeysNext]_keysVars PROVE KeysInv'
  OBVIOUS
<1> USE DEF KeysInv
<1>0. /\ holds \in [Slots -> Keys \cup {NoKey}] /\ refCnt \in [Keys -> Nat]
      /\ keySt \in [Keys -> {"none", "live", "freed"}] /\ ctxSt \in [Ctxs -> {"none", "open", "init"}]
      /\ from \in [Ctxs -> SUBSET Handles] /\ lost \in [Keys -> Nat] /\ Accounts(holds, lost, refCnt, keySt)
  BY DEF KeysTypeOK, RefsAccount
<1>1. ASSUME NEW h \in Handles, FreeHandle(h) PROVE KeysInv'
  <2> DEFINE k == holds[Pkey(h)]
  <2>1. k \in Keys /\ refCnt[k] > 0
    BY <1>0, <1>1, SlotsOf, HeldAlive DEF FreeHandle
  <2>2. Accounts([holds EXCEPT ![Pkey(h)] = NoKey], lost, [refCnt EXCEPT ![k] = @ - 1],
                 [keySt EXCEPT ![k] = IF refCnt[k] > 1 THEN @ ELSE "freed"])
    BY <1>0, <2>1, SlotsOf, TakeAccounts
  <2>3. RefsAccount'
    BY <1>1, <2>2 DEF FreeHandle, KeyFree, RefsAccount
  <2>4. KeysTypeOK' /\ ComingKept'
    BY <1>0, <1>1, <2>1, SlotsOf DEF FreeHandle, KeyFree, KeysTypeOK, ComingKept
  <2> QED
    BY <2>3, <2>4
<1>2. ASSUME NEW h \in Handles, NEW k \in Keys, NewKey(h, k) PROVE KeysInv'
  <2>1. Accounts([holds EXCEPT ![Pkey(h)] = k], lost, [refCnt EXCEPT ![k] = 1], [keySt EXCEPT ![k] = "live"])
    BY <1>0, <1>2, SlotsOf, NewAccounts DEF NewKey
  <2>2. RefsAccount'
    BY <1>2, <2>1 DEF NewKey, RefsAccount
  <2>3. KeysTypeOK' /\ ComingKept'
    BY <1>0, <1>2, SlotsOf DEF NewKey, KeysTypeOK, ComingKept
  <2> QED
    BY <2>2, <2>3
<1>3. ASSUME NEW h \in Handles, NEW g \in Handles, LoadKey(h, g) PROVE KeysInv'
  <2> DEFINE k == holds[Pkey(g)]
  <2>1. k \in Keys /\ keySt[k] = "live"
    BY <1>0, <1>3, SlotsOf, HeldAlive DEF LoadKey
  <2>2. Accounts([holds EXCEPT ![Pkey(h)] = k], lost, [refCnt EXCEPT ![k] = @ + 1], keySt)
    BY <1>0, <1>3, <2>1, SlotsOf, PutAccounts DEF LoadKey
  <2>3. RefsAccount'
    BY <1>3, <2>2 DEF LoadKey, KeyUpRef, RefsAccount
  <2>4. KeysTypeOK' /\ ComingKept'
    BY <1>0, <1>3, <2>1, SlotsOf DEF LoadKey, KeyUpRef, KeysTypeOK, ComingKept
  <2> QED
    BY <2>3, <2>4
<1>4. ASSUME NEW c \in Ctxs, Newctx(c) PROVE KeysInv'
  <2>1. /\ ctxSt[c] = "none" /\ ctxSt' = [ctxSt EXCEPT ![c] = "open"]
        /\ holds' = holds /\ refCnt' = refCnt /\ keySt' = keySt /\ from' = from /\ lost' = lost
    BY <1>4 DEF Newctx
  <2>2. RefsAccount'
    BY <1>0, <2>1 DEF RefsAccount
  <2>3. KeysTypeOK' /\ ComingKept'
    BY <1>0, <2>1 DEF KeysTypeOK, ComingKept
  <2> QED
    BY <2>2, <2>3
<1>5. ASSUME NEW c \in Ctxs, NEW h \in Handles, InitTakes(c, h) PROVE KeysInv'
  <2> DEFINE k == holds[Pkey(h)]
  <2>1. k \in Keys /\ keySt[k] = "live" /\ holds[Coming(c)] = NoKey
    BY <1>0, <1>5, SlotsOf, HeldAlive DEF InitTakes, ComingKept
  <2>2. Accounts([holds EXCEPT ![Coming(c)] = k], lost, [refCnt EXCEPT ![k] = @ + 1], keySt)
    BY <1>0, <2>1, SlotsOf, PutAccounts
  <2>3. RefsAccount'
    BY <1>5, <2>2 DEF InitTakes, KeyUpRef, RefsAccount
  <2>4. KeysTypeOK'
    BY <1>0, <1>5, <2>1, SlotsOf DEF InitTakes, KeyUpRef, KeysTypeOK
  <2>5. ComingKept'
    BY <1>0, <1>5, SlotsOf DEF InitTakes, ComingKept
  <2> QED
    BY <2>3, <2>4, <2>5
<1>6. ASSUME NEW c \in Ctxs, SigInitInternal(c) PROVE KeysInv'
  <2> DEFINE k == holds[KeyData(c)]
  <2> DEFINE f == [holds EXCEPT ![KeyData(c)] = NoKey]
  <2>1. k \in Keys => refCnt[k] > 0
    BY <1>0, SlotsOf, HeldAlive
  <2>2. f \in [Slots -> Keys \cup {NoKey}] /\ f[KeyData(c)] = NoKey /\ f[Coming(c)] = holds[Coming(c)]
    BY <1>0, SlotsOf
  <2>3. holds' = [f EXCEPT ![KeyData(c)] = f[Coming(c)], ![Coming(c)] = NoKey]
    BY <1>0, <1>6, SlotsOf DEF SigInitInternal, InitStores
  <2>4. refCnt' \in [Keys -> Nat] /\ keySt' \in [Keys -> {"none", "live", "freed"}]
    BY <1>0, <1>6, <2>1, SlotsOf DEF SigInitInternal, InitStores, KeyFree
  <2>5. Accounts(f, lost, refCnt', keySt')
    <3>1. CASE k = NoKey
      <4>1. f = holds
        BY <1>0, <3>1, SlotsOf
      <4> QED
        BY <1>0, <1>6, <3>1, <4>1 DEF SigInitInternal, InitStores
    <3>2. CASE k \in Keys
      <4>1. Accounts(f, lost, [refCnt EXCEPT ![k] = @ - 1], [keySt EXCEPT ![k] = IF refCnt[k] > 1 THEN @ ELSE "freed"])
        BY <1>0, <3>2, SlotsOf, TakeAccounts
      <4> QED
        BY <1>6, <3>2, <4>1, KeylessKeysAssumption DEF SigInitInternal, InitStores, KeyFree
    <3> QED
      BY <1>0, <3>1, <3>2, SlotsOf
  <2>6. Accounts(holds', lost, refCnt', keySt')
    <3> HIDE DEF f
    <3> QED
      BY <1>0, <2>2, <2>3, <2>4, <2>5, SlotsOf, MoveAccounts
  <2>7. /\ ctxSt[c] = "init" /\ lost' = lost /\ from' \in [Ctxs -> SUBSET Handles]
        /\ ctxSt' = [ctxSt EXCEPT ![c] = "open"]
        /\ holds' = [holds EXCEPT ![KeyData(c)] = holds[Coming(c)], ![Coming(c)] = NoKey]
    BY <1>0, <1>6 DEF SigInitInternal, InitStores
  <2>8. RefsAccount'
    BY <2>6, <2>7 DEF RefsAccount
  <2>9. KeysTypeOK'
    BY <1>0, <2>4, <2>7, SlotsOf DEF KeysTypeOK
  <2>10. \A e \in Ctxs : ctxSt'[e] # "init" => holds'[Coming(e)] = NoKey
    BY <1>0, <2>7, SlotsOf DEF ComingKept
  <2>11. \A e \in Ctxs : ctxSt'[e] = "none" => holds'[KeyData(e)] = NoKey
    BY <1>0, <2>7, SlotsOf DEF ComingKept
  <2> QED
    BY <2>8, <2>9, <2>10, <2>11 DEF ComingKept
<1>7. ASSUME NEW c \in Ctxs, NEW d \in Ctxs, Dupctx(c, d) PROVE KeysInv'
  <2> DEFINE k == holds[KeyData(c)]
  <2>1. holds[KeyData(d)] = NoKey /\ (k \in Keys => keySt[k] = "live")
    BY <1>0, <1>7, SlotsOf, HeldAlive DEF Dupctx, ComingKept
  <2>2. CASE k = NoKey
    <3>1. holds' = holds /\ refCnt' = refCnt /\ keySt' = keySt
      BY <1>0, <1>7, <2>1, <2>2, SlotsOf DEF Dupctx
    <3> QED
      BY <1>0, <1>7, <3>1, SlotsOf DEF Dupctx, KeysTypeOK, RefsAccount, ComingKept
  <2>3. CASE k \in Keys
    <3>1. Accounts([holds EXCEPT ![KeyData(d)] = k], lost, [refCnt EXCEPT ![k] = @ + 1], keySt)
      BY <1>0, <2>1, <2>3, SlotsOf, PutAccounts
    <3>2. RefsAccount'
      BY <1>7, <2>3, <3>1, KeylessKeysAssumption DEF Dupctx, KeyUpRef, RefsAccount
    <3>3. KeysTypeOK'
      BY <1>0, <1>7, <2>3, SlotsOf, KeylessKeysAssumption DEF Dupctx, KeyUpRef, KeysTypeOK
    <3>4. c # d /\ holds' = [holds EXCEPT ![KeyData(d)] = k] /\ ctxSt' = [ctxSt EXCEPT ![d] = "open"]
      BY <1>7 DEF Dupctx
    <3> HIDE DEF k
    <3>5. \A e \in Ctxs : ctxSt'[e] # "init" => holds'[Coming(e)] = NoKey
      BY <1>0, <1>7, <3>4, SlotsOf DEF ComingKept, Dupctx
    <3>6. \A e \in Ctxs : ctxSt'[e] = "none" => holds'[KeyData(e)] = NoKey
      BY <1>0, <3>4, SlotsOf DEF ComingKept
    <3> QED
      BY <3>2, <3>3, <3>5, <3>6 DEF ComingKept
  <2> QED
    BY <1>0, <2>2, <2>3, SlotsOf
<1>8. ASSUME NEW c \in Ctxs, Freectx(c) PROVE KeysInv'
  <2> DEFINE k == holds[KeyData(c)]
  <2>1. k \in Keys => refCnt[k] > 0
    BY <1>0, SlotsOf, HeldAlive
  <2>2. CASE k = NoKey
    <3>1. holds' = holds /\ refCnt' = refCnt /\ keySt' = keySt
      BY <1>0, <1>8, <2>2, SlotsOf DEF Freectx
    <3> QED
      BY <1>0, <1>8, <2>2, <3>1, SlotsOf DEF Freectx, KeysTypeOK, RefsAccount, ComingKept
  <2>3. CASE k \in Keys
    <3>1. Accounts([holds EXCEPT ![KeyData(c)] = NoKey], lost, [refCnt EXCEPT ![k] = @ - 1],
                   [keySt EXCEPT ![k] = IF refCnt[k] > 1 THEN @ ELSE "freed"])
      BY <1>0, <2>3, SlotsOf, TakeAccounts
    <3>2. RefsAccount'
      BY <1>8, <2>3, <3>1, KeylessKeysAssumption DEF Freectx, KeyFree, RefsAccount
    <3>3. KeysTypeOK' /\ ComingKept'
      BY <1>0, <1>8, <2>1, <2>3, SlotsOf, KeylessKeysAssumption DEF Freectx, KeyFree, KeysTypeOK, ComingKept
    <3> QED
      BY <3>2, <3>3
  <2> QED
    BY <1>0, <2>2, <2>3, SlotsOf
<1>9. ASSUME NEW c \in Ctxs, AcInitStores(c) PROVE KeysInv'
  <2> DEFINE k == holds[KeyData(c)]
  <2> DEFINE f == [holds EXCEPT ![KeyData(c)] = NoKey]
  <2>1. /\ ctxSt[c] = "init" /\ from' = [from EXCEPT ![c] = {}] /\ ctxSt' = [ctxSt EXCEPT ![c] = "open"]
        /\ holds' = [holds EXCEPT ![KeyData(c)] = holds[Coming(c)], ![Coming(c)] = NoKey]
        /\ refCnt' = refCnt /\ keySt' = keySt
        /\ lost' = [j \in Keys |-> IF j = k THEN lost[j] + 1 ELSE lost[j]]
    BY <1>9 DEF AcInitStores, InitStores
  <2>2. f \in [Slots -> Keys \cup {NoKey}] /\ f[KeyData(c)] = NoKey /\ f[Coming(c)] = holds[Coming(c)]
    BY <1>0, SlotsOf
  <2>3. holds' = [f EXCEPT ![KeyData(c)] = f[Coming(c)], ![Coming(c)] = NoKey]
    BY <1>0, <2>1, SlotsOf
  <2>4. lost' \in [Keys -> Nat]
    BY <1>0, <2>1
  <2>5. Accounts(f, lost', refCnt, keySt)
    <3>1. CASE k = NoKey
      <4>1. f = holds /\ lost' = lost
        BY <1>0, <2>1, <3>1, SlotsOf, KeylessKeysAssumption
      <4> QED
        BY <1>0, <4>1
    <3>2. CASE k \in Keys
      BY <1>0, <2>1, <3>2, SlotsOf, LoseAccounts
    <3> QED
      BY <1>0, <3>1, <3>2, SlotsOf
  <2>6. Accounts(holds', lost', refCnt, keySt)
    <3> HIDE DEF f
    <3> QED
      BY <1>0, <2>2, <2>3, <2>4, <2>5, SlotsOf, MoveAccounts
  <2>7. RefsAccount'
    BY <2>1, <2>6 DEF RefsAccount
  <2>8. KeysTypeOK'
    BY <1>0, <2>1, <2>4, SlotsOf DEF KeysTypeOK
  <2>9. \A e \in Ctxs : ctxSt'[e] # "init" => holds'[Coming(e)] = NoKey
    BY <1>0, <2>1, SlotsOf DEF ComingKept
  <2>10. \A e \in Ctxs : ctxSt'[e] = "none" => holds'[KeyData(e)] = NoKey
    BY <1>0, <2>1, SlotsOf DEF ComingKept
  <2> QED
    BY <2>7, <2>8, <2>9, <2>10 DEF ComingKept
<1>10. CASE UNCHANGED keysVars
  BY <1>10 DEF keysVars, KeysTypeOK, RefsAccount, ComingKept, Accounts, Hold
<1> QED
  BY <1>1, <1>2, <1>3, <1>4, <1>5, <1>6, <1>7, <1>8, <1>9, <1>10 DEF KeysNext, SignInit, AcContextInit

(* Whoever holds a key of the provider holds one that has not been released  *)
(* (every function of provider_*.c dereferences keyData).                    *)
THEOREM KeysStayAlive == KeysSpec => []KeyAlive
<1>1. KeysInv => KeyAlive
  BY HeldAlive DEF KeysInv, KeysTypeOK, KeyAlive
<1> QED
  BY KeysInitInv, KeysNextInv, <1>1, PTL DEF KeysSpec

(* A key that nobody holds has been released: the last holder that goes takes *)
(* it along, whoever that is, and however often signature contexts are given  *)
(* another key. A key stays behind only where an asymcipher context was       *)
(* initialised again over it (provider_asymcipher.c:336-337, 597-598).        *)
THEOREM KeysAreReleased == KeysSpec => []KeyReleased
<1>1. KeysInv => KeyReleased
  BY HoldFinite, FS_EmptySet DEF KeysInv, KeysTypeOK, RefsAccount, Accounts, KeyReleased, Holders
<1> QED
  BY KeysInitInv, KeysNextInv, <1>1, PTL DEF KeysSpec

-----------------------------------------------------------------------------
(* The callbacks of the keyless provider.                                    *)

Writing == {"find", "ensure", "set", "unlock"}
Reading == {"read", "answer"}
Jobs == [id : Ids, kind : Kinds, cb : Cbs \cup {NoCb}]
Entries == [id : Ids, cb : [Kinds -> Cbs \cup {NoCb}]]

RegistryTypes ==
  /\ provider \in BOOLEAN /\ writer \subseteq KThreads /\ readers \subseteq KThreads
  /\ callbacks \in Seq(Entries)
  /\ kpc \in [KThreads -> {"idle", "wrlock", "rdlock"} \cup Writing \cup Reading]
  /\ entry \in [KThreads -> Nat] /\ stored \in [Ids -> [Kinds -> Cbs \cup {NoCb}]]
  /\ known \in [KThreads -> Cbs \cup {NoCb}] /\ result \in [KThreads -> Cbs \cup {NoCb}]
  /\ job \in [KThreads -> Jobs \cup {NoJob}]

\* A thread that is called for something has a job.
JobsGiven ==
  \A t \in KThreads :
    /\ kpc[t] # "idle" => job[t] \in Jobs
    /\ kpc[t] \in {"wrlock", "find", "ensure", "set"} => job[t].cb # NoCb

\* The rwlock: readers or one writer.
LockKept ==
  /\ \A t \in KThreads : (t \in writer <=> kpc[t] \in Writing) /\ (t \in readers <=> kpc[t] \in Reading)
  /\ writer = {} \/ readers = {}
  /\ \A t, u \in writer : t = u

Unloaded ==
  ~ provider => /\ callbacks = <<>> /\ \A t \in KThreads : kpc[t] = "idle"
                /\ \A i \in Ids, k \in Kinds : stored[i][k] = NoCb

OneEntry == \A i, j \in DOMAIN callbacks : callbacks[i].id = callbacks[j].id => i = j

HasEntry(id, e) == e \in DOMAIN callbacks /\ callbacks[e].id = id

\* What the writer found is still so when it uses it.
EntryRight ==
  \A t \in KThreads :
    /\ kpc[t] = "ensure" => IF entry[t] = 0 THEN \A e \in DOMAIN callbacks : ~ HasEntry(job[t].id, e)
                                            ELSE HasEntry(job[t].id, entry[t])
    /\ kpc[t] = "set" => HasEntry(job[t].id, entry[t])

StoredIsThere ==
  \A i \in Ids, k \in Kinds :
    stored[i][k] # NoCb => \E e \in DOMAIN callbacks : HasEntry(i, e) /\ callbacks[e].cb[k] # NoCb

KnownIsStored ==
  \A t \in KThreads :
    kpc[t] \in {"rdlock", "read"} /\ known[t] # NoCb => stored[job[t].id][job[t].kind] # NoCb

RegistryInv ==
  /\ RegistryTypes /\ JobsGiven /\ LockKept /\ Unloaded /\ OneEntry /\ EntryRight
  /\ StoredIsThere /\ KnownIsStored /\ RegisteredIsFound

\* The invariant of the registry holds while its list is empty.
LEMMA RegistryInitInv == RegistryInit => RegistryInv
<1> SUFFICES ASSUME RegistryInit PROVE RegistryInv
  OBVIOUS
<1>1. callbacks \in Seq(Entries) /\ DOMAIN callbacks = {}
  BY DEF RegistryInit
<1>2. stored \in [Ids -> [Kinds -> Cbs \cup {NoCb}]] /\ \A i \in Ids, k \in Kinds : stored[i][k] = NoCb
  BY DEF RegistryInit
<1>3. RegistryTypes
  BY <1>1, <1>2 DEF RegistryInit, RegistryTypes
<1>4. JobsGiven /\ LockKept /\ Unloaded
  BY <1>2 DEF RegistryInit, JobsGiven, LockKept, Unloaded, Writing, Reading
<1>5. OneEntry /\ EntryRight /\ StoredIsThere /\ KnownIsStored /\ RegisteredIsFound
  BY <1>1, <1>2 DEF RegistryInit, OneEntry, EntryRight, StoredIsThere, KnownIsStored, RegisteredIsFound
<1> QED
  BY <1>3, <1>4, <1>5 DEF RegistryInv

\* The search finds the one entry of an id, if there is one.
LEMMA FindsEntry ==
  ASSUME RegistryTypes, OneEntry, NEW id
  PROVE  /\ KeylessFindEntry(id) \in Nat
         /\ KeylessFindEntry(id) = 0 => \A e \in DOMAIN callbacks : ~ HasEntry(id, e)
         /\ KeylessFindEntry(id) # 0 => HasEntry(id, KeylessFindEntry(id))
<1> DEFINE at == {i \in DOMAIN callbacks : callbacks[i].id = id}
<1>1. at \subseteq Nat \ {0}
  BY DEF RegistryTypes
<1>2. \A i, j \in at : i = j
  BY DEF OneEntry
<1>3. at # {} => (CHOOSE i \in at : \A j \in at : j <= i) \in at
  BY <1>1, <1>2
<1> QED
  BY <1>1, <1>3 DEF KeylessFindEntry, HasEntry

\* What a new entry at the head of the list leaves of the others.
LEMMA AppendFacts ==
  ASSUME NEW S, NEW s \in Seq(S), NEW x \in S
  PROVE  /\ Append(s, x) \in Seq(S) /\ Len(s) + 1 \in Nat
         /\ DOMAIN Append(s, x) = DOMAIN s \cup {Len(s) + 1}
         /\ Append(s, x)[Len(s) + 1] = x
         /\ \A e \in DOMAIN s : e \in DOMAIN Append(s, x) /\ Append(s, x)[e] = s[e]
OBVIOUS

\* An entry that is in the list has an id and a callback or none of each kind.
LEMMA EntryFacts ==
  ASSUME callbacks \in Seq(Entries), NEW e \in DOMAIN callbacks
  PROVE  /\ callbacks[e] \in Entries /\ callbacks[e].id \in Ids
         /\ callbacks[e].cb \in [Kinds -> Cbs \cup {NoCb}]
<1>1. callbacks[e] \in Entries
  OBVIOUS
<1> QED
  BY <1>1 DEF Entries

\* Every step, one at a time.
LEMMA RegistryNextInv == RegistryInv /\ [RegistryNext]_registryVars => RegistryInv'
<1> SUFFICES ASSUME RegistryInv, [RegistryNext]_registryVars PROVE RegistryInv'
  OBVIOUS
<1>0. /\ RegistryTypes /\ JobsGiven /\ LockKept /\ Unloaded /\ OneEntry /\ EntryRight
      /\ StoredIsThere /\ KnownIsStored /\ RegisteredIsFound
  BY DEF RegistryInv
<1>1. CASE KeylessProviderInit
  <2>1. RegistryTypes' /\ JobsGiven'
    BY <1>0, <1>1 DEF RegistryTypes, JobsGiven, Writing, Reading, KeylessProviderInit
  <2>2. LockKept' /\ Unloaded'
    BY <1>0, <1>1 DEF RegistryTypes, LockKept, Unloaded, Writing, Reading, KeylessProviderInit
  <2>3. OneEntry' /\ EntryRight' /\ StoredIsThere'
    BY <1>0, <1>1 DEF RegistryTypes, LockKept, Unloaded, OneEntry, EntryRight, StoredIsThere, HasEntry, Writing, Reading, KeylessProviderInit
  <2>4. KnownIsStored' /\ RegisteredIsFound'
    BY <1>0, <1>1 DEF RegistryTypes, Unloaded, KnownIsStored, RegisteredIsFound, KeylessProviderInit
  <2> QED
    BY <2>1, <2>2, <2>3, <2>4 DEF RegistryInv
<1>2. CASE KeylessProviderTeardown
  <2>1. RegistryTypes' /\ JobsGiven'
    <3>1. callbacks' \in Seq(Entries) /\ stored' \in [Ids -> [Kinds -> Cbs \cup {NoCb}]]
      BY <1>2 DEF KeylessProviderTeardown
    <3> QED
      BY <1>0, <1>2, <3>1 DEF RegistryTypes, JobsGiven, KeylessProviderTeardown
  <2>2. LockKept' /\ Unloaded'
    BY <1>0, <1>2 DEF RegistryTypes, LockKept, Unloaded, Writing, Reading, KeylessProviderTeardown
  <2>3. OneEntry' /\ EntryRight' /\ StoredIsThere'
    BY <1>0, <1>2 DEF RegistryTypes, LockKept, Unloaded, OneEntry, EntryRight, StoredIsThere, HasEntry, Writing, Reading, KeylessProviderTeardown
  <2>4. KnownIsStored' /\ RegisteredIsFound'
    BY <1>0, <1>2 DEF RegistryTypes, Unloaded, KnownIsStored, RegisteredIsFound, KeylessProviderTeardown
  <2> QED
    BY <2>1, <2>2, <2>3, <2>4 DEF RegistryInv
<1>3. ASSUME NEW t \in KThreads, NEW id \in Ids, NEW kind \in Kinds, NEW cb \in Cbs, Register(t, id, kind, cb) PROVE RegistryInv'
  <2>1. RegistryTypes' /\ JobsGiven'
    <3>1. [id |-> id, kind |-> kind, cb |-> cb] \in Jobs /\ cb # NoCb
      BY KeylessRegistryAssumption DEF Jobs
    <3>2. \A u \in KThreads : job'[u] = IF u = t THEN [id |-> id, kind |-> kind, cb |-> cb] ELSE job[u]
      BY <1>0, <1>3 DEF RegistryTypes, Register
    <3>3. job' \in [KThreads -> Jobs \cup {NoJob}]
      BY <1>0, <1>3, <3>1 DEF RegistryTypes, Register
    <3>4. RegistryTypes'
      BY <1>0, <1>3, <3>3 DEF RegistryTypes, Register, At
    <3>5. JobsGiven'
      BY <1>0, <1>3, <3>1, <3>2 DEF RegistryTypes, JobsGiven, Register, At
    <3> QED
      BY <3>4, <3>5
  <2>2. LockKept' /\ Unloaded'
    BY <1>0, <1>3 DEF RegistryTypes, LockKept, Unloaded, Writing, Reading, Register, At
  <2>3. OneEntry' /\ EntryRight' /\ StoredIsThere'
    BY <1>0, <1>3 DEF RegistryTypes, LockKept, Unloaded, OneEntry, EntryRight, StoredIsThere, HasEntry, Writing, Reading, Register, At
  <2>4. KnownIsStored' /\ RegisteredIsFound'
    BY <1>0, <1>3 DEF RegistryTypes, Unloaded, KnownIsStored, RegisteredIsFound, Register, At
  <2> QED
    BY <2>1, <2>2, <2>3, <2>4 DEF RegistryInv
<1>4. ASSUME NEW t \in KThreads, WriteLock(t) PROVE RegistryInv'
  <2>1. RegistryTypes' /\ JobsGiven'
    BY <1>0, <1>4 DEF RegistryTypes, JobsGiven, Writing, Reading, WriteLock, At
  <2>2. LockKept' /\ Unloaded'
    BY <1>0, <1>4 DEF RegistryTypes, LockKept, Unloaded, Writing, Reading, WriteLock, At
  <2>3. OneEntry' /\ EntryRight' /\ StoredIsThere'
    BY <1>0, <1>4 DEF RegistryTypes, LockKept, Unloaded, OneEntry, EntryRight, StoredIsThere, HasEntry, Writing, Reading, WriteLock, At
  <2>4. KnownIsStored' /\ RegisteredIsFound'
    BY <1>0, <1>4 DEF RegistryTypes, Unloaded, KnownIsStored, RegisteredIsFound, WriteLock, At
  <2> QED
    BY <2>1, <2>2, <2>3, <2>4 DEF RegistryInv
<1>5. ASSUME NEW t \in KThreads, Find(t) PROVE RegistryInv'
  <2>0. LET e == KeylessFindEntry(job[t].id)
        IN  e \in Nat /\ IF e = 0 THEN \A x \in DOMAIN callbacks : ~ HasEntry(job[t].id, x) ELSE HasEntry(job[t].id, e)
    BY <1>0, FindsEntry
  <2>1. RegistryTypes' /\ JobsGiven'
    BY <1>0, <1>5, <2>0 DEF RegistryTypes, JobsGiven, Writing, Find, At
  <2>2. LockKept' /\ Unloaded'
    BY <1>0, <1>5 DEF RegistryTypes, LockKept, Unloaded, Writing, Reading, Find, At
  <2>3. OneEntry' /\ EntryRight' /\ StoredIsThere'
    <3>1. OneEntry' /\ StoredIsThere'
      BY <1>0, <1>5 DEF OneEntry, StoredIsThere, HasEntry, Find
    <3>2. EntryRight'
      BY <1>0, <1>5, <2>0 DEF RegistryTypes, EntryRight, HasEntry, Find, At
    <3> QED
      BY <3>1, <3>2
  <2>4. KnownIsStored' /\ RegisteredIsFound'
    BY <1>0, <1>5 DEF RegistryTypes, Unloaded, KnownIsStored, RegisteredIsFound, Find, At
  <2> QED
    BY <2>1, <2>2, <2>3, <2>4 DEF RegistryInv
<1>6. ASSUME NEW t \in KThreads, EnsureEntry(t) PROVE RegistryInv'
  <2> DEFINE new == [id |-> job[t].id, cb |-> [k \in Kinds |-> NoCb]]
  <2>0. /\ new \in Entries /\ callbacks \in Seq(Entries)
        /\ entry[t] = 0 => callbacks' = Append(callbacks, new) /\ entry' = [entry EXCEPT ![t] = Len(callbacks) + 1]
        /\ entry[t] # 0 => callbacks' = callbacks /\ entry' = entry
    BY <1>0, <1>6 DEF RegistryTypes, JobsGiven, Jobs, Entries, EnsureEntry, At
  <2> HIDE DEF new
  <2>7. /\ \A e \in DOMAIN callbacks : e \in DOMAIN callbacks' /\ callbacks'[e] = callbacks[e]
        /\ entry[t] = 0 => /\ DOMAIN callbacks' = DOMAIN callbacks \cup {Len(callbacks) + 1}
                           /\ callbacks'[Len(callbacks) + 1] = new
        /\ callbacks' \in Seq(Entries) /\ Len(callbacks) + 1 \in Nat
    <3>1. CASE entry[t] = 0
      BY <2>0, <3>1, AppendFacts
    <3>2. CASE entry[t] # 0
      BY <2>0, <3>2, AppendFacts
    <3> QED
      BY <3>1, <3>2
  <2>1. RegistryTypes' /\ JobsGiven'
    <3>1. callbacks' \in Seq(Entries) /\ entry' \in [KThreads -> Nat]
      BY <1>0, <2>0, <2>7 DEF RegistryTypes
    <3>2. RegistryTypes'
      BY <1>0, <1>6, <3>1 DEF RegistryTypes, Writing, EnsureEntry, At
    <3>3. JobsGiven'
      BY <1>0, <1>6 DEF RegistryTypes, JobsGiven, EnsureEntry, At
    <3> QED
      BY <3>2, <3>3
  <2>2. LockKept' /\ Unloaded'
    BY <1>0, <1>6 DEF RegistryTypes, LockKept, Unloaded, Writing, Reading, EnsureEntry, At
  <2>3. OneEntry' /\ EntryRight' /\ StoredIsThere'
    <3>0. kpc[t] = "ensure" /\ kpc' = [kpc EXCEPT ![t] = "set"] /\ job' = job /\ stored' = stored
      BY <1>6 DEF EnsureEntry, At
    <3>1. new.id = job[t].id
      BY DEF new
    <3>2. OneEntry'
      <4>1. CASE entry[t] = 0
        <5>1. \A e \in DOMAIN callbacks : callbacks[e].id # job[t].id
          BY <1>0, <3>0, <4>1 DEF EntryRight, HasEntry
        <5> QED
          BY <1>0, <2>7, <3>1, <4>1, <5>1 DEF OneEntry
      <4>2. CASE entry[t] # 0
        BY <1>0, <2>0, <4>2 DEF OneEntry
      <4> QED
        BY <4>1, <4>2
    <3>3. ASSUME NEW u \in KThreads, kpc'[u] = "set" PROVE HasEntry(job[u].id, entry[u])'
      <4>1. u = t
        BY <1>0, <3>0, <3>3 DEF RegistryTypes, LockKept, Writing
      <4>2. CASE entry[t] = 0
        BY <1>0, <2>0, <2>7, <3>0, <3>1, <4>1, <4>2 DEF RegistryTypes, HasEntry
      <4>3. CASE entry[t] # 0
        BY <1>0, <2>0, <3>0, <4>1, <4>3 DEF RegistryTypes, EntryRight, HasEntry
      <4> QED
        BY <4>2, <4>3
    <3>4. EntryRight'
      <4>1. \A u \in KThreads : kpc'[u] # "ensure"
        BY <1>0, <3>0 DEF RegistryTypes, LockKept, Writing
      <4> QED
        BY <3>0, <3>3, <4>1 DEF EntryRight
    <3>5. StoredIsThere'
      BY <1>0, <2>7, <3>0 DEF StoredIsThere, HasEntry
    <3> QED
      BY <3>2, <3>4, <3>5
  <2>4. KnownIsStored' /\ RegisteredIsFound'
    BY <1>0, <1>6 DEF RegistryTypes, Unloaded, KnownIsStored, RegisteredIsFound, EnsureEntry, At
  <2> QED
    BY <2>1, <2>2, <2>3, <2>4 DEF RegistryInv
<1>7. ASSUME NEW t \in KThreads, EnsureFails(t) PROVE RegistryInv'
  <2>1. RegistryTypes' /\ JobsGiven'
    BY <1>0, <1>7 DEF RegistryTypes, JobsGiven, Writing, Reading, EnsureFails, At
  <2>2. LockKept' /\ Unloaded'
    BY <1>0, <1>7 DEF RegistryTypes, LockKept, Unloaded, Writing, Reading, EnsureFails, At
  <2>3. OneEntry' /\ EntryRight' /\ StoredIsThere'
    BY <1>0, <1>7 DEF RegistryTypes, LockKept, Unloaded, OneEntry, EntryRight, StoredIsThere, HasEntry, Writing, Reading, EnsureFails, At
  <2>4. KnownIsStored' /\ RegisteredIsFound'
    BY <1>0, <1>7 DEF RegistryTypes, Unloaded, KnownIsStored, RegisteredIsFound, EnsureFails, At
  <2> QED
    BY <2>1, <2>2, <2>3, <2>4 DEF RegistryInv
<1>8. ASSUME NEW t \in KThreads, SetCb(t) PROVE RegistryInv'
  <2>0. /\ job[t] \in Jobs /\ job[t].cb # NoCb /\ HasEntry(job[t].id, entry[t]) /\ callbacks \in Seq(Entries)
        /\ entry[t] \in DOMAIN callbacks
    BY <1>0, <1>8 DEF RegistryTypes, JobsGiven, EntryRight, HasEntry, SetCb, At
  <2>7. /\ DOMAIN callbacks' = DOMAIN callbacks /\ \A e \in DOMAIN callbacks : callbacks'[e].id = callbacks[e].id
        /\ callbacks' \in Seq(Entries)
        /\ \A e \in DOMAIN callbacks, k \in Kinds :
             callbacks'[e].cb[k] = IF e = entry[t] /\ k = job[t].kind THEN job[t].cb ELSE callbacks[e].cb[k]
    <3> DEFINE c == [callbacks[entry[t]].cb EXCEPT ![job[t].kind] = job[t].cb]
               d == [callbacks[entry[t]] EXCEPT !.cb = c]
    <3>1. /\ callbacks[entry[t]] \in Entries /\ callbacks[entry[t]].cb \in [Kinds -> Cbs \cup {NoCb}]
          /\ job[t].kind \in Kinds /\ job[t].cb \in Cbs \cup {NoCb}
      BY <2>0, EntryFacts DEF Jobs
    <3>2. c \in [Kinds -> Cbs \cup {NoCb}] /\ \A k \in Kinds : c[k] = IF k = job[t].kind THEN job[t].cb ELSE callbacks[entry[t]].cb[k]
      BY <3>1
    <3>3. callbacks' = [callbacks EXCEPT ![entry[t]] = d]
      BY <1>8 DEF SetCb
    <3> HIDE DEF c
    <3>4. d \in Entries /\ d.id = callbacks[entry[t]].id /\ d.cb = c
      BY <3>1, <3>2 DEF Entries
    <3> HIDE DEF d
    <3>5. callbacks' \in Seq(Entries) /\ DOMAIN callbacks' = DOMAIN callbacks
          /\ \A e \in DOMAIN callbacks : callbacks'[e] = IF e = entry[t] THEN d ELSE callbacks[e]
      BY <2>0, <3>3, <3>4
    <3> QED
      BY <3>2, <3>4, <3>5
  <2>8. /\ stored' \in [Ids -> [Kinds -> Cbs \cup {NoCb}]]
        /\ \A i \in Ids, k \in Kinds :
             stored'[i][k] = IF i = job[t].id /\ k = job[t].kind THEN job[t].cb ELSE stored[i][k]
    BY <1>0, <1>8, <2>0 DEF RegistryTypes, Jobs, SetCb
  <2>1. RegistryTypes' /\ JobsGiven'
    <3>1. RegistryTypes'
      BY <1>0, <1>8, <2>7, <2>8 DEF RegistryTypes, Writing, SetCb, At
    <3>2. JobsGiven'
      BY <1>0, <1>8 DEF RegistryTypes, JobsGiven, SetCb, At
    <3> QED
      BY <3>1, <3>2
  <2>2. LockKept' /\ Unloaded'
    BY <1>0, <1>8 DEF RegistryTypes, LockKept, Unloaded, Writing, Reading, SetCb, At
  <2>3. OneEntry' /\ EntryRight' /\ StoredIsThere'
    <3>1. OneEntry'
      BY <1>0, <2>7 DEF OneEntry
    <3>2. \A u \in KThreads : kpc'[u] # "ensure" /\ kpc'[u] # "set"
      BY <1>0, <1>8 DEF RegistryTypes, LockKept, Writing, SetCb, At
    <3>3. EntryRight'
      BY <3>2 DEF EntryRight
    <3>4. StoredIsThere'
      <4> SUFFICES ASSUME NEW i \in Ids, NEW k \in Kinds, stored'[i][k] # NoCb
                   PROVE  \E e \in DOMAIN callbacks : callbacks[e].id = i /\ callbacks'[e].cb[k] # NoCb
        BY <2>7 DEF StoredIsThere, HasEntry
      <4>1. CASE i = job[t].id /\ k = job[t].kind
        BY <2>0, <2>7, <4>1 DEF HasEntry
      <4>2. CASE ~ (i = job[t].id /\ k = job[t].kind)
        <5>1. PICK e \in DOMAIN callbacks : callbacks[e].id = i /\ callbacks[e].cb[k] # NoCb
          BY <1>0, <2>8, <4>2 DEF StoredIsThere, HasEntry
        <5> QED
          BY <2>0, <2>7, <5>1
      <4> QED
        BY <4>1, <4>2
    <3> QED
      BY <3>1, <3>3, <3>4
  <2>4. KnownIsStored' /\ RegisteredIsFound'
    <3>1. KnownIsStored'
      <4> SUFFICES ASSUME NEW u \in KThreads, kpc'[u] \in {"rdlock", "read"}, known'[u] # NoCb
                   PROVE  stored'[job'[u].id][job'[u].kind] # NoCb
        BY DEF KnownIsStored
      <4>1. job' = job /\ known' = known /\ kpc[u] = kpc'[u]
        BY <1>0, <1>8 DEF RegistryTypes, SetCb, At
      <4>2. job[u].id \in Ids /\ job[u].kind \in Kinds
        BY <1>0, <4>1 DEF JobsGiven, Jobs
      <4> QED
        BY <1>0, <2>0, <2>8, <4>1, <4>2 DEF KnownIsStored
    <3>2. RegisteredIsFound'
      BY <1>0, <1>8 DEF RegistryTypes, RegisteredIsFound, SetCb, At
    <3> QED
      BY <3>1, <3>2
  <2> QED
    BY <2>1, <2>2, <2>3, <2>4 DEF RegistryInv
<1>9. ASSUME NEW t \in KThreads, Unlock(t) PROVE RegistryInv'
  <2>1. RegistryTypes' /\ JobsGiven'
    BY <1>0, <1>9 DEF RegistryTypes, JobsGiven, Writing, Reading, Unlock, At, Returned
  <2>2. LockKept' /\ Unloaded'
    BY <1>0, <1>9 DEF RegistryTypes, LockKept, Unloaded, Writing, Reading, Unlock, At, Returned
  <2>3. OneEntry' /\ EntryRight' /\ StoredIsThere'
    BY <1>0, <1>9 DEF RegistryTypes, LockKept, Unloaded, OneEntry, EntryRight, StoredIsThere, HasEntry, Writing, Reading, Unlock, At, Returned
  <2>4. KnownIsStored' /\ RegisteredIsFound'
    BY <1>0, <1>9 DEF RegistryTypes, Unloaded, KnownIsStored, RegisteredIsFound, Unlock, At, Returned
  <2> QED
    BY <2>1, <2>2, <2>3, <2>4 DEF RegistryInv
<1>10. ASSUME NEW t \in KThreads, NEW id \in Ids, NEW kind \in Kinds, Lookup(t, id, kind) PROVE RegistryInv'
  <2>1. RegistryTypes' /\ JobsGiven'
    <3>1. [id |-> id, kind |-> kind, cb |-> NoCb] \in Jobs /\ stored[id][kind] \in Cbs \cup {NoCb}
      BY <1>0 DEF Jobs, RegistryTypes
    <3>2. \A u \in KThreads : job'[u] = IF u = t THEN [id |-> id, kind |-> kind, cb |-> NoCb] ELSE job[u]
      BY <1>0, <1>10 DEF RegistryTypes, Lookup
    <3>3. /\ job' \in [KThreads -> Jobs \cup {NoJob}] /\ known' \in [KThreads -> Cbs \cup {NoCb}]
          /\ result' \in [KThreads -> Cbs \cup {NoCb}]
      BY <1>0, <1>10, <3>1 DEF RegistryTypes, Lookup
    <3>4. RegistryTypes'
      BY <1>0, <1>10, <3>3 DEF RegistryTypes, Lookup, At
    <3>5. JobsGiven'
      BY <1>0, <1>10, <3>1, <3>2 DEF RegistryTypes, JobsGiven, Lookup, At
    <3> QED
      BY <3>4, <3>5
  <2>2. LockKept' /\ Unloaded'
    BY <1>0, <1>10 DEF RegistryTypes, LockKept, Unloaded, Writing, Reading, Lookup, At
  <2>3. OneEntry' /\ EntryRight' /\ StoredIsThere'
    BY <1>0, <1>10 DEF RegistryTypes, LockKept, Unloaded, OneEntry, EntryRight, StoredIsThere, HasEntry, Writing, Reading, Lookup, At
  <2>4. KnownIsStored' /\ RegisteredIsFound'
    BY <1>0, <1>10 DEF RegistryTypes, Unloaded, KnownIsStored, RegisteredIsFound, Lookup, At
  <2> QED
    BY <2>1, <2>2, <2>3, <2>4 DEF RegistryInv
<1>11. ASSUME NEW t \in KThreads, ReadLock(t) PROVE RegistryInv'
  <2>1. RegistryTypes' /\ JobsGiven'
    BY <1>0, <1>11 DEF RegistryTypes, JobsGiven, Writing, Reading, ReadLock, At
  <2>2. LockKept' /\ Unloaded'
    BY <1>0, <1>11 DEF RegistryTypes, LockKept, Unloaded, Writing, Reading, ReadLock, At
  <2>3. OneEntry' /\ EntryRight' /\ StoredIsThere'
    BY <1>0, <1>11 DEF RegistryTypes, LockKept, Unloaded, OneEntry, EntryRight, StoredIsThere, HasEntry, Writing, Reading, ReadLock, At
  <2>4. KnownIsStored' /\ RegisteredIsFound'
    BY <1>0, <1>11 DEF RegistryTypes, Unloaded, KnownIsStored, RegisteredIsFound, ReadLock, At
  <2> QED
    BY <2>1, <2>2, <2>3, <2>4 DEF RegistryInv
<1>12. ASSUME NEW t \in KThreads, Read(t) PROVE RegistryInv'
  <2> DEFINE i == KeylessFindEntry(job[t].id)
             r == IF i = 0 THEN NoCb ELSE callbacks[i].cb[job[t].kind]
  <2>0. /\ job[t] \in Jobs /\ job[t].id \in Ids /\ job[t].kind \in Kinds /\ kpc[t] = "read"
        /\ kpc' = [kpc EXCEPT ![t] = "answer"] /\ result' = [result EXCEPT ![t] = r] /\ job' = job /\ known' = known
    BY <1>0, <1>12 DEF JobsGiven, Jobs, Read, At
  <2>7. /\ i = 0 => \A e \in DOMAIN callbacks : ~ HasEntry(job[t].id, e)
        /\ i # 0 => HasEntry(job[t].id, i)
    BY <1>0, FindsEntry
  <2> HIDE DEF i
  <2>8. r \in Cbs \cup {NoCb}
    <3>1. CASE i = 0
      BY <3>1
    <3>2. CASE i # 0
      <4>1. i \in DOMAIN callbacks
        BY <2>7, <3>2 DEF HasEntry
      <4>2. callbacks[i].cb \in [Kinds -> Cbs \cup {NoCb}]
        BY <1>0, <4>1, EntryFacts DEF RegistryTypes
      <4> QED
        BY <2>0, <3>2, <4>2
    <3> QED
      BY <3>1, <3>2
  <2>1. RegistryTypes' /\ JobsGiven'
    <3>1. RegistryTypes'
      BY <1>0, <1>12, <2>0, <2>8 DEF RegistryTypes, Reading, Read
    <3>2. JobsGiven'
      BY <1>0, <2>0 DEF RegistryTypes, JobsGiven
    <3> QED
      BY <3>1, <3>2
  <2>2. LockKept' /\ Unloaded'
    BY <1>0, <1>12 DEF RegistryTypes, LockKept, Unloaded, Writing, Reading, Read, At
  <2>3. OneEntry' /\ EntryRight' /\ StoredIsThere'
    BY <1>0, <1>12 DEF RegistryTypes, LockKept, Unloaded, OneEntry, EntryRight, StoredIsThere, HasEntry, Writing, Reading, Read, At
  <2>4. KnownIsStored' /\ RegisteredIsFound'
    <3>1. KnownIsStored'
      BY <1>0, <1>12 DEF RegistryTypes, KnownIsStored, Read, At
    <3>2. r = NoCb => known[t] = NoCb
      <4> SUFFICES ASSUME known[t] # NoCb PROVE r # NoCb
        OBVIOUS
      <4>1. stored[job[t].id][job[t].kind] # NoCb
        BY <1>0, <2>0 DEF KnownIsStored
      <4>2. PICK e \in DOMAIN callbacks : HasEntry(job[t].id, e) /\ callbacks[e].cb[job[t].kind] # NoCb
        BY <1>0, <2>0, <4>1 DEF StoredIsThere
      <4>3. i = e
        BY <1>0, <2>7, <4>2 DEF OneEntry, HasEntry
      <4>4. i # 0
        BY <1>0, <4>2, <4>3 DEF RegistryTypes
      <4> QED
        BY <4>2, <4>3, <4>4
    <3>3. RegisteredIsFound'
      BY <1>0, <2>0, <3>2 DEF RegistryTypes, RegisteredIsFound
    <3> QED
      BY <3>1, <3>3
  <2> QED
    BY <2>1, <2>2, <2>3, <2>4 DEF RegistryInv
<1>13. ASSUME NEW t \in KThreads, ReadUnlock(t) PROVE RegistryInv'
  <2>1. RegistryTypes' /\ JobsGiven'
    BY <1>0, <1>13 DEF RegistryTypes, JobsGiven, Writing, Reading, ReadUnlock, At, Returned
  <2>2. LockKept' /\ Unloaded'
    BY <1>0, <1>13 DEF RegistryTypes, LockKept, Unloaded, Writing, Reading, ReadUnlock, At, Returned
  <2>3. OneEntry' /\ EntryRight' /\ StoredIsThere'
    BY <1>0, <1>13 DEF RegistryTypes, LockKept, Unloaded, OneEntry, EntryRight, StoredIsThere, HasEntry, Writing, Reading, ReadUnlock, At, Returned
  <2>4. KnownIsStored' /\ RegisteredIsFound'
    BY <1>0, <1>13 DEF RegistryTypes, Unloaded, KnownIsStored, RegisteredIsFound, ReadUnlock, At, Returned
  <2> QED
    BY <2>1, <2>2, <2>3, <2>4 DEF RegistryInv
<1>14. CASE UNCHANGED registryVars
  BY <1>0, <1>14 DEF registryVars, RegistryInv, RegistryTypes, JobsGiven, LockKept, Unloaded, OneEntry, EntryRight,
                     StoredIsThere, KnownIsStored, RegisteredIsFound, HasEntry
<1> QED
  BY <1>1, <1>2, <1>3, <1>4, <1>5, <1>6, <1>7, <1>8, <1>9, <1>10, <1>11, <1>12, <1>13, <1>14 DEF RegistryNext

(* A handshake finds a callback that was registered before it looked,        *)
(* whatever other threads register meanwhile (KeylessEnsureEntryLocked).     *)
THEOREM CallbacksAreFound == RegistrySpec => []RegisteredIsFound
<1>1. RegistryInv => RegisteredIsFound
  BY DEF RegistryInv
<1> QED
  BY RegistryInitInv, RegistryNextInv, <1>1, PTL DEF RegistrySpec

-----------------------------------------------------------------------------
(* The loader of OpenSSL.                                                    *)

Loading(t) == lpc[t] \in {"loading", "paths", "open", "select"}

LoaderTypes ==
  /\ lpc \in [LThreads -> {"idle", "loading", "paths", "open", "select", "ended"}]
  /\ env \in BOOLEAN /\ configured \in BOOLEAN /\ started \in BOOLEAN /\ oom \in BOOLEAN
  /\ cryptoOwned \in BOOLEAN /\ sslOwned \in BOOLEAN /\ once \in {"new", "running", "done"}
  /\ crypto \in Files \cup {None} /\ ssl \in Files \cup {None}
  /\ paths \in {<<>>, <<"env.crypto", "env.ssl">>, <<"cfg.crypto", "cfg.ssl">>}
  /\ open \in [Files -> Int] /\ cached \in [Symbols -> Files \cup {None}]

\* One thread at most selects the backend, once, and says so before it looks.
OneLoads ==
  /\ once # "running" => \A t \in LThreads : ~ Loading(t)
  /\ \A t, u \in LThreads : Loading(t) /\ Loading(u) => t = u
  /\ \A t \in LThreads : lpc[t] \in {"paths", "open", "select"} => started
  /\ once = "done" => started

\* There are no handles before the libraries are opened, and no symbols before
\* the backend is selected.
NothingBefore ==
  /\ once = "new" \/ (\E t \in LThreads : lpc[t] \in {"loading", "paths", "open"})
       => crypto = None /\ ssl = None /\ ~ cryptoOwned /\ ~ sslOwned
  /\ once # "done" => \A s \in Symbols : cached[s] = None

Configured == {"cfg.crypto", "cfg.ssl", None}

\* What was accepted goes from the paths to the handles and from there to the
\* symbols.
Followed ==
  configured =>
    /\ ~ env
    /\ ~ oom => /\ \A t \in LThreads : lpc[t] = "open" => paths = <<"cfg.crypto", "cfg.ssl">>
                /\ once = "done" \/ (\E t \in LThreads : lpc[t] = "select")
                     => {crypto, ssl} \cup {cached[s] : s \in Symbols} \subseteq Configured

Owns(owned, handle, f) == IF owned /\ f = handle THEN 1 ELSE 0

\* A file is open as often as an owner has it.
OpenAccounts == \A f \in Files : open[f] = Owns(cryptoOwned, crypto, f) + Owns(sslOwned, ssl, f)

AllEnd ==
  \A t \in LThreads : lpc[t] = "ended" => /\ \A u \in LThreads : lpc[u] = "ended"
                                          /\ ~ cryptoOwned /\ ~ sslOwned

LoaderInv == LoaderTypes /\ OneLoads /\ NothingBefore /\ Followed /\ OpenAccounts /\ AllEnd

\* The invariant of the loader holds before the library is loaded.
LEMMA LoaderInitInv == LoaderInit => LoaderInv
<1> SUFFICES ASSUME LoaderInit PROVE LoaderInv
  OBVIOUS
<1>1. LoaderTypes
  <2>1. open \in [Files -> Int] /\ cached \in [Symbols -> Files \cup {None}]
    BY DEF LoaderInit
  <2>2. lpc \in [LThreads -> {"idle", "loading", "paths", "open", "select", "ended"}]
    BY DEF LoaderInit
  <2> QED
    BY <2>1, <2>2 DEF LoaderInit, LoaderTypes
<1>2. OneLoads /\ NothingBefore /\ Followed /\ AllEnd
  BY DEF LoaderInit, OneLoads, NothingBefore, Followed, AllEnd, Loading
<1>3. OpenAccounts
  BY DEF LoaderInit, OpenAccounts, Owns
<1> QED
  BY <1>1, <1>2, <1>3 DEF LoaderInv

\* Of two candidates the loader opens one, or none.
LEMMA Candidates == ASSUME NEW a, NEW b PROVE TryDlopen(<<a, b>>) \in {a, b, None}
<1> DEFINE at == {i \in DOMAIN <<a, b>> : <<a, b>>[i] \in installed}
<1>1. at \subseteq {1, 2}
  OBVIOUS
<1>2. at # {} => \E i \in at : \A j \in at : i <= j
  BY <1>1
<1>3. at # {} => (CHOOSE i \in at : \A j \in at : i <= j) \in {1, 2}
  BY <1>1, <1>2
<1> QED
  BY <1>3 DEF TryDlopen

\* What the load leaves: no handle, a pair, or one library that serves for both.
Nothing == UNCHANGED <<crypto, ssl, cryptoOwned, sslOwned, open>>
Pair(x, y) == crypto' = x /\ ssl' = y /\ Opened({x, y}) /\ cryptoOwned' = TRUE /\ sslOwned' = TRUE
Single(x) == crypto' = x /\ ssl' = x /\ Opened({x}) /\ cryptoOwned' \in BOOLEAN /\ sslOwned' = ~ cryptoOwned'

\* What opening a backend may end in: nothing, a pair of libraries, or one file.
LEMMA OpenBackendOutcomes ==
  ASSUME LoaderTypes, NEW t \in LThreads, OpenBackend(t)
  PROVE  IF paths # <<>> THEN Nothing \/ Pair(paths[1], paths[2])
         ELSE Nothing \/ (\E x \in Cryptos, y \in Ssls : Pair(x, y)) \/ (\E x \in Files : Single(x))
<1> DEFINE c == TryDlopen(<<"crypto.3", "crypto">>)
           s == TryDlopen(<<"ssl.3", "ssl">>)
<1>1. c \in {"crypto.3", "crypto", None} /\ s \in {"ssl.3", "ssl", None}
  BY Candidates
<1> HIDE DEF c, s
<1>2. CASE paths # <<>>
  BY <1>2 DEF OpenBackend, Nothing, Pair
<1>3. CASE paths = <<>>
  <2>1. CASE TryLoadBackendPair("crypto.3", "ssl.3")
    BY <1>3, <2>1 DEF OpenBackend, Pair, Cryptos, Ssls
  <2>2. CASE ~ TryLoadBackendPair("crypto.3", "ssl.3") /\ c # None /\ s # None
    <3>1. Pair(c, s)
      BY <1>3, <2>2 DEF OpenBackend, Pair, c, s
    <3> QED
      BY <1>1, <1>3, <2>2, <3>1 DEF Cryptos, Ssls
  <2>3. CASE ~ TryLoadBackendPair("crypto.3", "ssl.3") /\ c = None /\ s = None
    BY <1>3, <2>3 DEF OpenBackend, Nothing, c, s
  <2>4. CASE ~ TryLoadBackendPair("crypto.3", "ssl.3") /\ c # None /\ s = None
    <3>1. Single(c)
      BY <1>3, <2>4 DEF OpenBackend, Single, c, s
    <3> QED
      BY <1>1, <1>3, <2>4, <3>1 DEF Cryptos, Files
  <2>5. CASE ~ TryLoadBackendPair("crypto.3", "ssl.3") /\ c = None /\ s # None
    <3>1. Single(s)
      BY <1>3, <2>5 DEF OpenBackend, Single, c, s
    <3> QED
      BY <1>1, <1>3, <2>5, <3>1 DEF Ssls, Files
  <2> QED
    BY <2>1, <2>2, <2>3, <2>4, <2>5
<1> QED
  BY <1>2, <1>3

\* Every step of the loading threads keeps it.
LEMMA LoaderNextInv == LoaderInv /\ [LoaderNext]_loaderVars => LoaderInv'
<1> SUFFICES ASSUME LoaderInv, [LoaderNext]_loaderVars PROVE LoaderInv'
  OBVIOUS
<1>0. LoaderTypes /\ OneLoads /\ NothingBefore /\ Followed /\ OpenAccounts /\ AllEnd
  BY DEF LoaderInv
<1>1. ASSUME NEW t \in LThreads, SetPath(t) PROVE LoaderInv'
  <2>1. LoaderTypes'
    BY <1>0, <1>1 DEF LoaderTypes, SetPath
  <2>2. OneLoads'
    BY <1>0, <1>1 DEF LoaderTypes, OneLoads, Loading, SetPath
  <2>3. NothingBefore'
    BY <1>0, <1>1 DEF LoaderTypes, OneLoads, NothingBefore, Loading, SetPath
  <2>4. Followed'
    BY <1>0, <1>1 DEF LoaderTypes, OneLoads, NothingBefore, Followed, Loading, SetPath
  <2>5. OpenAccounts'
    BY <1>0, <1>1 DEF OpenAccounts, SetPath
  <2>6. AllEnd'
    BY <1>0, <1>1 DEF LoaderTypes, AllEnd, SetPath
  <2> QED
    BY <2>1, <2>2, <2>3, <2>4, <2>5, <2>6 DEF LoaderInv
<1>2. ASSUME NEW t \in LThreads, Begin(t) PROVE LoaderInv'
  <2>1. LoaderTypes'
    BY <1>0, <1>2 DEF LoaderTypes, Begin, Goes
  <2>2. OneLoads'
    BY <1>0, <1>2 DEF LoaderTypes, OneLoads, Loading, Begin, Goes
  <2>3. NothingBefore'
    BY <1>0, <1>2 DEF LoaderTypes, OneLoads, NothingBefore, Loading, Begin, Goes
  <2>4. Followed'
    BY <1>0, <1>2 DEF LoaderTypes, OneLoads, NothingBefore, Followed, Loading, Begin, Goes
  <2>5. OpenAccounts'
    BY <1>0, <1>2 DEF OpenAccounts, Begin, Goes
  <2>6. AllEnd'
    BY <1>0, <1>2 DEF LoaderTypes, AllEnd, Begin, Goes
  <2> QED
    BY <2>1, <2>2, <2>3, <2>4, <2>5, <2>6 DEF LoaderInv
<1>3. ASSUME NEW t \in LThreads, MarkStarted(t) PROVE LoaderInv'
  <2>1. LoaderTypes'
    BY <1>0, <1>3 DEF LoaderTypes, MarkStarted, Goes
  <2>2. OneLoads'
    BY <1>0, <1>3 DEF LoaderTypes, OneLoads, Loading, MarkStarted, Goes
  <2>3. NothingBefore'
    BY <1>0, <1>3 DEF LoaderTypes, OneLoads, NothingBefore, Loading, MarkStarted, Goes
  <2>4. Followed'
    BY <1>0, <1>3 DEF LoaderTypes, OneLoads, NothingBefore, Followed, Loading, MarkStarted, Goes
  <2>5. OpenAccounts'
    BY <1>0, <1>3 DEF OpenAccounts, MarkStarted, Goes
  <2>6. AllEnd'
    BY <1>0, <1>3 DEF LoaderTypes, AllEnd, MarkStarted, Goes
  <2> QED
    BY <2>1, <2>2, <2>3, <2>4, <2>5, <2>6 DEF LoaderInv
<1>4. ASSUME NEW t \in LThreads, GetConfiguredOpenSslPaths(t) PROVE LoaderInv'
  <2>1. LoaderTypes'
    BY <1>0, <1>4 DEF LoaderTypes, GetConfiguredOpenSslPaths, Goes
  <2>2. OneLoads'
    BY <1>0, <1>4 DEF LoaderTypes, OneLoads, Loading, GetConfiguredOpenSslPaths, Goes
  <2>3. NothingBefore'
    BY <1>0, <1>4 DEF LoaderTypes, OneLoads, NothingBefore, Loading, GetConfiguredOpenSslPaths, Goes
  <2>4. Followed'
    BY <1>0, <1>4 DEF LoaderTypes, OneLoads, NothingBefore, Followed, Loading, GetConfiguredOpenSslPaths, Goes
  <2>5. OpenAccounts'
    BY <1>0, <1>4 DEF OpenAccounts, GetConfiguredOpenSslPaths, Goes
  <2>6. AllEnd'
    BY <1>0, <1>4 DEF LoaderTypes, AllEnd, GetConfiguredOpenSslPaths, Goes
  <2> QED
    BY <2>1, <2>2, <2>3, <2>4, <2>5, <2>6 DEF LoaderInv
<1>5. ASSUME NEW t \in LThreads, NoMemory(t) PROVE LoaderInv'
  <2>1. LoaderTypes'
    BY <1>0, <1>5 DEF LoaderTypes, NoMemory, Goes
  <2>2. OneLoads'
    BY <1>0, <1>5 DEF LoaderTypes, OneLoads, Loading, NoMemory, Goes
  <2>3. NothingBefore'
    BY <1>0, <1>5 DEF LoaderTypes, OneLoads, NothingBefore, Loading, NoMemory, Goes
  <2>4. Followed'
    BY <1>0, <1>5 DEF LoaderTypes, OneLoads, NothingBefore, Followed, Loading, NoMemory, Goes
  <2>5. OpenAccounts'
    BY <1>0, <1>5 DEF OpenAccounts, NoMemory, Goes
  <2>6. AllEnd'
    BY <1>0, <1>5 DEF LoaderTypes, AllEnd, NoMemory, Goes
  <2> QED
    BY <2>1, <2>2, <2>3, <2>4, <2>5, <2>6 DEF LoaderInv
<1>6. ASSUME NEW t \in LThreads, OpenBackend(t) PROVE LoaderInv'
  <2> DEFINE Outcome == \/ Nothing
                        \/ \E x \in Cryptos, y \in Ssls : Pair(x, y)
                        \/ \E x \in Files : Single(x)
  <2>0. /\ Outcome
        /\ paths = <<"cfg.crypto", "cfg.ssl">> => Nothing \/ Pair("cfg.crypto", "cfg.ssl")
        /\ Goes(t, "open", "select")
        /\ UNCHANGED <<installed, env, configured, started, once, mode, paths, oom, cached>>
    <3>1. paths # <<>> => paths[1] \in Cryptos /\ paths[2] \in Ssls
      BY <1>0 DEF LoaderTypes, Cryptos, Ssls
    <3>2. paths = <<"cfg.crypto", "cfg.ssl">> => paths # <<>> /\ paths[1] = "cfg.crypto" /\ paths[2] = "cfg.ssl"
      OBVIOUS
    <3>3. Goes(t, "open", "select") /\ UNCHANGED <<installed, env, configured, started, once, mode, paths, oom, cached>>
      BY <1>6 DEF OpenBackend
    <3> QED
      BY <1>0, <1>6, <3>1, <3>2, <3>3, OpenBackendOutcomes
  <2>1. LoaderTypes'
    <3>1. crypto' \in Files \cup {None} /\ ssl' \in Files \cup {None}
      BY <1>0, <2>0 DEF LoaderTypes, Nothing, Pair, Single, Files
    <3>2. cryptoOwned' \in BOOLEAN /\ sslOwned' \in BOOLEAN
      BY <1>0, <2>0 DEF LoaderTypes, Nothing, Pair, Single
    <3>3. open' \in [Files -> Int]
      BY <1>0, <2>0 DEF LoaderTypes, Nothing, Pair, Single, Opened
    <3> QED
      BY <1>0, <2>0, <3>1, <3>2, <3>3 DEF LoaderTypes, Goes
  <2>2. OneLoads'
    BY <1>0, <2>0 DEF LoaderTypes, OneLoads, Loading, Goes
  <2>3. NothingBefore'
    BY <1>0, <2>0 DEF LoaderTypes, OneLoads, NothingBefore, Loading, Goes
  <2>4. Followed'
    <3>1. ASSUME configured, ~ oom PROVE {crypto', ssl'} \subseteq Configured
      <4>1. paths = <<"cfg.crypto", "cfg.ssl">> /\ crypto = None /\ ssl = None
        BY <1>0, <2>0, <3>1 DEF Followed, NothingBefore, Goes
      <4> QED
        BY <2>0, <4>1 DEF Nothing, Pair, Configured
    <3>2. \A sym \in Symbols : cached[sym] = None
      BY <1>0, <2>0 DEF OneLoads, NothingBefore, Loading, Goes
    <3> QED
      BY <1>0, <2>0, <3>1, <3>2 DEF LoaderTypes, OneLoads, Followed, Loading, Goes, Configured
  <2>5. OpenAccounts'
    <3>1. \A f \in Files : open[f] = 0
      BY <1>0, <2>0 DEF OpenAccounts, NothingBefore, Owns, Goes
    <3>2. CASE Nothing
      BY <1>0, <3>2 DEF OpenAccounts, Nothing
    <3>3. CASE \E x \in Cryptos, y \in Ssls : Pair(x, y)
      BY <3>1, <3>3 DEF OpenAccounts, Owns, Pair, Opened, Cryptos, Ssls
    <3>4. CASE \E x \in Files : Single(x)
      <4>1. PICK x \in Files : Single(x)
        BY <3>4
      <4>2. \A f \in Files : open'[f] = IF f = x THEN 1 ELSE 0
        BY <3>1, <4>1 DEF Single, Opened
      <4>3. /\ crypto' = x /\ ssl' = x
            /\ \/ cryptoOwned' = TRUE /\ sslOwned' = FALSE
               \/ cryptoOwned' = FALSE /\ sslOwned' = TRUE
        BY <4>1, Zenon DEF Single
      <4>4. \A f \in Files : Owns(cryptoOwned', crypto', f) + Owns(sslOwned', ssl', f) = IF f = x THEN 1 ELSE 0
        BY <4>3 DEF Owns
      <4> QED
        BY <4>2, <4>4 DEF OpenAccounts
    <3> QED
      BY <2>0, <3>2, <3>3, <3>4
  <2>6. AllEnd'
    BY <1>0, <2>0 DEF LoaderTypes, AllEnd, Goes
  <2> QED
    BY <2>1, <2>2, <2>3, <2>4, <2>5, <2>6 DEF LoaderInv
<1>7. ASSUME NEW t \in LThreads, SelectBackendOnce(t) PROVE LoaderInv'
  <2>1. LoaderTypes'
    BY <1>0, <1>7 DEF LoaderTypes, SelectBackendOnce, Goes
  <2>2. OneLoads'
    BY <1>0, <1>7 DEF LoaderTypes, OneLoads, Loading, SelectBackendOnce, Goes
  <2>3. NothingBefore'
    BY <1>0, <1>7 DEF LoaderTypes, OneLoads, NothingBefore, Loading, SelectBackendOnce, Goes
  <2>4. Followed'
    BY <1>0, <1>7 DEF LoaderTypes, OneLoads, NothingBefore, Followed, Loading, SelectBackendOnce, Goes
  <2>5. OpenAccounts'
    BY <1>0, <1>7 DEF OpenAccounts, SelectBackendOnce, Goes
  <2>6. AllEnd'
    BY <1>0, <1>7 DEF LoaderTypes, AllEnd, SelectBackendOnce, Goes
  <2> QED
    BY <2>1, <2>2, <2>3, <2>4, <2>5, <2>6 DEF LoaderInv
<1>8. ASSUME NEW t \in LThreads, NEW sym \in Symbols, FindFunction(t, sym) PROVE LoaderInv'
  <2>1. /\ once = "done"
        /\ \E h \in {None, crypto, ssl} : cached' = [cached EXCEPT ![sym] = h]
        /\ UNCHANGED <<installed, env, configured, started, once, mode, crypto, ssl, cryptoOwned, sslOwned,
                       open, lpc, paths, oom>>
    BY <1>8 DEF FindFunction, FindDlopenedFunction
  <2>2. LoaderTypes'
    BY <1>0, <2>1 DEF LoaderTypes
  <2>3. OneLoads' /\ NothingBefore' /\ AllEnd'
    BY <1>0, <2>1 DEF OneLoads, NothingBefore, AllEnd, Loading
  <2>4. Followed'
    <3>1. ASSUME configured, ~ oom, NEW s \in Symbols PROVE cached'[s] \in Configured
      BY <1>0, <2>1, <3>1 DEF LoaderTypes, Followed, Configured
    <3> QED
      BY <1>0, <2>1, <3>1 DEF OneLoads, Followed, Loading
  <2>5. OpenAccounts'
    BY <1>0, <2>1 DEF OpenAccounts
  <2> QED
    BY <2>2, <2>3, <2>4, <2>5 DEF LoaderInv
<1>9. CASE CloseSymbolTable
  <2>1. LoaderTypes'
    <3>1. open' \in [Files -> Int]
      BY <1>0, <1>9 DEF LoaderTypes, CloseSymbolTable
    <3> QED
      BY <1>0, <1>9, <3>1 DEF LoaderTypes, CloseSymbolTable
  <2>2. OneLoads' /\ NothingBefore' /\ AllEnd'
    BY <1>0, <1>9 DEF LoaderTypes, OneLoads, NothingBefore, AllEnd, Loading, CloseSymbolTable
  <2>3. Followed'
    BY <1>0, <1>9 DEF LoaderTypes, Followed, Configured, CloseSymbolTable
  <2>4. OpenAccounts'
    BY <1>0, <1>9 DEF LoaderTypes, OpenAccounts, Owns, CloseSymbolTable
  <2> QED
    BY <2>1, <2>2, <2>3, <2>4 DEF LoaderInv
<1>10. CASE UNCHANGED loaderVars
  BY <1>0, <1>10 DEF loaderVars, LoaderInv, LoaderTypes, OneLoads, NothingBefore, Followed, OpenAccounts, AllEnd, Loading
<1> QED
  BY <1>1, <1>2, <1>3, <1>4, <1>5, <1>6, <1>7, <1>8, <1>9, <1>10 DEF LoaderNext

(* What a program names and sees accepted is what is loaded, whichever thread *)
(* needs a symbol meanwhile (CJ_OpenSSL_SetPath, EnsureLoadedImpl).           *)
THEOREM AcceptedPathsAreUsed == LoaderSpec => []AcceptedIsUsed
<1>1. LoaderInv => AcceptedIsUsed
  BY DEF LoaderInv, Followed, Configured, AcceptedIsUsed
<1> QED
  BY LoaderInitInv, LoaderNextInv, <1>1, PTL DEF LoaderSpec

(* When the program has ended no library is open (CloseSymbolTable).          *)
THEOREM LibrariesAreClosed == LoaderSpec => []HandlesBalanced
<1>1. LoaderInv => HandlesBalanced
  BY DEF LoaderInv, AllEnd, OpenAccounts, Owns, HandlesBalanced
<1> QED
  BY LoaderInitInv, LoaderNextInv, <1>1, PTL DEF LoaderSpec
=============================================================================
