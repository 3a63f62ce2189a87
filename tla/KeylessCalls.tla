---------------------------- MODULE KeylessCalls ----------------------------
(* What the functions of the keyless provider and of the BIO of tls_bio.c    *)
(* do to the objects they create (src/stdx/net/tls/native/provider*.c). A    *)
(* key of the provider is "key", with its parts; the callback into Cangjie   *)
(* returns "remote", which the function releases.                            *)
EXTENDS NativeSteps

----------------------------------------------------------------------------
(* provider.c, tls_bio.c                                                     *)

\* A key id that is already registered keeps its entry.
KeylessEnsureEntryLocked ==
  One(<<>>) \cup
  One(<<New("created", {}), Else(New("keyId", {}), <<Free("created")>>), Give("keyId", "created"),
        Give("created", "ctx")>>)

KeylessClearCallbacks ==
  LET entry(i) == <<"entry1", "entry2">>[i]
      id(i) == <<"id1", "id2">>[i]
      had(i) == <<Had(entry(i), "ctx"), Had(id(i), entry(i))>>
      gone(i) == <<Use({entry(i)}), Free(id(i)), Free(entry(i)), Drop(entry(i))>>
  IN  { Straight(<<>>), Straight(had(1) \o gone(1)), Straight(had(1) \o had(2) \o gone(1) \o gone(2)) }

KeylessProviderNewctx ==
  One(<<New("ctx", {}), Else(Call({"ctx"}), <<Free("ctx")>>), Give("ctx", "openssl")>>)

BioCreate == One(<<Call({}), New("data", {}), Use({"data"}), Give("data", "bio")>>)

BioDestroy == { Straight(old) : old \in Maybe(<<Had("data", "bio"), Drop("data"), Use({"data"}), Free("data")>>) }

\* The method is released when a function cannot be set, and lost when the
\* symbols that set them cannot be loaded.
CreateMethod ==
  One(<<Call({}), New("m", {}), Call({}), Else(Call({"m"}), <<Free("m")>>), Give("m", "caller")>>)

----------------------------------------------------------------------------
(* provider_helper.c                                                         *)

CertIssuerSerialSha256Hex ==
  { Script(<<Call({}), Call({})>> \o ders \o <<Call({}), Call({"issuerDer"}), Call({"serialDer"}), Call({})>>,
           <<Free("issuerDer"), Free("serialDer")>>) : ders \in Both("issuerDer", "serialDer", {}, <<>>) }

GetCertSha256Hex ==
  One(<<New("buf", {}), Else(Call({"buf"}), <<Free("buf")>>), Else(New("out", {}), <<Free("buf")>>),
        Use({"buf", "out"}), Free("buf"), Give("out", "caller")>>)

CJ_TLS_GetCertId ==
  { Script(<<New("cert", {}), New("out", {"cert"}), Give("out", "caller")>>, <<Free("cert")>>) }

----------------------------------------------------------------------------
(* provider_keymgt.c                                                         *)

KeyParts == <<"keyId", "n", "e", "ecPoint", "groupName">>

\* The last reference: every part, then the key. Before that the key stays.
KeylessKeyFree ==
  { Straight(<<Had("key", "openssl")>> \o [i \in 1 .. 5 |-> Had(KeyParts[i], "key")]
             \o Frees(KeyParts) \o <<Free("key"), Drop("key")>>),
    Straight(<<Had("key", "openssl"), Use({"key"})>>) }

\* Numbers, or octet strings. If only the first is a number (or the second
\* cannot be allocated) reading it as an octet string fails, and it is lost.
KeylessImportRsa ==
  LET start == <<Had("key", "openssl"), Call({})>>
      undo == Frees(<<"n", "e">>)
      kept == <<Give("n", "key"), Give("e", "key")>>
      bns == <<Make("bnN", {}), Make("bnE", {})>>
      gone == Frees(<<"bnN", "bnE">>)
  IN  { Straight(start \o bns \o parts \o <<Use({"bnN", "n", "bnE", "e"})>> \o gone \o kept) :
          parts \in Both("n", "e", {"bnN", "bnE"}, gone \o undo) }
      \cup { Straight(start \o <<Call({})>> \o parts \o kept) : parts \in Both("n", "e", {}, undo) }
      \cup One(start \o <<Make("bnN", {}), Stop>>)

KeylessStrndup == One(<<New("out", {}), Else(Call({"out"}), <<Free("out")>>), Give("out", "caller")>>)

\* The name of the group is optional, and may fail to be copied unnoticed.
KeylessImportEc ==
  { Straight(<<Had("key", "openssl"), Call({}), New("ecPoint", {}), Give("ecPoint", "key")>> \o group) :
      group \in Maybe(<<Make("groupName", {}), Give("groupName", "key")>>) }

KeylessImportKeyId ==
  { Straight(<<Had("key", "openssl")>> \o id) : id \in Maybe(<<New("keyId", {}), Give("keyId", "key")>>) }

\* The parts that could be imported before one failed stay in the key.
KeylessImport ==
  LET part(x) == Maybe(<<New(x, {"key"}), Give(x, "key")>>)
  IN  { Straight(<<Call({}), Had("key", "openssl")>> \o rsa \o ec \o id) :
          rsa \in part("n"), ec \in part("ecPoint"), id \in part("keyId") }
      \cup One(<<Had("key", "openssl"), Stop>>)

\* The four numbers of two RSA keys, whichever of them could be made.
KeylessMatch ==
  LET bns == <<"an", "bn", "ae", "be">>
  IN  { Script(<<Call({})>> \o Attempt(bns, made, {}) \o <<Call(made)>>, Frees(bns)) : made \in SUBSET Range(bns) }
      \cup One(<<Call({}), Call({})>>)

KeylessGetRsaParams ==
  LET param(b) == Maybe(<<New(b, {}), Else(Call({b}), <<Free(b)>>), Free(b)>>)
  IN  { Straight(<<Call({})>> \o n \o e) : n \in param("bn"), e \in param("be") }

----------------------------------------------------------------------------
(* provider_signature.c                                                      *)

\* Every round of the loop can fail, and then releases the digest context.
Mgf1 ==
  LET P(i) == <<Else(Call({"ctx"}), <<Free("ctx")>>)>>
  IN  { Straight(<<Call({}), Call({}), New("ctx", {})>> \o rounds \o <<Free("ctx")>>) : rounds \in Loop(P, 2) }

KeylessPssComputeDigest ==
  LET gone == Frees(<<"hash_ctx", "mprime">>)
  IN  One(<<New("mprime", {}), Else(Call({"mprime"}), <<Free("mprime")>>),
            Else(New("hash_ctx", {}), <<Free("mprime")>>), Else(Call({"hash_ctx", "mprime"}), gone)>> \o gone)

\* What could be allocated of salt, db and dbmask (salt only if it has a
\* length) is released by KeylessPssCleanupBuffers on every way out.
EncodePss ==
  LET buffers == {<<"salt", "db", "dbmask">>, <<"db", "dbmask">>}
  IN  UNION { { Script(<<Call({}), Call({})>> \o Attempt(xs, made, {})
                       \o <<Call(made), Call(made), Call(made), Call(made), Use(made)>>, Frees(xs)) :
                  made \in SUBSET Range(xs) } : xs \in buffers }

KeylessSigNewctx == One(<<New("c", {}), Use({"c"}), Give("c", "openssl")>>)

\* The message slot is copied before the context goes; the key's reference first.
KeylessSigFreectx ==
  { Straight(<<Had("c", "openssl")>> \o key \o <<Use({"c"}), Free("keyData"), Free("c"), Drop("c")>>) :
      key \in Maybe(<<Had("keyData", "c")>>) }

\* A context that is initialised again gives up the key it held.
KeylessSigInitInternal ==
  { Straight(<<Had("c", "openssl")>> \o old \o <<Had("keydata", "c"), Use({"keydata"})>>) :
      old \in Maybe(<<Had("oldKey", "c"), Free("oldKey"), Drop("oldKey")>>) }

\* The reference is taken first: it is the context's even if a parameter is bad.
KeylessSigSignInit ==
  { Straight(<<Had("c", "openssl"), Call({})>> \o old
             \o <<Make("keydata", {}), Give("keydata", "c"), Call({"c"}), Use({"c"})>>) :
      old \in Maybe(<<Had("oldKey", "c"), Use({"oldKey"}), Free("oldKey"), Drop("oldKey")>>) }

KeylessSigDigestSignInit ==
  { Straight(<<Had("c", "openssl"), Call({})>> \o old
             \o <<Make("keydata", {}), Give("keydata", "c"), Use({"c"}), Call({"c"}), Use({"c"})>>) :
      old \in Maybe(<<Had("oldKey", "c"), Use({"oldKey"}), Free("oldKey"), Drop("oldKey")>>) }

KeylessSigDupctx ==
  { Straight(<<Had("src", "openssl"), New("c", {"src"})>> \o key \o <<Give("c", "openssl")>>) :
      key \in Maybe(<<Make("keyData", {}), Give("keyData", "c")>>) }

\* An answer without a length is lost; one that is too long is released.
KeylessRsaInvokeRemote ==
  { Straight(<<New("remote", {}), Else(Call({"remote"}), <<Free("remote")>>), Use({"remote"}), Free("remote")>>),
    Straight(<<New("remote", {}), Stop>>) }

\* em goes on every way out, the remote's answer inside KeylessRsaInvokeRemote.
KeylessRsaSign ==
  { Straight(<<Call({})>>),
    Script(<<Call({}), Call({}), Call({}), New("em", {}), Call({"em"}), Call({"em"})>>, <<Free("em")>>) }

\* Whatever the answer is, or is not, it is released; siglen is never null.
KeylessEcdsaSign ==
  One(<<Call({}), Call({})>>)
  \cup One(<<Call({}), Call({}), New("out", {}), Else(Call({"out"}), <<Free("out")>>),
             Else(Call({"out"}), <<Free("out")>>), Else(Call({"out"}), <<Free("out")>>), Free("out")>>)

----------------------------------------------------------------------------
(* provider_asymcipher.c                                                     *)

KeylessAcNewctx == One(<<New("ctx", {}), Use({"ctx"}), Give("ctx", "openssl")>>)

\* With the log on, the message slot inside the context is read after the
\* context was released.
KeylessAcFreectx ==
  { Straight(<<Had("c", "openssl")>> \o key \o <<Use({"c"}), Free("keyData"), Free("c"), Drop("c")>> \o log) :
      key \in Maybe(<<Had("keyData", "c")>>), log \in Maybe(<<Use({"c"})>>) }

KeylessAcDupctx ==
  { Straight(<<Had("c", "openssl"), New("n", {"c"})>> \o key \o <<Give("n", "openssl")>>) :
      key \in Maybe(<<Make("keyData", {}), Give("keyData", "n")>>) }

\* The context keeps the reference even when the type or the padding is refused;
\* the key of an earlier init is overwritten, and its reference with it.
AcInit ==
  { Straight(<<Had("c", "openssl")>> \o old.had \o <<Call({}), Call({}), Make("keydata", {})>> \o old.gone
             \o <<Give("keydata", "c"), Use({"c"}), Call({"c"}), Call({"c"})>>) :
      old \in { [had |-> <<>>, gone |-> <<>>],
                [had |-> <<Had("oldKey", "c")>>, gone |-> <<Drop("oldKey")>>] } }
KeylessAcDecryptInit == AcInit
KeylessAcEncryptInit == AcInit

\* A remote that fails, or answers too much, is not an error of the call.
KeylessAcDecrypt ==
  LET end == Frees(<<"cipher", "em", "remote">>)
      remote == {<<>>} \cup {<<Make("remote", {"cipher"})>> \o used :
                               used \in {<<>>, <<Call({"remote"})>>, <<Call({"remote", "em"}), Use({"em"})>>}}
  IN  { Script(<<Call({}), Call({}), Call({})>> \o bufs \o <<Call({"cipher", "em"})>> \o answer, end) :
          bufs \in Both("cipher", "em", {}, <<>>), answer \in remote }

\* Five objects are tried, whichever could be made go, then em.
KeylessAcEncrypt ==
  LET bns == <<"bnN", "bnE", "bnM", "bnC", "bnCtx">>
      em == <<Free("em")>>
  IN  { Straight(<<Call({}), New("em", {}), Else(Call({"em"}), em), Else(Call({"em"}), em),
                   Else(Call({"em"}), em)>> \o tried \o <<Else(Call({"bnC"}), Reverse(Frees(bns)) \o em)>>
                 \o Reverse(Frees(bns)) \o em) :
          tried \in { LET a == Attempt(bns, made, {"em"})
                      IN  [i \in DOMAIN a |-> Else(a[i], Reverse(Frees(bns)) \o em)] : made \in SUBSET Range(bns) } }

----------------------------------------------------------------------------
KeylessFunctions ==
  "KeylessEnsureEntryLocked" :> KeylessEnsureEntryLocked @@
  "KeylessClearCallbacks" :> KeylessClearCallbacks @@
  "KeylessProviderNewctx" :> KeylessProviderNewctx @@
  "BioCreate" :> BioCreate @@
  "BioDestroy" :> BioDestroy @@
  "CreateMethod" :> CreateMethod @@
  "CertIssuerSerialSha256Hex" :> CertIssuerSerialSha256Hex @@
  "GetCertSha256Hex" :> GetCertSha256Hex @@
  "CJ_TLS_GetCertId" :> CJ_TLS_GetCertId @@
  "KeylessKeyFree" :> KeylessKeyFree @@
  "KeylessImportRsa" :> KeylessImportRsa @@
  "KeylessStrndup" :> KeylessStrndup @@
  "KeylessImportEc" :> KeylessImportEc @@
  "KeylessImportKeyId" :> KeylessImportKeyId @@
  "KeylessImport" :> KeylessImport @@
  "KeylessMatch" :> KeylessMatch @@
  "KeylessGetRsaParams" :> KeylessGetRsaParams @@
  "Mgf1" :> Mgf1 @@
  "KeylessPssComputeDigest" :> KeylessPssComputeDigest @@
  "EncodePss" :> EncodePss @@
  "KeylessSigNewctx" :> KeylessSigNewctx @@
  "KeylessSigFreectx" :> KeylessSigFreectx @@
  "KeylessSigInitInternal" :> KeylessSigInitInternal @@
  "KeylessSigSignInit" :> KeylessSigSignInit @@
  "KeylessSigDigestSignInit" :> KeylessSigDigestSignInit @@
  "KeylessSigDupctx" :> KeylessSigDupctx @@
  "KeylessRsaInvokeRemote" :> KeylessRsaInvokeRemote @@
  "KeylessRsaSign" :> KeylessRsaSign @@
  "KeylessEcdsaSign" :> KeylessEcdsaSign @@
  "KeylessAcNewctx" :> KeylessAcNewctx @@
  "KeylessAcFreectx" :> KeylessAcFreectx @@
  "KeylessAcDupctx" :> KeylessAcDupctx @@
  "KeylessAcDecryptInit" :> KeylessAcDecryptInit @@
  "KeylessAcEncryptInit" :> KeylessAcEncryptInit @@
  "KeylessAcDecrypt" :> KeylessAcDecrypt @@
  "KeylessAcEncrypt" :> KeylessAcEncrypt
=============================================================================
