------------------------------ MODULE TlsCalls ------------------------------
(* What the functions of stdx.net.tls's native part do to the objects they   *)
(* create, are given and keep (src/stdx/net/tls/native): sessions, ALPN,     *)
(* cipher suites, DH parameters, certificates and keys, contexts, errors.    *)
EXTENDS NativeSteps

----------------------------------------------------------------------------
(* errors.c: a message is built in a memory BIO; the exception holds at most *)
(* one message.                                                              *)

\* The message the exception had, if any, is folded into the new one.
AppendErrorMessage ==
  { old \o <<New("message", {"buffer"}), Give("message", "exception")>> :
      old \in Maybe(<<Use({"buffer", "old"}), Free("old"), Drop("old")>>) }

Reporting(start) ==
  { Script(<<Had("old", "exception")>> \o start \o append, <<Free("buffer")>>) :
      append \in {a \in AppendErrorMessage : Len(a) > 2} }
  \cup
  { Script(start \o append, <<Free("buffer")>>) :
      append \in {a \in AppendErrorMessage : Len(a) = 2} }

\* With an empty error queue (first call) or no buffer, the constant text.
HandleError ==
  Reporting(<<Call({}), New("buffer", {}), Use({"buffer"})>>)

HandleAlertError == Reporting(<<New("buffer", {}), Use({"buffer"})>>)

FormatFailedAssertionError == Reporting(<<New("buffer", {}), Use({"buffer"})>>)

FormatNullAssertionError == Reporting(<<New("buffer", {}), Use({"buffer"})>>)

ExceptionClear ==
  { Straight(old) : old \in Maybe(<<Had("old", "exception"), Free("old"), Drop("old")>>) }

----------------------------------------------------------------------------
(* sessions.c                                                                *)

\* The encoded form is released whether or not it could be decoded.
CopySession ==
  One(<<Had("session", "argument"), New("der", {"session"}),
        Else(New("copy", {"der"}), <<Free("der")>>), Free("der"),
        Use({"session", "copy"}), Give("copy", "caller")>>)

\* SetSession and AddSession: a session that cannot be resumed is set as a
\* copy, which the SSL (the cache of the context) takes a reference of.
SetOrAddSession(holder) ==
  LET set(s) == <<Call({s}), Make("ref", {s}), Give("ref", holder)>>
  IN  { Straight(<<Had("session", "argument"), Call({})>> \o set("session")),
        Script(<<Had("session", "argument"), Call({}), New("copy", {"session"})>>
               \o set("copy"), <<Free("copy")>>) }

SetSession == SetOrAddSession("stream")
AddSession == SetOrAddSession("ctx")

\* The store takes a reference of the copy while the callback holds its own.
NewSessionCallback ==
  One(<<Had("session", "openssl"), Call({"session"}), New("copy", {"session"}),
        Make("ref", {"copy"}), Give("ref", "store"), Free("copy")>>)

\* findSession has taken the reference; the copy is made before it is released.
GetSessionCallback ==
  One(<<Call({}), New("result", {}), Else(New("copy", {"result"}), <<Free("result")>>),
        Free("result"), Give("copy", "caller")>>)

RemoveSessionCallback == One(<<Had("session", "openssl"), Call({"session"}), Use({"session"})>>)

SetSessionIdContext == One(<<Call({}), Call({}), Use({}), Call({})>>)

----------------------------------------------------------------------------
(* alpn.c: the protocols of a server live in a slot of the context.          *)

ServerAlpnProtosDataInit ==
  One(<<Call({}), New("data", {}), Else(New("protos", {}), <<Free("data")>>),
        Else(Call({"protos"}), <<Free("protos"), Free("data")>>),
        Give("protos", "data"), Give("data", "caller")>>)

\* Clearing the slot, then filling it. Only with a slot that is new may
\* OpenSSL have to allocate, and fail.
AlpnClear(filled, release) ==
  IF filled THEN <<Free("old"), Drop("old")>> ELSE <<Else(Call({}), release)>>

SetServerAlpnProtos ==
  LET release == <<Free("protos"), Free("data")>>
      had(filled) == IF filled THEN <<Had("old", "ctx")>> ELSE <<>>
      fill(filled) == IF filled THEN Give("data", "ctx") ELSE Else(TryGive("data", "ctx"), release)
  IN  { Straight(had(filled)
                 \o <<Call({}), New("data", {}), Make("protos", {}), Give("protos", "data")>>
                 \o <<Else(Call({}), release)>> \o AlpnClear(filled, release)
                 \o <<fill(filled), Call({}), Use({"data"})>>) : filled \in BOOLEAN }

AlpnFreeCallback == { Straight(old) : old \in Maybe(<<Had("old", "ctx"), Free("old"), Drop("old")>>) }

AlpnSelectCallback ==
  One(<<Had("data", "ctx"), Call({}), Call({"data"}), Call({"data"})>>)

----------------------------------------------------------------------------
(* ciphers.c, dhparam.c, versions.c, hostname.c                              *)

GetCipherSuite ==
  One(<<Call({}), Call({}), New("suite", {}), Else(New("name", {}), <<Free("suite")>>),
        Give("name", "suite"), Give("suite", "caller")>>)

\* A suite that cannot be built is left out; a context without ciphers is
\* returned from without releasing it.
GetAllCipherSuites ==
  LET suite(i) == <<"s1", "s2">>[i]
      P(i) == <<Make(suite(i), {"ctx"}), Give(suite(i), "suites")>>
  IN  { Straight(<<New("ctx", {}), Call({"ctx"}), Else(Call({}), <<Free("ctx")>>),
                   Else(New("suites", {}), <<Free("ctx")>>)>>
                 \o parsed \o <<Free("ctx"), Give("suites", "caller")>>) : parsed \in Loop(P, 2) }

InitBioWithPem ==
  One(<<Call({}), New("mem", {}), Else(Call({"mem"}), <<Free("mem")>>), Give("mem", "caller")>>)

LoadDHParam ==
  { Script(<<Call({}), New("mem", {}), New("param", {"mem"}), Give("param", "caller")>>, <<Free("mem")>>) }

SetDHParam ==
  { Straight(<<Call({}), Call({})>>),
    Straight(<<Call({}), New("param", {}), Else(TryGive("param", "ctx"), <<Free("param")>>)>>) }

SetProtoVersions == One(<<Call({}), Call({}), Call({})>>)

\* The address test comes first; a name that is not an address falls through.
SetHostNameForVerify == { Straight(<<Call({}), Call({}), Use({})>>),
                          Straight(<<Call({}), Call({}), Use({}), Call({})>>) }

----------------------------------------------------------------------------
(* tls_keys_certs.c                                                          *)

\* The BIO goes on every path, whether or not a certificate could be read.
LoadCert ==
  { Script(<<Call({}), New("mem", {}), New("cert", {"mem"}), Give("cert", "caller")>>, <<Free("mem")>>) }

IsEncryptedPkcs8Key ==
  { Script(<<New("mem", {}), New("p8", {"mem"}), Use({"p8"}), Free("p8")>>, <<Free("mem")>>) }

LoadPrivateKey ==
  One(<<Call({}), Call({}), Call({}), Call({}), New("pkey", {}), Give("pkey", "caller")>>)

\* The store of the context takes a reference of its own.
AddCA ==
  One(<<Call({}), New("cert", {}), Else(Call({"cert"}), <<Free("cert")>>),
        Else(Call({"cert"}), <<Free("cert")>>), Make("ref", {"cert"}), Give("ref", "ctx"),
        Free("cert")>>)

UseCert ==
  One(<<Call({}), New("cert", {}), Else(Call({"cert"}), <<Free("cert")>>),
        Make("ref", {"cert"}), Give("ref", "ctx"), Free("cert")>>)

\* Mutant: the certificate is released as after a call that takes a reference.
AddCertFrees == One(<<Call({}), New("cert", {}), Else(TryGive("cert", "ctx"), <<Free("cert")>>), Free("cert")>>)

\* add0: the chain takes over the only reference, unless it fails.
AddCert == One(<<Call({}), New("cert", {}), Else(TryGive("cert", "ctx"), <<Free("cert")>>)>>)

\* One exit for success and failure; what was not made yet is a null pointer.
KeylessFromRsaPubkey ==
  { Script(<<New("n", {}), New("e", {}), New("nBuf", {"n"}), New("eBuf", {"e"}),
             Use({"n", "e", "nBuf", "eBuf"}), New("ctx", {}), Call({"ctx"}),
             New("out", {"ctx", "nBuf", "eBuf"}), Give("out", "caller")>>,
           <<Free("ctx"), Free("nBuf"), Free("eBuf"), Free("n"), Free("e")>>) }

KeylessFromEcPubkey ==
  { Script(<<Call({}), New("point", {}), Call({"point"}), Call({}), New("ctx", {}), Call({"ctx"}),
             New("out", {"ctx", "point"}), Give("out", "caller")>>,
           <<Free("ctx"), Free("point")>>) }

\* The thread's message slot is lent to the call and given back on every path;
\* the reference on the certificate is dropped as soon as the key is out.
CreateKeylessKeyFromCtx ==
  { Script(<<Make("lent", {}), Give("lent", "thread"), Call({}), Call({}), New("ownedCert", {})>>
           \o <<Else(New("pub", {"ownedCert"}), <<Free("ownedCert")>>), Free("ownedCert"),
                New("keyless", {"pub"}), Give("keyless", "caller")>>,
           <<Free("pub"), Free("lent"), Drop("lent")>>) }

\* use_PrivateKey takes its own reference: the function's goes on both ways out.
SetKeylessPrivateKey ==
  One(<<Call({}), Call({}), New("spkiHex", {}), Use({"spkiHex"}),
        Else(New("key", {"spkiHex"}), <<Free("spkiHex")>>), Free("spkiHex"),
        Else(Call({"key"}), <<Free("key")>>), Make("ref", {"key"}), Give("ref", "ctx"), Free("key")>>)

SetPrivateKey ==
  One(<<Call({}), New("key", {}), Else(Call({"key"}), <<Free("key")>>),
        Make("ref", {"key"}), Give("ref", "ctx"), Free("key")>>)

\* The chain is null when memory is out; the insertion's result is not looked
\* at, and the certificate's count goes up all the same.
AlwaysAccepting ==
  LET refs == <<Make("ref", {})>>
  IN  One(<<>>)
      \cup { Straight(<<New("chain", {})>> \o refs \o kept \o <<Give("chain", "openssl")>>) :
                kept \in Maybe(<<Give("ref", "chain")>>) }
      \cup One(refs)

\* The entries encoded so far, then the array.
CertChainFree(done) == [i \in 1 .. Len(done) |-> Free(done[i])] \o <<Free("certs")>>

Der == <<"der1", "der2">>

\* The chain is encoded entry by entry; entry i fails with i - 1 encoded.
EncodeChain(n) ==
  LET entry(i) == <<Else(Call({}), CertChainFree(SubSeq(Der, 1, i - 1))),
                    Else(New(Der[i], {}), CertChainFree(SubSeq(Der, 1, i - 1))),
                    Give(Der[i], "certs")>>
  IN  IF n = 1 THEN entry(1) ELSE entry(1) \o entry(2)

GetPeerCertificate ==
  { Straight(<<Call({}), Call({}), Call({}), New("certs", {})>> \o EncodeChain(n)
             \o <<Give("certs", "caller")>>) : n \in 1 .. 2 }

\* The callback written in Cangjie releases the chain it is given.
VerifyCallback ==
  One(<<Call({}), Call({}), Use({})>>)
  \cup { Straight(<<Call({}), Call({}), Call({}), New("certs", {})>> \o EncodeChain(n)
                  \o <<Give("certs", "callback")>>) : n \in 1 .. 2 }

----------------------------------------------------------------------------
(* tls-impl.c: contexts and connections                                      *)

\* Without the functions of the information callback the context is left.
CreateContext ==
  LET end == <<Free("ctx")>>
  IN  One(<<Call({}), New("ctx", {}), Call({"ctx"}), Use({"ctx"}),
            Else(Call({"ctx"}), end), Else(Call({"ctx"}), end), Else(Call({"ctx"}), end),
            Use({"ctx"}), Else(Call({"ctx"}), end), Give("ctx", "caller")>>)

CreateBio == One(<<Call({}), New("mem", {}), Give("mem", "caller")>>)

CreateSsl ==
  One(<<Call({}), New("ssl", {}), Else(New("read", {}), <<Destroy("ssl")>>),
        Else(New("write", {}), <<Free("read"), Destroy("ssl")>>),
        Give("read", "ssl"), Give("write", "ssl"), Use({"ssl"}), Give("ssl", "caller")>>)

FreeSsl == One(<<Had("ssl", "caller"), Had("read", "ssl"), Had("write", "ssl"), Destroy("ssl"), Drop("ssl")>>)

----------------------------------------------------------------------------
TlsFunctions ==
  "HandleError" :> HandleError @@
  "HandleAlertError" :> HandleAlertError @@
  "FormatFailedAssertionError" :> FormatFailedAssertionError @@
  "FormatNullAssertionError" :> FormatNullAssertionError @@
  "ExceptionClear" :> ExceptionClear @@
  "CopySession" :> CopySession @@
  "SetSession" :> SetSession @@
  "AddSession" :> AddSession @@
  "NewSessionCallback" :> NewSessionCallback @@
  "GetSessionCallback" :> GetSessionCallback @@
  "RemoveSessionCallback" :> RemoveSessionCallback @@
  "SetSessionIdContext" :> SetSessionIdContext @@
  "ServerAlpnProtosDataInit" :> ServerAlpnProtosDataInit @@
  "SetServerAlpnProtos" :> SetServerAlpnProtos @@
  "AlpnFreeCallback" :> AlpnFreeCallback @@
  "AlpnSelectCallback" :> AlpnSelectCallback @@
  "GetCipherSuite" :> GetCipherSuite @@
  "GetAllCipherSuites" :> GetAllCipherSuites @@
  "InitBioWithPem" :> InitBioWithPem @@
  "LoadDHParam" :> LoadDHParam @@
  "SetDHParam" :> SetDHParam @@
  "SetProtoVersions" :> SetProtoVersions @@
  "SetHostNameForVerify" :> SetHostNameForVerify @@
  "LoadCert" :> LoadCert @@
  "IsEncryptedPkcs8Key" :> IsEncryptedPkcs8Key @@
  "LoadPrivateKey" :> LoadPrivateKey @@
  "AddCA" :> AddCA @@
  "UseCert" :> UseCert @@
  "AddCert" :> AddCert @@
  "KeylessFromRsaPubkey" :> KeylessFromRsaPubkey @@
  "KeylessFromEcPubkey" :> KeylessFromEcPubkey @@
  "CreateKeylessKeyFromCtx" :> CreateKeylessKeyFromCtx @@
  "SetKeylessPrivateKey" :> SetKeylessPrivateKey @@
  "SetPrivateKey" :> SetPrivateKey @@
  "AlwaysAccepting" :> AlwaysAccepting @@
  "GetPeerCertificate" :> GetPeerCertificate @@
  "VerifyCallback" :> VerifyCallback @@
  "CreateContext" :> CreateContext @@
  "CreateBio" :> CreateBio @@
  "CreateSsl" :> CreateSsl @@
  "FreeSsl" :> FreeSsl
=============================================================================
