----------------------------- MODULE CryptoCalls -----------------------------
(* What the functions of stdx.crypto's native part do to the objects they    *)
(* create and are given (src/stdx/crypto/keys/native, x509/native): private  *)
(* keys read, encrypted and described, certificates, requests, their names.  *)
EXTENDS TlsCalls

----------------------------------------------------------------------------
(* crypto_errors.c is errors.c of the TLS library over again.                *)

X509ExceptionClear == ExceptionClear

X509HandleError ==
  Reporting(<<Call({}), New("buffer", {}), Use({"buffer"}), Call({"buffer"})>>)

\* FormatFailedAssertionError and X509FormatNullAssertionError.
X509AssertionError == Reporting(<<New("buffer", {}), Use({"buffer"})>>)

----------------------------------------------------------------------------
(* keys.c, compat.c                                                          *)

\* The context takes the label over, unless it refuses it.
OAEPSetting == One(<<Call({}), New("label", {}), Else(TryGive("label", "ctx"), <<Free("label")>>)>>)

KeysInitBioWithPem ==
  One(<<Call({}), New("mem", {}), Else(Call({"mem"}), <<Free("mem")>>), Give("mem", "caller")>>)

\* Every stage is left out once one has failed; the context goes either way.
DecryptKeyImpl ==
  { Script(<<Call({}), New("cipher", {}), Call({"cipher"}), Call({"cipher"}), Call({"cipher"})>>,
           <<Free("cipher")>>) }

\* A key followed by anything else is not a key.
DecodePrivateKey == One(<<New("key", {}), Else(Call({}), <<Free("key")>>), Give("key", "caller")>>)

\* Keys encrypted in the way of PEM: the password is wiped once a key for the
\* cipher is made of it, and the text decrypted goes whether or not it is a key.
DecryptKey ==
  LET start == <<Had("pass", "argument"), Call({}), Call({"pass"}), Call({"pass"}), Wipe("pass")>>
  IN  { Script(start \o <<New("text", {}), Call({"text"}), New("key", {"text"}), Give("key", "caller")>>,
               <<Free("text")>>) }

\* With a cipher and an initial vector DecryptKey has its own way; a PKCS8 key
\* without a password is refused.
LoadEncryptedKey ==
  LET start == <<Had("pass", "argument"), Call({}), New("mem", {})>>
  IN  { Straight(<<Had("pass", "argument"), Call({}), New("key", {"pass"}), Give("key", "caller")>>),
        Straight(start \o <<Else(Stop, <<Free("mem")>>)>>),
        Straight(start \o <<Else(New("key", {"mem", "pass"}), <<Free("mem"), Wipe("pass")>>), Free("mem"),
                            Wipe("pass"), Give("key", "caller")>>) }

KeysIsEncryptedPkcs8Key == IsEncryptedPkcs8Key

KeysLoadPrivateKey == One(<<Call({}), Call({}), Call({}), New("key", {}), Give("key", "caller")>>)

\* The encoded form of the key k, `done' being what the callers do after it.
EncryptPrivateKeyImpl(k, done) ==
  LET release == <<Free("p8info"), Destroy("p8")>>
      encoding == <<Else(Call({}), done), Else(New("p8info", {k}), done),
                    Else(New("algorithm", {}), <<Free("p8info")>> \o done),
                    Else(New("p8", {"p8info", "algorithm"}), <<Free("p8info"), Free("algorithm")>> \o done),
                    Give("algorithm", "p8"), Else(New("mem", {}), release \o done)>>
      copied == <<Else(New("body", {"mem"}), <<Free("mem")>> \o release \o done),
                  Free("mem")>> \o release \o <<Give("body", "caller")>>
      empty == <<Free("mem")>> \o release
      failed == empty \o <<Else(Stop, done)>>
  IN  {encoding \o end : end \in {copied, empty, failed}}

EncryptPrivateKey ==
  LET done == <<Wipe("password")>>
  IN  { Straight(<<Had("password", "argument"), Had("key", "argument")>> \o s \o done) :
          s \in EncryptPrivateKeyImpl("key", done) }

\* WipePrivateKeyData does what it can. The numbers it asks the accessors of a
\* key's type for (not the primes of RSA) are cleared, through a reference that is
\* then dropped; of a key of any other type, or one OpenSSL keeps to itself, none.
KindsOfKey(k) ==
  { [numbers |-> <<Make("numbers", {k}), Give("numbers", k)>>,
     wiping |-> <<Make("ref", {k}), Wipe("numbers"), Free("ref")>>],
    [numbers |-> <<>>, wiping |-> <<>>] }

WipePrivateKeyData ==
  {Straight(<<Had("key", "argument")>> \o kind.numbers \o kind.wiping) : kind \in KindsOfKey("key")}

\* A call without a place for the exception ends before anything else is looked
\* at; the other tests of the arguments wipe the password.
EncryptionArguments ==
  <<Had("password", "argument"), Call({}), Had("exception", "argument"), Else(Call({}), <<Wipe("password")>>)>>

\* The key, encrypted, wiped and released, if loading it did not fail.
X509Encrypted(loaded) ==
  LET done(kind) == <<Wipe("password")>> \o kind.wiping \o <<Destroy("parsed")>>
  IN  UNION { { Straight(EncryptionArguments \o <<loaded>> \o kind.numbers \o s \o done(kind)) :
                  s \in EncryptPrivateKeyImpl("parsed", done(kind)) } : kind \in KindsOfKey("parsed") }

\* Mutant: a key that cannot be loaded ends the call at once.
X509EncryptPrivateKeyReturns == X509Encrypted(New("parsed", {}))

X509EncryptPrivateKey == X509Encrypted(Else(New("parsed", {}), <<Wipe("password")>>))

\* Mutant: the key is released before it is described.
X509DescribePrivateKeyFreed ==
  One(<<Call({}), New("key", {}), Free("key"), New("message", {"key"}), Give("message", "caller")>>)

X509DescribePrivateKey ==
  One(<<Call({}), New("key", {}), Else(New("message", {"key"}), <<Free("key")>>), Free("key"),
        Give("message", "caller")>>)

\* The description in a buffer, copied out of it if it can be.
DescribeKey ==
  { Straight(<<Had("key", "argument"), New("buffer", {}), Else(Call({"key"}), <<Free("buffer")>>)>>
             \o <<Use({"buffer"}), Else(New("message", {"buffer"}), <<Free("buffer")>>), Free("buffer"),
                  Give("message", "caller")>>) }

\* The tests of the arguments, the exception first, leave the password as it is;
\* once they are over the results are cleared, and the password goes before it is
\* known whether there is a key. Encoding may fail, and the copy and the
\* description may be null in a call that succeeds.
X509DecryptPrivateKey ==
  LET done(kind) == <<Free("buffer")>> \o kind.wiping \o <<Destroy("parsed")>>
      start(kind) == <<Had("password", "argument"), Call({}), Call({}), Had("results", "argument"),
                       Else(New("parsed", {"password"}), <<Wipe("password")>>)>>
                     \o kind.numbers \o <<Wipe("password"), Else(New("buffer", {}), <<Destroy("parsed")>>)>>
      given(xs) == [i \in 1 .. Len(xs) |-> Give(xs[i], "caller")]
      encoded(xs) == [i \in 1 .. Len(xs) |-> Make(xs[i], {"buffer", "parsed"})]
  IN  { Straight(start(kind) \o <<Else(Call({"parsed", "buffer"}), done(kind))>> \o encoded(xs)
                 \o done(kind) \o given(xs)) :
          kind \in KindsOfKey("parsed"), xs \in {<<>>, <<"body">>, <<"description">>, <<"body", "description">>} }

\* X509 public keys and DH parameters: decoded to see whether they can be.
DescribeDecoded == One(<<Call({}), New("key", {}), Else(Call({}), <<Free("key")>>), Free("key")>>)
DescribePublicKey == DescribeDecoded
DescribeDHParameters == DescribeDecoded

----------------------------------------------------------------------------
(* der_cert.c                                                                *)

DataClone == One(<<New("temp", {}), Else(Call({}), <<Free("temp")>>), Give("temp", "caller")>>)

\* An empty value adds nothing.
AddExt == One(<<>>) \cup { Script(<<New("ex", {}), Call({"ex"})>>, <<Free("ex")>>) }

\* The number is made when it could not be before; what the serial number is
\* built into takes the place of the one there was, and is null when it fails.
CreateCert ==
  LET numbers == <<Free("bn"), Free("serial"), Free("cert")>>
      set == Else(Call({"cert"}), <<Free("cert")>>)
      time == Else(Call({"cert", "tm"}), <<Free("tm"), Free("cert")>>)
      filled == <<Else(New("bn", {}), numbers),
                  Else(New("serial", {"bn"}), <<Drop("serial"), Free("bn"), Free("cert")>>),
                  Else(Call({"cert", "serial"}), numbers), Free("bn"), Free("serial"),
                  Else(New("tm", {}), <<Free("cert")>>), time, time, time, time, Free("tm")>>
      \* subject, issuer, public key, three extensions, signature
      signed == <<set, set, set, set, set, set, set, Give("cert", "caller")>>
  IN  { Straight(<<New("cert", {}), set>> \o serial \o bn \o filled \o signed) :
          serial \in Maybe(<<Make("serial", {})>>), bn \in Maybe(<<Make("bn", {})>>) }

\* Public and private keys and names: what is followed by anything is refused.
GetPtr == One(<<New("key", {}), Else(Call({}), <<Free("key")>>), Give("key", "caller")>>)
GetPubKeyPtr == GetPtr
GetPriKeyPtr == GetPtr
GetNamePtr == GetPtr

\* Names and addresses: an entry that cannot be copied is left empty.
StoreResultByType ==
  LET copy(i) == <<"c1", "c2">>[i]
      P(i) == <<Make(copy(i), {"names"}), Give(copy(i), "array")>>
  IN  { Straight(<<Had("names", "argument"), New("array", {"names"})>> \o copies
                 \o <<Give("array", "caller")>>) : copies \in Loop(P, 2) }
StoreIPResult == StoreResultByType

GetX509ExtensionByNameType ==
  { Straight(<<Call({}), New("cert", {})>> \o names \o <<Free("cert")>>) :
      names \in Maybe(<<Else(New("names", {"cert"}), <<Free("cert")>>), Use({"names"}), Destroy("names")>>) }

GetX509KeyUsage ==
  { Straight(<<New("cert", {})>> \o usage \o <<Free("cert")>>) :
      usage \in Maybe(<<Make("usage", {"cert"}), Use({"usage"}), Free("usage")>>) }

StoreExtKeyUsageResult ==
  One(<<Had("usages", "argument"), New("array", {"usages"}), Use({"usages"}), Give("array", "caller")>>)

\* The stack of the usages is released, what is in it is not.
GetX509ExtKeyUsage ==
  { Straight(<<New("cert", {})>> \o usages \o <<Free("cert")>>) :
      usages \in Maybe(<<Else(New("usages", {"cert"}), <<Free("cert")>>), Make("oid", {}), Give("oid", "usages"),
                         Use({"usages"}), Free("usages")>>) }

X509StoreRawCert ==
  { Script(<<Had("chains", "argument"), New("root", {}), Call({"chains", "root"}), Make("ref", {"root"}),
             Give("ref", "chains")>>, <<Free("root")>>) }

\* One clean-up for every way out; the chain goes with its certificates.
VerifyX509Cert ==
  LET cert(i) == <<"i1", "i2">>[i]
      P(i) == <<New(cert(i), {}), Else(TryGive(cert(i), "untrusted"), <<Free(cert(i))>>)>>
      Root(i) == <<Call({"chains"})>>
  IN  { Script(<<New("cert", {}), New("chains", {})>> \o roots \o chain \o
               <<New("ctx", {}), Call({"ctx", "chains", "cert"}), Call({"ctx"})>>,
               <<Free("ctx"), Destroy("untrusted"), Free("chains"), Free("cert")>>) :
          roots \in Loop(Root, 2),
          chain \in {<<>>} \cup {<<New("untrusted", {})>> \o c : c \in Loop(P, 2) \ {<<>>}} }

GetX509ReqExtensionByNameType ==
  { Straight(<<Call({}), New("req", {}), Else(New("extlist", {"req"}), <<Free("req")>>), Use({"extlist"})>>
             \o names \o <<Destroy("extlist"), Free("req")>>) :
      names \in Maybe(<<Make("names", {"extlist"}), Use({"names"}), Destroy("names")>>) }

\* Nothing is released when the name cannot be added.
AddName ==
  One(<<Had("names", "argument"), Call({"names"})>>)
  \cup One(<<Had("names", "argument"), Make("n", {}), TryGive("n", "names")>>)

ReqAddExtension ==
  One(<<Had("req", "argument"), Make("ex", {}), New("exts", {}), TryGive("ex", "exts"),
        Else(Call({"req", "exts"}), <<Destroy("exts")>>), Destroy("exts")>>)

----------------------------------------------------------------------------
(* rootca.c (Windows): asking for the next certificate releases the one      *)
(* before it; one that cannot be decoded is left out.                        *)
SystemRootCerts ==
  LET context(i) == <<"p1", "p2">>[i]
      decoded == Maybe(<<Make("x509", {}), Use({"x509", "bio"}), Free("x509")>>)
      next(i) == IF i = 1 THEN <<>> ELSE <<Free(context(i - 1))>>
      entry(i, d) == next(i) \o <<Make(context(i), {"store"})>> \o d
      enumerated == {<<>>} \cup {entry(1, d) \o <<Free("p1")>> : d \in decoded}
                    \cup {entry(1, d) \o entry(2, e) \o <<Free("p2")>> : d \in decoded, e \in decoded}
  IN  { Script(<<New("bio", {}), New("store", {})>> \o certs \o <<New("text", {"bio"}), Give("text", "caller")>>,
               <<Free("bio"), Free("store")>>) : certs \in enumerated }

----------------------------------------------------------------------------
CryptoFunctions ==
  "X509ExceptionClear" :> X509ExceptionClear @@
  "X509HandleError" :> X509HandleError @@
  "X509AssertionError" :> X509AssertionError @@
  "OAEPSetting" :> OAEPSetting @@
  "KeysInitBioWithPem" :> KeysInitBioWithPem @@
  "DecryptKeyImpl" :> DecryptKeyImpl @@
  "DecodePrivateKey" :> DecodePrivateKey @@
  "DecryptKey" :> DecryptKey @@
  "LoadEncryptedKey" :> LoadEncryptedKey @@
  "KeysIsEncryptedPkcs8Key" :> KeysIsEncryptedPkcs8Key @@
  "KeysLoadPrivateKey" :> KeysLoadPrivateKey @@
  "EncryptPrivateKey" :> EncryptPrivateKey @@
  "WipePrivateKeyData" :> WipePrivateKeyData @@
  "X509EncryptPrivateKey" :> X509EncryptPrivateKey @@
  "X509DescribePrivateKey" :> X509DescribePrivateKey @@
  "DescribeKey" :> DescribeKey @@
  "X509DecryptPrivateKey" :> X509DecryptPrivateKey @@
  "DescribePublicKey" :> DescribePublicKey @@
  "DescribeDHParameters" :> DescribeDHParameters @@
  "DataClone" :> DataClone @@
  "AddExt" :> AddExt @@
  "CreateCert" :> CreateCert @@
  "GetPubKeyPtr" :> GetPubKeyPtr @@
  "GetPriKeyPtr" :> GetPriKeyPtr @@
  "GetNamePtr" :> GetNamePtr @@
  "StoreResultByType" :> StoreResultByType @@
  "StoreIPResult" :> StoreIPResult @@
  "GetX509ExtensionByNameType" :> GetX509ExtensionByNameType @@
  "GetX509KeyUsage" :> GetX509KeyUsage @@
  "StoreExtKeyUsageResult" :> StoreExtKeyUsageResult @@
  "GetX509ExtKeyUsage" :> GetX509ExtKeyUsage @@
  "X509StoreRawCert" :> X509StoreRawCert @@
  "VerifyX509Cert" :> VerifyX509Cert @@
  "GetX509ReqExtensionByNameType" :> GetX509ReqExtensionByNameType @@
  "AddName" :> AddName @@
  "ReqAddExtension" :> ReqAddExtension @@
  "SystemRootCerts" :> SystemRootCerts
=============================================================================
