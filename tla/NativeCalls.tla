----------------------------- MODULE NativeCalls -----------------------------
(* A native function at work: its script is carried out step by step, and any *)
(* step that can fail may fail. An object is "null" until it is created, then *)
(* "live", then "freed"; `by' is who it belongs to, "me" being the function   *)
(* itself and "nobody" meaning that nothing points to it; `wiped' is whether  *)
(* its content has been overwritten.                                           *)
EXTENDS TlsCalls, KeylessCalls, CryptoCalls

\* Every function described: name -> the scripts of its cases.
Functions == TlsFunctions @@ KeylessFunctions @@ CryptoFunctions

VARIABLES
  fn,      \* the function called
  todo,    \* the steps left
  last,    \* the clean-up part of the script
  heap,    \* the objects met so far: [st, by, wiped]
  failed,  \* a step has failed
  returned \* the function has returned

callVars == <<fn, todo, last, heap, failed, returned>>

Object(x) == IF x \in DOMAIN heap THEN heap[x] ELSE [st |-> "null", by |-> "me", wiped |-> FALSE]
Holds(o) == {x \in DOMAIN heap : heap[x].by = o}
Inside(o) == {o} \cup Holds(o) \cup UNION {Holds(x) : x \in Holds(o)}

With(x, st, by) == (x :> [Object(x) EXCEPT !.st = st, !.by = by]) @@ heap

\* What a step does to the objects when it does not fail.
After(s) ==
  CASE s.op \in {"new", "make"} -> With(s.x, "live", "me")
    [] s.op = "had" -> With(s.x, "live", s.to)
    [] s.op \in {"give", "trygive"} -> With(s.x, Object(s.x).st, s.to)
    [] s.op = "drop" -> With(s.x, Object(s.x).st, "nobody")
    [] s.op = "wipe" /\ Object(s.x).st # "null" -> [heap EXCEPT ![s.x].wiped = TRUE]
    [] s.op = "free" /\ Object(s.x).st # "null" -> With(s.x, "freed", Object(s.x).by)
    [] s.op = "destroy" /\ Object(s.x).st # "null" ->
         [x \in DOMAIN heap |-> IF x \in Inside(s.x) THEN [heap[x] EXCEPT !.st = "freed"] ELSE heap[x]]
    [] OTHER -> heap

CallInit ==
  /\ fn \in DOMAIN Functions
  /\ \E s \in Functions[fn] : todo = s.body \o s.last /\ last = s.last
  /\ heap = [x \in {} |-> 0] /\ failed = FALSE /\ returned = FALSE

Succeed ==
  /\ todo # <<>> /\ Head(todo).op # "stop" /\ heap' = After(Head(todo)) /\ todo' = Tail(todo)
  /\ UNCHANGED <<fn, last, failed, returned>>

Fail ==
  /\ todo # <<>> /\ ~failed /\ Head(todo).op \in Fallible
  /\ todo' = Head(todo).undo \o last /\ failed' = TRUE
  /\ UNCHANGED <<fn, last, heap, returned>>

Return ==
  /\ todo = <<>> /\ ~returned /\ returned' = TRUE
  /\ UNCHANGED <<fn, todo, last, heap, failed>>

CallNext == Succeed \/ Fail \/ Return
CallSpec == CallInit /\ [][CallNext]_callVars

----------------------------------------------------------------------------
Reads(s) == s.uses \cup (IF s.op \in {"give", "trygive"} THEN {s.x} ELSE {})
Releases(s) == IF s.op \in {"free", "destroy", "wipe"} THEN {s.x} ELSE {}

\* Read after its release by the code as it is.
KnownReads == {<<"KeylessAcFreectx", "c">>}

\* No step reads an object that has been released or was never created, and
\* none releases an object twice, on any path through a function.
NoUseAfterFree ==
  todo # <<>> => /\ \A x \in Reads(Head(todo)) : Object(x).st = "live" \/ <<fn, x>> \in KnownReads
                 /\ \A x \in Releases(Head(todo)) : Object(x).st # "freed"

\* Lost by the code as it is: see "Known deviations" in the README.
KnownLeaks == {<<"GetAllCipherSuites", "ctx">>, <<"CreateContext", "ctx">>, <<"AlwaysAccepting", "ref">>,
               <<"KeylessImportRsa", "bnN">>, <<"KeylessRsaInvokeRemote", "remote">>, <<"CreateMethod", "m">>, <<"CreateCert", "serial">>,
               <<"GetX509ExtKeyUsage", "oid">>, <<"AddName", "n">>, <<"ReqAddExtension", "ex">>,
               <<"ReqAddExtension", "exts">>, <<"KeylessAcDecryptInit", "oldKey">>,
               <<"KeylessAcEncryptInit", "oldKey">>}

Lost == {x \in DOMAIN heap : /\ heap[x].st = "live"
                             /\ \/ heap[x].by \in {"me", "nobody"}
                                \/ Object(heap[x].by).st = "freed"
                                \/ failed /\ heap[x].by = "caller"}

\* Released, but somebody who outlives the call still points to it.
Dangling == {x \in DOMAIN heap : /\ heap[x].st = "freed" /\ heap[x].by \notin {"me", "nobody"}
                                 /\ Object(heap[x].by).st # "freed"}

\* When a function returns, whatever failed on the way, everything it created
\* has been released or belongs to somebody who will release it, nobody is
\* left with a pointer to what was released, and a function that failed has
\* handed nothing to its caller.
NothingLost ==
  returned => /\ Dangling = {}
              /\ \A x \in Lost : <<fn, x>> \in KnownLeaks

\* Left as they are: the password of a call that is refused for its arguments
\* (encryption: without a place for the exception; decryption: for any of them),
\* and the numbers of a decrypted key that no buffer can be had for.
KnownUnwiped(x) ==
  \/ fn = "X509EncryptPrivateKey" /\ "exception" \notin DOMAIN heap
  \/ fn = "X509DecryptPrivateKey" /\ x = "password" /\ "results" \notin DOMAIN heap
  \/ fn = "X509DecryptPrivateKey" /\ x = "numbers" /\ "buffer" \notin DOMAIN heap

\* The password of a call and those numbers of the key it parsed that
\* WipePrivateKeyData reaches (of an RSA key the exponents, not the primes) are
\* overwritten, whatever step fails (keys.c: "wipe it here on every return
\* path"), but for the cases above.
SecretsWiped ==
  returned => \A x \in {"password", "numbers"} \cap DOMAIN heap : heap[x].wiped \/ KnownUnwiped(x)
=============================================================================
