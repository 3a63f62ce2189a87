------------------------------ MODULE MCNative ------------------------------
(* The native library: a call of any of its functions, the keys of the        *)
(* keyless provider, its callbacks, the loader of OpenSSL. They share nothing *)
(* but the process, so that a behaviour is one of a single `part'.            *)
EXTENDS NativeCalls, KeylessKeys, KeylessRegistry, OpenSslLoader

VARIABLE part

nativeVars == <<part, callVars, keysVars, registryVars, loaderVars>>

CallIdle == /\ fn = "none" /\ todo = <<>> /\ last = <<>> /\ heap = [x \in {} |-> 0]
            /\ failed = FALSE /\ returned = FALSE
LoaderIdle == LoaderInit /\ installed = {"cfg.crypto", "env.ssl"} /\ ~env

NativeInit ==
  /\ part \in {"calls", "keys", "registry", "loader"}
  /\ KeysInit /\ RegistryInit
  /\ IF part = "calls" THEN CallInit ELSE CallIdle
  /\ IF part = "loader" THEN LoaderInit ELSE LoaderIdle

\* A call that has returned and a program that has ended do nothing more.
Ended ==
  /\ \/ part = "calls" /\ returned
     \/ part = "loader" /\ \E t \in LThreads : lpc[t] = "ended"
  /\ UNCHANGED <<callVars, loaderVars>>

NativeNext ==
  /\ UNCHANGED part
  /\ \/ part = "calls" /\ CallNext /\ UNCHANGED <<keysVars, registryVars, loaderVars>>
     \/ part = "keys" /\ KeysNext /\ UNCHANGED <<callVars, registryVars, loaderVars>>
     \/ part = "registry" /\ RegistryNext /\ UNCHANGED <<callVars, keysVars, loaderVars>>
     \/ part = "loader" /\ LoaderNext /\ UNCHANGED <<callVars, keysVars, registryVars>>
     \/ Ended /\ UNCHANGED <<keysVars, registryVars>>

NativeSpec == NativeInit /\ [][NativeNext]_nativeVars
=============================================================================
