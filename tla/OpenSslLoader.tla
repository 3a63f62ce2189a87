---------------------------- MODULE OpenSslLoader ----------------------------
(* How OpenSSL is found at run time (dynamicLoader/opensslSymbols.c, the      *)
(* dlopen build): the program may name the two libraries once, before the     *)
(* first use of a symbol; the first use selects the backend, under            *)
(* pthread_once; the libraries are closed when the program ends.              *)
EXTENDS Integers, Sequences

CONSTANT LThreads

\* Library files: named by the program or the environment, versioned, unversioned.
Cryptos == {"cfg.crypto", "env.crypto", "crypto.3", "crypto"}
Ssls == {"cfg.ssl", "env.ssl", "ssl.3", "ssl"}
Files == Cryptos \cup Ssls
None == "none"

\* A symbol of libcrypto, one of libssl, and one of libssl whose name does not
\* begin like those of libssl (PEM_read_bio_SSL_SESSION).
Symbols == {"EVP", "SSL", "PEM_SSL"}

VARIABLES
  installed,  \* the files that can be opened
  env,        \* both environment variables are set
  configured, \* g_hasConfiguredOpenSslPath, with both paths
  started,    \* g_hasStartedOpenSslLoad
  once,       \* pthread_once: "new", "running", "done"
  mode,       \* g_backendMode
  crypto, ssl,            \* g_singletonHandle, g_singletonHandleSsl
  cryptoOwned, sslOwned,
  open,       \* history: how often a file is open
  lpc,        \* where a thread is
  paths,      \* what GetConfiguredOpenSslPaths gave to the one that loads
  oom,        \* history: the paths could not be copied
  cached      \* funcBits: the handle a symbol was resolved from

loaderVars == <<installed, env, configured, started, once, mode, crypto, ssl, cryptoOwned, sslOwned, open,
                lpc, paths, oom, cached>>

LoaderInit ==
  /\ \E named \in {{}, {"cfg.ssl", "env.crypto"}}, plain \in SUBSET {"crypto", "crypto.3", "ssl", "ssl.3"} :
       installed = {"cfg.crypto", "env.ssl"} \cup named \cup plain
  /\ env \in BOOLEAN /\ configured = FALSE /\ started = FALSE /\ once = "new" /\ mode = "uninitialized"
  /\ crypto = None /\ ssl = None /\ cryptoOwned = FALSE /\ sslOwned = FALSE
  /\ open = [f \in Files |-> 0] /\ lpc = [t \in LThreads |-> "idle"] /\ paths = <<>> /\ oom = FALSE
  /\ cached = [s \in Symbols |-> None]

Goes(t, here, there) == lpc[t] = here /\ lpc' = [lpc EXCEPT ![t] = there]

\* Mutant: that somebody has begun to load is not looked at.
SetPathLate(t) ==
  /\ lpc[t] = "idle" /\ ~env /\ ~configured /\ crypto = None /\ ssl = None /\ mode = "uninitialized"
  /\ configured' = TRUE
  /\ UNCHANGED <<installed, env, started, once, mode, crypto, ssl, cryptoOwned, sslOwned, open, lpc, paths, oom, cached>>

\* CJ_OpenSSL_SetPath returns 1: the environment does not override, nothing was
\* configured and nobody has begun to load. Otherwise it changes nothing.
SetPath(t) ==
  /\ lpc[t] = "idle" /\ ~env /\ ~configured /\ ~started /\ crypto = None /\ ssl = None /\ mode = "uninitialized"
  /\ configured' = TRUE
  /\ UNCHANGED <<installed, env, started, once, mode, crypto, ssl, cryptoOwned, sslOwned, open, lpc, paths, oom, cached>>

\* FindFunction, EnsureBackendSelected: the first thread selects, the others wait.
Begin(t) ==
  /\ once = "new" /\ Goes(t, "idle", "loading") /\ once' = "running"
  /\ UNCHANGED <<installed, env, configured, started, mode, crypto, ssl, cryptoOwned, sslOwned, open, paths, oom, cached>>

\* EnsureLoadedImpl: that the load has begun is recorded under the lock ...
MarkStarted(t) ==
  /\ Goes(t, "loading", "paths") /\ started' = TRUE
  /\ UNCHANGED <<installed, env, configured, once, mode, crypto, ssl, cryptoOwned, sslOwned, open, paths, oom, cached>>

\* ... and the paths are copied under the lock, the environment's first.
GetConfiguredOpenSslPaths(t) ==
  /\ Goes(t, "paths", "open")
  /\ paths' = IF env THEN <<"env.crypto", "env.ssl">> ELSE IF configured THEN <<"cfg.crypto", "cfg.ssl">> ELSE <<>>
  /\ UNCHANGED <<installed, env, configured, started, once, mode, crypto, ssl, cryptoOwned, sslOwned, open, oom, cached>>

\* The paths cannot be copied: the load goes on as if there were none.
NoMemory(t) ==
  /\ Goes(t, "paths", "open") /\ (env \/ configured) /\ paths' = <<>> /\ oom' = TRUE
  /\ UNCHANGED <<installed, env, configured, started, once, mode, crypto, ssl, cryptoOwned, sslOwned, open, cached>>

\* The first of the candidates that can be opened.
TryDlopen(candidates) ==
  LET at == {i \in DOMAIN candidates : candidates[i] \in installed}
  IN  IF at = {} THEN None ELSE candidates[CHOOSE i \in at : \A j \in at : i <= j]

Opened(fs) == open' = [f \in Files |-> IF f \in fs THEN open[f] + 1 ELSE open[f]]

\* Both files of a pair, or neither: the one that was opened alone is closed.
TryLoadBackendPair(c, s) == {c, s} \subseteq installed

\* Configured paths are the only candidates. Otherwise the versioned pair, then
\* each library under any name; a library alone serves for both.
OpenBackend(t) ==
  LET c == TryDlopen(<<"crypto.3", "crypto">>)
      s == TryDlopen(<<"ssl.3", "ssl">>)
      pair(x, y) == /\ crypto' = x /\ ssl' = y /\ Opened({x, y})
                    /\ cryptoOwned' = TRUE /\ sslOwned' = TRUE
      nothing == UNCHANGED <<crypto, ssl, cryptoOwned, sslOwned, open>>
  IN  /\ Goes(t, "open", "select")
      /\ IF paths # <<>> THEN IF TryLoadBackendPair(paths[1], paths[2]) THEN pair(paths[1], paths[2]) ELSE nothing
         ELSE IF TryLoadBackendPair("crypto.3", "ssl.3") THEN pair("crypto.3", "ssl.3")
         ELSE IF c # None /\ s # None THEN pair(c, s)
         ELSE IF c = None /\ s = None THEN nothing
         ELSE LET only == IF c # None THEN c ELSE s
              IN  /\ crypto' = only /\ ssl' = only /\ Opened({only})
                  /\ cryptoOwned' = (c # None) /\ sslOwned' = (c = None)
      /\ UNCHANGED <<installed, env, configured, started, once, mode, paths, oom, cached>>

SelectBackendOnce(t) ==
  /\ Goes(t, "select", "idle") /\ once' = "done"
  /\ mode' = IF crypto # None \/ ssl # None THEN "dlopen" ELSE "unavailable"
  /\ UNCHANGED <<installed, env, configured, started, crypto, ssl, cryptoOwned, sslOwned, open, paths, oom, cached>>

\* By the name alone.
IsSslSymbol(sym) == sym = "SSL"

\* dlsym also searches what a library depends on, as libssl does on libcrypto.
Exports(f) == IF f \in Ssls THEN Symbols ELSE IF f \in Cryptos THEN {"EVP"} ELSE {}

\* The other handle is asked only when it is the same one.
FindDlopenedFunction(sym) ==
  LET first == IF IsSslSymbol(sym) THEN ssl ELSE crypto IN IF sym \in Exports(first) THEN first ELSE None

\* The macro FINDFUNCTION: the first to resolve a symbol publishes it; a miss is
\* reported and not remembered.
FindFunction(t, sym) ==
  /\ lpc[t] = "idle" /\ once = "done" /\ cached[sym] = None
  /\ cached' = [cached EXCEPT ![sym] = IF mode = "unavailable" THEN None ELSE FindDlopenedFunction(sym)]
  /\ UNCHANGED <<installed, env, configured, started, once, mode, crypto, ssl, cryptoOwned, sslOwned, open, lpc, paths, oom>>

\* Mutant: both handles are closed, whoever owns them.
CloseSymbolTableBoth ==
  /\ \A t \in LThreads : lpc[t] = "idle"
  /\ lpc' = [t \in LThreads |-> "ended"]
  /\ open' = [f \in Files |-> open[f] - (IF f = crypto THEN 1 ELSE 0) - (IF f = ssl THEN 1 ELSE 0)]
  /\ crypto' = None /\ ssl' = None /\ cryptoOwned' = FALSE /\ sslOwned' = FALSE
  /\ UNCHANGED <<installed, env, configured, started, once, mode, paths, oom, cached>>

\* The destructor: what is owned is closed, once.
CloseSymbolTable ==
  /\ \A t \in LThreads : lpc[t] = "idle"
  /\ lpc' = [t \in LThreads |-> "ended"]
  /\ open' = [f \in Files |-> open[f] - (IF cryptoOwned /\ f = crypto THEN 1 ELSE 0)
                                      - (IF sslOwned /\ f = ssl THEN 1 ELSE 0)]
  /\ crypto' = None /\ ssl' = None /\ cryptoOwned' = FALSE /\ sslOwned' = FALSE
  /\ UNCHANGED <<installed, env, configured, started, once, mode, paths, oom, cached>>

LoaderNext ==
  \/ CloseSymbolTable
  \/ \E t \in LThreads : \/ SetPath(t) \/ Begin(t) \/ MarkStarted(t) \/ GetConfiguredOpenSslPaths(t) \/ NoMemory(t)
                         \/ OpenBackend(t) \/ SelectBackendOnce(t) \/ \E sym \in Symbols : FindFunction(t, sym)
LoaderSpec == LoaderInit /\ [][LoaderNext]_loaderVars

----------------------------------------------------------------------------
\* The paths of a program whose SetPath was accepted (it returned 1) are the ones
\* that are loaded from, if anything is: the thread that selects the backend
\* meanwhile has not missed them, and no symbol comes from another library.
AcceptedIsUsed ==
  configured /\ once = "done" /\ ~oom =>
    {crypto, ssl} \cup {cached[s] : s \in Symbols} \subseteq {"cfg.crypto", "cfg.ssl", None}

\* Every library that was opened is closed once when the program ends, however
\* many of the two were found and under which names.
HandlesBalanced ==
  (\E t \in LThreads : lpc[t] = "ended") => \A f \in Files : open[f] = 0
=============================================================================
