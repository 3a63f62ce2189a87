--------------------------- MODULE KeylessRegistry ---------------------------
(* The callbacks of the keyless provider (provider.c): threads register a    *)
(* signing and a decrypting callback for a key id, one after the other, while *)
(* handshakes of other threads look them up. The list is under a rwlock; the *)
(* provider's context, PROVIDER_CTX, is not.                                 *)
EXTENDS Naturals, Sequences, FiniteSets

CONSTANTS
  KThreads, \* threads
  Ids,      \* key ids
  Cbs,      \* callbacks
  NoCb      \* a null pointer

ASSUME KeylessRegistryAssumption == NoCb \notin Cbs

Kinds == {"sign", "decrypt"}

VARIABLES
  provider,  \* PROVIDER_CTX: is the provider loaded?
  callbacks, \* the list, its head last: [id, cb], cb a function of the kind
  writer,    \* the threads that hold callbackLock for writing ...
  readers,   \* ... and for reading
  kpc,       \* where a thread is
  job,       \* what it was called for: [id, kind, cb]
  entry,     \* the position it found, 0: none
  stored,    \* history: the callback last stored for an id and a kind
  known,     \* history: the one stored when the lookup began
  result     \* what the lookup answers

registryVars == <<provider, callbacks, writer, readers, kpc, job, entry, stored, known, result>>

NoJob == [id |-> CHOOSE i \in Ids : TRUE, kind |-> "sign", cb |-> NoCb]

RegistryInit ==
  /\ provider = FALSE /\ callbacks = <<>> /\ writer = {} /\ readers = {}
  /\ kpc = [t \in KThreads |-> "idle"] /\ job = [t \in KThreads |-> NoJob]
  /\ entry = [t \in KThreads |-> 0] /\ stored = [i \in Ids |-> [k \in Kinds |-> NoCb]]
  /\ known = [t \in KThreads |-> NoCb] /\ result = [t \in KThreads |-> NoCb]

\* From the head: the newest entry with that id.
KeylessFindEntry(id) ==
  LET at == {i \in DOMAIN callbacks : callbacks[i].id = id}
  IN  IF at = {} THEN 0 ELSE CHOOSE i \in at : \A j \in at : j <= i

KeylessProviderInit ==
  /\ ~provider /\ provider' = TRUE /\ callbacks' = <<>>
  /\ UNCHANGED <<writer, readers, kpc, job, entry, stored, known, result>>

\* OpenSSL unloads the provider when no operation of it is in progress.
KeylessProviderTeardown ==
  /\ provider /\ \A t \in KThreads : kpc[t] = "idle"
  /\ provider' = FALSE /\ callbacks' = <<>> /\ stored' = [i \in Ids |-> [k \in Kinds |-> NoCb]]
  /\ UNCHANGED <<writer, readers, kpc, job, entry, known, result>>

At(t, here, there) == kpc[t] = here /\ kpc' = [kpc EXCEPT ![t] = there]

\* RegisterSignCallback and RegisterDecryptCallback; not before the provider.
Register(t, id, kind, cb) ==
  /\ provider /\ At(t, "idle", "wrlock") /\ job' = [job EXCEPT ![t] = [id |-> id, kind |-> kind, cb |-> cb]]
  /\ UNCHANGED <<provider, callbacks, writer, readers, entry, stored, known, result>>

\* Mutant: the registrations share the lock.
WriteLockShared(t) ==
  /\ At(t, "wrlock", "find") /\ readers = {} /\ writer' = writer \cup {t}
  /\ UNCHANGED <<provider, callbacks, readers, job, entry, stored, known, result>>

WriteLock(t) ==
  /\ At(t, "wrlock", "find") /\ writer = {} /\ readers = {} /\ writer' = {t}
  /\ UNCHANGED <<provider, callbacks, readers, job, entry, stored, known, result>>

Find(t) ==
  /\ At(t, "find", "ensure") /\ entry' = [entry EXCEPT ![t] = KeylessFindEntry(job[t].id)]
  /\ UNCHANGED <<provider, callbacks, writer, readers, job, stored, known, result>>

\* A missing entry is linked in with no callbacks yet ...
EnsureEntry(t) ==
  /\ At(t, "ensure", "set")
  /\ IF entry[t] # 0 THEN UNCHANGED <<callbacks, entry>>
     ELSE /\ callbacks' = Append(callbacks, [id |-> job[t].id, cb |-> [k \in Kinds |-> NoCb]])
          /\ entry' = [entry EXCEPT ![t] = Len(callbacks) + 1]
  /\ UNCHANGED <<provider, writer, readers, job, stored, known, result>>

\* ... unless there is no memory for it: the registration is then without effect.
EnsureFails(t) ==
  /\ At(t, "ensure", "unlock") /\ entry[t] = 0
  /\ UNCHANGED <<provider, callbacks, writer, readers, job, entry, stored, known, result>>

SetCb(t) ==
  /\ At(t, "set", "unlock")
  /\ callbacks' = [callbacks EXCEPT ![entry[t]].cb[job[t].kind] = job[t].cb]
  /\ stored' = [stored EXCEPT ![job[t].id][job[t].kind] = job[t].cb]
  /\ UNCHANGED <<provider, writer, readers, job, entry, known, result>>

\* The call returns: its local variables are gone.
Returned(t) ==
  /\ job' = [job EXCEPT ![t] = NoJob] /\ entry' = [entry EXCEPT ![t] = 0]
  /\ known' = [known EXCEPT ![t] = NoCb] /\ result' = [result EXCEPT ![t] = NoCb]

Unlock(t) ==
  /\ At(t, "unlock", "idle") /\ writer' = writer \ {t} /\ Returned(t)
  /\ UNCHANGED <<provider, callbacks, readers, stored>>

\* KeylessLookupSignCb and KeylessLookupDecryptCb, from sign and decrypt.
Lookup(t, id, kind) ==
  /\ provider /\ At(t, "idle", "rdlock") /\ job' = [job EXCEPT ![t] = [id |-> id, kind |-> kind, cb |-> NoCb]]
  /\ known' = [known EXCEPT ![t] = stored[id][kind]] /\ result' = [result EXCEPT ![t] = NoCb]
  /\ UNCHANGED <<provider, callbacks, writer, readers, entry, stored>>

ReadLock(t) ==
  /\ At(t, "rdlock", "read") /\ writer = {} /\ readers' = readers \cup {t}
  /\ UNCHANGED <<provider, callbacks, writer, job, entry, stored, known, result>>

Read(t) ==
  /\ At(t, "read", "answer")
  /\ LET i == KeylessFindEntry(job[t].id)
     IN  result' = [result EXCEPT ![t] = IF i = 0 THEN NoCb ELSE callbacks[i].cb[job[t].kind]]
  /\ UNCHANGED <<provider, callbacks, writer, readers, job, entry, stored, known>>

ReadUnlock(t) ==
  /\ At(t, "answer", "idle") /\ readers' = readers \ {t} /\ Returned(t)
  /\ UNCHANGED <<provider, callbacks, writer, stored>>

RegistryNext ==
  \/ KeylessProviderInit \/ KeylessProviderTeardown
  \/ \E t \in KThreads :
       \/ WriteLock(t) \/ Find(t) \/ EnsureEntry(t) \/ EnsureFails(t) \/ SetCb(t) \/ Unlock(t)
       \/ ReadLock(t) \/ Read(t) \/ ReadUnlock(t)
       \/ \E id \in Ids, kind \in Kinds : Lookup(t, id, kind) \/ \E cb \in Cbs : Register(t, id, kind, cb)
RegistrySpec == RegistryInit /\ [][RegistryNext]_registryVars

----------------------------------------------------------------------------
\* A handshake finds a callback that was registered before it looked: two
\* threads that register for one key do not make two entries of which the
\* newer hides the older, and a callback that is replaced is never absent.
RegisteredIsFound == \A t \in KThreads : kpc[t] = "answer" /\ result[t] = NoCb => known[t] = NoCb
=============================================================================
