--------------------------- MODULE ActorDispatcher ---------------------------
(***************************************************************************)
(* stdx.actors: a SequentialDispatcher, its mailbox and the futures of the *)
(* calls posted to it.  Clients post calls and may get their results; one  *)
(* thread takes the calls out and executes them.  The priority mailbox is  *)
(* an array of bounded queues behind a SingleConsumerSemaphore, modelled   *)
(* one atomic access at a time; the plain mailbox is one bounded queue.    *)
(***************************************************************************)
EXTENDS Integers, Sequences, FiniteSets

CONSTANTS
  Clients,      \* threads that post
  MaxPosts,     \* bound: calls posted per client
  MaxCalls,     \* bound: calls posted in all
  Priorities,   \* DEFAULT_NUM_OF_PRIORITIES
  Capacity,     \* DEFAULT_MAILBOX_CAPACITY
  Timeouts,     \* TRUE: a timed wait may end before it is notified
  NoCall

ASSUME ActorAssumption ==
  /\ IsFiniteSet(Clients)
  /\ MaxPosts \in Nat /\ MaxCalls \in Nat /\ Priorities \in Nat \ {0} /\ Capacity \in Nat \ {0}
  /\ Timeouts \in BOOLEAN
  /\ NoCall \notin Clients \X (1 .. MaxPosts)

Calls == Clients \X (1 .. MaxPosts)
Prio  == 1 .. Priorities

VARIABLES
  prioritised,  \* enableReceiverPriority, fixed when the dispatcher is made
  queue,     \* [Prio -> Seq(Calls)]  queuePool, or the plain queue
  cnt,       \* the semaphore's cnt
  semLock,   \* the consumer holds the semaphore's mtx
  dpc, lvl, idx, job,  \* the dispatcher's thread and its locals
  due,       \* what was queued when the dispatcher got its permit
  cancelled, \* hasPendingCancellation
  cpc,       \* the clients' control
  posted,    \* [Clients -> Nat]  calls posted
  prio,      \* [Calls -> Prio]
  fut,       \* [Calls -> ...]  "busy": execute runs the closure and holds mtx
  ran        \* the calls in the order of their execution

mailVars   == <<queue, cnt, semLock>>
dispVars   == <<dpc, lvl, idx, job, due, cancelled>>
clientVars == <<cpc, posted, prio>>
futVars    == <<fut, ran>>
vars == <<prioritised, mailVars, dispVars, clientVars, futVars>>

Last(c) == <<c, posted[c]>>
SumOfPosts == Cardinality({k \in Calls : k[2] <= posted[k[1]]})
Queued == {k \in Calls : \E p \in Prio : \E i \in DOMAIN queue[p] : queue[p][i] = k}

\* The plain mailbox is a single queue.
Used == IF prioritised THEN Prio ELSE {1}

Init ==
  /\ prioritised \in BOOLEAN
  /\ queue = [p \in Prio |-> << >>] /\ cnt = 0 /\ semLock = FALSE
  /\ dpc = "top" /\ lvl = 1 /\ idx = 0 /\ job = NoCall /\ due = {} /\ cancelled = FALSE
  /\ cpc = [c \in Clients |-> "idle"] /\ posted = [c \in Clients |-> 0]
  /\ prio = [k \in Calls |-> 1]
  /\ fut = [k \in Calls |-> "pending"] /\ ran = << >>

-----------------------------------------------------------------------------
(* post and signal *)

ClientStep(c, from, to) == cpc[c] = from /\ cpc' = [cpc EXCEPT ![c] = to]

\* post: add blocks while the queue of that priority is full.
PostAdd(c) ==
  /\ posted[c] < MaxPosts /\ SumOfPosts < MaxCalls
  /\ ClientStep(c, "idle", IF prioritised THEN "signal" ELSE "posted")
  /\ posted' = [posted EXCEPT ![c] = @ + 1]
  /\ \E p \in Used : /\ Len(queue[p]) < Capacity
                     /\ queue' = [queue EXCEPT ![p] = Append(@, <<c, posted[c] + 1>>)]
                     /\ prio' = [prio EXCEPT ![<<c, posted[c] + 1>>] = p]
  /\ UNCHANGED <<prioritised, cnt, semLock, dispVars, futVars>>

\* Mutant: the consumer is notified whenever it is about to see one permit.
SignalAtOne(c) ==
  /\ ClientStep(c, "signal", IF cnt = 1 THEN "notify" ELSE "posted")
  /\ cnt' = cnt + 1
  /\ UNCHANGED <<prioritised, queue, semLock, dispVars, posted, prio, futVars>>

\* cnt.fetchAdd(1), and the test of its old value.
Signal(c) ==
  /\ ClientStep(c, "signal", IF cnt = 0 THEN "notify" ELSE "posted")
  /\ cnt' = cnt + 1
  /\ UNCHANGED <<prioritised, queue, semLock, dispVars, posted, prio, futVars>>

SignalNotify(c) ==
  /\ ~ semLock
  /\ ClientStep(c, "notify", "posted")
  /\ dpc' = IF dpc = "waiting" THEN "woken" ELSE dpc
  /\ UNCHANGED <<prioritised, mailVars, lvl, idx, job, due, cancelled, posted, prio, futVars>>

\* The client drops its reference to the actor.
Release(c) ==
  /\ ClientStep(c, "idle", "gone")
  /\ UNCHANGED <<prioritised, mailVars, dispVars, posted, prio, futVars>>

-----------------------------------------------------------------------------
(* ActorFuture.get() and get(timeout), on the future of the last call *)

\* The first isReady.load(), or no get at all.
Get(c) ==
  /\ posted[c] > 0
  /\ \E to \in {"idle", "get", "timed"} :
       ClientStep(c, "posted", IF fut[Last(c)] = "ready" THEN "idle" ELSE to)
  /\ UNCHANGED <<prioritised, mailVars, dispVars, posted, prio, futVars>>

\* synchronized(mtx): closed to everybody while execute runs the closure.
GetLock(c) ==
  /\ posted[c] > 0 /\ fut[Last(c)] # "busy"
  /\ LET ready == fut[Last(c)] = "ready" IN
       \/ ClientStep(c, "get", IF ready THEN "idle" ELSE "waiting")
       \/ ClientStep(c, "timed", IF ready THEN "idle" ELSE "twaiting")
  /\ UNCHANGED <<prioritised, mailVars, dispVars, posted, prio, futVars>>

\* The timeout of the wait is over: get(timeout) has to take mtx back.
GetTimeout(c) ==
  /\ Timeouts
  /\ ClientStep(c, "twaiting", "expired")
  /\ UNCHANGED <<prioritised, mailVars, dispVars, posted, prio, futVars>>

GetExpired(c) ==
  /\ posted[c] > 0 /\ fut[Last(c)] # "busy"
  /\ ClientStep(c, "expired", "idle")
  /\ UNCHANGED <<prioritised, mailVars, dispVars, posted, prio, futVars>>

-----------------------------------------------------------------------------
(* The dispatcher's thread *)

Dispatch(from, to) == dpc = from /\ dpc' = to

LoopTop ==
  /\ Dispatch("top", IF cancelled THEN "stopped" ELSE IF prioritised THEN "load" ELSE "plain")
  /\ UNCHANGED <<prioritised, mailVars, lvl, idx, job, due, cancelled, clientVars, futVars>>

\* Mutant: the plain mailbox gives the newest call first.
PlainTakeNewest ==
  /\ queue[1] # << >>
  /\ Dispatch("plain", "run")
  /\ job' = queue[1][Len(queue[1])] /\ queue' = [queue EXCEPT ![1] = SubSeq(@, 1, Len(@) - 1)]
  /\ UNCHANGED <<prioritised, cnt, semLock, lvl, idx, due, cancelled, clientVars, futVars>>

\* BoundedMailbox.remove
PlainTake ==
  /\ queue[1] # << >>
  /\ Dispatch("plain", "run")
  /\ job' = Head(queue[1]) /\ queue' = [queue EXCEPT ![1] = Tail(@)]
  /\ UNCHANGED <<prioritised, cnt, semLock, lvl, idx, due, cancelled, clientVars, futVars>>

\* Nothing came within a second: the loop starts again.
PlainTimeout ==
  /\ queue[1] = << >> /\ Dispatch("plain", "top")
  /\ UNCHANGED <<prioritised, mailVars, lvl, idx, job, due, cancelled, clientVars, futVars>>

\* SingleConsumerSemaphore.wait: the first cnt.load() ...
WaitLoad ==
  /\ Dispatch("load", IF cnt > 0 THEN "permit" ELSE "lock")
  /\ UNCHANGED <<prioritised, mailVars, lvl, idx, job, due, cancelled, clientVars, futVars>>

WaitLock ==
  /\ Dispatch("lock", "test") \/ Dispatch("woken", "test")
  /\ semLock' = TRUE
  /\ UNCHANGED <<prioritised, queue, cnt, lvl, idx, job, due, cancelled, clientVars, futVars>>

\* ... and the test under mtx: wait gives mtx up, the loop's end as well.
WaitTest ==
  /\ Dispatch("test", IF cnt = 0 THEN "waiting" ELSE "permit")
  /\ semLock' = FALSE
  /\ UNCHANGED <<prioritised, queue, cnt, lvl, idx, job, due, cancelled, clientVars, futVars>>

\* The second is over: wait returns false and remove None.
WaitTimeout ==
  /\ Timeouts
  /\ \/ Dispatch("test", "top") /\ cnt = 0
     \/ Dispatch("waiting", "woken")
  /\ semLock' = FALSE
  /\ UNCHANGED <<prioritised, queue, cnt, lvl, idx, job, due, cancelled, clientVars, futVars>>

\* Mutant: the permit is used and not taken.
WaitPermitKept ==
  /\ Dispatch("permit", "scan")
  /\ lvl' = 1 /\ idx' = 0 /\ due' = Queued
  /\ UNCHANGED <<prioritised, mailVars, job, cancelled, clientVars, futVars>>

\* cnt.fetchSub(1): the permit is taken, the scan of the queues begins.
WaitPermit ==
  /\ Dispatch("permit", "scan")
  /\ cnt' = cnt - 1
  /\ lvl' = 1 /\ idx' = 0 /\ due' = Queued
  /\ UNCHANGED <<prioritised, queue, semLock, job, cancelled, clientVars, futVars>>

\* Mutant: the scan stops at the first queue that is not empty.
RemoveScanFirst ==
  /\ idx' = IF Len(queue[lvl]) > 0 THEN lvl ELSE idx
  /\ IF lvl = Priorities \/ Len(queue[lvl]) > 0
     THEN Dispatch("scan", "take") /\ UNCHANGED lvl
     ELSE Dispatch("scan", "scan") /\ lvl' = lvl + 1
  /\ UNCHANGED <<prioritised, mailVars, job, due, cancelled, clientVars, futVars>>

RemoveScan ==
  /\ idx' = IF Len(queue[lvl]) > 0 THEN lvl ELSE idx
  /\ IF lvl = Priorities THEN Dispatch("scan", "take") /\ UNCHANGED lvl
                         ELSE Dispatch("scan", "scan") /\ lvl' = lvl + 1
  /\ UNCHANGED <<prioritised, mailVars, job, due, cancelled, clientVars, futVars>>

\* Every queue was empty: remove returns None although wait returned true.
RemoveTake ==
  /\ IF idx = 0
     THEN Dispatch("take", "top") /\ UNCHANGED <<queue, job>>
     ELSE /\ Dispatch("take", "run")
          /\ job' = Head(queue[idx]) /\ queue' = [queue EXCEPT ![idx] = Tail(@)]
  /\ UNCHANGED <<prioritised, cnt, semLock, lvl, idx, due, cancelled, clientVars, futVars>>

\* execute enters mtx and calls the closure.
ExecuteBegin ==
  /\ Dispatch("run", "exec")
  /\ fut' = [fut EXCEPT ![job] = "busy"]
  /\ UNCHANGED <<prioritised, mailVars, lvl, idx, job, due, cancelled, clientVars, ran>>

Awaken(c) == IF Last(c) = job /\ cpc[c] \in {"waiting", "twaiting"} THEN "idle" ELSE cpc[c]

\* Mutant: execute publishes the result and forgets cond.notifyAll().
ExecuteEndSilent ==
  /\ Dispatch("exec", "top")
  /\ fut' = [fut EXCEPT ![job] = "ready"]
  /\ ran' = Append(ran, job) /\ job' = NoCall
  /\ UNCHANGED <<prioritised, mailVars, lvl, idx, due, cancelled, clientVars>>

\* The result is stored, isReady set, and the getters that wait wake up.
ExecuteEnd ==
  /\ Dispatch("exec", "top")
  /\ fut' = [fut EXCEPT ![job] = "ready"]
  /\ ran' = Append(ran, job) /\ job' = NoCall
  /\ cpc' = [c \in Clients |-> Awaken(c)]
  /\ UNCHANGED <<prioritised, mailVars, lvl, idx, due, cancelled, posted, prio>>

\* Mutant: queued calls do not keep the dispatcher reachable.
FinalizeEarly ==
  /\ \A c \in Clients : cpc[c] = "gone"
  /\ ~ cancelled /\ cancelled' = TRUE
  /\ UNCHANGED <<prioritised, mailVars, dpc, lvl, idx, job, due, clientVars, futVars>>

\* ~init: neither a client nor an item of the mailbox refers to the dispatcher.
Finalize ==
  /\ \A c \in Clients : cpc[c] = "gone"
  /\ Queued = {}
  /\ ~ cancelled /\ cancelled' = TRUE
  /\ UNCHANGED <<prioritised, mailVars, dpc, lvl, idx, job, due, clientVars, futVars>>

-----------------------------------------------------------------------------
Posting(c) == Signal(c) \/ SignalNotify(c)
Getting(c) == Get(c) \/ GetLock(c) \/ GetExpired(c)
Dispatching == \/ LoopTop \/ PlainTake \/ PlainTimeout \/ WaitLoad \/ WaitLock \/ WaitTest
               \/ WaitPermit \/ RemoveScan \/ RemoveTake \/ ExecuteBegin

Next == \/ \E c \in Clients : PostAdd(c) \/ Posting(c) \/ Release(c) \/ Getting(c) \/ GetTimeout(c)
        \/ Dispatching \/ WaitTimeout \/ ExecuteEnd \/ Finalize

Spec == Init /\ [][Next]_vars

(* The scheduler runs every thread that can go on, and closures end.  Of   *)
(* the timed waits only those of get are obliged to expire: the timeout of *)
(* the semaphore may come and is not relied upon.                          *)
Fairness == /\ WF_vars(Dispatching) /\ WF_vars(ExecuteEnd)
            /\ \A c \in Clients : WF_vars(Posting(c) \/ Getting(c) \/ GetTimeout(c))
LiveSpec == Spec /\ Fairness

-----------------------------------------------------------------------------
TypeOK ==
  /\ prioritised \in BOOLEAN
  /\ queue \in [Prio -> Seq(Calls)] /\ \A p \in Prio : Len(queue[p]) <= Capacity
  /\ cnt \in Nat /\ semLock \in BOOLEAN
  /\ dpc \in {"top", "plain", "load", "lock", "test", "waiting", "woken", "permit", "scan",
              "take", "run", "exec", "stopped"}
  /\ lvl \in Prio /\ idx \in Prio \cup {0} /\ job \in Calls \cup {NoCall}
  /\ due \subseteq Calls /\ cancelled \in BOOLEAN
  /\ cpc \in [Clients -> {"idle", "signal", "notify", "posted", "get", "timed", "waiting",
                          "twaiting", "expired", "gone"}]
  /\ posted \in [Clients -> 0 .. MaxPosts] /\ prio \in [Calls -> Prio]
  /\ fut \in [Calls -> {"pending", "busy", "ready"}] /\ ran \in Seq(Calls)

(* A permit stands for a call: as many calls are queued as the semaphore   *)
(* has permits, the one in the consumer's hands included, up to the posts  *)
(* that have not signalled yet.  So a consumer with a permit always finds  *)
(* a call, and an UInt64 count never goes below zero.                      *)
PermitsAccount ==
  prioritised =>
    Cardinality(Queued) = cnt + Cardinality({c \in Clients : cpc[c] = "signal"})
                              + (IF dpc \in {"scan", "take"} THEN 1 ELSE 0)

(* The call removed has the highest priority among the calls that were     *)
(* queued when the consumer took its permit.                               *)
HighestFirst ==
  dpc = "take" => \A p \in Prio : p > idx => \A i \in DOMAIN queue[p] : queue[p][i] \notin due

(* "The call will be added to a queue and executed in order": the calls of *)
(* one client with the same priority run in the order they were posted.    *)
InOrder ==
  \A i, j \in DOMAIN ran :
    (i < j /\ ran[i][1] = ran[j][1] /\ prio[ran[i]] = prio[ran[j]]) => ran[i][2] < ran[j][2]

(* The dispatcher's thread ends only when every posted call has run: the   *)
(* items of the mailbox keep the dispatcher from being finalized.          *)
NothingAbandoned ==
  dpc = "stopped" => \A c \in Clients : \A k \in 1 .. posted[c] : fut[<<c, k>>] = "ready"

(* Every posted call is executed, without help from the semaphore's        *)
(* timeout, which its comment takes to be what saves it from a deadlock.   *)
PostedIsExecuted ==
  \A c \in Clients : \A k \in 1 .. MaxPosts : (posted[c] = k) ~> (fut[<<c, k>>] = "ready")

(* get and get(timeout) return when the closures end.                      *)
GetReturns ==
  \A c \in Clients : cpc[c] \in {"get", "timed", "waiting", "twaiting", "expired"} ~> cpc[c] = "idle"
=============================================================================
