--------------------------- MODULE SPMCLevelQueue ---------------------------
(***************************************************************************)
(* SPMCLevelQueue (collection_multi_level_queue.cj): the queue every       *)
(* HTTP/2 connection sends its frames through.  One ClosableNonBlocking-   *)
(* Queue per priority, an atomic counter per priority and one for all,     *)
(* and a monitor on which receivers park.  Senders and receivers touch     *)
(* queues and counters without the monitor, so every atomic access is a    *)
(* step of its own here; what runs under the monitor and touches nothing   *)
(* a lock-free thread writes is one step.                                  *)
(***************************************************************************)
EXTENDS Integers, Sequences, FiniteSets

CONSTANTS
  Senders,      \* threads that call send
  Receivers,    \* threads that call receive in a loop until it returns None
  Closer,       \* the thread that calls close, at most once
  NoThread,     \* the monitor is free
  Levels,       \* number of priorities
  Reverse,      \* FALSE: the highest priority is scanned first
  MaxSends,     \* bound: calls of send per sender
  Timeouts      \* TRUE: a parked receiver may wake after its second is over

ASSUME ThreadsAssumption ==
  /\ IsFiniteSet(Senders) /\ IsFiniteSet(Receivers) /\ Receivers # {}
  /\ Senders \cap Receivers = {}
  /\ Closer \notin Senders \cup Receivers
  /\ NoThread \notin Senders \cup Receivers \cup {Closer}
ASSUME BoundsAssumption ==
  /\ Levels \in Nat \ {0} /\ MaxSends \in Nat
  /\ Reverse \in BOOLEAN /\ Timeouts \in BOOLEAN

Prio == 0 .. Levels - 1
Elem == Senders \X (1 .. MaxSends)      \* the k-th element sent by s
Threads == Senders \cup Receivers \cup {Closer}

VARIABLES
  queue,    \* [Prio -> Seq(Elem)]  queues[p].queue
  quit,     \* [Prio -> BOOLEAN]    queues[p].quit
  sendq,    \* [Prio -> Int]        sendqSizes[p]
  size,     \* Int                  size
  recvq,    \* Int                  recvqSize
  closed,   \* BOOLEAN              closed
  owner,    \* holder of recvMon
  pc,       \* control state of every thread
  lvl,      \* [Threads -> Prio]    priority a send or a scan or close is at
  sent,     \* [Senders -> Nat]     calls of send begun
  late,     \* [Senders -> BOOLEAN] the call in progress began after close
  due       \* [Receivers -> SUBSET Elem] what was visible when a scan began

qvars == <<queue, quit>>
vars  == <<queue, quit, sendq, size, recvq, closed, owner, pc, lvl, sent, late, due>>

Goto(t, to) == pc' = [pc EXCEPT ![t] = to]

First == IF Reverse THEN 0 ELSE Levels - 1
Last  == IF Reverse THEN Levels - 1 ELSE 0
After(p) == IF Reverse THEN p + 1 ELSE p - 1
ScannedBefore(p, q) == IF Reverse THEN p < q ELSE p > q

Parked == {r \in Receivers : pc[r] = "parked"}

\* Threads between the change of a queue and the change of its counter.
Uncounted(p) == {s \in Senders : pc[s] \in {"size", "sendq"} /\ lvl[s] = p}
Overcounted(p) == {r \in Receivers : pc[r] = "uncount" /\ lvl[r] = p}

\* The elements of priority p that every receiver has to see: they are
\* counted, and no element that went before them is still to be counted.
Visible(p) ==
  {queue[p][i] : i \in {j \in DOMAIN queue[p] :
     \A s \in Uncounted(p) : \E k \in j + 1 .. Len(queue[p]) : queue[p][k] = <<s, sent[s]>>}}

Init ==
  /\ queue = [p \in Prio |-> << >>]
  /\ quit = [p \in Prio |-> FALSE]
  /\ sendq = [p \in Prio |-> 0]
  /\ size = 0 /\ recvq = 0 /\ closed = FALSE /\ owner = NoThread
  /\ pc = [t \in Threads |-> IF t \in Receivers THEN "scan" ELSE "idle"]
  /\ lvl = [t \in Threads |-> IF t \in Receivers THEN First ELSE 0]
  /\ sent = [s \in Senders |-> 0]
  /\ late = [s \in Senders |-> FALSE]
  /\ due = [r \in Receivers |-> {}]

-----------------------------------------------------------------------------
(* send(elem, priority) *)

\* send is called with a legal priority: the call begins.
SendBegin(s) ==
  /\ pc[s] = "idle" /\ sent[s] < MaxSends
  /\ \E p \in Prio : lvl' = [lvl EXCEPT ![s] = p]
  /\ sent' = [sent EXCEPT ![s] = @ + 1]
  /\ late' = [late EXCEPT ![s] = closed]
  /\ Goto(s, "test")
  /\ UNCHANGED <<qvars, sendq, size, recvq, closed, owner, due>>

\* ClosableNonBlockingQueue.enqueue reads its quit flag ...
SendTest(s) ==
  /\ pc[s] = "test"
  /\ Goto(s, IF quit[lvl[s]] THEN "idle" ELSE "add")
  /\ UNCHANGED <<qvars, sendq, size, recvq, closed, owner, lvl, sent, late, due>>

\* ... and adds to the concurrent queue in a second step.
SendAdd(s) ==
  /\ pc[s] = "add"
  /\ queue' = [queue EXCEPT ![lvl[s]] = Append(@, <<s, sent[s]>>)]
  /\ Goto(s, "size")
  /\ UNCHANGED <<quit, sendq, size, recvq, closed, owner, lvl, sent, late, due>>

SendSize(s) ==
  /\ pc[s] = "size"
  /\ size' = size + 1
  /\ Goto(s, "sendq")
  /\ UNCHANGED <<qvars, sendq, recvq, closed, owner, lvl, sent, late, due>>

SendCount(s) ==
  /\ pc[s] = "sendq"
  /\ sendq' = [sendq EXCEPT ![lvl[s]] = @ + 1]
  /\ Goto(s, "peek")
  /\ UNCHANGED <<qvars, size, recvq, closed, owner, lvl, sent, late, due>>

\* The first recvqSize.load(), outside the monitor.
SendPeek(s) ==
  /\ pc[s] = "peek"
  /\ Goto(s, IF recvq = 0 THEN "idle" ELSE "notify")
  /\ UNCHANGED <<qvars, sendq, size, recvq, closed, owner, lvl, sent, late, due>>

\* synchronized(recvMon): notify wakes one parked receiver, if any.
SendNotify(s) ==
  /\ pc[s] = "notify" /\ owner = NoThread
  /\ IF recvq # 0 /\ Parked # {}
     THEN \E r \in Parked : pc' = [pc EXCEPT ![s] = "idle", ![r] = "wake"]
     ELSE Goto(s, "idle")
  /\ UNCHANGED <<qvars, sendq, size, recvq, closed, owner, lvl, sent, late, due>>

-----------------------------------------------------------------------------
(* receive(), called again as soon as it has returned an element *)

\* Mutant: the next scan resumes where the last one ended.
StartScanResumes(r) ==
  /\ Goto(r, "scan")
  /\ due' = [due EXCEPT ![r] = UNION {Visible(p) : p \in Prio}]
  /\ UNCHANGED lvl

\* A scan of tryReceive starts at the first priority of prange.
StartScan(r) ==
  /\ Goto(r, "scan")
  /\ lvl' = [lvl EXCEPT ![r] = First]
  /\ due' = [due EXCEPT ![r] = UNION {Visible(p) : p \in Prio}]

\* No element at this priority: the next one, or the end of the scan.
NextLevel(r) ==
  IF lvl[r] = Last
  THEN Goto(r, "lock") /\ UNCHANGED lvl
  ELSE Goto(r, "scan") /\ lvl' = [lvl EXCEPT ![r] = After(@)]

RecvPeek(r) ==
  /\ pc[r] = "scan"
  /\ IF sendq[lvl[r]] > 0 THEN Goto(r, "take") /\ UNCHANGED lvl ELSE NextLevel(r)
  /\ UNCHANGED <<qvars, sendq, size, recvq, closed, owner, sent, late, due>>

\* Mutant: the counter is lowered even when another receiver was faster.
RecvTakeUncountsAnyway(r) ==
  /\ pc[r] = "take"
  /\ queue' = [queue EXCEPT ![lvl[r]] = IF @ = << >> THEN @ ELSE Tail(@)]
  /\ Goto(r, "uncount")
  /\ UNCHANGED <<quit, sendq, size, recvq, closed, owner, lvl, sent, late, due>>

RecvTake(r) ==
  /\ pc[r] = "take"
  /\ IF queue[lvl[r]] = << >>
     THEN NextLevel(r) /\ UNCHANGED queue
     ELSE /\ queue' = [queue EXCEPT ![lvl[r]] = Tail(@)]
          /\ Goto(r, "uncount") /\ UNCHANGED lvl
  /\ UNCHANGED <<quit, sendq, size, recvq, closed, owner, sent, late, due>>

RecvUncount(r) ==
  /\ pc[r] = "uncount"
  /\ sendq' = [sendq EXCEPT ![lvl[r]] = @ - 1]
  /\ Goto(r, "unsize")
  /\ UNCHANGED <<qvars, size, recvq, closed, owner, lvl, sent, late, due>>

\* receive returns the element; its caller calls it again.
RecvReturn(r) ==
  /\ pc[r] = "unsize"
  /\ size' = size - 1
  /\ StartScan(r)
  /\ UNCHANGED <<qvars, sendq, recvq, closed, owner, sent, late>>

\* The scan found nothing: enter the monitor, return None if closed.
RecvLock(r) ==
  /\ pc[r] = "lock" /\ owner = NoThread
  /\ IF closed
     THEN Goto(r, "done") /\ UNCHANGED <<owner, recvq>>
     ELSE /\ owner' = r /\ recvq' = recvq + 1
          /\ Goto(r, "check")
  /\ UNCHANGED <<qvars, sendq, size, closed, lvl, sent, late, due>>

\* Mutant: the receiver trusts its scan and does not look at size again.
RecvCheckTrustsScan(r) ==
  /\ pc[r] = "check"
  /\ Goto(r, "parked") /\ owner' = NoThread
  /\ UNCHANGED <<qvars, sendq, size, recvq, closed, lvl, sent, late, due>>

\* bufferEmpty() is evaluated after recvqSize was raised; wait frees recvMon.
RecvCheck(r) ==
  /\ pc[r] = "check"
  /\ IF size = 0 THEN Goto(r, "parked") /\ owner' = NoThread
                 ELSE Goto(r, "leave") /\ UNCHANGED owner
  /\ UNCHANGED <<qvars, sendq, size, recvq, closed, lvl, sent, late, due>>

\* wait(timeout: Duration.second) expires.
RecvTimeout(r) ==
  /\ Timeouts /\ pc[r] = "parked"
  /\ Goto(r, "wake")
  /\ UNCHANGED <<qvars, sendq, size, recvq, closed, owner, lvl, sent, late, due>>

\* Leave the monitor, after taking it back when the receiver had waited.
RecvLeave(r) ==
  /\ \/ pc[r] = "leave"
     \/ pc[r] = "wake" /\ owner = NoThread
  /\ owner' = NoThread /\ recvq' = recvq - 1
  /\ StartScan(r)
  /\ UNCHANGED <<qvars, sendq, size, closed, sent, late>>

-----------------------------------------------------------------------------
(* close(), all of it under recvMon *)

CloseBegin ==
  /\ pc[Closer] = "idle" /\ owner = NoThread
  /\ owner' = Closer
  /\ Goto(Closer, "quit")
  /\ UNCHANGED <<qvars, sendq, size, recvq, closed, lvl, sent, late, due>>

CloseQuit ==
  /\ pc[Closer] = "quit"
  /\ quit' = [quit EXCEPT ![lvl[Closer]] = TRUE]
  /\ Goto(Closer, "drain")
  /\ UNCHANGED <<queue, sendq, size, recvq, closed, owner, lvl, sent, late, due>>

\* ClosableNonBlockingQueue.close removes until the queue is empty.
CloseDrain ==
  /\ pc[Closer] = "drain"
  /\ IF queue[lvl[Closer]] # << >>
     THEN queue' = [queue EXCEPT ![lvl[Closer]] = Tail(@)] /\ UNCHANGED pc
     ELSE Goto(Closer, "zero") /\ UNCHANGED queue
  /\ UNCHANGED <<quit, sendq, size, recvq, closed, owner, lvl, sent, late, due>>

\* The counter of a drained priority is reset; up to which priority?
CloseZeroUpTo(last) ==
  /\ pc[Closer] = "zero"
  /\ sendq' = [sendq EXCEPT ![lvl[Closer]] = 0]
  /\ IF lvl[Closer] >= last
     THEN Goto(Closer, "end") /\ UNCHANGED lvl
     ELSE Goto(Closer, "quit") /\ lvl' = [lvl EXCEPT ![Closer] = @ + 1]
  /\ UNCHANGED <<qvars, size, recvq, closed, owner, sent, late, due>>

\* Mutant: close stops one priority early.
CloseZeroTooFew == CloseZeroUpTo(Levels - 2)

CloseZero == CloseZeroUpTo(Levels - 1)

\* Mutant: close notifies one receiver instead of all.
CloseEndNotifiesOne ==
  /\ pc[Closer] = "end"
  /\ size' = 0 /\ closed' = TRUE /\ owner' = NoThread
  /\ \E woken \in SUBSET Parked : Cardinality(woken) <= 1 /\ (Parked # {} => woken # {})
       /\ pc' = [t \in Threads |-> CASE t = Closer -> "done"
                                     [] t \in woken -> "wake"
                                     [] OTHER -> pc[t]]
  /\ UNCHANGED <<qvars, sendq, recvq, lvl, sent, late, due>>

CloseEnd ==
  /\ pc[Closer] = "end"
  /\ size' = 0 /\ closed' = TRUE /\ owner' = NoThread
  /\ pc' = [t \in Threads |-> CASE t = Closer -> "done"
                                [] t \in Parked -> "wake"
                                [] OTHER -> pc[t]]
  /\ UNCHANGED <<qvars, sendq, recvq, lvl, sent, late, due>>

-----------------------------------------------------------------------------
Send(s) == \/ SendTest(s) \/ SendAdd(s) \/ SendSize(s) \/ SendCount(s)
           \/ SendPeek(s) \/ SendNotify(s)
Recv(r) == \/ RecvPeek(r) \/ RecvTake(r) \/ RecvUncount(r) \/ RecvReturn(r)
           \/ RecvLock(r) \/ RecvCheck(r) \/ RecvLeave(r)
Close   == CloseQuit \/ CloseDrain \/ CloseZero \/ CloseEnd

Next == \/ \E s \in Senders : SendBegin(s) \/ Send(s)
        \/ \E r \in Receivers : Recv(r) \/ RecvTimeout(r)
        \/ CloseBegin \/ Close

Spec == Init /\ [][Next]_vars

-----------------------------------------------------------------------------
Controls == {"idle", "test", "add", "size", "sendq", "peek", "notify",
             "scan", "take", "uncount", "unsize", "lock", "check", "parked", "wake",
             "leave", "quit", "drain", "zero", "end", "done"}
TypeOK ==
  /\ queue \in [Prio -> Seq(Elem)]
  /\ quit \in [Prio -> BOOLEAN]
  /\ sendq \in [Prio -> Int] /\ size \in Int /\ recvq \in Int
  /\ closed \in BOOLEAN
  /\ owner \in Threads \cup {NoThread}
  /\ pc \in [Threads -> Controls]
  /\ lvl \in [Threads -> Prio]
  /\ sent \in [Senders -> 0 .. MaxSends]
  /\ late \in [Senders -> BOOLEAN]
  /\ due \in [Receivers -> SUBSET Elem]

(* sendqSizes[p] is the length of the queue of priority p up to the sends  *)
(* and receives in flight, until close reaches that priority: receivers    *)
(* skip a priority whose counter is 0, so a counter that drifted would     *)
(* hide its elements for ever (tryReceive, sendqSizes[priority].load()>0). *)
CountersAccount ==
  \A p \in Prio : ~ quit[p] =>
    sendq[p] + Cardinality(Uncounted(p)) = Len(queue[p]) + Cardinality(Overcounted(p))

(* No lost wake-up: when something is counted in size and every receiver   *)
(* is parked, some send is still on its way to notify.  It is what lets    *)
(* send skip the monitor when it reads recvqSize = 0, and it does not      *)
(* lean on the one-second timeout of the wait.                             *)
NoLostWakeup ==
  (~ closed /\ size > 0 /\ Parked = Receivers)
     => \E s \in Senders : pc[s] \in {"sendq", "peek", "notify"}

(* Priorities are respected as far as they can be: by the time a scan is   *)
(* past an open priority, no element of it that was visible when the scan  *)
(* began is still queued.  With the single sender of the class comment     *)
(* that is every element wholly sent; with more, an element is hidden for  *)
(* as long as a sender before it is between adding and counting, because   *)
(* that sender's element is taken against the count of this one.           *)
PriorityRespected ==
  \A r \in Receivers : pc[r] \in {"scan", "take", "uncount", "unsize"} =>
    \A p \in Prio : ~ quit[p] /\ ScannedBefore(p, lvl[r]) =>
      \A i \in DOMAIN queue[p] : queue[p][i] \notin due[r]

(* A send that begins after close has returned is refused: it never adds   *)
(* to a queue nobody will drain again.                                     *)
SendAfterCloseFails ==
  \A s \in Senders : late[s] => pc[s] \in {"idle", "test"}

(* Once close is over nobody is left waiting on the monitor, and nobody    *)
(* will begin to wait: every receiver comes back with None.                *)
ClosedParksNobody == closed => Parked = {}
=============================================================================
