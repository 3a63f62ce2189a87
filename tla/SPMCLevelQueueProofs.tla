------------------------ MODULE SPMCLevelQueueProofs ------------------------
(* What holds of SPMCLevelQueue for every number of threads and levels.    *)
EXTENDS SPMCLevelQueue, FiniteSetTheorems, FunctionTheorems, SequenceTheorems, TLAPS

(* A scan stays within the priorities: it starts at one, and the priority  *)
(* after any but the last is one.                                          *)
LEMMA ScanInPrio ==
  /\ First \in Prio
  /\ \A p \in Prio : p # Last => After(p) \in Prio
BY BoundsAssumption DEF Prio, First, Last, After

(* What was wholly sent to a priority is a set of elements.                *)
LEMMA VisibleElem ==
  ASSUME TypeOK PROVE UNION {Visible(p) : p \in Prio} \subseteq Elem
<1>1. ASSUME NEW p \in Prio PROVE Visible(p) \subseteq Elem
  <2>1. queue[p] \in Seq(Elem)
    BY <1>1 DEF TypeOK
  <2> QED
    BY <2>1 DEF Visible
<1> QED
  BY <1>1

(* A sender inside send has begun at least one call.                       *)
CallBegun == \A s \in Senders : pc[s] # "idle" => sent[s] # 0

(* Removing the head leaves a queue that is one shorter.                   *)
LEMMA TailElem ==
  ASSUME TypeOK, NEW p \in Prio, queue[p] # << >>
  PROVE  Tail(queue[p]) \in Seq(Elem) /\ Len(Tail(queue[p])) = Len(queue[p]) - 1
<1>1. queue[p] \in Seq(Elem)
  BY DEF TypeOK
<1> QED
  BY <1>1, HeadTailProperties

\* The initial states are typed,
LEMMA InitTypeOK == Init => TypeOK
<1> SUFFICES ASSUME Init PROVE TypeOK
  OBVIOUS
<1> USE DEF Init, TypeOK, Controls
<1>1. queue \in [Prio -> Seq(Elem)] /\ quit \in [Prio -> BOOLEAN] /\ sendq \in [Prio -> Int]
  OBVIOUS
<1>2. size \in Int /\ recvq \in Int /\ owner \in Threads \cup {NoThread}
  OBVIOUS
<1>6. closed \in BOOLEAN
  BY Zenon
<1>3. pc \in [Threads -> {"idle", "scan"}]
  OBVIOUS
<1>4. lvl \in [Threads -> Prio]
  BY ScanInPrio, BoundsAssumption DEF Prio
<1>5. sent \in [Senders -> 0 .. MaxSends]
  BY BoundsAssumption
<1> QED
  BY <1>1, <1>2, <1>3, <1>4, <1>5, <1>6

\* and every step keeps the types; a call that has begun is within MaxSends.
LEMMA NextTypeOK == TypeOK /\ CallBegun /\ [Next]_vars => TypeOK'
<1> SUFFICES ASSUME TypeOK, CallBegun, [Next]_vars PROVE TypeOK'
  OBVIOUS
<1> USE DEF TypeOK, Controls, Goto, qvars
<1>1. ASSUME NEW s \in Senders, SendBegin(s) PROVE TypeOK'
  BY <1>1, BoundsAssumption DEF SendBegin, Threads
<1>2. ASSUME NEW s \in Senders, Send(s) PROVE TypeOK'
  <2>0. s \in Threads /\ lvl[s] \in Prio
    BY DEF Threads
  <2>1. CASE SendTest(s)
    BY <2>0, <2>1 DEF SendTest
  <2>2. CASE SendAdd(s)
    <3>1. <<s, sent[s]>> \in Elem
      BY <2>2 DEF SendAdd, CallBegun, Elem
    <3>2. queue' \in [Prio -> Seq(Elem)]
      BY <2>0, <2>2, <3>1 DEF SendAdd
    <3> QED
      BY <2>0, <2>2, <3>2 DEF SendAdd
  <2>3. CASE SendSize(s)
    BY <2>0, <2>3 DEF SendSize
  <2>4. CASE SendCount(s)
    BY <2>0, <2>4 DEF SendCount
  <2>5. CASE SendPeek(s)
    BY <2>0, <2>5 DEF SendPeek
  <2>6. CASE SendNotify(s)
    BY <2>0, <2>6 DEF SendNotify, Parked
  <2> QED
    BY <1>2, <2>1, <2>2, <2>3, <2>4, <2>5, <2>6 DEF Send
<1>3. ASSUME NEW r \in Receivers, Recv(r) \/ RecvTimeout(r) PROVE TypeOK'
  <2>0. r \in Threads /\ lvl[r] \in Prio
    BY DEF Threads
  <2>1. CASE RecvPeek(r)
    BY <2>0, <2>1, ScanInPrio DEF RecvPeek, NextLevel
  <2>2. CASE RecvTake(r)
    <3>1. queue' \in [Prio -> Seq(Elem)]
      <4>1. CASE queue[lvl[r]] = << >>
        BY <2>2, <4>1 DEF RecvTake
      <4>2. CASE queue[lvl[r]] # << >>
        <5>1. queue' = [queue EXCEPT ![lvl[r]] = Tail(queue[lvl[r]])]
          BY <2>2, <4>2 DEF RecvTake
        <5> QED
          BY <2>0, <4>2, <5>1, TailElem
      <4> QED
        BY <4>1, <4>2
    <3>2. lvl' \in [Threads -> Prio]
      BY <2>0, <2>2, ScanInPrio DEF RecvTake, NextLevel
    <3>3. pc' \in [Threads -> Controls]
      BY <2>0, <2>2 DEF RecvTake, NextLevel
    <3> QED
      BY <2>2, <3>1, <3>2, <3>3 DEF RecvTake
  <2>3. CASE RecvUncount(r)
    BY <2>0, <2>3 DEF RecvUncount
  <2>4. CASE RecvReturn(r)
    BY <2>0, <2>4, ScanInPrio, VisibleElem DEF RecvReturn, StartScan
  <2>5. CASE RecvLock(r)
    <3>1. pc' \in [Threads -> Controls]
      BY <2>0, <2>5 DEF RecvLock
    <3>2. owner' \in Threads \cup {NoThread} /\ recvq' \in Int
      BY <2>0, <2>5 DEF RecvLock
    <3> QED
      BY <2>5, <3>1, <3>2 DEF RecvLock
  <2>6. CASE RecvCheck(r)
    BY <2>0, <2>6 DEF RecvCheck
  <2>7. CASE RecvLeave(r)
    BY <2>0, <2>7, ScanInPrio, VisibleElem DEF RecvLeave, StartScan
  <2>8. CASE RecvTimeout(r)
    BY <2>0, <2>8 DEF RecvTimeout
  <2> QED
    BY <1>3, <2>1, <2>2, <2>3, <2>4, <2>5, <2>6, <2>7, <2>8 DEF Recv
<1>4. ASSUME CloseBegin \/ Close PROVE TypeOK'
  <2>0. Closer \in Threads /\ lvl[Closer] \in Prio
    BY DEF Threads
  <2>1. CASE CloseBegin
    BY <2>0, <2>1 DEF CloseBegin
  <2>2. CASE CloseQuit
    BY <2>0, <2>2 DEF CloseQuit
  <2>3. CASE CloseDrain
    <3>1. queue' \in [Prio -> Seq(Elem)]
      BY <2>0, <2>3, TailElem DEF CloseDrain
    <3> QED
      BY <2>0, <2>3, <3>1 DEF CloseDrain
  <2>4. CASE CloseZero
    <3>1. lvl' \in [Threads -> Prio]
      <4>1. CASE lvl[Closer] >= Levels - 1
        BY <2>0, <2>4, <4>1 DEF CloseZero, CloseZeroUpTo
      <4>2. CASE lvl[Closer] < Levels - 1
        <5>1. ~ (lvl[Closer] >= Levels - 1) /\ lvl[Closer] + 1 \in Prio
          BY <2>0, <4>2, BoundsAssumption DEF Prio
        <5> QED
          BY <2>0, <2>4, <5>1 DEF CloseZero, CloseZeroUpTo
      <4> QED
        BY <2>0, <4>1, <4>2, BoundsAssumption DEF Prio
    <3>2. pc' \in [Threads -> Controls]
      BY <2>0, <2>4 DEF CloseZero, CloseZeroUpTo
    <3>3. sendq' \in [Prio -> Int]
      BY <2>0, <2>4 DEF CloseZero, CloseZeroUpTo
    <3> QED
      BY <2>4, <3>1, <3>2, <3>3 DEF CloseZero, CloseZeroUpTo
  <2>5. CASE CloseEnd
    BY <2>0, <2>5 DEF CloseEnd, Parked
  <2> QED
    BY <1>4, <2>1, <2>2, <2>3, <2>4, <2>5 DEF Close
<1>5. CASE UNCHANGED vars
  BY <1>5 DEF vars, Visible
<1> QED
  BY <1>1, <1>2, <1>3, <1>4, <1>5 DEF Next

\* No call has begun initially,
LEMMA InitCallBegun == Init => CallBegun
BY ThreadsAssumption DEF Init, CallBegun, Threads

\* and a sender inside send has begun one.
LEMMA NextCallBegun == TypeOK /\ CallBegun /\ [Next]_vars => CallBegun'
<1> SUFFICES ASSUME TypeOK, CallBegun, [Next]_vars, NEW s \in Senders
             PROVE  pc'[s] # "idle" => sent'[s] # 0
  BY DEF CallBegun
<1> USE DEF CallBegun, TypeOK, Goto, Threads
<1>1. ASSUME NEW t \in Senders, SendBegin(t) PROVE pc'[s] # "idle" => sent'[s] # 0
  BY <1>1 DEF SendBegin
<1>2. ASSUME NEW t \in Senders, Send(t) PROVE pc'[s] # "idle" => sent'[s] # 0
  BY <1>2, ThreadsAssumption
  DEF Send, SendTest, SendAdd, SendSize, SendCount, SendPeek, SendNotify, Parked
<1>3. ASSUME NEW r \in Receivers, Recv(r) \/ RecvTimeout(r)
      PROVE  pc'[s] # "idle" => sent'[s] # 0
  <2>1. pc'[s] = pc[s] /\ sent' = sent
    BY <1>3, ThreadsAssumption
    DEF Recv, RecvPeek, RecvTake, RecvUncount, RecvReturn, RecvLock, RecvCheck, RecvLeave,
        RecvTimeout, NextLevel, StartScan
  <2> QED
    BY <2>1
<1>4. ASSUME CloseBegin \/ Close PROVE pc'[s] # "idle" => sent'[s] # 0
  <2>1. pc'[s] = pc[s] /\ sent' = sent
    BY <1>4, ThreadsAssumption
    DEF Close, CloseBegin, CloseQuit, CloseDrain, CloseZero, CloseZeroUpTo, CloseEnd, Parked
  <2> QED
    BY <2>1
<1>5. CASE UNCHANGED vars
  BY <1>5 DEF vars
<1> QED
  BY <1>1, <1>2, <1>3, <1>4, <1>5 DEF Next

(* Type correctness: every counter stays an integer, every program counter *)
(* and level stays in its range.                                           *)
THEOREM TypeCorrect == Spec => []TypeOK
<1> QED
  BY InitCallBegun, InitTypeOK, NextTypeOK, NextCallBegun, PTL DEF Spec
-----------------------------------------------------------------------------
(* The counters.  Only close disturbs a queue or a counter of a priority   *)
(* without the other, and it does so after it has set that quit flag.      *)
CloserQuit == pc[Closer] \in {"drain", "zero"} => quit[lvl[Closer]]

CountersInv == TypeOK /\ CallBegun /\ CloserQuit /\ CountersAccount

\* The threads in flight can be counted.
LEMMA FlightFinite ==
  \A p \in Prio : /\ IsFiniteSet(Uncounted(p)) /\ IsFiniteSet(Overcounted(p))
                  /\ Cardinality(Uncounted(p)) \in Nat /\ Cardinality(Overcounted(p)) \in Nat
BY ThreadsAssumption, FS_Subset, FS_CardinalityType DEF Uncounted, Overcounted

\* The priorities that close drains have quit.
LEMMA NextCloserQuit == TypeOK /\ CloserQuit /\ [Next]_vars => CloserQuit'
<1> SUFFICES ASSUME TypeOK, CloserQuit, [Next]_vars PROVE CloserQuit'
  OBVIOUS
<1> USE DEF CloserQuit, TypeOK, Goto, Threads, qvars
<1>1. ASSUME NEW s \in Senders, SendBegin(s) \/ Send(s) PROVE CloserQuit'
  <2>1. pc'[Closer] = pc[Closer] /\ lvl'[Closer] = lvl[Closer] /\ quit' = quit
    BY <1>1, ThreadsAssumption
    DEF SendBegin, Send, SendTest, SendAdd, SendSize, SendCount, SendPeek, SendNotify, Parked
  <2> QED
    BY <2>1
<1>2. ASSUME NEW r \in Receivers, Recv(r) \/ RecvTimeout(r) PROVE CloserQuit'
  <2>1. pc'[Closer] = pc[Closer] /\ lvl'[Closer] = lvl[Closer] /\ quit' = quit
    BY <1>2, ThreadsAssumption
    DEF Recv, RecvPeek, RecvTake, RecvUncount, RecvReturn, RecvLock, RecvCheck, RecvLeave,
        RecvTimeout, NextLevel, StartScan
  <2> QED
    BY <2>1
<1>3. ASSUME CloseBegin \/ Close PROVE CloserQuit'
  <2>1. CASE CloseBegin
    BY <2>1 DEF CloseBegin
  <2>2. CASE CloseQuit
    BY <2>2 DEF CloseQuit
  <2>3. CASE CloseDrain
    BY <2>3 DEF CloseDrain
  <2>4. CASE CloseZero
    BY <2>4 DEF CloseZero, CloseZeroUpTo
  <2>5. CASE CloseEnd
    BY <2>5 DEF CloseEnd
  <2> QED
    BY <1>3, <2>1, <2>2, <2>3, <2>4, <2>5 DEF Close
<1>4. CASE UNCHANGED vars
  BY <1>4 DEF vars
<1> QED
  BY <1>1, <1>2, <1>3, <1>4 DEF Next

(* A step that leaves queues, counters and the threads in flight alone     *)
(* leaves the account alone.                                               *)
LEMMA AccountKept ==
  ASSUME CountersAccount, NEW p \in Prio, ~ quit[p],
         sendq'[p] = sendq[p], Len(queue'[p]) = Len(queue[p]),
         Uncounted(p)' = Uncounted(p), Overcounted(p)' = Overcounted(p)
  PROVE  sendq'[p] + Cardinality(Uncounted(p)')
           = Len(queue'[p]) + Cardinality(Overcounted(p)')
BY DEF CountersAccount

\* Each step moves one thread into or out of flight, together with queue or counter.
LEMMA NextCountersAccount ==
  TypeOK /\ CloserQuit /\ CountersAccount /\ [Next]_vars => CountersAccount'
<1> SUFFICES ASSUME TypeOK, CloserQuit, CountersAccount, [Next]_vars,
                    NEW p \in Prio, ~ quit'[p]
             PROVE  sendq'[p] + Cardinality(Uncounted(p)')
                      = Len(queue'[p]) + Cardinality(Overcounted(p)')
  BY DEF CountersAccount
<1> DEFINE Account == sendq'[p] + Cardinality(Uncounted(p)')
                        = Len(queue'[p]) + Cardinality(Overcounted(p)')
<1>0. ~ quit[p]
  BY DEF TypeOK, Next, Send, Recv, Close, qvars, vars, SendBegin, SendTest, SendAdd,
    SendSize, SendCount, SendPeek, SendNotify, RecvPeek, RecvTake, RecvUncount, RecvReturn,
    RecvLock, RecvCheck, RecvLeave, RecvTimeout, CloseBegin, CloseQuit, CloseDrain,
    CloseZero, CloseZeroUpTo, CloseEnd
<1>a. sendq[p] + Cardinality(Uncounted(p)) = Len(queue[p]) + Cardinality(Overcounted(p))
  BY <1>0 DEF CountersAccount
<1> USE DEF TypeOK, Goto, Threads, qvars
<1>1. ASSUME NEW s \in Senders, SendBegin(s) PROVE Account
  <2>1. sendq' = sendq /\ queue' = queue
    BY <1>1 DEF SendBegin
  <2>2. Uncounted(p)' = Uncounted(p) /\ Overcounted(p)' = Overcounted(p)
    BY <1>1, ThreadsAssumption DEF Uncounted, Overcounted, SendBegin
  <2> QED
    BY <1>0, <2>1, <2>2, AccountKept
<1>2. ASSUME NEW s \in Senders, SendAdd(s) PROVE Account
  <2>1. CASE lvl[s] = p
    <3>1. sendq' = sendq /\ Len(queue'[p]) = Len(queue[p]) + 1 /\ Len(queue[p]) \in Nat
      BY <1>2, <2>1 DEF SendAdd
    <3>2. s \notin Uncounted(p) /\ Uncounted(p)' = Uncounted(p) \cup {s}
      BY <1>2, <2>1 DEF Uncounted, Overcounted, SendAdd
    <3>3. Overcounted(p)' = Overcounted(p)
      BY <1>2, ThreadsAssumption DEF Uncounted, Overcounted, SendAdd
    <3>4. Cardinality(Uncounted(p)') = Cardinality(Uncounted(p)) + 1
      BY <3>2, FlightFinite, FS_AddElement
    <3> QED
      BY <1>a, <3>1, <3>3, <3>4, FlightFinite
  <2>2. CASE lvl[s] # p
    <3>1. sendq' = sendq /\ queue'[p] = queue[p]
      BY <1>2, <2>2 DEF SendAdd
    <3>2. Uncounted(p)' = Uncounted(p) /\ Overcounted(p)' = Overcounted(p)
      BY <1>2, <2>2, ThreadsAssumption DEF Uncounted, Overcounted, SendAdd
    <3> QED
      BY <1>0, <3>1, <3>2, AccountKept
  <2> QED
    BY <2>1, <2>2
<1>3. ASSUME NEW s \in Senders, SendCount(s) PROVE Account
  <2>1. CASE lvl[s] = p
    <3>1. queue' = queue /\ sendq'[p] = sendq[p] + 1 /\ Len(queue[p]) \in Nat
      BY <1>3, <2>1 DEF SendCount
    <3>2. s \in Uncounted(p) /\ Uncounted(p)' = Uncounted(p) \ {s}
      BY <1>3, <2>1 DEF Uncounted, Overcounted, SendCount
    <3>3. Overcounted(p)' = Overcounted(p)
      BY <1>3, ThreadsAssumption DEF Uncounted, Overcounted, SendCount
    <3>4. Cardinality(Uncounted(p)') = Cardinality(Uncounted(p)) - 1
      BY <3>2, FlightFinite, FS_RemoveElement
    <3> QED
      BY <1>a, <3>1, <3>3, <3>4, FlightFinite
  <2>2. CASE lvl[s] # p
    <3>1. queue' = queue /\ sendq'[p] = sendq[p]
      BY <1>3, <2>2 DEF SendCount
    <3>2. Uncounted(p)' = Uncounted(p) /\ Overcounted(p)' = Overcounted(p)
      BY <1>3, <2>2, ThreadsAssumption DEF Uncounted, Overcounted, SendCount
    <3> QED
      BY <1>0, <3>1, <3>2, AccountKept
  <2> QED
    BY <2>1, <2>2
<1>4. ASSUME NEW s \in Senders, SendTest(s) \/ SendSize(s) \/ SendPeek(s) \/ SendNotify(s)
      PROVE  Account
  <2>1. sendq' = sendq /\ queue' = queue /\ lvl' = lvl
    BY <1>4 DEF SendTest, SendSize, SendPeek, SendNotify
  <2>2. Uncounted(p)' = Uncounted(p) /\ Overcounted(p)' = Overcounted(p)
    BY <1>4, ThreadsAssumption DEF Uncounted, Overcounted, SendTest, SendSize, SendPeek,
                                 SendNotify, Parked
  <2> QED
    BY <1>0, <2>1, <2>2, AccountKept
<1>5. ASSUME NEW r \in Receivers, RecvTake(r) PROVE Account
  <2>0. sendq' = sendq /\ Uncounted(p)' = Uncounted(p)
    BY <1>5, ThreadsAssumption DEF Uncounted, Overcounted, RecvTake, NextLevel
  <2>1. CASE queue[lvl[r]] # << >> /\ lvl[r] = p
    <3>1. Len(queue'[p]) = Len(queue[p]) - 1 /\ Len(queue[p]) \in Nat
      BY <1>5, <2>1, TailElem DEF RecvTake
    <3>2. r \notin Overcounted(p) /\ Overcounted(p)' = Overcounted(p) \cup {r}
      BY <1>5, <2>1 DEF Uncounted, Overcounted, RecvTake
    <3>3. Cardinality(Overcounted(p)') = Cardinality(Overcounted(p)) + 1
      BY <3>2, FlightFinite, FS_AddElement
    <3> QED
      BY <1>a, <2>0, <3>1, <3>3, FlightFinite
  <2>2. CASE queue[lvl[r]] = << >> \/ lvl[r] # p
    <3>1. queue'[p] = queue[p]
      BY <1>5, <2>2 DEF RecvTake
    <3>2. Overcounted(p)' = Overcounted(p)
      BY <1>5, <2>2 DEF Uncounted, Overcounted, RecvTake, NextLevel
    <3> QED
      BY <1>0, <2>0, <3>1, <3>2, AccountKept
  <2> QED
    BY <2>1, <2>2
<1>6. ASSUME NEW r \in Receivers, RecvUncount(r) PROVE Account
  <2>0. queue' = queue /\ Uncounted(p)' = Uncounted(p) /\ Len(queue[p]) \in Nat
    BY <1>6, ThreadsAssumption DEF Uncounted, Overcounted, RecvUncount
  <2>1. CASE lvl[r] = p
    <3>1. sendq'[p] = sendq[p] - 1
      BY <1>6, <2>1 DEF RecvUncount
    <3>2. r \in Overcounted(p) /\ Overcounted(p)' = Overcounted(p) \ {r}
      BY <1>6, <2>1 DEF Uncounted, Overcounted, RecvUncount
    <3>3. Cardinality(Overcounted(p)') = Cardinality(Overcounted(p)) - 1
      BY <3>2, FlightFinite, FS_RemoveElement
    <3> QED
      BY <1>a, <2>0, <3>1, <3>3, FlightFinite, SMTT(30)
  <2>2. CASE lvl[r] # p
    <3>1. sendq'[p] = sendq[p]
      BY <1>6, <2>2 DEF RecvUncount
    <3>2. Overcounted(p)' = Overcounted(p)
      BY <1>6, <2>2 DEF Uncounted, Overcounted, RecvUncount
    <3> QED
      BY <1>0, <2>0, <3>1, <3>2, AccountKept
  <2> QED
    BY <2>1, <2>2
<1>7. ASSUME NEW r \in Receivers, RecvPeek(r) \/ RecvReturn(r) \/ RecvLock(r)
                                  \/ RecvCheck(r) \/ RecvLeave(r) \/ RecvTimeout(r)
      PROVE  Account
  <2>1. sendq' = sendq /\ queue' = queue
    BY <1>7 DEF RecvPeek, RecvReturn, RecvLock, RecvCheck, RecvLeave, RecvTimeout
  <2>2. /\ pc[r] # "uncount" /\ pc'[r] # "uncount"
        /\ \A t \in Senders \cup (Receivers \ {r}) : pc'[t] = pc[t] /\ lvl'[t] = lvl[t]
    BY <1>7, ThreadsAssumption DEF RecvPeek, RecvReturn, RecvLock, RecvCheck, RecvLeave, RecvTimeout,
                NextLevel, StartScan
  <2>3. Uncounted(p)' = Uncounted(p) /\ Overcounted(p)' = Overcounted(p)
    <3>1. Uncounted(p)' = Uncounted(p)
      BY <2>2 DEF Uncounted
    <3>2. ASSUME NEW t \in Receivers
          PROVE  (pc'[t] = "uncount" /\ lvl'[t] = p) <=> (pc[t] = "uncount" /\ lvl[t] = p)
      BY <2>2
    <3> QED
      BY <3>1, <3>2 DEF Overcounted
  <2> QED
    BY <1>0, <2>1, <2>3, AccountKept
<1>8. ASSUME CloseBegin \/ Close PROVE Account
  <2>1. sendq'[p] = sendq[p] /\ queue'[p] = queue[p]
    BY <1>0, <1>8 DEF CloserQuit, CloseBegin, Close, CloseQuit, CloseDrain, CloseZero,
                      CloseZeroUpTo, CloseEnd
  <2>2. \A t \in Senders \cup Receivers :
          /\ lvl'[t] = lvl[t]
          /\ pc'[t] = pc[t] \/ {pc[t], pc'[t]} = {"parked", "wake"}
    BY <1>8, ThreadsAssumption DEF CloseBegin, Close, CloseQuit, CloseDrain, CloseZero,
                                   CloseZeroUpTo, CloseEnd, Parked
  <2>3. Uncounted(p)' = Uncounted(p) /\ Overcounted(p)' = Overcounted(p)
    BY <2>2 DEF Uncounted, Overcounted
  <2> QED
    BY <1>0, <2>1, <2>3, AccountKept
<1>9. CASE UNCHANGED vars
  <2>1. /\ sendq' = sendq /\ queue' = queue
        /\ Uncounted(p)' = Uncounted(p) /\ Overcounted(p)' = Overcounted(p)
    BY <1>9 DEF vars, Uncounted, Overcounted
  <2> QED
    BY <1>0, <2>1, AccountKept
<1> QED
  BY <1>1, <1>2, <1>3, <1>4, <1>5, <1>6, <1>7, <1>8, <1>9 DEF Next, Send, Recv

(* While a priority is open its counter is the length of its queue up to   *)
(* the calls in flight, for any number of senders, receivers and levels.   *)
THEOREM CountersCorrect == Spec => []CountersAccount
<1>1. Init => CountersInv
  <2> SUFFICES ASSUME Init PROVE CloserQuit /\ CountersAccount /\ CallBegun
    BY InitTypeOK DEF CountersInv
  <2>1. CloserQuit /\ CallBegun
    BY ThreadsAssumption DEF Init, CloserQuit, CallBegun, Threads
  <2>2. ASSUME NEW p \in Prio PROVE Uncounted(p) = {} /\ Overcounted(p) = {}
    BY ThreadsAssumption DEF Init, Uncounted, Overcounted, Threads
  <2>3. \A p \in Prio : sendq[p] = 0 /\ Len(queue[p]) = 0
    BY DEF Init
  <2> QED
    BY <2>1, <2>2, <2>3, FS_EmptySet DEF CountersAccount
<1>2. CountersInv /\ [Next]_vars => CountersInv'
  BY NextTypeOK, NextCallBegun, NextCloserQuit, NextCountersAccount DEF CountersInv
<1>3. CountersInv => CountersAccount
  BY DEF CountersInv
<1> QED
  BY <1>1, <1>2, <1>3, PTL DEF Spec

-----------------------------------------------------------------------------
(* The wake-ups.  recvqSize counts exactly the receivers between raising   *)
(* and lowering it, so a sender that reads 0 knows that nobody is parked.  *)
Waiting == {r \in Receivers : pc[r] \in {"check", "parked", "wake", "leave"}}
RecvqCounts == recvq = Cardinality(Waiting)
Notifying == \E s \in Senders : pc[s] \in {"sendq", "peek", "notify"}

\* The receivers that count as waiting can be counted.
LEMMA WaitingFinite == IsFiniteSet(Waiting) /\ Cardinality(Waiting) \in Nat
BY ThreadsAssumption, FS_Subset, FS_CardinalityType DEF Waiting

\* recvq changes with that set.
LEMMA NextRecvqCounts == TypeOK /\ RecvqCounts /\ [Next]_vars => RecvqCounts'
<1> SUFFICES ASSUME TypeOK, RecvqCounts, [Next]_vars PROVE RecvqCounts'
  OBVIOUS
<1> USE DEF TypeOK, Goto, Threads, qvars
<1>0. ASSUME recvq' = recvq, Waiting' = Waiting PROVE RecvqCounts'
  BY <1>0 DEF RecvqCounts
<1>1. ASSUME NEW s \in Senders, SendBegin(s) \/ Send(s) PROVE RecvqCounts'
  <2>1. recvq' = recvq
    BY <1>1 DEF SendBegin, Send, SendTest, SendAdd, SendSize, SendCount, SendPeek, SendNotify
  <2>2. ASSUME NEW t \in Receivers
        PROVE  pc'[t] = pc[t] \/ (pc[t] = "parked" /\ pc'[t] = "wake")
    <3>0. t \in Threads /\ t \notin Senders /\ t # Closer
      BY ThreadsAssumption
    <3>1. CASE SendNotify(s) /\ recvq # 0 /\ Parked # {}
      <4>1. PICK r \in Parked : pc' = [pc EXCEPT ![s] = "idle", ![r] = "wake"]
        BY <3>1 DEF SendNotify
      <4> QED
        BY <3>0, <4>1 DEF Parked
    <3>2. CASE SendNotify(s) /\ ~ (recvq # 0 /\ Parked # {})
      BY <3>0, <3>2 DEF SendNotify
    <3>3. CASE ~ SendNotify(s)
      BY <1>1, <3>0, <3>3
      DEF SendBegin, Send, SendTest, SendAdd, SendSize, SendCount, SendPeek
    <3> QED
      BY <3>1, <3>2, <3>3
  <2>3. Waiting' = Waiting
    BY <2>2 DEF Waiting
  <2> QED
    BY <1>0, <2>1, <2>3
<1>2. ASSUME NEW r \in Receivers, RecvLock(r) PROVE RecvqCounts'
  <2>1. CASE closed
    <3>1. recvq' = recvq /\ Waiting' = Waiting
      BY <1>2, <2>1 DEF RecvLock, Waiting
    <3> QED
      BY <1>0, <3>1
  <2>2. CASE ~ closed
    <3>1. recvq' = recvq + 1
      BY <1>2, <2>2 DEF RecvLock
    <3>2. r \notin Waiting /\ Waiting' = Waiting \cup {r}
      BY <1>2, <2>2 DEF RecvLock, Waiting
    <3>3. Cardinality(Waiting') = Cardinality(Waiting) + 1
      BY <3>2, WaitingFinite, FS_AddElement
    <3> QED
      BY <3>1, <3>3 DEF RecvqCounts
  <2> QED
    BY <2>1, <2>2
<1>3. ASSUME NEW r \in Receivers, RecvLeave(r) PROVE RecvqCounts'
  <2>1. recvq' = recvq - 1
    BY <1>3 DEF RecvLeave
  <2>2. r \in Waiting /\ Waiting' = Waiting \ {r}
    BY <1>3 DEF RecvLeave, StartScan, Waiting
  <2>3. Cardinality(Waiting') = Cardinality(Waiting) - 1
    BY <2>2, WaitingFinite, FS_RemoveElement
  <2> QED
    BY <2>1, <2>3 DEF RecvqCounts
<1>4. ASSUME NEW r \in Receivers, RecvPeek(r) \/ RecvTake(r) \/ RecvUncount(r)
                                  \/ RecvReturn(r) \/ RecvCheck(r) \/ RecvTimeout(r)
      PROVE  RecvqCounts'
  <2>1. recvq' = recvq
    BY <1>4 DEF RecvPeek, RecvTake, RecvUncount, RecvReturn, RecvCheck, RecvTimeout
  <2>2. /\ \A t \in Receivers \ {r} : pc'[t] = pc[t]
        /\ \/ pc[r] \in {"scan", "take", "uncount", "unsize"}
              /\ pc'[r] \in {"scan", "take", "uncount", "unsize", "lock"}
           \/ pc[r] = "check" /\ pc'[r] \in {"parked", "leave"}
           \/ pc[r] = "parked" /\ pc'[r] = "wake"
    BY <1>4 DEF RecvPeek, RecvTake, RecvUncount, RecvReturn, RecvCheck, RecvTimeout,
                NextLevel, StartScan
  <2>3. Waiting' = Waiting
    BY <2>2 DEF Waiting
  <2> QED
    BY <1>0, <2>1, <2>3
<1>5. ASSUME CloseBegin \/ Close PROVE RecvqCounts'
  <2>1. recvq' = recvq
    BY <1>5 DEF CloseBegin, Close, CloseQuit, CloseDrain, CloseZero, CloseZeroUpTo, CloseEnd
  <2>2. ASSUME NEW t \in Receivers
        PROVE  pc'[t] = pc[t] \/ (pc[t] = "parked" /\ pc'[t] = "wake")
    <3>0. t \in Threads /\ t \notin Senders /\ t # Closer
      BY ThreadsAssumption
    <3>1. CASE CloseEnd
      BY <3>0, <3>1 DEF CloseEnd, Parked
    <3>2. CASE ~ CloseEnd
      BY <1>5, <3>0, <3>2
      DEF CloseBegin, Close, CloseQuit, CloseDrain, CloseZero, CloseZeroUpTo
    <3> QED
      BY <3>1, <3>2
  <2>3. Waiting' = Waiting
    BY <2>2 DEF Waiting
  <2> QED
    BY <1>0, <2>1, <2>3
<1>6. CASE UNCHANGED vars
  BY <1>0, <1>6 DEF vars, Waiting
<1> QED
  BY <1>1, <1>2, <1>3, <1>4, <1>5, <1>6 DEF Next, Recv

(* A receiver that is not parked keeps the antecedent false; a sender on   *)
(* its way to notify leaves that way only through a wake-up or with nobody *)
(* parked.                                                                 *)
LEMMA NextNoLostWakeup ==
  TypeOK /\ RecvqCounts /\ NoLostWakeup /\ [Next]_vars => NoLostWakeup'
<1> SUFFICES ASSUME TypeOK, RecvqCounts, NoLostWakeup, [Next]_vars,
                    ~ closed', size' > 0, Parked' = Receivers
             PROVE  Notifying'
  BY DEF NoLostWakeup, Notifying
<1> USE DEF TypeOK, Goto, Threads, qvars
<1>0. ASSUME Parked = Receivers, closed' = closed, size' = size,
             \A t \in Senders : pc'[t] = pc[t]
      PROVE  Notifying'
  BY <1>0 DEF NoLostWakeup, Notifying
<1>a. recvq = 0 => Parked # Receivers
  <2>1. recvq = 0 => Waiting = {}
    BY WaitingFinite, FS_EmptySet DEF RecvqCounts
  <2> QED
    BY <2>1, ThreadsAssumption DEF Waiting, Parked
<1>1. ASSUME NEW s \in Senders, SendBegin(s) \/ SendTest(s) \/ SendAdd(s) PROVE Notifying'
  <2>1. closed' = closed /\ size' = size
    BY <1>1 DEF SendBegin, SendTest, SendAdd
  <2>2. Parked = Receivers
    BY <1>1, ThreadsAssumption DEF SendBegin, SendTest, SendAdd, Parked
  <2>3. PICK t \in Senders : pc[t] \in {"sendq", "peek", "notify"}
    BY <2>1, <2>2 DEF NoLostWakeup
  <2>4. t # s /\ pc'[t] = pc[t]
    BY <1>1, <2>3 DEF SendBegin, SendTest, SendAdd
  <2> QED
    BY <2>3, <2>4 DEF Notifying
<1>2. ASSUME NEW s \in Senders, SendSize(s) \/ SendCount(s) PROVE Notifying'
  BY <1>2 DEF SendSize, SendCount, Notifying
<1>3. ASSUME NEW s \in Senders, SendPeek(s) PROVE Notifying'
  <2>1. Parked = Receivers
    BY <1>3, ThreadsAssumption DEF SendPeek, Parked
  <2>2. pc'[s] = "notify"
    BY <1>a, <1>3, <2>1 DEF SendPeek
  <2> QED
    BY <2>2 DEF Notifying
<1>4. ASSUME NEW s \in Senders, SendNotify(s) PROVE FALSE
  <2>1. CASE recvq # 0 /\ Parked # {}
    <3>1. PICK r \in Parked : pc' = [pc EXCEPT ![s] = "idle", ![r] = "wake"]
      BY <1>4, <2>1 DEF SendNotify
    <3>2. r \in Receivers /\ pc'[r] = "wake"
      BY <3>1, ThreadsAssumption DEF Parked
    <3> QED
      BY <3>2 DEF Parked
  <2>2. CASE recvq = 0 \/ Parked = {}
    <3>1. Parked # Receivers
      BY <1>a, <2>2, ThreadsAssumption
    <3>2. Parked' = Parked
      BY <1>4, <2>2, ThreadsAssumption DEF SendNotify, Parked
    <3> QED
      BY <3>1, <3>2
  <2> QED
    BY <2>1, <2>2
<1>5. ASSUME NEW r \in Receivers, Recv(r) \/ RecvTimeout(r) PROVE Notifying'
  <2>1. CASE RecvCheck(r)
    <3>1. size = 0 /\ size' = size
      BY <2>1 DEF RecvCheck, Parked
    <3> QED
      BY <3>1
  <2>2. CASE ~ RecvCheck(r)
    <3>1. pc'[r] # "parked"
      BY <1>5, <2>2 DEF Recv, RecvPeek, RecvTake, RecvUncount, RecvReturn, RecvLock,
                        RecvLeave, RecvTimeout, NextLevel, StartScan
    <3> QED
      BY <3>1 DEF Parked
  <2> QED
    BY <2>1, <2>2
<1>6. ASSUME CloseBegin \/ Close PROVE Notifying'
  <2>1. CASE CloseEnd
    BY <2>1 DEF CloseEnd
  <2>2. CASE ~ CloseEnd
    <3>1. closed' = closed /\ size' = size /\ \A t \in Threads \ {Closer} : pc'[t] = pc[t]
      BY <1>6, <2>2 DEF CloseBegin, Close, CloseQuit, CloseDrain, CloseZero, CloseZeroUpTo
    <3>2. \A t \in Senders \cup Receivers : pc'[t] = pc[t]
      BY <3>1, ThreadsAssumption
    <3>3. Parked = Receivers
      BY <3>2 DEF Parked
    <3> QED
      BY <1>0, <3>1, <3>2, <3>3
  <2> QED
    BY <2>1, <2>2
<1>7. CASE UNCHANGED vars
  BY <1>0, <1>7 DEF vars, Parked
<1> QED
  BY <1>1, <1>2, <1>3, <1>4, <1>5, <1>6, <1>7 DEF Next, Send

(* No wake-up is ever lost, for any number of senders and receivers: an    *)
(* element counted in size with every receiver parked always has a sender  *)
(* behind it that will still notify.                                       *)
THEOREM WakeupCorrect == Spec => []NoLostWakeup
<1>1. Init => CallBegun /\ RecvqCounts /\ NoLostWakeup
  <2> SUFFICES ASSUME Init PROVE CallBegun /\ RecvqCounts /\ NoLostWakeup
    OBVIOUS
  <2>1. Waiting = {} /\ Parked = {}
    BY DEF Init, Waiting, Parked, Threads
  <2>2. CallBegun
    BY ThreadsAssumption DEF Init, CallBegun, Threads
  <2> QED
    BY <2>1, <2>2, FS_EmptySet DEF Init, RecvqCounts, NoLostWakeup
<1> QED
  BY <1>1, InitTypeOK, NextTypeOK, NextCallBegun, NextRecvqCounts, NextNoLostWakeup, PTL DEF Spec

-----------------------------------------------------------------------------
(* Close.  The monitor keeps close and a receiver that is about to park    *)
(* apart, and close has raised every quit flag when it stores closed.      *)
MonitorHeld ==
  /\ \A r \in Receivers : pc[r] \in {"check", "leave"} => owner = r
  /\ pc[Closer] \in {"quit", "drain", "zero", "end"} => owner = Closer
NobodyEnters == closed => \A r \in Receivers : pc[r] \notin {"check", "parked"}

\* The monitor is held by the thread that is in it.
LEMMA NextMonitorHeld == TypeOK /\ MonitorHeld /\ [Next]_vars => MonitorHeld'
<1> SUFFICES ASSUME TypeOK, MonitorHeld, [Next]_vars PROVE MonitorHeld'
  OBVIOUS
<1> USE ThreadsAssumption DEF TypeOK, Goto, Threads
<1>1. ASSUME NEW s \in Senders, SendBegin(s) \/ Send(s) PROVE MonitorHeld'
  <2>1. /\ owner' = owner /\ pc'[Closer] = pc[Closer]
        /\ \A r \in Receivers : pc'[r] \in {pc[r], "wake"}
    BY <1>1 DEF SendBegin, Send, SendTest, SendAdd, SendSize, SendCount, SendPeek, SendNotify, Parked
  <2> QED
    BY <2>1 DEF MonitorHeld
<1>2. ASSUME NEW r \in Receivers, Recv(r) \/ RecvTimeout(r) PROVE MonitorHeld'
  <2>1. pc'[Closer] = pc[Closer] /\ \A t \in Receivers : t # r => pc'[t] = pc[t]
    BY <1>2 DEF Recv, RecvPeek, RecvTake, RecvUncount, RecvReturn, RecvLock, RecvCheck, RecvLeave,
                RecvTimeout, NextLevel, StartScan
  <2>2. \/ owner' = owner /\ pc'[r] \notin {"check", "leave"}
        \/ owner = NoThread /\ owner' = r
        \/ owner = r /\ owner' = r
        \/ owner \in {r, NoThread} /\ owner' = NoThread /\ pc'[r] \notin {"check", "leave"}
    BY <1>2 DEF Recv, RecvPeek, RecvTake, RecvUncount, RecvReturn, RecvLock, RecvCheck, RecvLeave,
                RecvTimeout, NextLevel, StartScan, MonitorHeld
  <2> QED
    BY <2>1, <2>2 DEF MonitorHeld
<1>3. ASSUME CloseBegin \/ Close PROVE MonitorHeld'
  <2>1. CASE CloseBegin
    BY <2>1 DEF CloseBegin, MonitorHeld
  <2>2. CASE CloseQuit \/ CloseDrain \/ CloseZero
    <3>1. /\ owner' = owner /\ owner = Closer
          /\ \A r \in Receivers : pc'[r] = pc[r]
      BY <2>2 DEF CloseQuit, CloseDrain, CloseZero, CloseZeroUpTo, MonitorHeld
    <3> QED
      BY <3>1 DEF MonitorHeld
  <2>3. CASE CloseEnd
    <3>1. /\ owner = Closer /\ pc'[Closer] = "done"
          /\ \A r \in Receivers : pc'[r] \in {pc[r], "wake"}
      BY <2>3 DEF CloseEnd, MonitorHeld, Parked
    <3> QED
      BY <3>1 DEF MonitorHeld
  <2> QED
    BY <1>3, <2>1, <2>2, <2>3 DEF Close
<1>4. CASE UNCHANGED vars
  BY <1>4 DEF vars, MonitorHeld
<1> QED
  BY <1>1, <1>2, <1>3, <1>4 DEF Next

\* Once closed is stored nobody is about to park, or parked.
LEMMA NextNobodyEnters ==
  TypeOK /\ MonitorHeld /\ NobodyEnters /\ [Next]_vars => NobodyEnters'
<1> SUFFICES ASSUME TypeOK, MonitorHeld, NobodyEnters, [Next]_vars PROVE NobodyEnters'
  OBVIOUS
<1> USE ThreadsAssumption DEF TypeOK, Goto, Threads, NobodyEnters
<1>1. ASSUME NEW s \in Senders, SendBegin(s) \/ Send(s) PROVE NobodyEnters'
  <2>1. closed' = closed /\ \A r \in Receivers : pc'[r] \in {pc[r], "wake"}
    BY <1>1 DEF SendBegin, Send, SendTest, SendAdd, SendSize, SendCount, SendPeek, SendNotify, Parked
  <2> QED
    BY <2>1
<1>2. ASSUME NEW r \in Receivers, Recv(r) \/ RecvTimeout(r) PROVE NobodyEnters'
  <2>1. closed' = closed /\ \A t \in Receivers : t # r => pc'[t] = pc[t]
    BY <1>2 DEF Recv, RecvPeek, RecvTake, RecvUncount, RecvReturn, RecvLock, RecvCheck, RecvLeave,
                RecvTimeout, NextLevel, StartScan
  <2>2. closed => pc'[r] \notin {"check", "parked"}
    BY <1>2 DEF Recv, RecvPeek, RecvTake, RecvUncount, RecvReturn, RecvLock, RecvCheck, RecvLeave,
                RecvTimeout, NextLevel, StartScan
  <2> QED
    BY <2>1, <2>2
<1>3. ASSUME CloseBegin \/ Close PROVE NobodyEnters'
  <2>1. CASE CloseEnd
    <3>1. owner = Closer
      BY <2>1 DEF CloseEnd, MonitorHeld
    <3>2. ASSUME NEW r \in Receivers PROVE pc'[r] \notin {"check", "parked"}
      <4>1. pc[r] # "check"
        BY <3>1 DEF MonitorHeld
      <4> QED
        BY <2>1, <4>1 DEF CloseEnd, Parked
    <3> QED
      BY <3>2
  <2>2. CASE ~ CloseEnd
    <3>1. closed' = closed /\ \A r \in Receivers : pc'[r] = pc[r]
      BY <1>3, <2>2 DEF CloseBegin, Close, CloseQuit, CloseDrain, CloseZero, CloseZeroUpTo
    <3> QED
      BY <3>1
  <2> QED
    BY <2>1, <2>2
<1>4. CASE UNCHANGED vars
  BY <1>4 DEF vars
<1> QED
  BY <1>1, <1>2, <1>3, <1>4 DEF Next

(* Close leaves no receiver parked, and none parks after it, although a    *)
(* receiver tests closed only before it raises recvqSize.                  *)
THEOREM CloseReleases == Spec => []ClosedParksNobody
<1>1. Init => MonitorHeld /\ NobodyEnters
  BY ThreadsAssumption DEF Init, MonitorHeld, NobodyEnters, Threads
<1>2. NobodyEnters => ClosedParksNobody
  BY DEF NobodyEnters, ClosedParksNobody, Parked
<1> QED
  BY <1>1, <1>2, InitTypeOK, NextTypeOK, NextMonitorHeld, NextNobodyEnters, NextCallBegun,
     InitCallBegun, PTL DEF Spec

(* A send that begins after close.  Close raises the quit flags from the   *)
(* first priority to the last, and only then stores closed.                *)
FlagsRaised ==
  /\ pc[Closer] = "idle" => lvl[Closer] = 0
  /\ pc[Closer] \in {"idle", "quit", "drain", "zero"} =>
        /\ ~ closed
        /\ \A p \in Prio : p < lvl[Closer] => quit[p]
  /\ pc[Closer] \in {"drain", "zero"} => quit[lvl[Closer]]
  /\ pc[Closer] \notin {"idle", "quit", "drain", "zero"} => \A p \in Prio : quit[p]
LateIsAfter == \A s \in Senders : late[s] => closed

\* close raises the quit flags, one after the other, and none is lowered.
LEMMA NextFlagsRaised == TypeOK /\ FlagsRaised /\ [Next]_vars => FlagsRaised'
<1> SUFFICES ASSUME TypeOK, FlagsRaised, [Next]_vars PROVE FlagsRaised'
  OBVIOUS
<1> USE ThreadsAssumption, BoundsAssumption DEF TypeOK, Goto, Threads, qvars, Prio
<1>0. ASSUME pc'[Closer] = pc[Closer], lvl'[Closer] = lvl[Closer], quit' = quit, closed' = closed
      PROVE  FlagsRaised'
  BY <1>0 DEF FlagsRaised
<1>1. ASSUME NEW s \in Senders, SendBegin(s) \/ Send(s) PROVE FlagsRaised'
  <2>1. pc'[Closer] = pc[Closer] /\ lvl'[Closer] = lvl[Closer] /\ quit' = quit /\ closed' = closed
    BY <1>1
    DEF SendBegin, Send, SendTest, SendAdd, SendSize, SendCount, SendPeek, SendNotify, Parked
  <2> QED
    BY <1>0, <2>1
<1>2. ASSUME NEW r \in Receivers, Recv(r) \/ RecvTimeout(r) PROVE FlagsRaised'
  <2>1. pc'[Closer] = pc[Closer] /\ lvl'[Closer] = lvl[Closer] /\ quit' = quit /\ closed' = closed
    BY <1>2 DEF Recv, RecvPeek, RecvTake, RecvUncount, RecvReturn, RecvLock, RecvCheck, RecvLeave,
                RecvTimeout, NextLevel, StartScan
  <2> QED
    BY <1>0, <2>1
<1>3. ASSUME CloseBegin \/ Close PROVE FlagsRaised'
  <2>1. CASE CloseBegin
    BY <2>1 DEF CloseBegin, FlagsRaised
  <2>2. CASE CloseQuit
    BY <2>2 DEF CloseQuit, FlagsRaised
  <2>3. CASE CloseDrain
    BY <2>3 DEF CloseDrain, FlagsRaised
  <2>4. CASE CloseZero
    <3>1. quit' = quit /\ closed' = closed /\ ~ closed
      BY <2>4 DEF CloseZero, CloseZeroUpTo, FlagsRaised
    <3>2. \A p \in Prio : p =< lvl[Closer] => quit[p]
      BY <2>4 DEF CloseZero, CloseZeroUpTo, FlagsRaised
    <3>3. CASE lvl[Closer] >= Levels - 1
      <4>1. pc'[Closer] = "end" /\ \A p \in Prio : quit[p]
        BY <2>4, <3>2, <3>3 DEF CloseZero, CloseZeroUpTo
      <4> QED
        BY <3>1, <4>1 DEF FlagsRaised
    <3>4. CASE ~ lvl[Closer] >= Levels - 1
      <4>1. pc'[Closer] = "quit" /\ lvl'[Closer] = lvl[Closer] + 1
        BY <2>4, <3>4 DEF CloseZero, CloseZeroUpTo
      <4> QED
        BY <3>1, <3>2, <4>1 DEF FlagsRaised
    <3> QED
      BY <3>3, <3>4
  <2>5. CASE CloseEnd
    BY <2>5 DEF CloseEnd, FlagsRaised
  <2> QED
    BY <1>3, <2>1, <2>2, <2>3, <2>4, <2>5 DEF Close
<1>4. CASE UNCHANGED vars
  BY <1>0, <1>4 DEF vars
<1> QED
  BY <1>1, <1>2, <1>3, <1>4 DEF Next

\* A call that began after close sees a flag, and fails.
LEMMA NextLate ==
  TypeOK /\ FlagsRaised /\ LateIsAfter /\ SendAfterCloseFails /\ [Next]_vars
    => (LateIsAfter /\ SendAfterCloseFails)'
<1> SUFFICES ASSUME TypeOK, FlagsRaised, LateIsAfter, SendAfterCloseFails, [Next]_vars,
                    NEW s \in Senders, late'[s]
             PROVE  closed' /\ pc'[s] \in {"idle", "test"}
  BY DEF LateIsAfter, SendAfterCloseFails
<1> USE ThreadsAssumption DEF TypeOK, Goto, Threads, qvars
<1>0. closed => \A p \in Prio : quit[p]
  BY DEF FlagsRaised
<1>1. ASSUME late[s], closed' = closed, pc'[s] = pc[s] PROVE closed' /\ pc'[s] \in {"idle", "test"}
  BY <1>1 DEF LateIsAfter, SendAfterCloseFails
<1>2. ASSUME NEW t \in Senders, SendBegin(t) \/ Send(t) PROVE closed' /\ pc'[s] \in {"idle", "test"}
  <2>1. closed' = closed
    BY <1>2 DEF SendBegin, Send, SendTest, SendAdd, SendSize, SendCount, SendPeek, SendNotify
  <2>2. CASE t # s
    <3>1. late'[s] = late[s] /\ pc'[s] = pc[s]
      BY <1>2, <2>2
      DEF SendBegin, Send, SendTest, SendAdd, SendSize, SendCount, SendPeek, SendNotify, Parked
    <3> QED
      BY <1>1, <2>1, <3>1
  <2>3. CASE t = s /\ SendBegin(s)
    BY <2>1, <2>3 DEF SendBegin
  <2>4. CASE t = s /\ Send(s)
    <3>1. late[s]
      BY <2>4 DEF Send, SendTest, SendAdd, SendSize, SendCount, SendPeek, SendNotify
    <3>2. closed /\ pc[s] \in {"idle", "test"} /\ quit[lvl[s]]
      BY <1>0, <3>1 DEF LateIsAfter, SendAfterCloseFails
    <3> QED
      BY <2>1, <2>4, <3>2
      DEF Send, SendTest, SendAdd, SendSize, SendCount, SendPeek, SendNotify
  <2> QED
    BY <1>2, <2>2, <2>3, <2>4
<1>3. ASSUME NEW r \in Receivers, Recv(r) \/ RecvTimeout(r)
      PROVE  closed' /\ pc'[s] \in {"idle", "test"}
  <2>1. late' = late /\ closed' = closed /\ pc'[s] = pc[s]
    BY <1>3 DEF Recv, RecvPeek, RecvTake, RecvUncount, RecvReturn, RecvLock, RecvCheck, RecvLeave,
                RecvTimeout, NextLevel, StartScan
  <2> QED
    BY <1>1, <2>1
<1>4. ASSUME CloseBegin \/ Close PROVE closed' /\ pc'[s] \in {"idle", "test"}
  <2>1. late' = late /\ (closed' = closed \/ closed') /\ pc'[s] = pc[s]
    BY <1>4
    DEF Close, CloseBegin, CloseQuit, CloseDrain, CloseZero, CloseZeroUpTo, CloseEnd, Parked
  <2> QED
    BY <2>1 DEF LateIsAfter, SendAfterCloseFails
<1>5. CASE UNCHANGED vars
  BY <1>1, <1>5 DEF vars
<1> QED
  BY <1>2, <1>3, <1>4, <1>5 DEF Next

(* A send that begins after close is refused, at every priority: it meets  *)
(* a quit flag however far receivers and other senders have got.           *)
THEOREM LateSendFails == Spec => []SendAfterCloseFails
<1>1. Init => FlagsRaised /\ LateIsAfter /\ SendAfterCloseFails
  BY ThreadsAssumption
  DEF Init, FlagsRaised, LateIsAfter, SendAfterCloseFails, Threads, Prio
<1> QED
  BY <1>1, InitTypeOK, InitCallBegun, NextTypeOK, NextCallBegun, NextFlagsRaised, NextLate,
     PTL DEF Spec

-----------------------------------------------------------------------------
(***************************************************************************)
(* The priorities of SPMCLevelQueue are respected for every number of      *)
(* senders, receivers and levels.  A receiver skips a priority when its    *)
(* counter is 0.  Elements that were visible when its scan began are not   *)
(* among those that the counter does not show: every sender that has added *)
(* and not counted has its element behind them, and the counter is short   *)
(* by such senders only.                                                   *)
(***************************************************************************)

(* Removing the head shifts the others by one.                             *)
LEMMA TailShifts ==
  ASSUME NEW S, NEW q \in Seq(S), q # << >>
  PROVE  /\ Tail(q) \in Seq(S) /\ Len(Tail(q)) = Len(q) - 1 /\ Len(q) \in Nat
         /\ \A i \in 1 .. Len(q) - 1 : Tail(q)[i] = q[i + 1]
BY HeadTailProperties

\* An element that is added comes last.
LEMMA AppendKeeps ==
  ASSUME NEW S, NEW q \in Seq(S), NEW e \in S
  PROVE  /\ Append(q, e) \in Seq(S) /\ Len(Append(q, e)) = Len(q) + 1 /\ Len(q) \in Nat
         /\ \A i \in 1 .. Len(q) : Append(q, e)[i] = q[i]
         /\ Append(q, e)[Len(q) + 1] = e
BY AppendProperties

(* The element is not the one of a call that has still to add.             *)
Old(e) == e[2] <= sent[e[1]] /\ (pc[e[1]] \in {"test", "add"} => e[2] < sent[e[1]])

AllOld ==
  /\ \A p \in Prio : \A i \in 1 .. Len(queue[p]) : Old(queue[p][i])
  /\ \A r \in Receivers : \A e \in due[r] : Old(e)

(* No element is queued twice.                                             *)
NoTwins ==
  \A p, q \in Prio : \A i \in 1 .. Len(queue[p]), j \in 1 .. Len(queue[q]) :
    queue[p][i] = queue[q][j] => p = q /\ i = j

(* Senders of p that have added and not counted are behind place i.        *)
Behind(p, i) ==
  \A s \in Uncounted(p) : \E k \in i + 1 .. Len(queue[p]) : queue[p][k] = <<s, sent[s]>>

DueVisible ==
  \A r \in Receivers, p \in Prio : \A i \in 1 .. Len(queue[p]) :
    queue[p][i] \in due[r] => Behind(p, i)

\* Each visible element has the senders that have still to count behind it.
LEMMA VisibleIsBehind ==
  ASSUME TypeOK, NEW p \in Prio
  PROVE  /\ \A e \in Visible(p) : \E i \in 1 .. Len(queue[p]) : e = queue[p][i] /\ Behind(p, i)
<1>1. queue[p] \in Seq(Elem) /\ DOMAIN queue[p] = 1 .. Len(queue[p])
  BY DEF TypeOK
<1> QED
  BY <1>1 DEF Visible, Behind

(* What a counter of 0 hides was not visible when the scan began.          *)
LEMMA HiddenIsNotDue ==
  ASSUME TypeOK, CountersAccount, DueVisible, NEW r \in Receivers, NEW p \in Prio,
         ~ quit[p], ~ sendq[p] > 0, NEW i \in 1 .. Len(queue[p])
  PROVE  queue[p][i] \notin due[r]
<1> SUFFICES ASSUME Behind(p, i) PROVE FALSE
  BY DEF DueVisible
<1> DEFINE places == i + 1 .. Len(queue[p])
           place == [s \in Uncounted(p) |-> CHOOSE k \in places : queue[p][k] = <<s, sent[s]>>]
<1>1. queue[p] \in Seq(Elem) /\ Len(queue[p]) \in Nat /\ sendq[p] \in Int
  BY DEF TypeOK
<1>2. \A s \in Uncounted(p) : place[s] \in places /\ queue[p][place[s]] = <<s, sent[s]>>
  BY DEF Behind
<1>3. place \in [Uncounted(p) -> places]
  BY <1>2
<1> HIDE DEF place, places
<1>4. \A s, t \in Uncounted(p) : place[s] = place[t] => s = t
  <2> SUFFICES ASSUME NEW s \in Uncounted(p), NEW t \in Uncounted(p), place[s] = place[t]
               PROVE  s = t
    OBVIOUS
  <2>1. <<s, sent[s]>> = <<t, sent[t]>>
    BY <1>2
  <2> QED
    BY <2>1
<1>5. place \in Injection(Uncounted(p), places)
  <2> HIDE DEF Uncounted
  <2> QED
    BY <1>3, <1>4, Fun_IsInj, Zenon
<1>6. IsFiniteSet(places) /\ Cardinality(places) = Len(queue[p]) - i
  <2> DEFINE a == i + 1
             b == Len(queue[p])
  <2>1. a \in Int /\ b \in Int /\ a <= b + 1 /\ places = a .. b
    BY <1>1 DEF places
  <2> HIDE DEF a, b
  <2>2. IsFiniteSet(a .. b) /\ Cardinality(a .. b) = IF a > b THEN 0 ELSE b - a + 1
    BY <2>1, FS_Interval
  <2>3. IsFiniteSet(places) /\ Cardinality(places) = b - a + 1
    BY <2>1, <2>2
  <2> QED
    BY <1>1, <2>3 DEF a, b
<1>7. Cardinality(Uncounted(p)) <= Len(queue[p]) - i
  BY <1>5, <1>6, FS_Injection
<1>8. sendq[p] + Cardinality(Uncounted(p)) = Len(queue[p]) + Cardinality(Overcounted(p))
  BY DEF CountersAccount
<1> QED
  BY <1>1, <1>7, <1>8, FlightFinite

-----------------------------------------------------------------------------
(* How a step changes queues, threads in flight and what is due.           *)

Adds == \E s \in Senders : SendAdd(s)
Drops(p) == queue[p] # << >> /\ queue' = [queue EXCEPT ![p] = Tail(@)]

\* A step adds one element, takes one, or leaves the queues alone.
LEMMA QueueStep ==
  ASSUME TypeOK, [Next]_vars
  PROVE  queue' = queue \/ Adds \/ \E p \in Prio : Drops(p) /\ due' = due
<1> USE DEF qvars
<1>1. ASSUME NEW s \in Senders, SendBegin(s) \/ Send(s) PROVE queue' = queue \/ Adds
  BY <1>1 DEF SendBegin, Send, SendTest, SendSize, SendCount, SendPeek, SendNotify, Adds
<1>2. ASSUME NEW r \in Receivers, Recv(r) \/ RecvTimeout(r)
      PROVE  queue' = queue \/ \E p \in Prio : Drops(p) /\ due' = due
  <2>1. lvl[r] \in Prio
    BY DEF TypeOK, Threads
  <2> QED
    BY <1>2, <2>1 DEF Recv, RecvPeek, RecvTake, RecvUncount, RecvReturn, RecvLock, RecvCheck,
                      RecvLeave, RecvTimeout, Drops
<1>3. ASSUME CloseBegin \/ Close
      PROVE  queue' = queue \/ \E p \in Prio : Drops(p) /\ due' = due
  <2>1. lvl[Closer] \in Prio
    BY DEF TypeOK, Threads
  <2> QED
    BY <1>3, <2>1 DEF CloseBegin, Close, CloseQuit, CloseDrain, CloseZero, CloseZeroUpTo, CloseEnd,
                      Drops
<1> QED
  BY <1>1, <1>2, <1>3 DEF Next, vars

\* Only adding an element makes a sender one that has still to count.
LEMMA UncountedStep ==
  ASSUME TypeOK, [Next]_vars, ~ Adds, NEW p \in Prio, NEW s \in Uncounted(p)'
  PROVE  s \in Uncounted(p) /\ sent'[s] = sent[s]
<1> USE ThreadsAssumption DEF TypeOK, Goto, Threads, Uncounted
<1>1. ASSUME NEW t \in Senders, SendBegin(t) \/ Send(t)
      PROVE  s \in Uncounted(p) /\ sent'[s] = sent[s]
  BY <1>1 DEF SendBegin, Send, SendTest, SendSize, SendCount, SendPeek, SendNotify, Parked, Adds
<1>2. ASSUME NEW r \in Receivers, Recv(r) \/ RecvTimeout(r)
      PROVE  s \in Uncounted(p) /\ sent'[s] = sent[s]
  <2>1. sent' = sent /\ pc'[s] = pc[s] /\ lvl'[s] = lvl[s]
    BY <1>2 DEF Recv, RecvPeek, RecvTake, RecvUncount, RecvReturn, RecvLock, RecvCheck, RecvLeave,
                RecvTimeout, NextLevel, StartScan
  <2> QED
    BY <2>1
<1>3. ASSUME CloseBegin \/ Close PROVE s \in Uncounted(p) /\ sent'[s] = sent[s]
  <2>1. sent' = sent /\ pc'[s] = pc[s] /\ lvl'[s] = lvl[s]
    BY <1>3 DEF CloseBegin, Close, CloseQuit, CloseDrain, CloseZero, CloseZeroUpTo, CloseEnd, Parked
  <2> QED
    BY <2>1
<1>4. CASE UNCHANGED vars
  BY <1>4 DEF vars
<1> QED
  BY <1>1, <1>2, <1>3, <1>4 DEF Next

\* What is due is set when a scan begins, while no queue changes.
LEMMA DueStep ==
  ASSUME TypeOK, [Next]_vars
  PROVE  \/ due' = due
         \/ \E r \in Receivers : /\ queue' = queue /\ ~ Adds
                                 /\ due' = [due EXCEPT ![r] = UNION {Visible(p) : p \in Prio}]
<1> USE ThreadsAssumption DEF TypeOK, Threads, qvars
<1>1. ASSUME NEW s \in Senders, SendBegin(s) \/ Send(s) PROVE due' = due
  BY <1>1 DEF SendBegin, Send, SendTest, SendAdd, SendSize, SendCount, SendPeek, SendNotify
<1>2. ASSUME NEW r \in Receivers, Recv(r) \/ RecvTimeout(r), due' # due
      PROVE  /\ queue' = queue /\ ~ Adds
             /\ due' = [due EXCEPT ![r] = UNION {Visible(p) : p \in Prio}]
  <2>1. RecvReturn(r) \/ RecvLeave(r)
    BY <1>2 DEF Recv, RecvPeek, RecvTake, RecvUncount, RecvLock, RecvCheck, RecvTimeout
  <2>2. /\ queue' = queue
        /\ due' = [due EXCEPT ![r] = UNION {Visible(p) : p \in Prio}]
    BY <2>1 DEF RecvReturn, RecvLeave, StartScan
  <2> QED
    BY <1>2, <2>2 DEF Adds, SendAdd
<1>3. ASSUME CloseBegin \/ Close PROVE due' = due
  BY <1>3 DEF CloseBegin, Close, CloseQuit, CloseDrain, CloseZero, CloseZeroUpTo, CloseEnd
<1> QED
  BY <1>1, <1>2, <1>3 DEF Next, vars

\* An element of a call that has added stays one.
LEMMA OldKept ==
  ASSUME TypeOK, [Next]_vars, NEW e \in Elem, Old(e) PROVE Old(e)'
<1> DEFINE s == e[1]
<1>0. s \in Senders /\ e[2] \in Nat
  BY BoundsAssumption DEF Elem
<1> HIDE DEF s
<1> USE ThreadsAssumption, <1>0 DEF TypeOK, Goto, Threads
<1>1. ASSUME NEW t \in Senders, SendBegin(t) \/ Send(t)
      PROVE  \/ sent'[s] = sent[s] + 1
             \/ sent'[s] = sent[s] /\ (pc'[s] \in {"test", "add"} => pc[s] \in {"test", "add"})
  BY <1>1, SMTT(30)
     DEF SendBegin, Send, SendTest, SendAdd, SendSize, SendCount, SendPeek, SendNotify, Parked
<1>2. ASSUME NEW r \in Receivers, Recv(r) \/ RecvTimeout(r)
      PROVE  sent' = sent /\ pc'[s] = pc[s]
  BY <1>2 DEF Recv, RecvPeek, RecvTake, RecvUncount, RecvReturn, RecvLock, RecvCheck, RecvLeave,
              RecvTimeout, NextLevel, StartScan
<1>3. ASSUME CloseBegin \/ Close PROVE sent' = sent /\ pc'[s] = pc[s]
  BY <1>3 DEF CloseBegin, Close, CloseQuit, CloseDrain, CloseZero, CloseZeroUpTo, CloseEnd, Parked
<1>4. \/ sent'[s] = sent[s] + 1
      \/ sent'[s] = sent[s] /\ (pc'[s] \in {"test", "add"} => pc[s] \in {"test", "add"})
  BY <1>1, <1>2, <1>3 DEF Next, vars
<1>5. sent[s] \in Nat
  BY BoundsAssumption
<1> QED
  BY <1>4, <1>5 DEF Old, s

(* What is in a queue after a step was in it before, or has just been      *)
(* added by a call that no element of before stems from.                   *)
Comes(p, i, e) ==
  \/ \E j \in 1 .. Len(queue[p]) : e = queue[p][j]
  \/ \E s \in Senders : SendAdd(s) /\ p = lvl[s] /\ e = <<s, sent[s]>> /\ i = Len(queue[p]) + 1

\* A sender that adds puts its own element at the end of its queue.
LEMMA AddsOne ==
  ASSUME TypeOK, CallBegun, NEW s \in Senders, SendAdd(s)
  PROVE  /\ lvl[s] \in Prio /\ <<s, sent[s]>> \in Elem
         /\ \A p \in Prio : p # lvl[s] => queue'[p] = queue[p]
         /\ Len(queue'[lvl[s]]) = Len(queue[lvl[s]]) + 1
         /\ \A i \in 1 .. Len(queue[lvl[s]]) : queue'[lvl[s]][i] = queue[lvl[s]][i]
         /\ queue'[lvl[s]][Len(queue[lvl[s]]) + 1] = <<s, sent[s]>>
<1>1. lvl[s] \in Prio /\ queue[lvl[s]] \in Seq(Elem)
  BY DEF TypeOK, Threads
<1>2. <<s, sent[s]>> \in Elem
  BY BoundsAssumption DEF SendAdd, CallBegun, TypeOK, Elem
<1>3. queue' = [queue EXCEPT ![lvl[s]] = Append(queue[lvl[s]], <<s, sent[s]>>)]
  BY DEF SendAdd
<1>4. /\ queue'[lvl[s]] = Append(queue[lvl[s]], <<s, sent[s]>>)
      /\ \A p \in Prio \ {lvl[s]} : queue'[p] = queue[p]
  BY <1>1, <1>3 DEF TypeOK
<1> QED
  BY <1>1, <1>2, <1>4, AppendKeeps

\* A queue that loses its head moves up by one.
LEMMA DropsOne ==
  ASSUME TypeOK, NEW p \in Prio, Drops(p)
  PROVE  /\ \A q \in Prio : q # p => queue'[q] = queue[q]
         /\ Len(queue'[p]) = Len(queue[p]) - 1 /\ Len(queue[p]) \in Nat
         /\ \A i \in 1 .. Len(queue[p]) - 1 : queue'[p][i] = queue[p][i + 1]
<1>1. queue[p] \in Seq(Elem) /\ queue[p] # << >>
  BY DEF TypeOK, Drops
<1>2. queue'[p] = Tail(queue[p]) /\ \A q \in Prio : q # p => queue'[q] = queue[q]
  BY DEF Drops, TypeOK
<1> QED
  BY <1>1, <1>2, TailShifts

\* Every element of a queue was in it, or has just been added.
LEMMA ComesFrom ==
  ASSUME TypeOK, CallBegun, [Next]_vars, NEW p \in Prio, NEW i \in 1 .. Len(queue'[p])
  PROVE  Comes(p, i, queue'[p][i])
<1>0. queue[p] \in Seq(Elem) /\ Len(queue[p]) \in Nat
  BY DEF TypeOK
<1>1. CASE queue' = queue
  BY <1>1 DEF Comes
<1>2. ASSUME NEW s \in Senders, SendAdd(s) PROVE Comes(p, i, queue'[p][i])
  <2>1. CASE p = lvl[s] /\ i = Len(queue[p]) + 1
    BY <1>2, <2>1, AddsOne DEF Comes
  <2>2. CASE p = lvl[s] /\ i # Len(queue[p]) + 1
    <3>1. Len(queue'[p]) = Len(queue[p]) + 1
      BY <1>2, <2>2, AddsOne
    <3>2. i \in 1 .. Len(queue[p])
      BY <1>0, <2>2, <3>1
    <3> QED
      BY <1>2, <2>2, <3>2, AddsOne DEF Comes
  <2>3. CASE p # lvl[s]
    BY <1>2, <2>3, AddsOne DEF Comes
  <2> QED
    BY <2>1, <2>2, <2>3
<1>3. ASSUME NEW q \in Prio, Drops(q) PROVE Comes(p, i, queue'[p][i])
  <2>1. CASE p = q
    <3>1. i \in 1 .. Len(queue[p]) - 1 /\ i + 1 \in 1 .. Len(queue[p])
      BY <1>0, <1>3, <2>1, DropsOne
    <3>2. queue'[p][i] = queue[p][i + 1]
      BY <1>3, <2>1, <3>1, DropsOne
    <3> QED
      BY <3>1, <3>2 DEF Comes
  <2>2. CASE p # q
    BY <1>3, <2>2, DropsOne DEF Comes
  <2> QED
    BY <2>1, <2>2
<1> QED
  BY <1>1, <1>2, <1>3, QueueStep DEF Adds

\* What is queued or due stems from calls that have added.
LEMMA NextAllOld == TypeOK /\ CallBegun /\ AllOld /\ [Next]_vars => AllOld'
<1> SUFFICES ASSUME TypeOK, CallBegun, AllOld, [Next]_vars PROVE AllOld'
  OBVIOUS
<1>1. ASSUME NEW p \in Prio, NEW i \in 1 .. Len(queue'[p]), NEW e, e = queue'[p][i]
      PROVE  Old(e)'
  <2>1. CASE \E j \in 1 .. Len(queue[p]) : e = queue[p][j]
    <3>1. PICK j \in 1 .. Len(queue[p]) : e = queue[p][j]
      BY <2>1
    <3>2. queue[p] \in Seq(Elem)
      BY DEF TypeOK
    <3>3. e \in Elem /\ Old(e)
      BY <3>1, <3>2 DEF AllOld
    <3> QED
      BY <3>3, OldKept
  <2>2. ASSUME NEW s \in Senders, SendAdd(s), e = <<s, sent[s]>> PROVE Old(e)'
    <3>1. pc'[s] = "size" /\ sent' = sent /\ sent[s] \in Nat
      BY <2>2, ThreadsAssumption, BoundsAssumption DEF SendAdd, Goto, TypeOK, Threads
    <3> QED
      BY <2>2, <3>1 DEF Old
  <2> QED
    BY <1>1, <2>1, <2>2, ComesFrom DEF Comes
<1>2. ASSUME NEW r \in Receivers, NEW e \in due'[r] PROVE Old(e)'
  <2>1. e \in due[r] \/ \E p \in Prio : e \in Visible(p)
    <3>1. CASE due' = due
      BY <3>1
    <3>2. ASSUME NEW q \in Receivers, due' = [due EXCEPT ![q] = UNION {Visible(p) : p \in Prio}]
          PROVE  e \in due[r] \/ \E p \in Prio : e \in Visible(p)
      <4>1. due'[r] = due[r] \/ due'[r] = UNION {Visible(p) : p \in Prio}
        BY <3>2 DEF TypeOK
      <4> QED
        BY <4>1
    <3> QED
      BY <3>1, <3>2, DueStep
  <2>2. e \in Elem /\ Old(e)
    <3>1. CASE e \in due[r]
      BY <3>1 DEF TypeOK, AllOld
    <3>2. ASSUME NEW p \in Prio, e \in Visible(p) PROVE e \in Elem /\ Old(e)
      <4>1. PICK j \in 1 .. Len(queue[p]) : e = queue[p][j]
        BY <3>2, VisibleIsBehind
      <4> QED
        BY <4>1 DEF TypeOK, AllOld
    <3> QED
      BY <2>1, <3>1, <3>2
  <2> QED
    BY <2>2, OldKept
<1> QED
  BY <1>1, <1>2 DEF AllOld, Old

\* No call is queued twice.
LEMMA NextNoTwins == TypeOK /\ CallBegun /\ AllOld /\ NoTwins /\ [Next]_vars => NoTwins'
<1> SUFFICES ASSUME TypeOK, CallBegun, AllOld, NoTwins, [Next]_vars PROVE NoTwins'
  OBVIOUS
<1>0. \A p \in Prio : queue[p] \in Seq(Elem) /\ Len(queue[p]) \in Nat
  BY DEF TypeOK
<1>1. CASE queue' = queue
  BY <1>1 DEF NoTwins
<1>2. ASSUME NEW s \in Senders, SendAdd(s) PROVE NoTwins'
  <2>1. \A p \in Prio : \A i \in 1 .. Len(queue[p]) : queue[p][i] # <<s, sent[s]>>
    <3> SUFFICES ASSUME NEW p \in Prio, NEW i \in 1 .. Len(queue[p]), queue[p][i] = <<s, sent[s]>>
                 PROVE  FALSE
      OBVIOUS
    <3>1. Old(<<s, sent[s]>>)
      BY DEF AllOld
    <3>2. sent[s] \in Nat /\ pc[s] = "add"
      BY <1>2, BoundsAssumption DEF SendAdd, TypeOK
    <3> QED
      BY <3>1, <3>2 DEF Old
  <2>2. ASSUME NEW p \in Prio, NEW i \in 1 .. Len(queue'[p])
        PROVE  \/ i \in 1 .. Len(queue[p]) /\ queue'[p][i] = queue[p][i]
               \/ p = lvl[s] /\ i = Len(queue[p]) + 1 /\ queue'[p][i] = <<s, sent[s]>>
    <3>1. CASE p # lvl[s]
      BY <1>2, <3>1, AddsOne
    <3>2. CASE p = lvl[s]
      <4>1. Len(queue'[p]) = Len(queue[p]) + 1
        BY <1>2, <3>2, AddsOne
      <4>2. i \in 1 .. Len(queue[p]) \/ i = Len(queue[p]) + 1
        BY <1>0, <4>1
      <4> QED
        BY <1>2, <3>2, <4>2, AddsOne
    <3> QED
      BY <3>1, <3>2
  <2> SUFFICES ASSUME NEW p \in Prio, NEW q \in Prio, NEW i \in 1 .. Len(queue'[p]),
                      NEW j \in 1 .. Len(queue'[q]), queue'[p][i] = queue'[q][j]
               PROVE  p = q /\ i = j
    BY DEF NoTwins
  <2> DEFINE Kept(l, k) == k \in 1 .. Len(queue[l]) /\ queue'[l][k] = queue[l][k]
             Added(l, k) == l = lvl[s] /\ k = Len(queue[l]) + 1 /\ queue'[l][k] = <<s, sent[s]>>
  <2>3. (Kept(p, i) \/ Added(p, i)) /\ (Kept(q, j) \/ Added(q, j))
    BY <2>2
  <2>4. CASE Kept(p, i) /\ Kept(q, j)
    <3>1. queue[p][i] = queue[q][j] /\ i \in 1 .. Len(queue[p]) /\ j \in 1 .. Len(queue[q])
      BY <2>4
    <3> QED
      BY <3>1 DEF NoTwins
  <2>5. CASE Kept(p, i) /\ Added(q, j)
    BY <2>1, <2>5
  <2>6. CASE Added(p, i) /\ Kept(q, j)
    <3>1. queue[q][j] = <<s, sent[s]>> /\ j \in 1 .. Len(queue[q])
      BY <2>6
    <3> QED
      BY <2>1, <3>1
  <2>7. CASE Added(p, i) /\ Added(q, j)
    BY <2>7
  <2> QED
    BY <2>3, <2>4, <2>5, <2>6, <2>7
<1>3. ASSUME NEW d \in Prio, Drops(d) PROVE NoTwins'
  <2>1. ASSUME NEW p \in Prio, NEW i \in 1 .. Len(queue'[p])
        PROVE  \/ p # d /\ i \in 1 .. Len(queue[p]) /\ queue'[p][i] = queue[p][i]
               \/ p = d /\ i \in Nat /\ i + 1 \in 1 .. Len(queue[p]) /\ queue'[p][i] = queue[p][i + 1]
    BY <1>0, <1>3, DropsOne
  <2> SUFFICES ASSUME NEW p \in Prio, NEW q \in Prio, NEW i \in 1 .. Len(queue'[p]),
                      NEW j \in 1 .. Len(queue'[q]), queue'[p][i] = queue'[q][j]
               PROVE  p = q /\ i = j
    BY DEF NoTwins
  <2>2. CASE p = d /\ q = d
    BY <2>1, <2>2 DEF NoTwins
  <2>3. CASE ~ (p = d /\ q = d)
    BY <2>1, <2>3 DEF NoTwins
  <2> QED
    BY <2>2, <2>3
<1> QED
  BY <1>1, <1>2, <1>3, QueueStep DEF Adds

(* What is due stays in front of every send that is in flight.             *)
LEMMA NextDueVisible ==
  TypeOK /\ CallBegun /\ AllOld /\ NoTwins /\ DueVisible /\ [Next]_vars => DueVisible'
<1> SUFFICES ASSUME TypeOK, CallBegun, AllOld, NoTwins, DueVisible, [Next]_vars,
                    NEW r \in Receivers, NEW p \in Prio, NEW i \in 1 .. Len(queue'[p]),
                    queue'[p][i] \in due'[r], NEW s \in Uncounted(p)'
             PROVE  \E k \in i + 1 .. Len(queue'[p]) : queue'[p][k] = <<s, sent'[s]>>
  BY DEF DueVisible, Behind
<1>0. queue[p] \in Seq(Elem) /\ Len(queue[p]) \in Nat
  BY DEF TypeOK
<1>a. ASSUME NEW j \in 1 .. Len(queue[p]), queue[p][j] \in due[r], s \in Uncounted(p)
      PROVE  \E k \in j + 1 .. Len(queue[p]) : queue[p][k] = <<s, sent[s]>>
  BY <1>a DEF DueVisible, Behind
<1>1. ASSUME NEW t \in Senders, SendAdd(t)
      PROVE  \E k \in i + 1 .. Len(queue'[p]) : queue'[p][k] = <<s, sent'[s]>>
  <2>1. due' = due /\ sent' = sent /\ sent[t] \in Nat /\ pc[t] = "add"
    BY <1>1, BoundsAssumption DEF SendAdd, TypeOK
  <2>2. (s = t /\ p = lvl[t]) \/ s \in Uncounted(p)
    BY <1>1, ThreadsAssumption DEF SendAdd, Uncounted, TypeOK, Goto, Threads
  <2>3. CASE p # lvl[t]
    <3>1. queue'[p] = queue[p]
      BY <1>1, <2>3, AddsOne
    <3> QED
      BY <1>a, <2>1, <2>2, <2>3, <3>1
  <2>4. CASE p = lvl[t]
    <3>1. Len(queue'[p]) = Len(queue[p]) + 1 /\ queue'[p][Len(queue[p]) + 1] = <<t, sent[t]>>
      BY <1>1, <2>4, AddsOne
    <3>2. \A k \in 1 .. Len(queue[p]) : queue'[p][k] = queue[p][k]
      BY <1>1, <2>4, AddsOne
    <3>3. i \in 1 .. Len(queue[p])
      <4>1. i # Len(queue[p]) + 1
        <5> SUFFICES ASSUME <<t, sent[t]>> \in due[r] PROVE FALSE
          BY <2>1, <3>1
        <5>1. Old(<<t, sent[t]>>)
          BY DEF AllOld
        <5> QED
          BY <2>1, <5>1 DEF Old
      <4> QED
        BY <1>0, <3>1, <4>1
    <3>4. queue[p][i] \in due[r]
      BY <2>1, <3>2, <3>3
    <3>5. CASE s = t
      <4>1. Len(queue[p]) + 1 \in i + 1 .. Len(queue'[p])
        BY <1>0, <3>1, <3>3
      <4> QED
        BY <2>1, <3>1, <3>5, <4>1
    <3>6. CASE s \in Uncounted(p)
      <4>1. PICK k \in i + 1 .. Len(queue[p]) : queue[p][k] = <<s, sent[s]>>
        BY <1>a, <3>3, <3>4, <3>6
      <4>2. k \in i + 1 .. Len(queue'[p]) /\ k \in 1 .. Len(queue[p])
        BY <1>0, <3>1, <3>3
      <4> QED
        BY <2>1, <3>2, <4>1, <4>2
    <3> QED
      BY <2>2, <3>5, <3>6
  <2> QED
    BY <2>3, <2>4
<1>2. CASE ~ Adds
  <2>0. s \in Uncounted(p) /\ sent'[s] = sent[s]
    BY <1>2, UncountedStep
  <2>1. CASE queue' = queue /\ due' = due
    BY <1>a, <2>0, <2>1
  <2>2. ASSUME NEW d \in Prio, Drops(d), due' = due
        PROVE  \E k \in i + 1 .. Len(queue'[p]) : queue'[p][k] = <<s, sent'[s]>>
    <3>1. CASE p # d
      <4>1. queue'[p] = queue[p]
        BY <2>2, <3>1, DropsOne
      <4> QED
        BY <1>a, <2>0, <2>2, <4>1
    <3>2. CASE p = d
      <4>1. Len(queue'[p]) = Len(queue[p]) - 1
        BY <2>2, <3>2, DropsOne
      <4>2. \A k \in 1 .. Len(queue[p]) - 1 : queue'[p][k] = queue[p][k + 1]
        BY <2>2, <3>2, DropsOne
      <4>3. i + 1 \in 1 .. Len(queue[p]) /\ i \in 1 .. Len(queue[p]) - 1
        BY <1>0, <4>1
      <4>4. queue[p][i + 1] \in due[r]
        BY <2>2, <4>2, <4>3
      <4>5. PICK k \in (i + 1) + 1 .. Len(queue[p]) : queue[p][k] = <<s, sent[s]>>
        BY <1>a, <2>0, <4>3, <4>4
      <4>6. k - 1 \in i + 1 .. Len(queue'[p]) /\ k - 1 \in 1 .. Len(queue[p]) - 1 /\ (k - 1) + 1 = k
        BY <1>0, <4>1, <4>3
      <4>7. queue'[p][k - 1] = queue[p][k]
        BY <4>2, <4>6
      <4> QED
        BY <2>0, <4>5, <4>6, <4>7
    <3> QED
      BY <3>1, <3>2
  <2>3. ASSUME NEW q \in Receivers, queue' = queue,
               due' = [due EXCEPT ![q] = UNION {Visible(l) : l \in Prio}]
        PROVE  \E k \in i + 1 .. Len(queue'[p]) : queue'[p][k] = <<s, sent'[s]>>
    <3>1. CASE r # q
      <4>1. queue[p][i] \in due[r]
        BY <2>3, <3>1 DEF TypeOK
      <4> QED
        BY <1>a, <2>0, <2>3, <4>1
    <3>2. CASE r = q
      <4>1. PICK l \in Prio : queue[p][i] \in Visible(l)
        BY <2>3, <3>2 DEF TypeOK
      <4>2. PICK j \in 1 .. Len(queue[l]) : queue[p][i] = queue[l][j] /\ Behind(l, j)
        BY <4>1, VisibleIsBehind
      <4>3. p = l /\ i = j
        BY <2>3, <4>2 DEF NoTwins
      <4> QED
        BY <2>0, <2>3, <4>2, <4>3 DEF Behind
    <3> QED
      BY <3>1, <3>2
  <2> QED
    BY <1>2, <2>1, <2>2, <2>3, QueueStep, DueStep
<1> QED
  BY <1>1, <1>2 DEF Adds

-----------------------------------------------------------------------------
(* The scan.                                                               *)

Scanning(r) == pc[r] \in {"scan", "take", "uncount", "unsize"}

(* A receiver stays at its priority, begins again, or goes on to the next  *)
(* priority because the counter or the queue of this one is empty.         *)
LEMMA ScanMoves ==
  ASSUME TypeOK, [Next]_vars, NEW r \in Receivers, Scanning(r)'
  PROVE  \/ lvl'[r] = First
         \/ due'[r] = due[r] /\ Scanning(r) /\ lvl'[r] = lvl[r]
         \/ /\ due'[r] = due[r] /\ Scanning(r)
            /\ lvl[r] # Last /\ lvl'[r] = After(lvl[r])
            /\ ~ sendq[lvl[r]] > 0 \/ queue[lvl[r]] = << >>
<1> USE ThreadsAssumption DEF TypeOK, Goto, Threads, Scanning
<1> DEFINE Same == due'[r] = due[r] /\ Scanning(r) /\ lvl'[r] = lvl[r]
<1>1. ASSUME NEW s \in Senders, SendBegin(s) \/ Send(s) PROVE Same
  BY <1>1 DEF SendBegin, Send, SendTest, SendAdd, SendSize, SendCount, SendPeek, SendNotify, Parked
<1>2. ASSUME NEW q \in Receivers, q # r, Recv(q) \/ RecvTimeout(q) PROVE Same
  <2>1. due'[r] = due[r] /\ pc'[r] = pc[r] /\ lvl'[r] = lvl[r]
    BY <1>2 DEF Recv, RecvPeek, RecvTake, RecvUncount, RecvReturn, RecvLock, RecvCheck, RecvLeave,
                RecvTimeout, NextLevel, StartScan
  <2> QED
    BY <2>1
<1>3. CASE RecvReturn(r) \/ RecvLeave(r)
  BY <1>3 DEF RecvReturn, RecvLeave, StartScan
<1>4. CASE RecvPeek(r)
  BY <1>4 DEF RecvPeek, NextLevel
<1>5. CASE RecvTake(r)
  BY <1>5 DEF RecvTake, NextLevel
<1>6. CASE RecvUncount(r)
  BY <1>6 DEF RecvUncount
<1>7. CASE RecvLock(r) \/ RecvCheck(r) \/ RecvTimeout(r)
  BY <1>7 DEF RecvLock, RecvCheck, RecvTimeout
<1>8. CASE CloseBegin \/ Close
  <2>1. due' = due /\ pc'[r] \in {pc[r], "wake"} /\ lvl'[r] = lvl[r]
    BY <1>8 DEF CloseBegin, Close, CloseQuit, CloseDrain, CloseZero, CloseZeroUpTo, CloseEnd, Parked
  <2> QED
    BY <2>1
<1>9. CASE UNCHANGED vars
  BY <1>9 DEF vars
<1> QED
  BY <1>1, <1>2, <1>3, <1>4, <1>5, <1>6, <1>7, <1>8, <1>9 DEF Next, Recv

\* A quit flag is never lowered.
LEMMA QuitStays ==
  ASSUME TypeOK, [Next]_vars, NEW p \in Prio, ~ quit'[p] PROVE ~ quit[p]
BY DEF TypeOK, Next, Send, Recv, Close, qvars, vars, SendBegin, SendTest, SendAdd,
  SendSize, SendCount, SendPeek, SendNotify, RecvPeek, RecvTake, RecvUncount, RecvReturn,
  RecvLock, RecvCheck, RecvLeave, RecvTimeout, CloseBegin, CloseQuit, CloseDrain,
  CloseZero, CloseZeroUpTo, CloseEnd

(* A priority with nothing due stays one while the scan lasts: what is     *)
(* added later was not visible when the scan began.                        *)
LEMMA NothingDueKept ==
  ASSUME TypeOK, CallBegun, AllOld, [Next]_vars, NEW r \in Receivers, NEW p \in Prio,
         due'[r] = due[r], \A j \in 1 .. Len(queue[p]) : queue[p][j] \notin due[r],
         NEW i \in 1 .. Len(queue'[p])
  PROVE  queue'[p][i] \notin due'[r]
<1>1. ASSUME NEW s \in Senders, SendAdd(s) PROVE <<s, sent[s]>> \notin due[r]
  <2> SUFFICES ASSUME <<s, sent[s]>> \in due[r] PROVE FALSE
    OBVIOUS
  <2>1. Old(<<s, sent[s]>>)
    BY DEF AllOld
  <2>2. sent[s] \in Nat /\ pc[s] = "add"
    BY <1>1, BoundsAssumption DEF SendAdd, TypeOK
  <2> QED
    BY <2>1, <2>2 DEF Old
<1>2. Comes(p, i, queue'[p][i])
  BY ComesFrom
<1> QED
  BY <1>1, <1>2 DEF Comes

\* A receiver takes nothing while what was visible above it is still queued.
LEMMA NextPriority ==
  TypeOK /\ CallBegun /\ CountersAccount /\ AllOld /\ DueVisible /\ PriorityRespected /\ [Next]_vars
    => PriorityRespected'
<1> SUFFICES ASSUME TypeOK, CallBegun, CountersAccount, AllOld, DueVisible, PriorityRespected,
                    [Next]_vars, NEW r \in Receivers, Scanning(r)',
                    NEW p \in Prio, ~ quit'[p], ScannedBefore(p, lvl'[r]),
                    NEW i \in DOMAIN queue'[p]
             PROVE  queue'[p][i] \notin due'[r]
  BY DEF PriorityRespected, Scanning, ScannedBefore
<1>0. /\ queue[p] \in Seq(Elem) /\ DOMAIN queue[p] = 1 .. Len(queue[p])
      /\ i \in 1 .. Len(queue'[p]) /\ lvl[r] \in Prio
  BY NextTypeOK DEF TypeOK, Threads
<1>1. ~ quit[p]
  BY QuitStays
<1>2. lvl'[r] # First
  BY BoundsAssumption DEF ScannedBefore, First, Prio
<1>3. ASSUME Scanning(r), ScannedBefore(p, lvl[r])
      PROVE  \A j \in 1 .. Len(queue[p]) : queue[p][j] \notin due[r]
  BY <1>0, <1>1, <1>3 DEF PriorityRespected, Scanning
<1>4. CASE due'[r] = due[r] /\ Scanning(r) /\ lvl'[r] = lvl[r]
  BY <1>0, <1>3, <1>4, NothingDueKept
<1>5. CASE /\ due'[r] = due[r] /\ Scanning(r)
           /\ lvl[r] # Last /\ lvl'[r] = After(lvl[r])
           /\ ~ sendq[lvl[r]] > 0 \/ queue[lvl[r]] = << >>
  <2>1. p = lvl[r] \/ ScannedBefore(p, lvl[r])
    BY <1>0, <1>5, BoundsAssumption DEF ScannedBefore, After, Prio
  <2>2. ASSUME p = lvl[r], NEW j \in 1 .. Len(queue[p]) PROVE queue[p][j] \notin due[r]
    <3>1. queue[p] # << >>
      BY <1>0, <2>2
    <3> QED
      BY <1>1, <1>5, <2>2, <3>1, HiddenIsNotDue
  <2> QED
    BY <1>0, <1>3, <1>5, <2>1, <2>2, NothingDueKept
<1> QED
  BY <1>2, <1>4, <1>5, ScanMoves

(* For every number of senders, receivers and priorities: by the time a    *)
(* receiver looks at a priority it has left nothing behind, at an open     *)
(* priority scanned earlier, that was visible when its scan began.         *)
THEOREM PriorityCorrect == Spec => []PriorityRespected
<1>1. Init => AllOld /\ NoTwins /\ DueVisible /\ PriorityRespected
  BY DEF Init, AllOld, NoTwins, DueVisible, PriorityRespected
<1> QED
  BY <1>1, InitTypeOK, NextTypeOK, InitCallBegun, NextCallBegun, CountersCorrect, NextAllOld,
     NextNoTwins, NextDueVisible, NextPriority, PTL DEF Spec
=============================================================================
