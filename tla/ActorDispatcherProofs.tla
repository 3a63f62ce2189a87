------------------------ MODULE ActorDispatcherProofs ------------------------
(* The mailbox and the dispatcher of an actor, for every number of clients,  *)
(* calls, priorities and every capacity.                                     *)
EXTENDS ActorDispatcher, QueueLemmas, FiniteSetTheorems

Scanning == dpc \in {"scan", "take"}
Running == dpc \in {"run", "exec"}

\* The steps of the semaphore belong to the mailbox with priorities; the
\* thread has a call while it executes one and has seen a permit before it
\* takes one; it stops when it was cancelled.
Modes ==
  /\ prioritised => dpc # "plain"
  /\ ~ prioritised => dpc \in {"top", "plain", "run", "exec", "stopped"}
  /\ job # NoCall <=> Running
  /\ dpc = "permit" => cnt > 0
  /\ dpc = "stopped" => cancelled

Before(k, l) == k[1] = l[1] => k[2] < l[2]

\* What is queued, being executed or executed was posted ...
Posted ==
  /\ \A p \in Prio : \A i \in DOMAIN queue[p] :
       queue[p][i][2] <= posted[queue[p][i][1]] /\ prio[queue[p][i]] = p
  /\ Running => job[2] <= posted[job[1]]
  /\ \A n \in DOMAIN ran : ran[n][2] <= posted[ran[n][1]]

\* ... and the calls of one client and priority stand in their order: in a
\* queue, in ran, and what was executed before what is, and that before what
\* is queued.
InLine ==
  /\ \A p \in Prio : \A i, j \in DOMAIN queue[p] : i < j => Before(queue[p][i], queue[p][j])
  /\ \A p \in Prio : \A i \in DOMAIN queue[p] :
       /\ Running /\ prio[job] = p => Before(job, queue[p][i])
       /\ \A n \in DOMAIN ran : prio[ran[n]] = p => Before(ran[n], queue[p][i])
  /\ Running => \A n \in DOMAIN ran : prio[ran[n]] = prio[job] => Before(ran[n], job)
  /\ InOrder

\* What was due stays queued during the scan, which has found every queue
\* with a due call that it has passed, unless it has found one above.
ScanRight ==
  Scanning => /\ due # {} /\ due \subseteq Queued
              /\ idx # 0 => queue[idx] # << >>
              /\ \A p \in Prio : p > idx /\ (dpc = "scan" => p < lvl) =>
                   \A i \in DOMAIN queue[p] : queue[p][i] \notin due

\* A posted call is queued, being executed or done ...
Located ==
  \A c \in Clients : \A n \in 1 .. posted[c] :
    <<c, n>> \in Queued \/ job = <<c, n>> \/ fut[<<c, n>>] = "ready"

\* ... and the dispatcher is cancelled only when no call is queued or can be
\* posted.
Closed == cancelled => Queued = {} /\ \A c \in Clients : cpc[c] = "gone"

ActorInv == TypeOK /\ Modes /\ Posted /\ InLine /\ PermitsAccount /\ ScanRight /\ Located /\ Closed

-----------------------------------------------------------------------------
(* What post adds to the queues and what the dispatcher takes out of them.   *)

Adds(p, k) ==
  /\ p \in Prio /\ k \in Calls /\ k[2] = posted[k[1]] + 1
  /\ Len(queue[p]) < Capacity /\ queue' = [queue EXCEPT ![p] = Append(@, k)]
  /\ prio' = [prio EXCEPT ![k] = p] /\ posted' = [posted EXCEPT ![k[1]] = k[2]]

Removes(p) ==
  /\ p \in Prio /\ queue[p] # << >>
  /\ job' = Head(queue[p]) /\ queue' = [queue EXCEPT ![p] = Tail(@)]

\* A call is a client and the number of the call.
LEMMA CallParts ==
  ASSUME NEW k \in Calls
  PROVE  k[1] \in Clients /\ k[2] \in 1 .. MaxPosts /\ k[2] \in Nat /\ k = <<k[1], k[2]>>
BY ActorAssumption DEF Calls

\* post adds the next call of its client to one of the queues.
LEMMA PostAdds ==
  ASSUME TypeOK, NEW c \in Clients, PostAdd(c)
  PROVE  \E p \in Prio, k \in Calls : k = <<c, posted[c] + 1>> /\ Adds(p, k)
<1>1. PICK p \in Used : /\ Len(queue[p]) < Capacity
                        /\ queue' = [queue EXCEPT ![p] = Append(@, <<c, posted[c] + 1>>)]
                        /\ prio' = [prio EXCEPT ![<<c, posted[c] + 1>>] = p]
  BY DEF PostAdd
<1>2. p \in Prio
  BY <1>1, ActorAssumption DEF Used, Prio
<1>3. posted[c] + 1 \in 1 .. MaxPosts
  BY ActorAssumption DEF PostAdd, TypeOK
<1>4. <<c, posted[c] + 1>> \in Calls
  BY <1>3 DEF Calls
<1>5. posted' = [posted EXCEPT ![c] = posted[c] + 1]
  BY DEF PostAdd
<1> DEFINE k == <<c, posted[c] + 1>>
<1>6. k[1] = c /\ k[2] = posted[c] + 1
  OBVIOUS
<1>7. Adds(p, k)
  BY <1>1, <1>2, <1>4, <1>5, <1>6 DEF Adds
<1> QED
  BY <1>2, <1>4, <1>7

\* The call goes behind those of its queue; nothing else moves.
LEMMA AddedQueues ==
  ASSUME TypeOK, NEW p, NEW k, Adds(p, k)
  PROVE  /\ queue' \in [Prio -> Seq(Calls)] /\ \A q \in Prio : Len(queue'[q]) <= Capacity
         /\ \A q \in Prio : \A i \in DOMAIN queue[q] :
              i \in DOMAIN queue'[q] /\ queue'[q][i] = queue[q][i]
         /\ \A q \in Prio : \A i \in DOMAIN queue'[q] :
              \/ i \in DOMAIN queue[q] /\ queue'[q][i] = queue[q][i]
              \/ q = p /\ queue'[q][i] = k /\ i = Len(queue[q]) + 1
         /\ \E i \in DOMAIN queue'[p] : queue'[p][i] = k
         /\ \A q \in Prio : Len(queue[q]) \in Nat /\ DOMAIN queue[q] = 1 .. Len(queue[q])
<1>1. /\ p \in Prio /\ k \in Calls /\ queue \in [Prio -> Seq(Calls)]
      /\ \A q \in Prio : Len(queue[q]) <= Capacity
      /\ queue' = [queue EXCEPT ![p] = Append(queue[p], k)] /\ Len(queue[p]) < Capacity
  BY DEF Adds, TypeOK
<1> DEFINE s == queue[p]  t == Append(s, k)
<1>2. s \in Seq(Calls)
  BY <1>1
<1>3. /\ t \in Seq(Calls) /\ Len(s) \in Nat /\ Len(t) = Len(s) + 1
      /\ DOMAIN s = 1 .. Len(s) /\ DOMAIN t = 1 .. Len(s) + 1
      /\ \A i \in DOMAIN s : t[i] = s[i]
      /\ t[Len(s) + 1] = k
  BY <1>1, <1>2, AppendAt
<1>4. queue'[p] = t /\ \A q \in Prio : q # p => queue'[q] = queue[q]
  BY <1>1
<1> HIDE DEF t
<1>5. queue' \in [Prio -> Seq(Calls)]
  BY <1>1, <1>3 DEF t
<1>6. \A q \in Prio : Len(queue'[q]) <= Capacity
  BY <1>1, <1>3, <1>4, ActorAssumption
<1>7. \A q \in Prio : \A i \in DOMAIN queue[q] : i \in DOMAIN queue'[q] /\ queue'[q][i] = queue[q][i]
  BY <1>3, <1>4
<1>8. \A q \in Prio : \A i \in DOMAIN queue'[q] :
        \/ i \in DOMAIN queue[q] /\ queue'[q][i] = queue[q][i]
        \/ q = p /\ queue'[q][i] = k /\ i = Len(queue[q]) + 1
  BY <1>3, <1>4
<1>9. \E i \in DOMAIN queue'[p] : queue'[p][i] = k
  BY <1>3, <1>4
<1>10. \A q \in Prio : Len(queue[q]) \in Nat /\ DOMAIN queue[q] = 1 .. Len(queue[q])
  BY <1>1
<1> QED
  BY <1>5, <1>6, <1>7, <1>8, <1>9, <1>10

\* A posted call is queued, and nothing else becomes so.
LEMMA AddedQueued ==
  ASSUME TypeOK, NEW p, NEW k, Adds(p, k)
  PROVE  Queued' = Queued \cup {k}
<1>1. p \in Prio /\ k \in Calls
  BY DEF Adds
<1>2. ASSUME NEW l \in Queued PROVE l \in Queued'
  <2>0. PICK q \in Prio : \E i \in DOMAIN queue[q] : queue[q][i] = l
    BY <1>2 DEF Queued
  <2>1. PICK i \in DOMAIN queue[q] : queue[q][i] = l
    BY <2>0
  <2>2. i \in DOMAIN queue'[q] /\ queue'[q][i] = l
    BY <2>1, AddedQueues
  <2> QED
    BY <1>2, <2>2 DEF Queued
<1>3. ASSUME NEW l \in Queued' PROVE l \in Queued \/ l = k
  <2>0. PICK q \in Prio : \E i \in DOMAIN queue'[q] : queue'[q][i] = l
    BY <1>3 DEF Queued
  <2>1. PICK i \in DOMAIN queue'[q] : queue'[q][i] = l
    BY <2>0
  <2>2. (i \in DOMAIN queue[q] /\ queue[q][i] = l) \/ l = k
    BY <2>1, AddedQueues
  <2> QED
    BY <1>3, <2>2 DEF Queued
<1>4. k \in Queued'
  BY <1>1, AddedQueues DEF Queued
<1> QED
  BY <1>2, <1>3, <1>4

\* Both mailboxes give out the head of a queue.
LEMMA PlainRemoves ==
  ASSUME TypeOK, PlainTake
  PROVE  1 \in Prio /\ Removes(1)
BY ActorAssumption DEF Removes, PlainTake, Prio

\* A take that has found a call takes the head of the queue it was found in.
LEMMA TakeRemoves ==
  ASSUME TypeOK, ScanRight, RemoveTake, idx # 0
  PROVE  idx \in Prio /\ Removes(idx)
BY DEF Removes, RemoveTake, TypeOK, ScanRight, Scanning, Dispatch

\* The calls behind it move up; nothing else moves.
LEMMA RemovedQueues ==
  ASSUME TypeOK, NEW p, Removes(p)
  PROVE  /\ queue' \in [Prio -> Seq(Calls)] /\ \A q \in Prio : Len(queue'[q]) <= Capacity
         /\ job' \in Calls /\ job' # NoCall /\ 1 \in DOMAIN queue[p] /\ job' = queue[p][1]
         /\ \A q \in Prio : q # p => queue'[q] = queue[q]
         /\ \A i \in DOMAIN queue'[p] :
              i \in Nat /\ i > 0 /\ i + 1 \in DOMAIN queue[p] /\ queue'[p][i] = queue[p][i + 1]
         /\ \A i \in DOMAIN queue[p] :
              i = 1 \/ (i - 1 \in DOMAIN queue'[p] /\ queue'[p][i - 1] = queue[p][i])
<1>1. /\ p \in Prio /\ queue[p] # << >> /\ queue \in [Prio -> Seq(Calls)]
      /\ \A q \in Prio : Len(queue[q]) <= Capacity
      /\ queue' = [queue EXCEPT ![p] = Tail(queue[p])] /\ job' = Head(queue[p])
  BY DEF Removes, TypeOK
<1> DEFINE s == queue[p]  t == Tail(s)
<1>2. s \in Seq(Calls) /\ s # << >>
  BY <1>1
<1>3. /\ 1 \in DOMAIN s /\ Head(s) = s[1] /\ s[1] \in Calls /\ t \in Seq(Calls) /\ Len(t) = Len(s) - 1
      /\ \A i \in DOMAIN t : i + 1 \in DOMAIN s /\ t[i] = s[i + 1]
      /\ \A i \in DOMAIN s : i = 1 \/ (i - 1 \in DOMAIN t /\ t[i - 1] = s[i])
  BY <1>2, TailAt
<1>4. queue'[p] = t /\ \A q \in Prio : q # p => queue'[q] = queue[q]
  BY <1>1
<1>5. Len(s) \in Nat /\ DOMAIN t \subseteq Nat \ {0}
  <2>1. DOMAIN t = 1 .. Len(t) /\ Len(t) \in Nat
    BY <1>3
  <2> QED
    BY <1>2, <2>1
<1> HIDE DEF t
<1>6. queue' \in [Prio -> Seq(Calls)]
  BY <1>1, <1>3 DEF t
<1>7. \A q \in Prio : Len(queue'[q]) <= Capacity
  BY <1>1, <1>3, <1>4, <1>5, ActorAssumption
<1>8. job' \in Calls /\ job' # NoCall /\ job' = s[1]
  BY <1>1, <1>3, ActorAssumption DEF Calls
<1>9. \A i \in DOMAIN queue'[p] : i \in Nat /\ i > 0
  BY <1>4, <1>5
<1> QED
  BY <1>3, <1>4, <1>6, <1>7, <1>8, <1>9

\* A call is queued once.
LEMMA QueuedOnce ==
  ASSUME TypeOK, Posted, InLine, NEW p \in Prio, NEW q \in Prio,
         NEW i \in DOMAIN queue[p], NEW j \in DOMAIN queue[q], queue[p][i] = queue[q][j]
  PROVE  p = q /\ i = j
<1>1. p = q
  BY DEF Posted
<1>2. queue[p] \in Seq(Calls) /\ i \in Nat /\ j \in Nat /\ queue[p][i] \in Calls
  BY <1>1 DEF TypeOK
<1>3. i < j => queue[p][i][2] < queue[p][i][2]
  BY <1>1 DEF InLine, Before
<1>4. j < i => queue[p][i][2] < queue[p][i][2]
  BY <1>1 DEF InLine, Before
<1>5. queue[p][i][2] \in Nat
  BY <1>2, CallParts
<1>6. ~ (queue[p][i][2] < queue[p][i][2])
  BY <1>5
<1> QED
  BY <1>1, <1>2, <1>3, <1>4, <1>6

\* The call that is taken out was queued, in that queue only.
LEMMA RemovedQueued ==
  ASSUME TypeOK, Posted, InLine, NEW p, Removes(p)
  PROVE  job' \in Queued /\ Queued' = Queued \ {job'}
<1>0. p \in Prio
  BY DEF Removes
<1>1. job' \in Queued
  BY <1>0, RemovedQueues DEF Queued
<1>2. ASSUME NEW l \in Queued, l # job' PROVE l \in Queued'
  <2>0. PICK q \in Prio : \E i \in DOMAIN queue[q] : queue[q][i] = l
    BY <1>2 DEF Queued
  <2>1. PICK i \in DOMAIN queue[q] : queue[q][i] = l
    BY <2>0
  <2>2. CASE q = p
    <3>1. i # 1
      BY <1>2, <2>1, <2>2, RemovedQueues
    <3>2. i - 1 \in DOMAIN queue'[p] /\ queue'[p][i - 1] = l
      BY <2>1, <2>2, <3>1, RemovedQueues
    <3> QED
      BY <1>0, <1>2, <3>2 DEF Queued
  <2>3. CASE q # p
    <3>1. queue'[q] = queue[q]
      BY <2>3, RemovedQueues
    <3> QED
      BY <1>2, <2>1, <3>1 DEF Queued
  <2> QED
    BY <2>2, <2>3
<1>3. ASSUME NEW l \in Queued' PROVE l \in Queued /\ l # job'
  <2>0. PICK q \in Prio : \E i \in DOMAIN queue'[q] : queue'[q][i] = l
    BY <1>3 DEF Queued
  <2>1. PICK i \in DOMAIN queue'[q] : queue'[q][i] = l
    BY <2>0
  <2>2. CASE q = p
    <3>1. i \in Nat /\ i > 0 /\ i + 1 \in DOMAIN queue[p] /\ queue[p][i + 1] = l
      BY <2>1, <2>2, RemovedQueues
    <3>2. 1 \in DOMAIN queue[p] /\ job' = queue[p][1]
      BY RemovedQueues
    <3>3. l # job'
      <4>1. i + 1 # 1
        BY <3>1
      <4> QED
        BY <1>0, <3>1, <3>2, <4>1, QueuedOnce
    <3> QED
      BY <1>0, <1>3, <3>1, <3>3 DEF Queued
  <2>3. CASE q # p
    <3>1. i \in DOMAIN queue[q] /\ queue[q][i] = l
      BY <2>1, <2>3, RemovedQueues
    <3>2. l # job'
      BY <1>0, <2>3, <3>1, RemovedQueues, QueuedOnce
    <3> QED
      BY <1>3, <3>1, <3>2 DEF Queued
  <2> QED
    BY <2>2, <2>3
<1> QED
  BY <1>1, <1>2, <1>3

-----------------------------------------------------------------------------
(* Types and the dispatcher's control.                                       *)

\* The initial states are typed.
LEMMA InitTypes == Init => TypeOK /\ Modes
<1> SUFFICES ASSUME Init PROVE TypeOK /\ Modes
  OBVIOUS
<1>1. /\ queue = [p \in Prio |-> << >>] /\ \A p \in Prio : Len(queue[p]) = 0
      /\ << >> \in Seq(Calls) /\ 1 \in Prio
  BY ActorAssumption DEF Init, Prio
<1>2. queue \in [Prio -> Seq(Calls)] /\ \A p \in Prio : Len(queue[p]) <= Capacity
  BY <1>1, ActorAssumption
<1>3. TypeOK
  <2>1. posted \in [Clients -> 0 .. MaxPosts] /\ prio \in [Calls -> Prio]
    BY <1>1, ActorAssumption DEF Init
  <2>2. ran \in Seq(Calls) /\ cnt \in Nat /\ lvl \in Prio
    BY <1>1 DEF Init
  <2> QED
    BY <1>2, <2>1, <2>2 DEF Init, TypeOK
<1>4. Modes
  BY DEF Init, Modes, Running
<1> QED
  BY <1>3, <1>4

\* Types.
LEMMA NextTypes == ActorInv /\ [Next]_vars => TypeOK'
<1> SUFFICES ASSUME ActorInv, [Next]_vars PROVE TypeOK'
  OBVIOUS
<1>0. TypeOK /\ Modes /\ Posted /\ InLine /\ PermitsAccount /\ ScanRight /\ Located /\ Closed /\ NoCall \notin Calls
  BY ActorAssumption DEF ActorInv, Calls
<1>1. ASSUME NEW c \in Clients, PostAdd(c) PROVE TypeOK'
  <2>1. PICK p \in Prio, k \in Calls : Adds(p, k)
    BY <1>0, <1>1, PostAdds
  <2>2. queue' \in [Prio -> Seq(Calls)] /\ \A q \in Prio : Len(queue'[q]) <= Capacity
    BY <1>0, <2>1, AddedQueues
  <2>3. prio' \in [Calls -> Prio]
    BY <1>0, <2>1 DEF Adds, TypeOK
  <2>4. posted' \in [Clients -> 0 .. MaxPosts]
    BY <1>0, <2>1, CallParts DEF Adds, TypeOK
  <2> QED
    BY <1>0, <1>1, <2>2, <2>3, <2>4 DEF TypeOK, PostAdd, ClientStep, dispVars, futVars
<1>2. ASSUME NEW c \in Clients, Signal(c) PROVE TypeOK'
  BY <1>0, <1>2 DEF TypeOK, Signal, ClientStep, dispVars, futVars
<1>3. ASSUME NEW c \in Clients, SignalNotify(c) PROVE TypeOK'
  BY <1>0, <1>3 DEF TypeOK, SignalNotify, ClientStep, mailVars, futVars
<1>4. ASSUME NEW c \in Clients, Release(c) PROVE TypeOK'
  BY <1>0, <1>4 DEF TypeOK, Release, ClientStep, mailVars, dispVars, futVars
<1>5. ASSUME NEW c \in Clients, Get(c) PROVE TypeOK'
  BY <1>0, <1>5 DEF TypeOK, Get, ClientStep, Last, mailVars, dispVars, futVars
<1>6. ASSUME NEW c \in Clients, GetLock(c) PROVE TypeOK'
  BY <1>0, <1>6 DEF TypeOK, GetLock, ClientStep, Last, mailVars, dispVars, futVars
<1>7. ASSUME NEW c \in Clients, GetExpired(c) PROVE TypeOK'
  BY <1>0, <1>7 DEF TypeOK, GetExpired, ClientStep, Last, mailVars, dispVars, futVars
<1>8. ASSUME NEW c \in Clients, GetTimeout(c) PROVE TypeOK'
  BY <1>0, <1>8 DEF TypeOK, GetTimeout, ClientStep, mailVars, dispVars, futVars
<1>9. CASE LoopTop
  BY <1>0, <1>9 DEF TypeOK, LoopTop, Dispatch, mailVars, clientVars, futVars
<1>10. CASE PlainTake
  <2>1. Removes(1)
    BY <1>0, <1>10, PlainRemoves
  <2>2. queue' \in [Prio -> Seq(Calls)] /\ (\A q \in Prio : Len(queue'[q]) <= Capacity) /\ job' \in Calls
    BY <1>0, <2>1, RemovedQueues
  <2> QED
    BY <1>0, <1>10, <2>2 DEF TypeOK, PlainTake, Dispatch, clientVars, futVars
<1>11. CASE PlainTimeout
  BY <1>0, <1>11 DEF TypeOK, PlainTimeout, Dispatch, mailVars, clientVars, futVars
<1>12. CASE WaitLoad
  BY <1>0, <1>12 DEF TypeOK, WaitLoad, Dispatch, mailVars, clientVars, futVars
<1>13. CASE WaitLock
  BY <1>0, <1>13 DEF TypeOK, WaitLock, Dispatch, clientVars, futVars
<1>14. CASE WaitTest
  BY <1>0, <1>14 DEF TypeOK, WaitTest, Dispatch, clientVars, futVars
<1>15. CASE WaitPermit
  <2>1. cnt' \in Nat
    BY <1>0, <1>15 DEF TypeOK, Modes, WaitPermit, Dispatch
  <2>2. 1 \in Prio /\ Queued \subseteq Calls
    BY ActorAssumption DEF Prio, Queued
  <2> QED
    BY <1>0, <1>15, <2>1, <2>2 DEF TypeOK, WaitPermit, Dispatch, clientVars, futVars
<1>16. CASE WaitTimeout
  BY <1>0, <1>16 DEF TypeOK, WaitTimeout, Dispatch, clientVars, futVars
<1>17. CASE RemoveScan
  <2>1. lvl' \in Prio
    BY <1>0, <1>17, ActorAssumption DEF TypeOK, RemoveScan, Prio
  <2>2. dpc' \in {"scan", "take"}
    BY <1>17 DEF RemoveScan, Dispatch
  <2> QED
    BY <1>0, <1>17, <2>1, <2>2 DEF TypeOK, RemoveScan, mailVars, clientVars, futVars
<1>18. CASE RemoveTake
  <2>1. CASE idx = 0
    BY <1>0, <1>18, <2>1 DEF TypeOK, RemoveTake, Dispatch, clientVars, futVars
  <2>2. CASE idx # 0
    <3>1. Removes(idx)
      BY <1>0, <1>18, <2>2, TakeRemoves
    <3>2. queue' \in [Prio -> Seq(Calls)] /\ (\A q \in Prio : Len(queue'[q]) <= Capacity) /\ job' \in Calls
      BY <1>0, <3>1, RemovedQueues
    <3> QED
      BY <1>0, <1>18, <2>2, <3>2 DEF TypeOK, RemoveTake, Dispatch, clientVars, futVars
  <2> QED
    BY <2>1, <2>2
<1>19. CASE ExecuteBegin
  BY <1>0, <1>19 DEF TypeOK, ExecuteBegin, Dispatch, mailVars, clientVars
<1>20. CASE ExecuteEnd
  <2>1. job \in Calls
    BY <1>0, <1>20 DEF TypeOK, Modes, Running, ExecuteEnd, Dispatch
  <2>2. ran' \in Seq(Calls)
    BY <1>0, <1>20, <2>1, AppendAt DEF TypeOK, ExecuteEnd
  <2>3. fut' \in [Calls -> {"pending", "busy", "ready"}]
    BY <1>0, <1>20, <2>1 DEF TypeOK, ExecuteEnd
  <2>4. cpc' \in [Clients -> {"idle", "signal", "notify", "posted", "get", "timed", "waiting",
                             "twaiting", "expired", "gone"}]
    BY <1>0, <1>20 DEF TypeOK, ExecuteEnd, Awaken
  <2> QED
    BY <1>0, <1>20, <2>2, <2>3, <2>4 DEF TypeOK, ExecuteEnd, Dispatch, mailVars
<1>21. CASE Finalize
  BY <1>0, <1>21 DEF TypeOK, Finalize, mailVars, clientVars, futVars
<1>22. CASE UNCHANGED vars
  BY <1>0, <1>22 DEF TypeOK, vars, mailVars, dispVars, clientVars, futVars
<1> QED
  BY <1>1, <1>2, <1>3, <1>4, <1>5, <1>6, <1>7, <1>8, <1>9, <1>10, <1>11, <1>12, <1>13,
           <1>14, <1>15, <1>16, <1>17, <1>18, <1>19, <1>20, <1>21, <1>22
     DEF Next, Posting, Getting, Dispatching

\* The control of the dispatcher.
LEMMA NextModes == ActorInv /\ [Next]_vars => Modes'
<1> SUFFICES ASSUME ActorInv, [Next]_vars PROVE Modes'
  OBVIOUS
<1>0. TypeOK /\ Modes /\ Posted /\ InLine /\ PermitsAccount /\ ScanRight /\ Located /\ Closed /\ NoCall \notin Calls
  BY ActorAssumption DEF ActorInv, Calls
<1>1. ASSUME NEW c \in Clients, PostAdd(c) PROVE Modes'
  BY <1>0, <1>1 DEF Modes, Running, TypeOK, PostAdd, ClientStep, Used, dispVars, futVars
<1>2. ASSUME NEW c \in Clients, Signal(c) PROVE Modes'
  BY <1>0, <1>2 DEF Modes, Running, TypeOK, Signal, ClientStep, dispVars, futVars
<1>3. ASSUME NEW c \in Clients, SignalNotify(c) PROVE Modes'
  BY <1>0, <1>3 DEF Modes, Running, TypeOK, SignalNotify, ClientStep, mailVars, futVars
<1>4. ASSUME NEW c \in Clients, Release(c) PROVE Modes'
  BY <1>0, <1>4 DEF Modes, Running, TypeOK, Release, ClientStep, mailVars, dispVars, futVars
<1>5. ASSUME NEW c \in Clients, Get(c) PROVE Modes'
  BY <1>0, <1>5 DEF Modes, Running, TypeOK, Get, ClientStep, Last, mailVars, dispVars, futVars
<1>6. ASSUME NEW c \in Clients, GetLock(c) PROVE Modes'
  BY <1>0, <1>6 DEF Modes, Running, TypeOK, GetLock, ClientStep, Last, mailVars, dispVars, futVars
<1>7. ASSUME NEW c \in Clients, GetExpired(c) PROVE Modes'
  BY <1>0, <1>7 DEF Modes, Running, TypeOK, GetExpired, ClientStep, Last, mailVars, dispVars,
       futVars
<1>8. ASSUME NEW c \in Clients, GetTimeout(c) PROVE Modes'
  BY <1>0, <1>8 DEF Modes, Running, TypeOK, GetTimeout, ClientStep, mailVars, dispVars, futVars
<1>9. CASE LoopTop
  BY <1>0, <1>9 DEF Modes, Running, TypeOK, LoopTop, Dispatch, mailVars, clientVars, futVars
<1>10. CASE PlainTake
  <2>1. job' # NoCall
    BY <1>0, <1>10, PlainRemoves, RemovedQueues
  <2> QED
    BY <1>0, <1>10, <2>1 DEF Modes, Running, PlainTake, Dispatch
<1>11. CASE PlainTimeout
  BY <1>0, <1>11 DEF Modes, Running, TypeOK, PlainTimeout, Dispatch, mailVars, clientVars, futVars
<1>12. CASE WaitLoad
  BY <1>0, <1>12 DEF Modes, Running, TypeOK, WaitLoad, Dispatch, mailVars, clientVars, futVars
<1>13. CASE WaitLock
  BY <1>0, <1>13 DEF Modes, Running, TypeOK, WaitLock, Dispatch, clientVars, futVars
<1>14. CASE WaitTest
  BY <1>0, <1>14 DEF Modes, Running, TypeOK, WaitTest, Dispatch, clientVars, futVars
<1>15. CASE WaitPermit
  BY <1>0, <1>15 DEF Modes, Running, TypeOK, WaitPermit, Dispatch, clientVars, futVars
<1>16. CASE WaitTimeout
  BY <1>0, <1>16 DEF Modes, Running, TypeOK, WaitTimeout, Dispatch, clientVars, futVars
<1>17. CASE RemoveScan
  BY <1>0, <1>17 DEF Modes, Running, TypeOK, RemoveScan, Dispatch, mailVars, clientVars, futVars
<1>18. CASE RemoveTake
  <2>1. idx # 0 => job' # NoCall
    BY <1>0, <1>18, TakeRemoves, RemovedQueues
  <2> QED
    BY <1>0, <1>18, <2>1 DEF Modes, Running, RemoveTake, Dispatch
<1>19. CASE ExecuteBegin
  BY <1>0, <1>19 DEF Modes, Running, TypeOK, ExecuteBegin, Dispatch, mailVars, clientVars
<1>20. CASE ExecuteEnd
  BY <1>0, <1>20 DEF Modes, Running, TypeOK, ExecuteEnd, Dispatch, Awaken, Last, mailVars
<1>21. CASE Finalize
  BY <1>0, <1>21 DEF Modes, Running, TypeOK, Finalize, mailVars, clientVars, futVars
<1>22. CASE UNCHANGED vars
  BY <1>0, <1>22 DEF Modes, Running, TypeOK, vars, mailVars, dispVars, clientVars, futVars
<1> QED
  BY <1>1, <1>2, <1>3, <1>4, <1>5, <1>6, <1>7, <1>8, <1>9, <1>10, <1>11, <1>12, <1>13,
           <1>14, <1>15, <1>16, <1>17, <1>18, <1>19, <1>20, <1>21, <1>22
     DEF Next, Posting, Getting, Dispatching

-----------------------------------------------------------------------------
(* The order of the calls.                                                   *)

\* What a step does to the calls: it adds one to a queue, begins with one,
\* ends one, or leaves them where they are.
Added == \E p \in Prio, k \in Calls : Adds(p, k) /\ cpc[k[1]] = "idle" /\ UNCHANGED <<dpc, job, fut, ran>>
Begun == \E p \in Prio : Removes(p) /\ ~ Running /\ Running' /\ UNCHANGED <<posted, prio, fut, ran>>
Ended == /\ Running /\ ~ Running' /\ job \in Calls
         /\ ran' = Append(ran, job) /\ fut' = [fut EXCEPT ![job] = "ready"]
         /\ UNCHANGED <<queue, posted, prio>>
Stayed == /\ (Running' <=> Running) /\ (\A k \in Calls : k # job => fut'[k] = fut[k])
          /\ UNCHANGED <<queue, posted, prio, job, ran>>

\* Every step is one of these.
LEMMA NextMoves == ActorInv /\ [Next]_vars => (Added \/ Begun \/ Ended \/ Stayed)
<1> SUFFICES ASSUME ActorInv, [Next]_vars PROVE (Added \/ Begun \/ Ended \/ Stayed)
  OBVIOUS
<1>0. TypeOK /\ Modes /\ Posted /\ InLine /\ PermitsAccount /\ ScanRight /\ Located /\ Closed /\ NoCall \notin Calls
  BY ActorAssumption DEF ActorInv, Calls
<1>1. ASSUME NEW c \in Clients, PostAdd(c) PROVE (Added \/ Begun \/ Ended \/ Stayed)
  <2>1. PICK p \in Prio, k \in Calls : k = <<c, posted[c] + 1>> /\ Adds(p, k)
    BY <1>0, <1>1, PostAdds
  <2>2. k[1] = c
    BY <2>1
  <2> QED
    BY <1>1, <2>1, <2>2 DEF Added, PostAdd, ClientStep, dispVars, futVars
<1>2. ASSUME NEW c \in Clients, Signal(c) PROVE (Added \/ Begun \/ Ended \/ Stayed)
  BY <1>0, <1>2 DEF Stayed, Running, Signal, ClientStep, dispVars, futVars
<1>3. ASSUME NEW c \in Clients, SignalNotify(c) PROVE (Added \/ Begun \/ Ended \/ Stayed)
  BY <1>0, <1>3 DEF Stayed, Running, SignalNotify, ClientStep, mailVars, futVars
<1>4. ASSUME NEW c \in Clients, Release(c) PROVE (Added \/ Begun \/ Ended \/ Stayed)
  BY <1>0, <1>4 DEF Stayed, Running, Release, ClientStep, mailVars, dispVars, futVars
<1>5. ASSUME NEW c \in Clients, Get(c) PROVE (Added \/ Begun \/ Ended \/ Stayed)
  BY <1>0, <1>5 DEF Stayed, Running, Get, ClientStep, Last, mailVars, dispVars, futVars
<1>6. ASSUME NEW c \in Clients, GetLock(c) PROVE (Added \/ Begun \/ Ended \/ Stayed)
  BY <1>0, <1>6 DEF Stayed, Running, GetLock, ClientStep, Last, mailVars, dispVars, futVars
<1>7. ASSUME NEW c \in Clients, GetExpired(c) PROVE (Added \/ Begun \/ Ended \/ Stayed)
  BY <1>0, <1>7 DEF Stayed, Running, GetExpired, ClientStep, Last, mailVars, dispVars, futVars
<1>8. ASSUME NEW c \in Clients, GetTimeout(c) PROVE (Added \/ Begun \/ Ended \/ Stayed)
  BY <1>0, <1>8 DEF Stayed, Running, GetTimeout, ClientStep, mailVars, dispVars, futVars
<1>9. CASE LoopTop
  BY <1>0, <1>9 DEF Stayed, Running, LoopTop, Dispatch, mailVars, clientVars, futVars
<1>10. CASE PlainTake
  <2>1. 1 \in Prio /\ Removes(1)
    BY <1>0, <1>10, PlainRemoves
  <2> QED
    BY <1>10, <2>1 DEF Begun, Running, PlainTake, Dispatch, clientVars, futVars
<1>11. CASE PlainTimeout
  BY <1>0, <1>11 DEF Stayed, Running, PlainTimeout, Dispatch, mailVars, clientVars, futVars
<1>12. CASE WaitLoad
  BY <1>0, <1>12 DEF Stayed, Running, WaitLoad, Dispatch, mailVars, clientVars, futVars
<1>13. CASE WaitLock
  BY <1>0, <1>13 DEF Stayed, Running, WaitLock, Dispatch, clientVars, futVars
<1>14. CASE WaitTest
  BY <1>0, <1>14 DEF Stayed, Running, WaitTest, Dispatch, clientVars, futVars
<1>15. CASE WaitPermit
  BY <1>0, <1>15 DEF Stayed, Running, WaitPermit, Dispatch, clientVars, futVars
<1>16. CASE WaitTimeout
  BY <1>0, <1>16 DEF Stayed, Running, WaitTimeout, Dispatch, clientVars, futVars
<1>17. CASE RemoveScan
  BY <1>0, <1>17 DEF Stayed, Running, RemoveScan, Dispatch, mailVars, clientVars, futVars
<1>18. CASE RemoveTake
  <2>1. CASE idx = 0
    BY <1>18, <2>1 DEF Stayed, Running, RemoveTake, Dispatch, clientVars, futVars
  <2>2. CASE idx # 0
    <3>1. idx \in Prio /\ Removes(idx)
      BY <1>0, <1>18, <2>2, TakeRemoves
    <3> QED
      BY <1>18, <2>2, <3>1 DEF Begun, Running, RemoveTake, Dispatch, clientVars, futVars
  <2> QED
    BY <2>1, <2>2
<1>19. CASE ExecuteBegin
  BY <1>0, <1>19 DEF Stayed, Running, ExecuteBegin, Dispatch, mailVars, clientVars
<1>20. CASE ExecuteEnd
  <2>1. job \in Calls
    BY <1>0, <1>20 DEF TypeOK, Modes, Running, ExecuteEnd, Dispatch
  <2> QED
    BY <1>20, <2>1 DEF Ended, Running, ExecuteEnd, Dispatch, mailVars
<1>21. CASE Finalize
  BY <1>0, <1>21 DEF Stayed, Running, Finalize, mailVars, clientVars, futVars
<1>22. CASE UNCHANGED vars
  BY <1>0, <1>22 DEF Stayed, Running, vars, mailVars, dispVars, clientVars, futVars, Stayed
<1> QED
  BY <1>1, <1>2, <1>3, <1>4, <1>5, <1>6, <1>7, <1>8, <1>9, <1>10, <1>11, <1>12, <1>13,
           <1>14, <1>15, <1>16, <1>17, <1>18, <1>19, <1>20, <1>21, <1>22
     DEF Next, Posting, Getting, Dispatching

\* A call that was posted is another one than the call that post adds, and
\* comes before it.
LEMMA NewCall ==
  ASSUME TypeOK, NEW p, NEW k, Adds(p, k), NEW l \in Calls, l[2] <= posted[l[1]]
  PROVE  /\ l # k /\ prio'[l] = prio[l] /\ l[2] <= posted'[l[1]] /\ Before(l, k)
         /\ prio'[k] = p /\ k[2] <= posted'[k[1]]
<1>1. /\ k \in Calls /\ k[2] = posted[k[1]] + 1 /\ k[1] \in Clients /\ l[1] \in Clients
      /\ k[2] \in Nat /\ l[2] \in Nat /\ posted[k[1]] \in Nat /\ posted[l[1]] \in Nat
      /\ prio' = [prio EXCEPT ![k] = p] /\ posted' = [posted EXCEPT ![k[1]] = k[2]]
      /\ prio \in [Calls -> Prio] /\ posted \in [Clients -> 0 .. MaxPosts]
  <2>1. prio \in [Calls -> Prio] /\ posted \in [Clients -> 0 .. MaxPosts] /\ MaxPosts \in Nat
    BY ActorAssumption DEF TypeOK
  <2>2. /\ k \in Calls /\ k[2] = posted[k[1]] + 1
        /\ prio' = [prio EXCEPT ![k] = p] /\ posted' = [posted EXCEPT ![k[1]] = k[2]]
    BY DEF Adds
  <2>3. k[1] \in Clients /\ l[1] \in Clients /\ k[2] \in Nat /\ l[2] \in Nat
    BY <2>2, CallParts
  <2>4. posted[k[1]] \in Nat /\ posted[l[1]] \in Nat
    BY <2>1, <2>3
  <2> QED
    BY <2>1, <2>2, <2>3, <2>4
<1>2. l[1] = k[1] => l[2] < k[2]
  BY <1>1
<1>3. l # k
  BY <1>1, <1>2
<1>4. posted'[k[1]] = k[2] /\ (l[1] # k[1] => posted'[l[1]] = posted[l[1]])
  BY <1>1
<1>5. l[2] <= posted'[l[1]] /\ k[2] <= posted'[k[1]]
  BY <1>1, <1>2, <1>4
<1>6. prio'[l] = prio[l] /\ prio'[k] = p
  BY <1>1, <1>3
<1> QED
  BY <1>2, <1>3, <1>5, <1>6 DEF Before

\* Every call in a queue, in ran or in the dispatcher's hands is a call.
LEMMA CallsOf ==
  ASSUME TypeOK
  PROVE  /\ \A p \in Prio : \A i \in DOMAIN queue[p] : queue[p][i] \in Calls
         /\ \A n \in DOMAIN ran : ran[n] \in Calls
         /\ Modes /\ Running => job \in Calls
BY DEF TypeOK, Modes

\* What is queued, run or has run was posted.
LEMMA NextPosted ==
  ASSUME TypeOK, Modes, Posted, Added \/ Begun \/ Ended \/ Stayed
  PROVE  Posted'
<1>1. CASE Added
  <2>1. PICK p \in Prio, k \in Calls : Adds(p, k) /\ UNCHANGED <<dpc, job, ran>>
    BY <1>1 DEF Added
  <2>2. ASSUME NEW q \in Prio, NEW i \in DOMAIN queue'[q]
        PROVE  queue'[q][i][2] <= posted'[queue'[q][i][1]] /\ prio'[queue'[q][i]] = q
    <3>1. CASE i \in DOMAIN queue[q] /\ queue'[q][i] = queue[q][i]
      <4>1. queue[q][i] \in Calls /\ queue[q][i][2] <= posted[queue[q][i][1]] /\ prio[queue[q][i]] = q
        BY <3>1, CallsOf DEF Posted
      <4> QED
        BY <2>1, <3>1, <4>1, NewCall
    <3>2. CASE q = p /\ queue'[q][i] = k
      <4>1. prio'[k] = p /\ k[2] <= posted'[k[1]]
        <5>1. prio' = [prio EXCEPT ![k] = p] /\ posted' = [posted EXCEPT ![k[1]] = k[2]]
          BY <2>1 DEF Adds
        <5>2. k[1] \in Clients /\ k[2] \in Nat
          BY CallParts
        <5> QED
          BY <5>1, <5>2 DEF TypeOK
      <4> QED
        BY <3>2, <4>1
    <3> QED
      BY <2>1, <3>1, <3>2, AddedQueues
  <2>3. Running' => job'[2] <= posted'[job'[1]]
    BY <2>1, CallsOf, NewCall DEF Posted, Running
  <2>4. \A n \in DOMAIN ran' : ran'[n][2] <= posted'[ran'[n][1]]
    BY <2>1, CallsOf, NewCall DEF Posted
  <2> QED
    BY <2>2, <2>3, <2>4 DEF Posted
<1>2. CASE Begun
  <2>1. PICK p \in Prio : Removes(p) /\ UNCHANGED <<posted, prio, ran>>
    BY <1>2 DEF Begun
  <2>2. ASSUME NEW q \in Prio, NEW i \in DOMAIN queue'[q]
        PROVE  \E j \in DOMAIN queue[q] : queue'[q][i] = queue[q][j]
    BY <2>1, RemovedQueues
  <2>3. \A q \in Prio : \A i \in DOMAIN queue'[q] :
          queue'[q][i][2] <= posted[queue'[q][i][1]] /\ prio[queue'[q][i]] = q
    BY <2>2 DEF Posted
  <2>4. job'[2] <= posted[job'[1]]
    BY <2>1, RemovedQueues DEF Posted
  <2> QED
    BY <2>1, <2>3, <2>4 DEF Posted
<1>3. CASE Ended
  <2>1. \A n \in DOMAIN ran' : (n \in DOMAIN ran /\ ran'[n] = ran[n]) \/ ran'[n] = job
    BY <1>3 DEF Ended, TypeOK
  <2> QED
    BY <1>3, <2>1 DEF Posted, Ended
<1>4. CASE Stayed
  BY <1>4 DEF Stayed, Posted
<1> QED
  BY <1>1, <1>2, <1>3, <1>4

\* A client's calls of one priority keep their order in the queue, at hand and in what has run.
LEMMA NextInLine ==
  ASSUME TypeOK, Modes, Posted, InLine, Added \/ Begun \/ Ended \/ Stayed
  PROVE  InLine'
<1>1. CASE Added
  <2>1. PICK p \in Prio, k \in Calls : Adds(p, k) /\ UNCHANGED <<dpc, job, ran>>
    BY <1>1 DEF Added
  <2>2. \A q \in Prio : \A i \in DOMAIN queue[q] : Before(queue[q][i], k)
    BY <2>1, CallsOf, NewCall DEF Posted
  <2>3. \A n \in DOMAIN ran : Before(ran[n], k) /\ prio'[ran[n]] = prio[ran[n]]
    BY <2>1, CallsOf, NewCall DEF Posted
  <2>4. Running => Before(job, k) /\ prio'[job] = prio[job]
    BY <2>1, CallsOf, NewCall DEF Posted
  <2>5. ASSUME NEW q \in Prio, NEW i \in DOMAIN queue'[q], NEW j \in DOMAIN queue'[q], i < j
        PROVE  Before(queue'[q][i], queue'[q][j])
    <3>1. Len(queue[q]) \in Nat /\ DOMAIN queue[q] = 1 .. Len(queue[q])
      BY <2>1, AddedQueues
    <3>2. /\ (i \in DOMAIN queue[q] /\ queue'[q][i] = queue[q][i]) \/ i = Len(queue[q]) + 1
          /\ \/ j \in DOMAIN queue[q] /\ queue'[q][j] = queue[q][j]
             \/ q = p /\ queue'[q][j] = k /\ j = Len(queue[q]) + 1
      BY <2>1, AddedQueues
    <3>3. i \in DOMAIN queue[q] /\ queue'[q][i] = queue[q][i]
      BY <2>5, <3>1, <3>2
    <3>4. CASE j \in DOMAIN queue[q] /\ queue'[q][j] = queue[q][j]
      BY <2>5, <3>3, <3>4 DEF InLine
    <3>5. CASE queue'[q][j] = k
      BY <2>2, <3>3, <3>5
    <3> QED
      BY <3>2, <3>4, <3>5
  <2>6. ASSUME NEW q \in Prio, NEW i \in DOMAIN queue'[q]
        PROVE  /\ Running' /\ prio'[job'] = q => Before(job', queue'[q][i])
               /\ \A n \in DOMAIN ran' : prio'[ran'[n]] = q => Before(ran'[n], queue'[q][i])
    <3>1. \/ i \in DOMAIN queue[q] /\ queue'[q][i] = queue[q][i]
          \/ queue'[q][i] = k
      BY <2>1, AddedQueues
    <3> QED
      BY <2>1, <2>3, <2>4, <3>1 DEF InLine, Running
  <2>7. Running' => \A n \in DOMAIN ran' : prio'[ran'[n]] = prio'[job'] => Before(ran'[n], job')
    BY <2>1, <2>3, <2>4 DEF InLine, Running
  <2>8. InOrder'
    BY <2>1, <2>3 DEF InLine, InOrder
  <2> QED
    BY <2>5, <2>6, <2>7, <2>8 DEF InLine
<1>2. CASE Begun
  <2>1. PICK p \in Prio : Removes(p) /\ UNCHANGED <<posted, prio, ran>>
    BY <1>2 DEF Begun
  <2>2. ASSUME NEW q \in Prio, NEW i \in DOMAIN queue'[q], NEW j \in DOMAIN queue'[q], i < j
        PROVE  Before(queue'[q][i], queue'[q][j])
    <3>1. CASE q = p
      <4>1. /\ i \in Nat /\ i + 1 \in DOMAIN queue[q] /\ queue'[q][i] = queue[q][i + 1]
            /\ j \in Nat /\ j + 1 \in DOMAIN queue[q] /\ queue'[q][j] = queue[q][j + 1]
        BY <2>1, <3>1, RemovedQueues
      <4>2. i + 1 < j + 1
        BY <2>2, <4>1
      <4> QED
        BY <4>1, <4>2 DEF InLine
    <3>2. CASE q # p
      <4>1. queue'[q] = queue[q]
        BY <2>1, <3>2, RemovedQueues
      <4> QED
        BY <2>2, <4>1 DEF InLine
    <3> QED
      BY <3>1, <3>2
  <2>3. job' = queue[p][1] /\ 1 \in DOMAIN queue[p] /\ prio[job'] = p
    BY <2>1, RemovedQueues DEF Posted
  <2>4. ASSUME NEW q \in Prio, NEW i \in DOMAIN queue'[q], prio[job'] = q
        PROVE  Before(job', queue'[q][i])
    <3>1. i \in Nat /\ i > 0 /\ i + 1 \in DOMAIN queue[p] /\ queue'[q][i] = queue[p][i + 1]
      BY <2>1, <2>3, <2>4, RemovedQueues
    <3>2. 1 < i + 1
      BY <3>1
    <3> QED
      BY <2>3, <3>1, <3>2 DEF InLine
  <2>5. ASSUME NEW q \in Prio, NEW i \in DOMAIN queue'[q], NEW n \in DOMAIN ran, prio[ran[n]] = q
        PROVE  Before(ran[n], queue'[q][i])
    <3>1. \E j \in DOMAIN queue[q] : queue'[q][i] = queue[q][j]
      BY <2>1, RemovedQueues
    <3> QED
      BY <2>5, <3>1 DEF InLine
  <2>6. \A n \in DOMAIN ran : prio[ran[n]] = prio[job'] => Before(ran[n], job')
    BY <2>3 DEF InLine
  <2>7. InOrder'
    BY <2>1 DEF InLine, InOrder
  <2> QED
    BY <2>1, <2>2, <2>4, <2>5, <2>6, <2>7 DEF InLine
<1>3. CASE Ended
  <2>1. /\ Len(ran) \in Nat /\ DOMAIN ran = 1 .. Len(ran) /\ DOMAIN ran' = 1 .. Len(ran) + 1
        /\ \A n \in DOMAIN ran : ran'[n] = ran[n]
        /\ ran'[Len(ran) + 1] = job
    BY <1>3 DEF Ended, TypeOK
  <2>2. \A n \in DOMAIN ran' : (n \in DOMAIN ran /\ ran'[n] = ran[n]) \/ (n = Len(ran) + 1 /\ ran'[n] = job)
    BY <2>1
  <2>3. Running /\ ~ Running' /\ UNCHANGED <<queue, posted, prio>>
    BY <1>3 DEF Ended
  <2>4. ASSUME NEW i \in DOMAIN ran', NEW j \in DOMAIN ran', i < j, prio[ran'[i]] = prio[ran'[j]]
        PROVE  Before(ran'[i], ran'[j])
    <3>1. i \in DOMAIN ran /\ ran'[i] = ran[i]
      BY <2>1, <2>4
    <3>2. CASE j \in DOMAIN ran /\ ran'[j] = ran[j]
      BY <2>4, <3>1, <3>2 DEF InLine, InOrder, Before
    <3>3. CASE ran'[j] = job
      BY <2>3, <2>4, <3>1, <3>3 DEF InLine
    <3> QED
      BY <2>2, <3>2, <3>3
  <2>5. InOrder'
    BY <2>3, <2>4 DEF InOrder, Before
  <2>6. \A q \in Prio : \A i \in DOMAIN queue[q] : \A n \in DOMAIN ran' :
          prio[ran'[n]] = q => Before(ran'[n], queue[q][i])
    BY <2>2, <2>3 DEF InLine
  <2> QED
    BY <2>3, <2>5, <2>6 DEF InLine
<1>4. CASE Stayed
  BY <1>4 DEF Stayed, InLine, InOrder
<1> QED
  BY <1>1, <1>2, <1>3, <1>4

-----------------------------------------------------------------------------
(* The permits of the semaphore.                                             *)

Signalling == {c \in Clients : cpc[c] = "signal"}

\* There are finitely many calls,
LEMMA QueuedFinite == IsFiniteSet(Queued) /\ Cardinality(Queued) \in Nat
<1>0. IsFiniteSet(1 .. MaxPosts)
  BY ActorAssumption, FS_Interval
<1>1. IsFiniteSet(Calls)
  BY <1>0, ActorAssumption, FS_Product DEF Calls
<1>2. IsFiniteSet(Queued)
  BY <1>1, FS_Subset DEF Queued
<1> QED
  BY <1>2, FS_CardinalityType

\* and finitely many clients that have still to signal.
LEMMA SignallingFinite == IsFiniteSet(Signalling) /\ Cardinality(Signalling) \in Nat
<1>1. IsFiniteSet(Signalling)
  BY ActorAssumption, FS_Subset DEF Signalling
<1> QED
  BY <1>1, FS_CardinalityType

\* The permit that the dispatcher has taken for its scan.
InHand == IF Scanning THEN 1 ELSE 0

\* The account of the permits, with the clients that signal as a set.
LEMMA PermitsIs == PermitsAccount <=> (prioritised => Cardinality(Queued) = cnt + Cardinality(Signalling) + InHand)
BY DEF PermitsAccount, Signalling, InHand, Scanning

\* A step that changes none of its parts keeps the account.
LEMMA PermitsStay ==
  ASSUME PermitsAccount, UNCHANGED <<prioritised, cnt>>, Queued' = Queued, Scanning' <=> Scanning,
         Signalling' = Signalling
  PROVE  PermitsAccount'
BY DEF PermitsAccount, Scanning, Signalling

\* A call that is not yet posted is not queued.
LEMMA AddedIsNew ==
  ASSUME TypeOK, Posted, NEW p, NEW k, Adds(p, k)
  PROVE  k \notin Queued
<1> SUFFICES ASSUME k \in Queued PROVE FALSE
  OBVIOUS
<1>1. PICK q \in Prio : \E i \in DOMAIN queue[q] : queue[q][i] = k
  BY DEF Queued
<1>2. k \in Calls /\ k[2] <= posted[k[1]]
  BY <1>1, CallsOf DEF Posted
<1> QED
  BY <1>2, NewCall


\* A permit is taken only when a call is queued.
LEMMA PermitHasCall ==
  ASSUME TypeOK, Modes, PermitsAccount, dpc = "permit"
  PROVE  Queued # {}
<1>1. prioritised /\ cnt > 0
  BY DEF Modes
<1>2. Cardinality(Queued) > 0
  BY <1>1, PermitsIs, SignallingFinite DEF TypeOK, InHand, Scanning
<1> QED
  BY <1>2, FS_EmptySet

\* The scan finds a call.
LEMMA ScanFinds ==
  ASSUME TypeOK, ScanRight, dpc = "take"
  PROVE  idx # 0
<1> SUFFICES ASSUME idx = 0 PROVE FALSE
  OBVIOUS
<1>1. due # {} /\ due \subseteq Queued /\ \A p \in Prio : p > 0 => \A i \in DOMAIN queue[p] : queue[p][i] \notin due
  BY DEF ScanRight, Scanning
<1>2. PICK k \in due : k \in Queued
  BY <1>1
<1>3. PICK p \in Prio : \E i \in DOMAIN queue[p] : queue[p][i] = k
  BY <1>2 DEF Queued
<1>4. p > 0
  BY ActorAssumption DEF Prio
<1> QED
  BY <1>1, <1>2, <1>3, <1>4

\* The account of the permits.
LEMMA NextPermits == ActorInv /\ [Next]_vars => PermitsAccount'
<1> SUFFICES ASSUME ActorInv, [Next]_vars PROVE PermitsAccount'
  OBVIOUS
<1>0. TypeOK /\ Modes /\ Posted /\ InLine /\ PermitsAccount /\ ScanRight /\ Located /\ Closed /\ NoCall \notin Calls
  BY ActorAssumption DEF ActorInv, Calls
<1>1. ASSUME NEW c \in Clients, PostAdd(c) PROVE PermitsAccount'
  <2>1. CASE prioritised
    <3>1. PICK p \in Prio, k \in Calls : Adds(p, k)
      BY <1>0, <1>1, PostAdds
    <3>2. Queued' = Queued \cup {k} /\ k \notin Queued
      BY <1>0, <3>1, AddedQueued, AddedIsNew
    <3>3. Cardinality(Queued') = Cardinality(Queued) + 1
      BY <3>2, QueuedFinite, FS_AddElement
    <3>4. Signalling' = Signalling \cup {c} /\ c \notin Signalling
      BY <1>0, <1>1, <2>1 DEF TypeOK, Signalling, PostAdd, ClientStep
    <3>5. Cardinality(Signalling') = Cardinality(Signalling) + 1
      BY <3>4, SignallingFinite, FS_AddElement
    <3>6. UNCHANGED <<prioritised, cnt, dpc>>
      BY <1>1 DEF PostAdd, dispVars
    <3>7. InHand' = InHand /\ InHand \in Nat
      BY <3>6 DEF InHand, Scanning
    <3>8. Cardinality(Queued') = cnt' + Cardinality(Signalling') + InHand'
      BY <1>0, <2>1, <3>3, <3>5, <3>6, <3>7, PermitsIs, QueuedFinite, SignallingFinite DEF TypeOK
    <3> QED
      BY <3>8, PermitsIs DEF PermitsAccount, Signalling, InHand, Scanning
  <2>2. CASE ~ prioritised
    BY <1>1, <2>2 DEF PermitsAccount, PostAdd
  <2> QED
    BY <2>1, <2>2
<1>2. ASSUME NEW c \in Clients, Signal(c) PROVE PermitsAccount'
  <2>1. Queued' = Queued /\ InHand' = InHand /\ cnt' = cnt + 1 /\ prioritised' = prioritised
    BY <1>2 DEF Signal, Queued, InHand, Scanning, dispVars
  <2>2. Signalling' = Signalling \ {c} /\ c \in Signalling
    BY <1>0, <1>2 DEF TypeOK, Signalling, Signal, ClientStep
  <2>3. Cardinality(Signalling') = Cardinality(Signalling) - 1
    BY <2>2, SignallingFinite, FS_RemoveElement
  <2>4. cnt' + Cardinality(Signalling') + InHand' = cnt + Cardinality(Signalling) + InHand
    BY <1>0, <2>1, <2>3, SignallingFinite DEF TypeOK, InHand
  <2>5. prioritised' => Cardinality(Queued') = cnt' + Cardinality(Signalling') + InHand'
    BY <1>0, <2>1, <2>4, PermitsIs
  <2> QED
    BY <2>5 DEF PermitsAccount, Signalling, InHand, Scanning
<1>3. ASSUME NEW c \in Clients, SignalNotify(c) PROVE PermitsAccount'
  BY <1>0, <1>3, PermitsStay DEF Queued, Scanning, Signalling, SignalNotify, ClientStep, mailVars,
       futVars
<1>4. ASSUME NEW c \in Clients, Release(c) PROVE PermitsAccount'
  BY <1>0, <1>4, PermitsStay DEF Queued, Scanning, Signalling, Release, ClientStep, mailVars,
       dispVars, futVars
<1>5. ASSUME NEW c \in Clients, Get(c) PROVE PermitsAccount'
  BY <1>0, <1>5, PermitsStay DEF Queued, Scanning, Signalling, Get, ClientStep, Last, mailVars,
       dispVars, futVars
<1>6. ASSUME NEW c \in Clients, GetLock(c) PROVE PermitsAccount'
  <2>1. \A d \in Clients : cpc'[d] = "signal" <=> cpc[d] = "signal"
    BY <1>0, <1>6 DEF TypeOK, GetLock, ClientStep
  <2>2. Signalling' = Signalling
    BY <2>1 DEF Signalling
  <2> QED
    BY <1>0, <1>6, <2>2, PermitsStay DEF GetLock, Queued, Scanning, mailVars, dispVars
<1>7. ASSUME NEW c \in Clients, GetExpired(c) PROVE PermitsAccount'
  BY <1>0, <1>7, PermitsStay DEF Queued, Scanning, Signalling, GetExpired, ClientStep, Last,
       mailVars, dispVars, futVars
<1>8. ASSUME NEW c \in Clients, GetTimeout(c) PROVE PermitsAccount'
  BY <1>0, <1>8, PermitsStay DEF Queued, Scanning, Signalling, GetTimeout, ClientStep, mailVars,
       dispVars, futVars
<1>9. CASE LoopTop
  BY <1>0, <1>9, PermitsStay DEF Queued, Scanning, Signalling, LoopTop, Dispatch, mailVars,
       clientVars, futVars
<1>10. CASE PlainTake
  <2>1. ~ prioritised'
    BY <1>0, <1>10 DEF Modes, PlainTake, Dispatch
  <2> QED
    BY <2>1 DEF PermitsAccount
<1>11. CASE PlainTimeout
  BY <1>0, <1>11, PermitsStay DEF Queued, Scanning, Signalling, PlainTimeout, Dispatch, mailVars,
       clientVars, futVars
<1>12. CASE WaitLoad
  BY <1>0, <1>12, PermitsStay DEF Queued, Scanning, Signalling, WaitLoad, Dispatch, mailVars,
       clientVars, futVars
<1>13. CASE WaitLock
  BY <1>0, <1>13, PermitsStay DEF Queued, Scanning, Signalling, WaitLock, Dispatch, clientVars,
       futVars
<1>14. CASE WaitTest
  BY <1>0, <1>14, PermitsStay DEF Queued, Scanning, Signalling, WaitTest, Dispatch, clientVars,
       futVars
<1>15. CASE WaitPermit
  <2>1. /\ Queued' = Queued /\ Signalling' = Signalling /\ cnt' = cnt - 1 /\ prioritised' = prioritised
        /\ InHand = 0 /\ InHand' = 1
    BY <1>15 DEF WaitPermit, Dispatch, Queued, Signalling, InHand, Scanning, clientVars
  <2>2. prioritised' => Cardinality(Queued') = cnt' + Cardinality(Signalling') + InHand'
    BY <1>0, <2>1, PermitsIs, SignallingFinite DEF TypeOK
  <2> QED
    BY <2>2 DEF PermitsAccount, Signalling, InHand, Scanning
<1>16. CASE WaitTimeout
  BY <1>0, <1>16, PermitsStay DEF Queued, Scanning, Signalling, WaitTimeout, Dispatch, clientVars,
       futVars
<1>17. CASE RemoveScan
  BY <1>0, <1>17, PermitsStay DEF Queued, Scanning, Signalling, RemoveScan, Dispatch, mailVars,
       clientVars, futVars
<1>18. CASE RemoveTake
  <2>1. dpc = "take" /\ idx # 0
    BY <1>0, <1>18, ScanFinds DEF RemoveTake, Dispatch
  <2>2. idx \in Prio /\ Removes(idx)
    BY <1>0, <1>18, <2>1, TakeRemoves
  <2>3. job' \in Queued /\ Queued' = Queued \ {job'}
    BY <1>0, <2>2, RemovedQueued
  <2>4. Cardinality(Queued') = Cardinality(Queued) - 1
    BY <2>3, QueuedFinite, FS_RemoveElement
  <2>5. /\ Signalling' = Signalling /\ cnt' = cnt /\ prioritised' = prioritised
        /\ InHand = 1 /\ InHand' = 0
    BY <1>18, <2>1 DEF RemoveTake, Dispatch, Signalling, InHand, Scanning, clientVars
  <2>6. prioritised' => Cardinality(Queued') = cnt' + Cardinality(Signalling') + InHand'
    BY <1>0, <2>4, <2>5, PermitsIs, SignallingFinite, QueuedFinite DEF TypeOK
  <2> QED
    BY <2>6 DEF PermitsAccount, Signalling, InHand, Scanning
<1>19. CASE ExecuteBegin
  BY <1>0, <1>19, PermitsStay DEF Queued, Scanning, Signalling, ExecuteBegin, Dispatch, mailVars,
       clientVars
<1>20. CASE ExecuteEnd
  <2>1. Signalling' = Signalling
    BY <1>0, <1>20 DEF TypeOK, Signalling, ExecuteEnd, Awaken
  <2>2. Queued' = Queued /\ (Scanning' <=> Scanning) /\ UNCHANGED <<prioritised, cnt>>
    BY <1>20 DEF ExecuteEnd, Dispatch, Scanning, Queued, mailVars
  <2> QED
    BY <1>0, <2>1, <2>2, PermitsStay
<1>21. CASE Finalize
  BY <1>0, <1>21, PermitsStay DEF Queued, Scanning, Signalling, Finalize, mailVars, clientVars,
       futVars
<1>22. CASE UNCHANGED vars
  BY <1>0, <1>22, PermitsStay DEF Queued, Scanning, Signalling, vars, mailVars, dispVars,
       clientVars, futVars
<1> QED
  BY <1>1, <1>2, <1>3, <1>4, <1>5, <1>6, <1>7, <1>8, <1>9, <1>10, <1>11, <1>12, <1>13,
           <1>14, <1>15, <1>16, <1>17, <1>18, <1>19, <1>20, <1>21, <1>22
     DEF Next, Posting, Getting, Dispatching

\* The scan.
LEMMA NextScan == ActorInv /\ [Next]_vars => ScanRight'
<1> SUFFICES ASSUME ActorInv, [Next]_vars PROVE ScanRight'
  OBVIOUS
<1>0. TypeOK /\ Modes /\ Posted /\ InLine /\ PermitsAccount /\ ScanRight /\ Located /\ Closed /\ NoCall \notin Calls
  BY ActorAssumption DEF ActorInv, Calls
<1>1. ASSUME NEW c \in Clients, PostAdd(c) PROVE ScanRight'
  <2> SUFFICES ASSUME Scanning PROVE ScanRight'
    BY <1>1 DEF ScanRight, Scanning, PostAdd, dispVars
  <2>1. PICK p \in Prio, k \in Calls : Adds(p, k)
    BY <1>0, <1>1, PostAdds
  <2>2. Queued' = Queued \cup {k} /\ k \notin Queued
    BY <1>0, <2>1, AddedQueued, AddedIsNew
  <2>3. UNCHANGED <<dpc, lvl, idx, due>> /\ due # {} /\ due \subseteq Queued /\ k \notin due
    BY <1>0, <1>1, <2>2 DEF PostAdd, dispVars, ScanRight
  <2>4. idx # 0 => queue'[idx] # << >>
    <3> SUFFICES ASSUME idx # 0 PROVE queue'[idx] # << >>
      OBVIOUS
    <3>1. queue[idx] # << >> /\ idx \in Prio /\ queue[idx] \in Seq(Calls)
      BY <1>0 DEF ScanRight, TypeOK
    <3>2. 1 \in DOMAIN queue[idx]
      BY <3>1
    <3>3. 1 \in DOMAIN queue'[idx]
      BY <1>0, <2>1, <3>1, <3>2, AddedQueues
    <3> QED
      BY <3>3
  <2>5. ASSUME NEW q \in Prio, q > idx /\ (dpc = "scan" => q < lvl), NEW i \in DOMAIN queue'[q]
        PROVE  queue'[q][i] \notin due
    <3>1. (i \in DOMAIN queue[q] /\ queue'[q][i] = queue[q][i]) \/ queue'[q][i] = k
      BY <1>0, <2>1, AddedQueues
    <3> QED
      BY <1>0, <2>3, <2>5, <3>1 DEF ScanRight
  <2> QED
    BY <2>2, <2>3, <2>4, <2>5 DEF ScanRight
<1>2. ASSUME NEW c \in Clients, Signal(c) PROVE ScanRight'
  BY <1>0, <1>2 DEF ScanRight, Scanning, Queued, Signal, ClientStep, dispVars, futVars
<1>3. ASSUME NEW c \in Clients, SignalNotify(c) PROVE ScanRight'
  BY <1>0, <1>3 DEF ScanRight, Scanning, Queued, SignalNotify, ClientStep, mailVars, futVars
<1>4. ASSUME NEW c \in Clients, Release(c) PROVE ScanRight'
  BY <1>0, <1>4 DEF ScanRight, Scanning, Queued, Release, ClientStep, mailVars, dispVars, futVars
<1>5. ASSUME NEW c \in Clients, Get(c) PROVE ScanRight'
  BY <1>0, <1>5 DEF ScanRight, Scanning, Queued, Get, ClientStep, Last, mailVars, dispVars, futVars
<1>6. ASSUME NEW c \in Clients, GetLock(c) PROVE ScanRight'
  BY <1>0, <1>6 DEF ScanRight, Scanning, Queued, GetLock, ClientStep, Last, mailVars, dispVars,
       futVars
<1>7. ASSUME NEW c \in Clients, GetExpired(c) PROVE ScanRight'
  BY <1>0, <1>7 DEF ScanRight, Scanning, Queued, GetExpired, ClientStep, Last, mailVars, dispVars,
       futVars
<1>8. ASSUME NEW c \in Clients, GetTimeout(c) PROVE ScanRight'
  BY <1>0, <1>8 DEF ScanRight, Scanning, Queued, GetTimeout, ClientStep, mailVars, dispVars, futVars
<1>9. CASE LoopTop
  BY <1>0, <1>9 DEF ScanRight, Scanning, Queued, LoopTop, Dispatch, mailVars, clientVars, futVars
<1>10. CASE PlainTake
  BY <1>0, <1>10 DEF ScanRight, Scanning, Queued, PlainTake, Dispatch, clientVars, futVars
<1>11. CASE PlainTimeout
  BY <1>0, <1>11 DEF ScanRight, Scanning, Queued, PlainTimeout, Dispatch, mailVars, clientVars,
       futVars
<1>12. CASE WaitLoad
  BY <1>0, <1>12 DEF ScanRight, Scanning, Queued, WaitLoad, Dispatch, mailVars, clientVars, futVars
<1>13. CASE WaitLock
  BY <1>0, <1>13 DEF ScanRight, Scanning, Queued, WaitLock, Dispatch, clientVars, futVars
<1>14. CASE WaitTest
  BY <1>0, <1>14 DEF ScanRight, Scanning, Queued, WaitTest, Dispatch, clientVars, futVars
<1>15. CASE WaitPermit
  <2>1. Queued # {}
    BY <1>0, <1>15, PermitHasCall DEF WaitPermit, Dispatch
  <2>2. Queued' = Queued /\ due' = Queued /\ idx' = 0 /\ lvl' = 1 /\ dpc' = "scan"
    BY <1>15 DEF WaitPermit, Dispatch, Queued
  <2>3. \A p \in Prio : ~ (p < 1)
    BY DEF Prio
  <2> QED
    BY <2>1, <2>2, <2>3 DEF ScanRight
<1>16. CASE WaitTimeout
  BY <1>0, <1>16 DEF ScanRight, Scanning, Queued, WaitTimeout, Dispatch, clientVars, futVars
<1>17. CASE RemoveScan
  <2>1. Scanning /\ dpc = "scan" /\ UNCHANGED <<queue, due>> /\ Queued' = Queued
    BY <1>17 DEF RemoveScan, Dispatch, Scanning, mailVars, Queued
  <2>2. queue[lvl] \in Seq(Calls) /\ lvl \in 1 .. Priorities /\ idx \in Nat
    BY <1>0, ActorAssumption DEF TypeOK, Prio
  <2>3. CASE Len(queue[lvl]) > 0
    <3>1. idx' = lvl /\ queue[lvl] # << >>
      BY <1>17, <2>2, <2>3 DEF RemoveScan
    <3>2. \A p \in Prio : ~ (p > idx' /\ (dpc' = "scan" => p < lvl'))
      BY <1>17, <2>2, <3>1, ActorAssumption DEF RemoveScan, Dispatch, Prio
    <3> QED
      BY <1>0, <2>1, <3>1, <3>2 DEF ScanRight
  <2>4. CASE ~ (Len(queue[lvl]) > 0)
    <3>1. idx' = idx /\ DOMAIN queue[lvl] = {}
      BY <1>17, <2>2, <2>4 DEF RemoveScan
    <3>2. \A p \in Prio : (dpc' = "scan" => p < lvl') => p < lvl \/ p = lvl
      BY <1>17, <2>2, ActorAssumption DEF RemoveScan, Dispatch, Prio
    <3> QED
      BY <1>0, <2>1, <3>1, <3>2 DEF ScanRight
  <2> QED
    BY <2>3, <2>4
<1>18. CASE RemoveTake
  BY <1>0, <1>18 DEF ScanRight, Scanning, Queued, RemoveTake, Dispatch, clientVars, futVars
<1>19. CASE ExecuteBegin
  BY <1>0, <1>19 DEF ScanRight, Scanning, Queued, ExecuteBegin, Dispatch, mailVars, clientVars
<1>20. CASE ExecuteEnd
  BY <1>0, <1>20 DEF ScanRight, Scanning, Queued, ExecuteEnd, Dispatch, Awaken, Last, mailVars
<1>21. CASE Finalize
  BY <1>0, <1>21 DEF ScanRight, Scanning, Queued, Finalize, mailVars, clientVars, futVars
<1>22. CASE UNCHANGED vars
  BY <1>0, <1>22 DEF ScanRight, Scanning, Queued, vars, mailVars, dispVars, clientVars, futVars
<1> QED
  BY <1>1, <1>2, <1>3, <1>4, <1>5, <1>6, <1>7, <1>8, <1>9, <1>10, <1>11, <1>12, <1>13,
           <1>14, <1>15, <1>16, <1>17, <1>18, <1>19, <1>20, <1>21, <1>22
     DEF Next, Posting, Getting, Dispatching

-----------------------------------------------------------------------------
(* Where the posted calls are.                                               *)

\* A posted call stays queued, at hand or done.
LEMMA NextLocated ==
  ASSUME ActorInv, Added \/ Begun \/ Ended \/ Stayed
  PROVE  Located'
<1>0. TypeOK /\ Modes /\ Posted /\ InLine /\ Located
  BY DEF ActorInv
<1>1. CASE Added
  <2>1. PICK p \in Prio, k \in Calls : Adds(p, k) /\ UNCHANGED <<job, fut>>
    BY <1>1 DEF Added
  <2>2. Queued' = Queued \cup {k}
    BY <1>0, <2>1, AddedQueued
  <2>3. ASSUME NEW c \in Clients, NEW n \in 1 .. posted'[c], <<c, n>> # k PROVE n \in 1 .. posted[c]
    <3>1. /\ posted' = [posted EXCEPT ![k[1]] = k[2]] /\ k[2] = posted[k[1]] + 1 /\ k = <<k[1], k[2]>>
          /\ posted \in [Clients -> 0 .. MaxPosts] /\ k[1] \in Clients /\ k[2] \in Nat
      BY <1>0, <2>1, CallParts DEF Adds, TypeOK
    <3>2. CASE c = k[1]
      <4>1. n # k[2] /\ n \in 1 .. k[2] /\ posted[c] \in Nat /\ k[2] = posted[c] + 1
        BY <2>3, <3>1, <3>2, ActorAssumption
      <4> QED
        BY <4>1
    <3>3. CASE c # k[1]
      BY <3>1, <3>3
    <3> QED
      BY <3>2, <3>3
  <2> QED
    BY <1>0, <2>1, <2>2, <2>3 DEF Located
<1>2. CASE Begun
  <2>1. PICK p \in Prio : Removes(p) /\ ~ Running /\ UNCHANGED <<posted, fut>>
    BY <1>2 DEF Begun
  <2>2. Queued' = Queued \ {job'}
    BY <1>0, <2>1, RemovedQueued
  <2>3. \A c \in Clients : \A n \in 1 .. posted[c] : job # <<c, n>>
    <3>1. job = NoCall
      BY <1>0, <2>1 DEF Modes
    <3>2. \A c \in Clients : \A n \in 1 .. posted[c] : n \in 1 .. MaxPosts
      BY <1>0, ActorAssumption DEF TypeOK
    <3> QED
      BY <3>1, <3>2, ActorAssumption
  <2> QED
    BY <1>0, <2>1, <2>2, <2>3 DEF Located
<1>3. CASE Ended
  <2>1. Queued' = Queued
    BY <1>3 DEF Ended, Queued
  <2>2. \A k \in Calls : fut'[k] = fut[k] \/ (k = job /\ fut'[k] = "ready")
    BY <1>0, <1>3 DEF Ended, TypeOK
  <2>3. \A c \in Clients : \A n \in 1 .. posted[c] : <<c, n>> \in Calls
    BY <1>0, ActorAssumption DEF TypeOK, Calls
  <2>4. fut'[job] = "ready" /\ posted' = posted
    BY <1>0, <1>3 DEF Ended, TypeOK
  <2> QED
    BY <1>0, <2>1, <2>2, <2>3, <2>4 DEF Located
<1>4. CASE Stayed
  <2>1. Queued' = Queued
    BY <1>4 DEF Stayed, Queued
  <2>2. \A c \in Clients : \A n \in 1 .. posted[c] : <<c, n>> \in Calls
    BY <1>0, ActorAssumption DEF TypeOK, Calls
  <2> QED
    BY <1>0, <1>4, <2>1, <2>2 DEF Located, Stayed
<1> QED
  BY <1>1, <1>2, <1>3, <1>4

\* Cancellation.
LEMMA NextClosed == ActorInv /\ [Next]_vars => Closed'
<1> SUFFICES ASSUME ActorInv, [Next]_vars PROVE Closed'
  OBVIOUS
<1>0. TypeOK /\ Modes /\ Posted /\ InLine /\ PermitsAccount /\ ScanRight /\ Located /\ Closed /\ NoCall \notin Calls
  BY ActorAssumption DEF ActorInv, Calls
<1>1. ASSUME NEW c \in Clients, PostAdd(c) PROVE Closed'
  <2>1. ~ cancelled'
    BY <1>0, <1>1 DEF Closed, PostAdd, ClientStep, dispVars
  <2> QED
    BY <2>1 DEF Closed
<1>2. ASSUME NEW c \in Clients, Signal(c) PROVE Closed'
  BY <1>0, <1>2 DEF Closed, Queued, TypeOK, Signal, ClientStep, dispVars, futVars
<1>3. ASSUME NEW c \in Clients, SignalNotify(c) PROVE Closed'
  BY <1>0, <1>3 DEF Closed, Queued, TypeOK, SignalNotify, ClientStep, mailVars, futVars
<1>4. ASSUME NEW c \in Clients, Release(c) PROVE Closed'
  BY <1>0, <1>4 DEF Closed, Queued, TypeOK, Release, ClientStep, mailVars, dispVars, futVars
<1>5. ASSUME NEW c \in Clients, Get(c) PROVE Closed'
  BY <1>0, <1>5 DEF Closed, Queued, TypeOK, Get, ClientStep, Last, mailVars, dispVars, futVars
<1>6. ASSUME NEW c \in Clients, GetLock(c) PROVE Closed'
  BY <1>0, <1>6 DEF Closed, Queued, TypeOK, GetLock, ClientStep, Last, mailVars, dispVars, futVars
<1>7. ASSUME NEW c \in Clients, GetExpired(c) PROVE Closed'
  BY <1>0, <1>7 DEF Closed, Queued, TypeOK, GetExpired, ClientStep, Last, mailVars, dispVars,
       futVars
<1>8. ASSUME NEW c \in Clients, GetTimeout(c) PROVE Closed'
  BY <1>0, <1>8 DEF Closed, Queued, TypeOK, GetTimeout, ClientStep, mailVars, dispVars, futVars
<1>9. CASE LoopTop
  BY <1>0, <1>9 DEF Closed, Queued, TypeOK, LoopTop, Dispatch, mailVars, clientVars, futVars
<1>10. CASE PlainTake
  <2>1. Queued # {}
    BY <1>0, <1>10, PlainRemoves, RemovedQueued
  <2> QED
    BY <1>0, <1>10, <2>1 DEF Closed, PlainTake
<1>11. CASE PlainTimeout
  BY <1>0, <1>11 DEF Closed, Queued, TypeOK, PlainTimeout, Dispatch, mailVars, clientVars, futVars
<1>12. CASE WaitLoad
  BY <1>0, <1>12 DEF Closed, Queued, TypeOK, WaitLoad, Dispatch, mailVars, clientVars, futVars
<1>13. CASE WaitLock
  BY <1>0, <1>13 DEF Closed, Queued, TypeOK, WaitLock, Dispatch, clientVars, futVars
<1>14. CASE WaitTest
  BY <1>0, <1>14 DEF Closed, Queued, TypeOK, WaitTest, Dispatch, clientVars, futVars
<1>15. CASE WaitPermit
  BY <1>0, <1>15 DEF Closed, Queued, TypeOK, WaitPermit, Dispatch, clientVars, futVars
<1>16. CASE WaitTimeout
  BY <1>0, <1>16 DEF Closed, Queued, TypeOK, WaitTimeout, Dispatch, clientVars, futVars
<1>17. CASE RemoveScan
  BY <1>0, <1>17 DEF Closed, Queued, TypeOK, RemoveScan, Dispatch, mailVars, clientVars, futVars
<1>18. CASE RemoveTake
  <2>1. idx # 0 => Queued # {}
    BY <1>0, <1>18, TakeRemoves, RemovedQueued
  <2> QED
    BY <1>0, <1>18, <2>1 DEF Closed, RemoveTake, Queued, clientVars
<1>19. CASE ExecuteBegin
  BY <1>0, <1>19 DEF Closed, Queued, TypeOK, ExecuteBegin, Dispatch, mailVars, clientVars
<1>20. CASE ExecuteEnd
  BY <1>0, <1>20 DEF Closed, Queued, TypeOK, ExecuteEnd, Dispatch, Awaken, Last, mailVars
<1>21. CASE Finalize
  BY <1>0, <1>21 DEF Closed, Queued, TypeOK, Finalize, mailVars, clientVars, futVars
<1>22. CASE UNCHANGED vars
  BY <1>0, <1>22 DEF Closed, Queued, TypeOK, vars, mailVars, dispVars, clientVars, futVars
<1> QED
  BY <1>1, <1>2, <1>3, <1>4, <1>5, <1>6, <1>7, <1>8, <1>9, <1>10, <1>11, <1>12, <1>13,
           <1>14, <1>15, <1>16, <1>17, <1>18, <1>19, <1>20, <1>21, <1>22
     DEF Next, Posting, Getting, Dispatching

-----------------------------------------------------------------------------
(* The theorems.                                                             *)

\* The invariant holds when the mailbox is empty,
LEMMA InitActor == Init => ActorInv
<1> SUFFICES ASSUME Init PROVE ActorInv
  OBVIOUS
<1>1. TypeOK /\ Modes
  BY InitTypes
<1>2. \A p \in Prio : DOMAIN queue[p] = {}
  BY DEF Init
<1>3. Queued = {}
  BY <1>2 DEF Queued
<1>4. dpc = "top" /\ DOMAIN ran = {}
  BY DEF Init
<1>5. Posted /\ InLine /\ ScanRight
  BY <1>2, <1>4 DEF Posted, InLine, InOrder, ScanRight, Scanning, Running
<1>6. PermitsAccount
  <2>1. Signalling = {}
    BY DEF Init, Signalling
  <2>2. Cardinality(Queued) = 0 /\ Cardinality(Signalling) = 0
    BY <1>3, <2>1, FS_EmptySet
  <2>3. cnt = 0 /\ InHand = 0
    BY <1>4 DEF Init, InHand, Scanning
  <2> QED
    BY <2>2, <2>3, PermitsIs
<1>7. Located
  <2>1. \A c \in Clients : 1 .. posted[c] = {}
    BY DEF Init
  <2> QED
    BY <2>1 DEF Located
<1>8. Closed
  BY DEF Init, Closed
<1> QED
  BY <1>1, <1>5, <1>6, <1>7, <1>8 DEF ActorInv

\* and every step keeps it.
LEMMA NextActor == ActorInv /\ [Next]_vars => ActorInv'
<1> SUFFICES ASSUME ActorInv, [Next]_vars PROVE ActorInv'
  OBVIOUS
<1>1. TypeOK' /\ Modes'
  BY NextTypes, NextModes
<1>2. Posted' /\ InLine'
  BY NextMoves, NextPosted, NextInLine DEF ActorInv
<1>3. PermitsAccount' /\ ScanRight' /\ Located' /\ Closed'
  BY NextPermits, NextScan, NextMoves, NextLocated, NextClosed
<1> QED
  BY <1>1, <1>2, <1>3 DEF ActorInv

\* The invariant behind the theorems below, in every state of dispatcher and clients.
THEOREM ActorInvariant == Spec => []ActorInv
<1>1. Init => ActorInv
  BY InitActor
<1>2. ActorInv /\ [Next]_vars => ActorInv'
  BY NextActor
<1> QED
  BY <1>1, <1>2, PTL DEF Spec

\* Every variable keeps its type: no queue grows beyond the capacity of the
\* mailbox, and cnt.fetchSub(1) never takes the UInt64 below zero.
THEOREM MailboxIsTyped == Spec => []TypeOK
<1>1. ActorInv => TypeOK
  BY DEF ActorInv
<1> QED
  BY <1>1, ActorInvariant, PTL

\* The semaphore has as many permits as there are calls in the queues, up to
\* the posts that have not signalled and the permit in the consumer's hands.
THEOREM PermitsAreCalls == Spec => []PermitsAccount
<1>1. ActorInv => PermitsAccount
  BY DEF ActorInv
<1> QED
  BY <1>1, ActorInvariant, PTL

\* remove of the priority mailbox never comes back with None when wait
\* returned true: the scan that a permit pays for finds a call.
PermitBuysCall == dpc = "take" => idx # 0

\* So in every state in which the dispatcher has ended its scan (remove of the priority mailbox).
THEOREM ScanNeverEmpty == Spec => []PermitBuysCall
<1>1. ActorInv => PermitBuysCall
  BY ScanFinds DEF ActorInv, PermitBuysCall
<1> QED
  BY <1>1, ActorInvariant, PTL

\* The call that is taken has the highest priority of those that were queued
\* when the permit was taken.
THEOREM HighestIsTaken == Spec => []HighestFirst
<1>1. ActorInv => HighestFirst
  <2> SUFFICES ASSUME ActorInv, dpc = "take", NEW p \in Prio, p > idx, NEW i \in DOMAIN queue[p]
               PROVE  queue[p][i] \notin due
    BY DEF HighestFirst
  <2> QED
    BY DEF ActorInv, ScanRight, Scanning
<1> QED
  BY <1>1, ActorInvariant, PTL

\* Calls of one client with one priority are executed in the order of post.
THEOREM CallsRunInOrder == Spec => []InOrder
<1>1. ActorInv => InOrder
  BY DEF ActorInv, InLine
<1> QED
  BY <1>1, ActorInvariant, PTL

\* When the dispatcher's thread ends, every call that was posted has run.
THEOREM NoCallAbandoned == Spec => []NothingAbandoned
<1>1. ActorInv => NothingAbandoned
  <2> SUFFICES ASSUME ActorInv, dpc = "stopped", NEW c \in Clients, NEW k \in 1 .. posted[c]
               PROVE  fut[<<c, k>>] = "ready"
    BY DEF NothingAbandoned
  <2>1. Queued = {} /\ job = NoCall
    BY DEF ActorInv, Modes, Running, Closed
  <2>2. posted[c] \in 0 .. MaxPosts
    BY DEF ActorInv, TypeOK
  <2>3. k \in 1 .. MaxPosts
    BY <2>2, ActorAssumption
  <2>4. <<c, k>> # NoCall
    BY <2>3, ActorAssumption
  <2>5. <<c, k>> \in Queued \/ job = <<c, k>> \/ fut[<<c, k>>] = "ready"
    BY DEF ActorInv, Located
  <2> QED
    BY <2>1, <2>4, <2>5
<1> QED
  BY <1>1, ActorInvariant, PTL
=============================================================================
