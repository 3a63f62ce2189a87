-------------------------- MODULE ServicePoolProofs --------------------------
(* The bound on the pool's workers, for every capacity and number of       *)
(* connections.                                                            *)
EXTENDS ServicePool, QueueLemmas, FiniteSetTheorems, TLAPS

(* submit compares workers.size with the capacity before it takes          *)
(* workersMutex; in between, workers can only leave.                       *)
RoomToCreate == apc = "create" => Cardinality(workers) < Capacity

BoundInv == workers \subseteq Workers /\ WorkersBounded /\ RoomToCreate

\* There are finitely many workers.
LEMMA WorkersFinite ==
  ASSUME workers \subseteq Workers
  PROVE  IsFiniteSet(workers) /\ Cardinality(workers) \in Nat
BY PoolAssumption, FS_Subset, FS_CardinalityType

\* The bound holds while there is no worker,
LEMMA InitBound == Init => BoundInv
BY PoolAssumption DEF Init, BoundInv, WorkersBounded, RoomToCreate

\* and every step keeps it: only the serve loop adds workers, others leave.
LEMMA NextBound == BoundInv /\ [Next]_vars => BoundInv'
<1> SUFFICES ASSUME BoundInv, [Next]_vars PROVE BoundInv'
  OBVIOUS
<1> USE DEF BoundInv, WorkersBounded, RoomToCreate
<1> USE DEF serverVars, acceptVars, queueVars, poolVars, workerVars, closeVars
<1>0. Capacity \in Nat /\ Cardinality(workers) \in Nat /\ IsFiniteSet(workers)
  BY PoolAssumption, WorkersFinite
<1>1. CASE SubmitSize
  BY <1>1 DEF SubmitSize
<1>2. CASE SubmitCreate
  <2>1. PICK w \in Workers : workers' = workers \cup {w}
    BY <1>2 DEF SubmitCreate
  <2>2. Cardinality(workers') <= Cardinality(workers) + 1
    BY <1>0, <2>1, FS_AddElement
  <2>3. apc' = "loop" /\ Cardinality(workers) < Capacity
    BY <1>2 DEF SubmitCreate
  <2>4. workers' \subseteq Workers
    BY <2>1
  <2>5. Cardinality(workers') \in Nat
    BY <2>4, PoolAssumption, FS_Subset, FS_CardinalityType
  <2> QED
    BY <1>0, <2>2, <2>3, <2>4, <2>5
<1>3. ASSUME NEW w \in Workers, WorkerLeave(w) PROVE BoundInv'
  <2>1. workers' = workers \ {w} /\ apc' = apc
    BY <1>3 DEF WorkerLeave
  <2>2. Cardinality(workers') <= Cardinality(workers) /\ Cardinality(workers') \in Nat
    BY <1>0, <2>1, FS_Subset, FS_CardinalityType
  <2> QED
    BY <1>0, <2>1, <2>2
<1>4. ASSUME workers' = workers, apc' # "create" \/ apc' = apc PROVE BoundInv'
  BY <1>4
<1>5. CASE Accept \/ AcceptLoop \/ AcceptNothing \/ SubmitTest \/ SubmitFree \/ SubmitFull
           \/ EnqueueTest \/ EnqueueAdd \/ SubmitFail
  BY <1>4, <1>5 DEF Accept, AcceptLoop, AcceptNothing, SubmitTest, SubmitFree, SubmitFull,
                    EnqueueTest, EnqueueAdd, SubmitFail
<1>6. CASE CloseQuit \/ Closing
  BY <1>4, <1>6 DEF CloseQuit, Closing, CloseLock, CloseQueue, CloseDrain, CloseUnlock,
                    CloseListener, CloseWorker, CloseAwaitWorker
<1>7. ASSUME NEW w \in Workers, ServeEnd(w) \/ WorkerTimeout(w) \/ (Work(w) /\ ~ WorkerLeave(w))
      PROVE  BoundInv'
  BY <1>4, <1>7 DEF ServeEnd, WorkerTimeout, Work, WorkerUncount, WorkerClear, WorkerLoop,
                    WorkerTake, WorkerSet, WorkerCount, Step
<1>8. CASE UNCHANGED vars
  BY <1>4, <1>8 DEF vars
<1> QED
  BY <1>1, <1>2, <1>3, <1>5, <1>6, <1>7, <1>8 DEF Next, ServeLoop, Submit

(* The pool never has more workers than its capacity, whatever the number  *)
(* of connections, the size of the queue and the timing of the timeouts.   *)
THEOREM PoolBounded == Spec => []WorkersBounded
<1>1. BoundInv => WorkersBounded
  BY DEF BoundInv
<1> QED
  BY <1>1, InitBound, NextBound, PTL DEF Spec

-----------------------------------------------------------------------------
(* Where a connection is.                                                  *)

HolderTypes ==
  /\ conn \in [Conns -> {"new", "open", "ended", "closed"}]
  /\ apc \in {"loop", "accept", "test", "free", "size", "create", "full", "enqueue", "add", "fail",
              "done"}
  /\ cur \in Conns \cup {None} /\ tq \in Seq(Conns)
  /\ wpc \in [Workers -> {"off", "run", "uncount", "clear", "loop", "take", "set", "count", "leave",
                          "exit"}]
  /\ task \in [Workers -> Conns \cup {None}] /\ running \in [Workers -> Conns \cup {None}]

\* The serve loop has a connection while it submits one, a worker has a task
\* from its creation or the queue until it clears it.
InHand ==
  /\ cur = None <=> apc \in {"loop", "accept", "done"}
  /\ \A w \in Workers : /\ task[w] = None <=> wpc[w] \in {"off", "loop", "take", "leave", "exit"}
                        /\ wpc[w] \in {"uncount", "clear"} => conn[task[w]] \in {"ended", "closed"}

Held(c) == cur = c \/ (\E i \in DOMAIN tq : tq[i] = c) \/ (\E w \in Workers : task[w] = c)

\* No connection is in two places.
Apart ==
  /\ \A i, j \in DOMAIN tq : tq[i] = tq[j] => i = j
  /\ \A i \in DOMAIN tq : tq[i] # cur /\ \A w \in Workers : task[w] # tq[i]
  /\ \A w \in Workers : task[w] # None => task[w] # cur
  /\ \A v, w \in Workers : task[v] = task[w] /\ task[w] # None => v = w

\* An open connection is somewhere, and one not accepted yet is nowhere.
Somewhere == \A c \in Conns : (conn[c] = "open" => Held(c)) /\ (conn[c] = "new" => ~ Held(c))

HolderInv == HolderTypes /\ InHand /\ Apart /\ Somewhere

\* No connection has a place initially.
LEMMA InitHolder == Init => HolderInv
<1> SUFFICES ASSUME Init PROVE HolderInv
  OBVIOUS
<1>1. HolderTypes
  BY DEF Init, HolderTypes
<1>2. InHand
  BY DEF Init, InHand
<1>3. Apart
  BY DEF Init, Apart
<1>4. Somewhere
  BY PoolAssumption DEF Init, Somewhere, Held
<1> QED
  BY <1>1, <1>2, <1>3, <1>4 DEF HolderInv

\* Every step moves a connection from one place to another, or closes it.
LEMMA NextHolder == HolderInv /\ [Next]_vars => HolderInv'
<1> SUFFICES ASSUME HolderInv, [Next]_vars PROVE HolderInv'
  OBVIOUS
<1>0. HolderTypes /\ InHand /\ Apart /\ Somewhere /\ None \notin Conns
  BY PoolAssumption DEF HolderInv
<1>1. CASE AcceptLoop \/ AcceptNothing \/ SubmitTest \/ SubmitFree \/ SubmitSize \/ SubmitFull \/ EnqueueTest
  <2>1. HolderTypes'
    BY <1>0, <1>1 DEF HolderTypes, AcceptLoop, AcceptNothing, SubmitTest, SubmitFree, SubmitSize,
           SubmitFull, EnqueueTest, closeVars, poolVars, queueVars, serverVars, workerVars
  <2>2. InHand'
    BY <1>0, <1>1 DEF InHand, HolderTypes, AcceptLoop, AcceptNothing, SubmitTest, SubmitFree,
           SubmitSize, SubmitFull, EnqueueTest, closeVars, poolVars, queueVars, serverVars,
           workerVars
  <2>3. Apart'
    BY <1>0, <1>1 DEF Apart, HolderTypes, InHand, AcceptLoop, AcceptNothing, SubmitTest, SubmitFree,
           SubmitSize, SubmitFull, EnqueueTest, closeVars, poolVars, queueVars, serverVars,
           workerVars
  <2>4. Somewhere'
    BY <1>0, <1>1 DEF Somewhere, HolderTypes, InHand, Apart, Held, AcceptLoop, AcceptNothing,
           SubmitTest, SubmitFree, SubmitSize, SubmitFull, EnqueueTest, closeVars, poolVars,
           queueVars, serverVars, workerVars
  <2> QED
    BY <2>1, <2>2, <2>3, <2>4 DEF HolderInv
<1>2. CASE CloseQuit \/ CloseLock \/ CloseQueue \/ CloseUnlock \/ CloseListener
  <2>1. HolderTypes'
    BY <1>0, <1>2 DEF HolderTypes, CloseQuit, CloseLock, CloseQueue, CloseUnlock, CloseListener,
           acceptVars, poolVars, queueVars, serverVars, workerVars
  <2>2. InHand'
    BY <1>0, <1>2 DEF InHand, HolderTypes, CloseQuit, CloseLock, CloseQueue, CloseUnlock,
           CloseListener, acceptVars, poolVars, queueVars, serverVars, workerVars
  <2>3. Apart'
    BY <1>0, <1>2 DEF Apart, HolderTypes, InHand, CloseQuit, CloseLock, CloseQueue, CloseUnlock,
           CloseListener, acceptVars, poolVars, queueVars, serverVars, workerVars
  <2>4. Somewhere'
    BY <1>0, <1>2 DEF Somewhere, HolderTypes, InHand, Apart, Held, CloseQuit, CloseLock, CloseQueue,
           CloseUnlock, CloseListener, acceptVars, poolVars, queueVars, serverVars, workerVars
  <2> QED
    BY <2>1, <2>2, <2>3, <2>4 DEF HolderInv
<1>3. ASSUME NEW w \in Workers,
             \/ WorkerTimeout(w)
             \/ WorkerUncount(w)
             \/ WorkerLoop(w)
             \/ WorkerSet(w)
             \/ WorkerCount(w)
             \/ WorkerLeave(w)
      PROVE  HolderInv'
  <2>1. HolderTypes'
    BY <1>0, <1>3 DEF HolderTypes, WorkerTimeout, WorkerUncount, WorkerLoop, WorkerSet, WorkerCount,
           WorkerLeave, Step, acceptVars, closeVars, poolVars, queueVars, serverVars
  <2>2. InHand'
    BY <1>0, <1>3 DEF InHand, HolderTypes, WorkerTimeout, WorkerUncount, WorkerLoop, WorkerSet,
           WorkerCount, WorkerLeave, Step, acceptVars, closeVars, poolVars, queueVars, serverVars
  <2>3. Apart'
    BY <1>0, <1>3 DEF Apart, HolderTypes, InHand, WorkerTimeout, WorkerUncount, WorkerLoop,
           WorkerSet, WorkerCount, WorkerLeave, Step, acceptVars, closeVars, poolVars, queueVars,
           serverVars
  <2>4. Somewhere'
    BY <1>0, <1>3 DEF Somewhere, HolderTypes, InHand, Apart, Held, WorkerTimeout, WorkerUncount,
           WorkerLoop, WorkerSet, WorkerCount, WorkerLeave, Step, acceptVars, closeVars, poolVars,
           queueVars, serverVars
  <2> QED
    BY <2>1, <2>2, <2>3, <2>4 DEF HolderInv
<1>4. CASE Accept
  <2>1. HolderTypes'
    BY <1>0, <1>4 DEF HolderTypes, Accept, queueVars, poolVars, workerVars, closeVars
  <2>2. InHand'
    BY <1>0, <1>4 DEF InHand, HolderTypes, Accept, queueVars, poolVars, workerVars, closeVars
  <2>3. Apart'
    <3>1. PICK c \in Conns : conn[c] = "new" /\ cur' = c
      BY <1>4 DEF Accept
    <3>2. ~ Held(c)
      BY <1>0, <3>1 DEF Somewhere
    <3>3. tq' = tq /\ task' = task
      BY <1>4 DEF Accept, queueVars, workerVars
    <3> QED
      BY <1>0, <3>1, <3>2, <3>3 DEF Apart, Held
  <2>4. Somewhere'
    BY <1>0, <1>4 DEF Somewhere, HolderTypes, InHand, Apart, Held, Accept, queueVars, poolVars,
           workerVars, closeVars
  <2> QED
    BY <2>1, <2>2, <2>3, <2>4 DEF HolderInv
<1>5. CASE SubmitCreate
  <2>1. HolderTypes'
    BY <1>0, <1>5 DEF HolderTypes, SubmitCreate, serverVars, queueVars, closeVars
  <2>2. InHand'
    BY <1>0, <1>5 DEF InHand, HolderTypes, SubmitCreate, serverVars, queueVars, closeVars
  <2>3. Apart'
    BY <1>0, <1>5 DEF Apart, HolderTypes, InHand, SubmitCreate, serverVars, queueVars, closeVars
  <2>4. Somewhere'
    BY <1>0, <1>5 DEF Somewhere, HolderTypes, InHand, Apart, Held, SubmitCreate, serverVars,
           queueVars, closeVars
  <2> QED
    BY <2>1, <2>2, <2>3, <2>4 DEF HolderInv
<1>6. CASE EnqueueAdd
  <2>1. HolderTypes'
    <3>1. cur \in Conns
      BY <1>0, <1>6 DEF HolderTypes, InHand, EnqueueAdd
    <3>2. tq' \in Seq(Conns)
      BY <1>0, <1>6, <3>1, AppendAt DEF HolderTypes, EnqueueAdd
    <3> QED
      BY <1>0, <1>6, <3>2 DEF HolderTypes, EnqueueAdd, serverVars, poolVars, workerVars, closeVars
  <2>2. InHand'
    BY <1>0, <1>6 DEF InHand, HolderTypes, EnqueueAdd, serverVars, poolVars, workerVars, closeVars
  <2>3. Apart'
    BY <1>0, <1>6 DEF Apart, HolderTypes, InHand, EnqueueAdd, serverVars, poolVars, workerVars,
           closeVars
  <2>4. Somewhere'
    BY <1>0, <1>6 DEF Somewhere, HolderTypes, InHand, Apart, Held, EnqueueAdd, serverVars, poolVars,
           workerVars, closeVars
  <2> QED
    BY <2>1, <2>2, <2>3, <2>4 DEF HolderInv
<1>7. CASE SubmitFail
  <2>1. HolderTypes'
    BY <1>0, <1>7 DEF HolderTypes, SubmitFail, Close, queueVars, poolVars, workerVars, closeVars
  <2>2. InHand'
    BY <1>0, <1>7 DEF InHand, HolderTypes, SubmitFail, Close, queueVars, poolVars, workerVars,
           closeVars
  <2>3. Apart'
    BY <1>0, <1>7 DEF Apart, HolderTypes, InHand, SubmitFail, Close, queueVars, poolVars,
           workerVars, closeVars
  <2>4. Somewhere'
    BY <1>0, <1>7 DEF Somewhere, HolderTypes, InHand, Apart, Held, SubmitFail, Close, queueVars,
           poolVars, workerVars, closeVars
  <2> QED
    BY <2>1, <2>2, <2>3, <2>4 DEF HolderInv
<1>8. CASE CloseDrain
  <2>0. CASE tq = << >>
    BY <1>0, <1>8, <2>0 DEF HolderInv, HolderTypes, InHand, Apart, Somewhere, Held, CloseDrain, acceptVars, poolVars,
                             workerVars
  <2>5. CASE tq # << >>
    <3>0. /\ conn' = Close(tq[1]) /\ tq' = Tail(tq) /\ tq \in Seq(Conns) /\ tq[1] \in Conns
          /\ UNCHANGED <<acceptVars, workerVars>>
      BY <1>0, <1>8, <2>5, TailAt DEF CloseDrain, HolderTypes
    <3>1. /\ conn' \in [Conns -> {"new", "open", "ended", "closed"}] /\ conn'[tq[1]] # "open"
          /\ \A c \in Conns : conn'[c] = conn[c] \/ (conn[c] = "open" /\ conn'[c] = "closed")
          /\ \A c \in Conns : c # tq[1] => conn'[c] = conn[c]
      BY <1>0, <3>0 DEF HolderTypes, Close
    <3>2. /\ tq' \in Seq(Conns) /\ 1 \in DOMAIN tq
          /\ \A i \in DOMAIN tq' : i + 1 \in DOMAIN tq /\ tq'[i] = tq[i + 1]
          /\ \A i \in DOMAIN tq : i = 1 \/ (i - 1 \in DOMAIN tq' /\ tq'[i - 1] = tq[i])
      BY <2>5, <3>0, TailAt
    <3>3. HolderTypes' /\ InHand'
      BY <1>0, <3>0, <3>1, <3>2 DEF HolderTypes, InHand, acceptVars, workerVars
    <3>4. Apart'
      <4>1. \A i, j \in DOMAIN tq' : tq'[i] = tq'[j] => i = j
        <5> SUFFICES ASSUME NEW i \in DOMAIN tq', NEW j \in DOMAIN tq', tq'[i] = tq'[j] PROVE i = j
          OBVIOUS
        <5>1. i + 1 = j + 1
          BY <1>0, <3>2 DEF Apart
        <5>2. i \in Nat /\ j \in Nat
          BY <3>2
        <5> QED
          BY <5>1, <5>2
      <4> QED
        BY <1>0, <3>0, <3>2, <4>1 DEF Apart, acceptVars, workerVars
    <3>5. \A c \in Conns : c # tq[1] => (Held(c) <=> Held(c)')
      <4> SUFFICES ASSUME NEW c \in Conns, c # tq[1] PROVE Held(c) <=> Held(c)'
        OBVIOUS
      <4>1. (\E i \in DOMAIN tq : tq[i] = c) <=> (\E i \in DOMAIN tq' : tq'[i] = c)
        <5>1. (\E i \in DOMAIN tq : tq[i] = c) <=> (tq[1] = c \/ \E i \in DOMAIN Tail(tq) : Tail(tq)[i] = c)
          BY <2>5, <3>0, TailHolds
        <5> QED
          BY <3>0, <5>1
      <4> QED
        BY <3>0, <4>1 DEF Held, acceptVars, workerVars
    <3>6. Somewhere'
      <4>1. conn[tq[1]] # "new"
        BY <1>0, <3>0, <3>2 DEF Somewhere, Held
      <4> QED
        BY <1>0, <3>0, <3>1, <3>5, <4>1 DEF Somewhere
    <3> QED
      BY <3>3, <3>4, <3>6 DEF HolderInv
  <2> QED
    BY <2>0, <2>5
<1>9. ASSUME NEW w \in Workers, ServeEnd(w) PROVE HolderInv'
  <2>1. HolderTypes'
    BY <1>0, <1>9 DEF HolderTypes, ServeEnd, Step, acceptVars, queueVars, poolVars, closeVars
  <2>2. InHand'
    <3>1. task[w] \in Conns /\ wpc[w] = "run" /\ wpc' = [wpc EXCEPT ![w] = "uncount"]
      BY <1>0, <1>9 DEF HolderTypes, InHand, ServeEnd, Step
    <3>2. conn[task[w]] # "new"
      BY <1>0, <3>1 DEF Somewhere, Held
    <3>3. /\ conn'[task[w]] \in {"ended", "closed"}
          /\ \A c \in Conns : conn[c] \in {"ended", "closed"} => conn'[c] = conn[c]
      BY <1>0, <1>9, <3>1, <3>2 DEF HolderTypes, ServeEnd
    <3> QED
      BY <1>0, <1>9, <3>1, <3>3 DEF HolderTypes, InHand, ServeEnd, acceptVars
  <2>3. Apart'
    BY <1>0, <1>9 DEF Apart, HolderTypes, InHand, ServeEnd, Step, acceptVars, queueVars, poolVars,
           closeVars
  <2>4. Somewhere'
    BY <1>0, <1>9 DEF Somewhere, HolderTypes, InHand, Apart, Held, ServeEnd, Step, acceptVars,
           queueVars, poolVars, closeVars
  <2> QED
    BY <2>1, <2>2, <2>3, <2>4 DEF HolderInv
<1>10. ASSUME NEW w \in Workers, WorkerClear(w) PROVE HolderInv'
  <2>1. HolderTypes'
    BY <1>0, <1>10 DEF HolderTypes, WorkerClear, Step, serverVars, acceptVars, queueVars, poolVars,
           closeVars
  <2>2. InHand'
    BY <1>0, <1>10 DEF InHand, HolderTypes, WorkerClear, Step, serverVars, acceptVars, queueVars,
           poolVars, closeVars
  <2>3. Apart'
    BY <1>0, <1>10 DEF Apart, HolderTypes, InHand, WorkerClear, Step, serverVars, acceptVars,
           queueVars, poolVars, closeVars
  <2>4. Somewhere'
    BY <1>0, <1>10 DEF Somewhere, HolderTypes, InHand, Apart, Held, WorkerClear, Step, serverVars,
           acceptVars, queueVars, poolVars, closeVars
  <2> QED
    BY <2>1, <2>2, <2>3, <2>4 DEF HolderInv
<1>11. ASSUME NEW w \in Workers, WorkerTake(w) PROVE HolderInv'
  <2>1. HolderTypes'
    BY <1>0, <1>11 DEF HolderTypes, WorkerTake, Step, serverVars, acceptVars, poolVars, closeVars
  <2>2. InHand'
    BY <1>0, <1>11 DEF InHand, HolderTypes, WorkerTake, Step, serverVars, acceptVars, poolVars,
           closeVars
  <2>3. Apart'
    BY <1>0, <1>11 DEF Apart, HolderTypes, InHand, WorkerTake, Step, serverVars, acceptVars,
           poolVars, closeVars
  <2>4. Somewhere'
    <3>1. task' = [task EXCEPT ![w] = tq[1]] /\ tq' = Tail(tq) /\ conn' = conn /\ cur' = cur /\ task[w] = None
      BY <1>0, <1>11, TailAt DEF WorkerTake, Step, HolderTypes, InHand, serverVars, acceptVars
    <3>2. tq \in Seq(Conns) /\ tq # << >> /\ tq[1] \in Conns
      BY <1>0, <1>11, TailAt DEF HolderTypes, WorkerTake
    <3>3. \A c \in Conns : Held(c) <=> Held(c)'
      <4> SUFFICES ASSUME NEW c \in Conns PROVE Held(c) <=> Held(c)'
        OBVIOUS
      <4>1. (\E i \in DOMAIN tq : tq[i] = c) <=> (tq[1] = c \/ \E i \in DOMAIN tq' : tq'[i] = c)
        <5>1. (\E i \in DOMAIN tq : tq[i] = c) <=> (tq[1] = c \/ \E i \in DOMAIN Tail(tq) : Tail(tq)[i] = c)
          BY <3>2, TailHolds
        <5>2. tq' = Tail(tq)
          BY <3>1
        <5> QED
          BY <5>1, <5>2, Zenon
      <4>2. (\E v \in Workers : task'[v] = c) <=> (tq[1] = c \/ \E v \in Workers : task[v] = c)
        <5>1. task'[w] = tq[1] /\ task[w] # c /\ \A v \in Workers : v # w => task'[v] = task[v]
          BY <1>0, <3>1 DEF HolderTypes
        <5> QED
          BY <5>1
      <4> QED
        BY <3>1, <4>1, <4>2 DEF Held
    <3> QED
      BY <1>0, <3>1, <3>3 DEF Somewhere
  <2> QED
    BY <2>1, <2>2, <2>3, <2>4 DEF HolderInv
<1>12. ASSUME NEW w \in Workers, CloseWorker(w) PROVE HolderInv'
  <2>1. HolderTypes'
    BY <1>0, <1>12 DEF HolderTypes, CloseWorker, Close, acceptVars, queueVars, poolVars, workerVars
  <2>2. InHand'
    BY <1>0, <1>12 DEF InHand, HolderTypes, CloseWorker, Close, acceptVars, queueVars, poolVars,
           workerVars
  <2>3. Apart'
    BY <1>0, <1>12 DEF Apart, HolderTypes, InHand, CloseWorker, Close, acceptVars, queueVars,
           poolVars, workerVars
  <2>4. Somewhere'
    BY <1>0, <1>12 DEF Somewhere, HolderTypes, InHand, Apart, Held, CloseWorker, Close, acceptVars,
           queueVars, poolVars, workerVars
  <2> QED
    BY <2>1, <2>2, <2>3, <2>4 DEF HolderInv
<1>13. ASSUME NEW w \in Workers, CloseAwaitWorker(w) PROVE HolderInv'
  <2>1. HolderTypes'
    BY <1>0, <1>13 DEF HolderTypes, CloseAwaitWorker, serverVars, acceptVars, queueVars, poolVars,
           workerVars
  <2>2. InHand'
    BY <1>0, <1>13 DEF InHand, HolderTypes, CloseAwaitWorker, serverVars, acceptVars, queueVars,
           poolVars, workerVars
  <2>3. Apart'
    BY <1>0, <1>13 DEF Apart, HolderTypes, InHand, CloseAwaitWorker, serverVars, acceptVars,
           queueVars, poolVars, workerVars
  <2>4. Somewhere'
    BY <1>0, <1>13 DEF Somewhere, HolderTypes, InHand, Apart, Held, CloseAwaitWorker, serverVars,
           acceptVars, queueVars, poolVars, workerVars
  <2> QED
    BY <2>1, <2>2, <2>3, <2>4 DEF HolderInv
<1>14. CASE UNCHANGED vars
  BY <1>0, <1>14 DEF vars, HolderInv, HolderTypes, InHand, Apart, Somewhere, Held, serverVars, acceptVars,
                    queueVars, workerVars
<1> QED
  BY <1>1, <1>2, <1>3, <1>4, <1>5, <1>6, <1>7, <1>8, <1>9, <1>10, <1>11, <1>12, <1>13, <1>14
     DEF Next, ServeLoop, Submit, Work, Closing

\* The connections of one place are counted once.
LEMMA HolderIsOne == HolderInv => OneHolder
<1> SUFFICES ASSUME HolderInv, NEW c \in Conns, conn[c] = "open" PROVE Cardinality(Places(c)) = 1
  BY DEF OneHolder
<1>0. HolderTypes /\ Apart /\ Held(c) /\ c # None
  BY PoolAssumption DEF HolderInv, Somewhere
<1>1. ASSUME NEW x, Places(c) = {x} PROVE Cardinality(Places(c)) = 1
  BY <1>1, FS_Singleton
<1>2. CASE cur = c
  <2>1. Places(c) = {"serve"}
    BY <1>0, <1>2 DEF Apart, Places
  <2> QED
    BY <1>1, <2>1
<1>3. ASSUME NEW i \in DOMAIN tq, tq[i] = c PROVE Cardinality(Places(c)) = 1
  <2>1. {j \in DOMAIN tq : tq[j] = c} = {i}
    BY <1>0, <1>3 DEF Apart
  <2>2. cur # c /\ {v \in Workers : task[v] = c} = {}
    BY <1>0, <1>3 DEF Apart
  <2>3. Places(c) = {<<"queue", i>>}
    BY <2>1, <2>2 DEF Places
  <2> QED
    BY <1>1, <2>3
<1>4. ASSUME NEW w \in Workers, task[w] = c PROVE Cardinality(Places(c)) = 1
  <2>1. {v \in Workers : task[v] = c} = {w}
    BY <1>0, <1>4 DEF Apart
  <2>2. cur # c /\ {j \in DOMAIN tq : tq[j] = c} = {}
    BY <1>0, <1>4 DEF Apart
  <2>3. Places(c) = {<<"worker", w>>}
    BY <2>1, <2>2 DEF Places
  <2> QED
    BY <1>1, <2>3
<1> QED
  BY <1>0, <1>2, <1>3, <1>4 DEF Held

(* An open connection is in exactly one place: the serve loop of           *)
(* Server.serve, the task queue or a worker, however many there are.       *)
THEOREM ConnectionsHeldOnce == Spec => []OneHolder
BY InitHolder, NextHolder, HolderIsOne, PTL DEF Spec

-----------------------------------------------------------------------------
(* The count of the accept gate.                                           *)

Pendings == {c \in Conns : Pending(c)}
Gated == cpc \in {"idle", "lock", "queue"}

\* No connection is pending initially.
LEMMA InitGate == Init => GateCounts
<1> SUFFICES ASSUME Init PROVE activeConns = Cardinality(Pendings)
  BY DEF GateCounts, Pendings
<1>1. Pendings = {}
  BY PoolAssumption DEF Init, Pendings, Pending
<1> QED
  BY <1>1, FS_EmptySet DEF Init

\* A step that adds or removes one pending connection together with the counter keeps the account.
LEMMA GateSteps ==
  ASSUME GateCounts, Gated' => Gated,
         Gated' => \/ Pendings' = Pendings /\ activeConns' = activeConns
                   \/ \E c \in Conns \ Pendings : Pendings' = Pendings \cup {c} /\ activeConns' = activeConns + 1
                   \/ \E c \in Pendings : Pendings' = Pendings \ {c} /\ activeConns' = activeConns - 1
  PROVE  GateCounts'
<1>1. IsFiniteSet(Pendings) /\ Cardinality(Pendings) \in Nat
  BY PoolAssumption, FS_Subset, FS_CardinalityType DEF Pendings
<1> SUFFICES ASSUME Gated' PROVE activeConns' = Cardinality(Pendings')
  BY DEF GateCounts, Pendings, Gated
<1>2. activeConns = Cardinality(Pendings)
  BY DEF GateCounts, Pendings, Gated
<1>3. CASE Pendings' = Pendings /\ activeConns' = activeConns
  BY <1>2, <1>3
<1>4. ASSUME NEW c \in Conns \ Pendings, Pendings' = Pendings \cup {c}, activeConns' = activeConns + 1
      PROVE  activeConns' = Cardinality(Pendings')
  BY <1>1, <1>2, <1>4, FS_AddElement
<1>5. ASSUME NEW c \in Pendings, Pendings' = Pendings \ {c}, activeConns' = activeConns - 1
      PROVE  activeConns' = Cardinality(Pendings')
  BY <1>1, <1>2, <1>5, FS_RemoveElement
<1> QED
  BY <1>3, <1>4, <1>5

\* Every step is of that kind.
LEMMA NextGate == HolderInv /\ GateCounts /\ [Next]_vars => GateCounts'
<1> SUFFICES ASSUME HolderInv, GateCounts, [Next]_vars PROVE GateCounts'
  OBVIOUS
<1>0. HolderTypes /\ InHand /\ Apart /\ Somewhere /\ None \notin Conns
  BY PoolAssumption DEF HolderInv
<1>1. ASSUME Gated' => Gated, activeConns' = activeConns, \A c \in Conns : Pending(c)' <=> Pending(c) PROVE GateCounts'
  <2>1. Pendings' = Pendings
    BY <1>1 DEF Pendings
  <2> QED
    BY <1>1, <2>1, GateSteps
<1>2. CASE Accept
  <2>1. PICK c \in Conns : conn[c] = "new" /\ cur' = c
    BY <1>2 DEF Accept
  <2>2. UNCHANGED <<queueVars, workerVars, closeVars>> /\ activeConns' = activeConns + 1 /\ cur = None
    BY <1>0, <1>2 DEF Accept, InHand
  <2>3. ~ Pending(c)
    BY <1>0, <2>1 DEF Somewhere, Held, Pending
  <2>4. \A d \in Conns : Pending(d)' <=> (Pending(d) \/ d = c)
    BY <1>0, <2>1, <2>2 DEF Pending, queueVars, workerVars
  <2>5. c \notin Pendings /\ Pendings' = Pendings \cup {c}
    BY <2>3, <2>4 DEF Pendings
  <2>6. Gated' => Gated
    BY <2>2 DEF Gated, closeVars
  <2> QED
    BY <2>2, <2>5, <2>6, GateSteps
<1>3. CASE SubmitFail
  <2>1. UNCHANGED <<queueVars, workerVars, closeVars>> /\ activeConns' = activeConns - 1 /\ cur' = None /\ cur \in Conns
    BY <1>0, <1>3 DEF SubmitFail, InHand, HolderTypes
  <2>2. Pending(cur) /\ \A d \in Conns : Pending(d)' <=> (Pending(d) /\ d # cur)
    BY <1>0, <2>1 DEF Apart, Pending, queueVars, workerVars
  <2>3. cur \in Pendings /\ Pendings' = Pendings \ {cur}
    BY <2>1, <2>2 DEF Pendings
  <2>4. Gated' => Gated
    BY <2>1 DEF Gated, closeVars
  <2> QED
    BY <2>1, <2>3, <2>4, GateSteps
<1>4. ASSUME NEW w \in Workers, ServeEnd(w) PROVE GateCounts'
  <2>1. /\ UNCHANGED <<queueVars, acceptVars, closeVars>> /\ activeConns' = activeConns - 1
        /\ task' = task /\ wpc[w] = "run" /\ wpc' = [wpc EXCEPT ![w] = "uncount"] /\ task[w] \in Conns
    BY <1>0, <1>4 DEF ServeEnd, Step, InHand, HolderTypes
  <2>2. /\ Pending(task[w])
        /\ \A d \in Conns : Pending(d)' <=> (Pending(d) /\ d # task[w])
    BY <1>0, <2>1 DEF HolderTypes, Apart, Pending, queueVars, acceptVars
  <2>3. task[w] \in Pendings /\ Pendings' = Pendings \ {task[w]}
    BY <2>1, <2>2 DEF Pendings
  <2>4. Gated' => Gated
    BY <2>1 DEF Gated, closeVars
  <2> QED
    BY <2>1, <2>3, <2>4, GateSteps
<1>5. ASSUME NEW w \in Workers, WorkerTake(w) PROVE GateCounts'
  <2>1. /\ tq \in Seq(Conns) /\ tq # << >> /\ tq' = Tail(tq) /\ task' = [task EXCEPT ![w] = tq[1]]
        /\ wpc[w] = "take" /\ wpc' = [wpc EXCEPT ![w] = "set"] /\ UNCHANGED <<acceptVars, closeVars>>
        /\ activeConns' = activeConns
    BY <1>0, <1>5, TailAt DEF WorkerTake, Step, HolderTypes, serverVars
  <2>2. ASSUME NEW c \in Conns PROVE Pending(c)' <=> Pending(c)
    <3>1. (\E i \in DOMAIN tq : tq[i] = c) <=> (tq[1] = c \/ \E i \in DOMAIN Tail(tq) : Tail(tq)[i] = c)
      <4>1. tq \in Seq(Conns) /\ tq # << >>
        BY <2>1
      <4> QED
        BY <4>1, TailHolds
    <3>2. (\E v \in Workers : task'[v] = c /\ wpc'[v] \in {"set", "count", "run"})
            <=> (tq[1] = c \/ \E v \in Workers : task[v] = c /\ wpc[v] \in {"set", "count", "run"})
      <4>1. task'[w] = tq[1] /\ wpc'[w] = "set" /\ \A v \in Workers : v # w => task'[v] = task[v] /\ wpc'[v] = wpc[v]
        BY <1>0, <2>1 DEF HolderTypes
      <4> QED
        BY <2>1, <4>1
    <3> QED
      BY <2>1, <3>1, <3>2 DEF Pending, acceptVars
  <2> QED
    BY <1>1, <2>1, <2>2 DEF Gated, closeVars
<1>6. CASE SubmitCreate
  <2>1. PICK w \in Workers : /\ wpc[w] = "off" /\ task' = [task EXCEPT ![w] = cur]
                             /\ wpc' = [wpc EXCEPT ![w] = "run"]
    BY <1>6 DEF SubmitCreate
  <2>2. ASSUME NEW c \in Conns PROVE Pending(c)' <=> Pending(c)
    <3>1. task'[w] = cur /\ wpc'[w] = "run" /\ \A v \in Workers : v # w => task'[v] = task[v] /\ wpc'[v] = wpc[v]
      BY <1>0, <2>1 DEF HolderTypes
    <3> QED
      BY <1>0, <1>6, <2>1, <3>1 DEF SubmitCreate, Pending, queueVars
  <2> QED
    BY <1>1, <1>6, <2>2 DEF SubmitCreate, Gated, serverVars, closeVars
<1>7. CASE EnqueueAdd
  <2>1. cur \in Conns /\ tq \in Seq(Conns) /\ tq' = Append(tq, cur) /\ cur' = None
    BY <1>0, <1>7 DEF EnqueueAdd, InHand, HolderTypes
  <2>2. ASSUME NEW c \in Conns PROVE Pending(c)' <=> Pending(c)
    <3>1. (\E i \in DOMAIN tq' : tq'[i] = c) <=> (cur = c \/ \E i \in DOMAIN tq : tq[i] = c)
      <4>1. (\E i \in DOMAIN Append(tq, cur) : Append(tq, cur)[i] = c) <=> (cur = c \/ \E i \in DOMAIN tq : tq[i] = c)
        BY <2>1, AppendHolds
      <4> QED
        BY <2>1, <4>1
    <3> QED
      BY <1>0, <1>7, <2>1, <3>1 DEF EnqueueAdd, Pending, workerVars
  <2> QED
    BY <1>1, <1>7, <2>2 DEF EnqueueAdd, Gated, serverVars, closeVars
<1>8. CASE AcceptLoop \/ AcceptNothing \/ SubmitTest \/ SubmitFree \/ SubmitSize \/ SubmitFull \/ EnqueueTest
  BY <1>1, <1>8 DEF AcceptLoop, AcceptNothing, SubmitTest, SubmitFree, SubmitSize, SubmitFull, EnqueueTest, Gated, Pending,
                    serverVars, queueVars, workerVars, closeVars
<1>9. CASE CloseQuit \/ CloseLock \/ CloseQueue
  BY <1>1, <1>9 DEF CloseQuit, CloseLock, CloseQueue, Gated, Pending, serverVars, acceptVars, queueVars, workerVars
<1>10. CASE CloseDrain \/ CloseUnlock \/ CloseListener \/ \E w \in Workers : CloseWorker(w) \/ CloseAwaitWorker(w)
  <2>1. ~ Gated'
    BY <1>10 DEF CloseDrain, CloseUnlock, CloseListener, CloseWorker, CloseAwaitWorker, Gated
  <2> QED
    BY <2>1 DEF GateCounts, Gated
<1>11. ASSUME NEW w \in Workers, \/ WorkerTimeout(w) \/ WorkerUncount(w) \/ WorkerLoop(w)
                                 \/ WorkerSet(w) \/ WorkerCount(w) \/ WorkerLeave(w)
       PROVE  GateCounts'
  <2>1. /\ UNCHANGED <<task, serverVars, acceptVars, queueVars, closeVars>>
        /\ \E to : wpc' = [wpc EXCEPT ![w] = to] /\ (wpc[w] \in {"set", "count", "run"} <=> to \in {"set", "count", "run"})
    BY <1>11 DEF WorkerTimeout, WorkerUncount, WorkerLoop, WorkerSet, WorkerCount, WorkerLeave, Step
  <2>2. \A v \in Workers : wpc'[v] \in {"set", "count", "run"} <=> wpc[v] \in {"set", "count", "run"}
    BY <1>0, <2>1 DEF HolderTypes
  <2> QED
    BY <1>1, <2>1, <2>2 DEF Gated, Pending, serverVars, acceptVars, queueVars, closeVars
<1>12. ASSUME NEW w \in Workers, WorkerClear(w) PROVE GateCounts'
  <2>1. \A v \in Workers, c \in Conns : (task'[v] = c /\ wpc'[v] \in {"set", "count", "run"})
                                          <=> (task[v] = c /\ wpc[v] \in {"set", "count", "run"})
    BY <1>0, <1>12 DEF HolderTypes, WorkerClear, Step
  <2> QED
    BY <1>1, <1>12, <2>1 DEF WorkerClear, Gated, Pending, serverVars, acceptVars, queueVars, closeVars
<1>13. CASE UNCHANGED vars
  BY <1>1, <1>13 DEF vars, Gated, Pending, serverVars, acceptVars, queueVars, workerVars, closeVars
<1> QED
  BY <1>2, <1>3, <1>4, <1>5, <1>6, <1>7, <1>8, <1>9, <1>10, <1>11, <1>12, <1>13
     DEF Next, ServeLoop, Submit, Work, Closing

(* The number the accept gate compares with the pool's room is that of the *)
(* connections accepted and not yet served, until a close drops tasks:     *)
(* activeConns is counted up by serve and down by serve and the workers.   *)
THEOREM GateIsExact == Spec => []GateCounts
BY InitHolder, NextHolder, InitGate, NextGate, PTL DEF Spec
=============================================================================
