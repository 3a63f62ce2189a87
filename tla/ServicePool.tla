----------------------------- MODULE ServicePool -----------------------------
(***************************************************************************)
(* The HTTP server's accept loop (Server.serve, server.cj) and the         *)
(* coroutine pool it hands every accepted connection to (coroutine_pool.cj *)
(* on a ClosableBlockingQueue), with Server.close / closeGracefully        *)
(* running beside them.  The serve loop is the pool's only submitter.      *)
(* workersMutex is modelled by its holder; a worker's taskMutex guards     *)
(* single accesses of runningTask, which are single steps here.            *)
(***************************************************************************)
EXTENDS Integers, Sequences, FiniteSets

CONSTANTS
  Conns,          \* client connections, each accepted at most once
  Workers,        \* identities of the pool's workers
  None,
  Capacity,       \* ServicePoolConfig.capacity
  QueueCapacity,  \* ServicePoolConfig.queueCapacity
  Preheat,        \* the workers of start(), ServicePoolConfig.preheat of them
  IdleFloor,      \* the "magic number" of workerIsFree: 10 in the code
  IdleTimeouts,   \* TRUE: a worker may see its 5 seconds of dequeue pass
  Closes,         \* TRUE: somebody may call close or closeGracefully
  Graceful        \* TRUE: it is closeGracefully

ASSUME PoolAssumption ==
  /\ IsFiniteSet(Workers) /\ IsFiniteSet(Conns)
  /\ None \notin Conns \cup Workers
  /\ Preheat \subseteq Workers /\ Cardinality(Preheat) <= Capacity
  /\ Capacity \in Nat \ {0} /\ QueueCapacity \in Nat \ {0} /\ IdleFloor \in Nat
  /\ IdleTimeouts \in BOOLEAN /\ Closes \in BOOLEAN /\ Graceful \in BOOLEAN

VARIABLES
  conn,         \* "new", "open" (accepted), "ended" (its task is over), "closed"
  activeConns,  \* Server.activeConns
  quit,         \* Server.quit
  listening,    \* _listener is not closed
  apc, cur,     \* the serve loop: control, and the connection it is submitting
  tq, tquit,    \* taskQueue: its elements, its quit flag
  workers,      \* CoroutinePool.workers
  locked,       \* close holds workersMutex
  closed,       \* CoroutinePool.closed
  actives,      \* CoroutinePool.actives
  wpc, task,    \* the workers: control, and the task in their hands
  running,      \* Worker.runningTask
  cpc, todo     \* close: control, and the workers it has still to close

serverVars == <<conn, activeConns>>
acceptVars == <<apc, cur>>
queueVars  == <<tq, tquit>>
poolVars   == <<workers, actives>>
workerVars == <<wpc, task, running>>
closeVars  == <<cpc, todo, quit, listening, locked, closed>>
vars == <<serverVars, acceptVars, queueVars, poolVars, workerVars, closeVars>>

MaxConns == Capacity + QueueCapacity
Close(c) == IF conn[c] = "open" THEN [conn EXCEPT ![c] = "closed"] ELSE conn

Init ==
  /\ conn = [c \in Conns |-> "new"] /\ activeConns = 0
  /\ quit = FALSE /\ listening = TRUE
  /\ apc = "loop" /\ cur = None
  /\ tq = << >> /\ tquit = FALSE
  /\ workers = Preheat /\ locked = FALSE /\ closed = FALSE /\ actives = 0
  /\ wpc = [w \in Workers |-> IF w \in Preheat THEN "loop" ELSE "off"]
  /\ task = [w \in Workers |-> None] /\ running = [w \in Workers |-> None]
  /\ cpc = "idle" /\ todo = {}

-----------------------------------------------------------------------------
(* Server.serve and CoroutinePool.submit *)

\* while (!quit.load()): stop, or go on to accept when below the limit.
AcceptLoop ==
  /\ apc = "loop"
  /\ quit \/ activeConns < MaxConns
  /\ apc' = IF quit THEN "done" ELSE "accept"
  /\ UNCHANGED <<cur, serverVars, queueVars, poolVars, workerVars, closeVars>>

Accept ==
  /\ apc = "accept" /\ listening
  /\ \E c \in Conns : /\ conn[c] = "new"
                      /\ conn' = [conn EXCEPT ![c] = "open"]
                      /\ cur' = c
  /\ activeConns' = activeConns + 1
  /\ apc' = "test"
  /\ UNCHANGED <<queueVars, poolVars, workerVars, closeVars>>

\* accept times out after 100 ms, or fails once the listener is closed.
AcceptNothing ==
  /\ apc = "accept"
  /\ apc' = IF listening THEN "loop" ELSE "done"
  /\ UNCHANGED <<cur, serverVars, queueVars, poolVars, workerVars, closeVars>>

SubmitTest ==
  /\ apc = "test"
  /\ apc' = IF tquit THEN "fail" ELSE "free"
  /\ UNCHANGED <<cur, serverVars, queueVars, poolVars, workerVars, closeVars>>

\* workerIsFree()
SubmitFree ==
  /\ apc = "free"
  /\ LET n == Cardinality(workers) IN
       apc' = IF n > IdleFloor /\ n \div 2 > actives THEN "enqueue" ELSE "size"
  /\ UNCHANGED <<cur, serverVars, queueVars, poolVars, workerVars, closeVars>>

\* workers.size < capacity, and then isClosed()
SubmitSize ==
  /\ apc = "size"
  /\ apc' = IF Cardinality(workers) < Capacity
            THEN (IF closed THEN "fail" ELSE "create") ELSE "full"
  /\ UNCHANGED <<cur, serverVars, queueVars, poolVars, workerVars, closeVars>>

\* synchronized(workersMutex): a worker that starts with the task.
SubmitCreate ==
  /\ apc = "create" /\ ~ locked
  /\ \E w \in Workers :
       /\ wpc[w] = "off"
       /\ workers' = workers \cup {w}
       /\ task' = [task EXCEPT ![w] = cur] /\ running' = [running EXCEPT ![w] = cur]
       /\ wpc' = [wpc EXCEPT ![w] = "run"]
  /\ actives' = actives + 1
  /\ apc' = "loop" /\ cur' = None
  /\ UNCHANGED <<serverVars, queueVars, closeVars>>

\* RejectPolicy.Reject, the default, throws when the task queue is full.
SubmitFull ==
  /\ apc = "full"
  /\ apc' = IF Len(tq) = QueueCapacity THEN "fail" ELSE "enqueue"
  /\ UNCHANGED <<cur, serverVars, queueVars, poolVars, workerVars, closeVars>>

\* ClosableBlockingQueue.enqueue: the test of quit ...
EnqueueTest ==
  /\ apc = "enqueue"
  /\ apc' = IF tquit THEN "fail" ELSE "add"
  /\ UNCHANGED <<cur, serverVars, queueVars, poolVars, workerVars, closeVars>>

\* ... and the add, which blocks while the queue is full.
EnqueueAdd ==
  /\ apc = "add" /\ Len(tq) < QueueCapacity
  /\ tq' = Append(tq, cur)
  /\ apc' = "loop" /\ cur' = None
  /\ UNCHANGED <<tquit, serverVars, poolVars, workerVars, closeVars>>

\* Mutant: a rejected connection stays counted.
SubmitFailCounted ==
  /\ apc = "fail"
  /\ conn' = Close(cur)
  /\ apc' = "loop" /\ cur' = None
  /\ UNCHANGED <<activeConns, queueVars, poolVars, workerVars, closeVars>>

\* serve catches what submit threw.
SubmitFail ==
  /\ apc = "fail"
  /\ activeConns' = activeConns - 1 /\ conn' = Close(cur)
  /\ apc' = "loop" /\ cur' = None
  /\ UNCHANGED <<queueVars, poolVars, workerVars, closeVars>>

-----------------------------------------------------------------------------
(* Worker.run *)

Step(w, from, to) == wpc[w] = from /\ wpc' = [wpc EXCEPT ![w] = to]

\* The protocol service is done with the connection, or it was closed.
ServeEnd(w) ==
  /\ Step(w, "run", "uncount")
  /\ conn' = IF conn[task[w]] = "open" THEN [conn EXCEPT ![task[w]] = "ended"] ELSE conn
  /\ activeConns' = activeConns - 1
  /\ UNCHANGED <<task, running, acceptVars, queueVars, poolVars, closeVars>>

WorkerUncount(w) ==
  /\ Step(w, "uncount", "clear")
  /\ actives' = actives - 1
  /\ UNCHANGED <<task, running, workers, serverVars, acceptVars, queueVars, closeVars>>

\* Mutant: a worker created with a task does not go on to the queue.
WorkerClearStops(w) ==
  /\ Step(w, "clear", "exit")
  /\ running' = [running EXCEPT ![w] = None] /\ task' = [task EXCEPT ![w] = None]
  /\ UNCHANGED <<serverVars, acceptVars, queueVars, poolVars, closeVars>>

WorkerClear(w) ==
  /\ Step(w, "clear", "loop")
  /\ running' = [running EXCEPT ![w] = None] /\ task' = [task EXCEPT ![w] = None]
  /\ UNCHANGED <<serverVars, acceptVars, queueVars, poolVars, closeVars>>

\* while (!pool.isClosed()): a worker that exits here stays in workers.
WorkerLoop(w) ==
  /\ Step(w, "loop", IF closed THEN "exit" ELSE "take")
  /\ UNCHANGED <<task, running, serverVars, acceptVars, queueVars, poolVars, closeVars>>

\* Mutant: the task is looked at and not removed.
WorkerTakePeeks(w) ==
  /\ Step(w, "take", "set") /\ tq # << >>
  /\ task' = [task EXCEPT ![w] = Head(tq)]
  /\ UNCHANGED <<running, serverVars, acceptVars, queueVars, poolVars, closeVars>>

WorkerTake(w) ==
  /\ Step(w, "take", "set") /\ tq # << >>
  /\ task' = [task EXCEPT ![w] = Head(tq)] /\ tq' = Tail(tq)
  /\ UNCHANGED <<tquit, running, serverVars, acceptVars, poolVars, closeVars>>

\* dequeue(Duration.second * 5) gives up on an empty queue.
WorkerTimeout(w) ==
  /\ IdleTimeouts /\ tq = << >>
  /\ Step(w, "take", "leave")
  /\ UNCHANGED <<task, running, serverVars, acceptVars, queueVars, poolVars, closeVars>>

WorkerSet(w) ==
  /\ Step(w, "set", "count")
  /\ running' = [running EXCEPT ![w] = task[w]]
  /\ UNCHANGED <<task, serverVars, acceptVars, queueVars, poolVars, closeVars>>

WorkerCount(w) ==
  /\ Step(w, "count", "run")
  /\ actives' = actives + 1
  /\ UNCHANGED <<task, running, workers, serverVars, acceptVars, queueVars, closeVars>>

\* synchronized(pool.workersMutex): the worker removes itself and ends.
WorkerLeave(w) ==
  /\ ~ locked /\ Step(w, "leave", "off")
  /\ workers' = workers \ {w}
  /\ UNCHANGED <<task, running, actives, serverVars, acceptVars, queueVars, closeVars>>

-----------------------------------------------------------------------------
(* Server.close and closeGracefully, with the pool's *)

CloseQuit ==
  /\ Closes /\ cpc = "idle"
  /\ quit' = TRUE /\ cpc' = "lock"
  /\ UNCHANGED <<todo, listening, locked, closed, serverVars, acceptVars, queueVars, poolVars,
                 workerVars>>

CloseLock ==
  /\ cpc = "lock"
  /\ locked' = TRUE /\ closed' = TRUE /\ cpc' = "queue"
  /\ UNCHANGED <<todo, quit, listening, serverVars, acceptVars, queueVars, poolVars, workerVars>>

CloseQueue ==
  /\ cpc = "queue"
  /\ tquit' = TRUE /\ cpc' = "drain"
  /\ UNCHANGED <<tq, todo, quit, listening, locked, closed, serverVars, acceptVars, poolVars,
                 workerVars>>

\* A queued task has no protocol service yet: both kinds of close close conn.
CloseDrain ==
  /\ cpc = "drain"
  /\ IF tq # << >>
     THEN conn' = Close(Head(tq)) /\ tq' = Tail(tq) /\ UNCHANGED <<cpc, todo>>
     ELSE cpc' = "workers" /\ todo' = workers /\ UNCHANGED <<conn, tq>>
  /\ UNCHANGED <<activeConns, tquit, quit, listening, locked, closed, acceptVars, poolVars,
                 workerVars>>

\* Worker.close, or closeGracefully in a thread of its own: the service of
\* HTTP/1.1 closes its connection at once, the one of HTTP/2 waits for its end.
CloseWorker(w) ==
  /\ cpc = "workers" /\ w \in todo
  /\ todo' = todo \ {w}
  /\ conn' = IF running[w] = None THEN conn ELSE Close(running[w])
  /\ UNCHANGED <<activeConns, cpc, quit, listening, locked, closed, acceptVars, queueVars,
                 poolVars, workerVars>>

CloseAwaitWorker(w) ==
  /\ Graceful
  /\ cpc = "workers" /\ w \in todo
  /\ running[w] # None => conn[running[w]] # "open"
  /\ todo' = todo \ {w}
  /\ UNCHANGED <<cpc, quit, listening, locked, closed, serverVars, acceptVars, queueVars,
                 poolVars, workerVars>>

\* Mutant: close waits, under workersMutex, for its workers to leave.
CloseUnlockJoins ==
  /\ cpc = "workers" /\ todo = {}
  /\ \A w \in workers : wpc[w] \in {"off", "exit"}
  /\ locked' = FALSE /\ cpc' = "listener"
  /\ UNCHANGED <<todo, quit, listening, closed, serverVars, acceptVars, queueVars, poolVars,
                 workerVars>>

CloseUnlock ==
  /\ cpc = "workers" /\ todo = {}
  /\ locked' = FALSE /\ cpc' = "listener"
  /\ UNCHANGED <<todo, quit, listening, closed, serverVars, acceptVars, queueVars, poolVars,
                 workerVars>>

CloseListener ==
  /\ cpc = "listener"
  /\ listening' = FALSE /\ cpc' = "done"
  /\ UNCHANGED <<todo, quit, locked, closed, serverVars, acceptVars, queueVars, poolVars,
                 workerVars>>

-----------------------------------------------------------------------------
Submit == \/ SubmitTest \/ SubmitFree \/ SubmitSize \/ SubmitCreate \/ SubmitFull
          \/ EnqueueTest \/ EnqueueAdd \/ SubmitFail
ServeLoop == AcceptLoop \/ AcceptNothing \/ Submit
Work(w) == \/ WorkerUncount(w) \/ WorkerClear(w) \/ WorkerLoop(w) \/ WorkerTake(w)
           \/ WorkerSet(w) \/ WorkerCount(w) \/ WorkerLeave(w)
Closing == \/ CloseLock \/ CloseQueue \/ CloseDrain \/ CloseUnlock \/ CloseListener
           \/ \E w \in Workers : CloseWorker(w) \/ CloseAwaitWorker(w)

Next == \/ Accept \/ ServeLoop \/ CloseQuit \/ Closing
        \/ \E w \in Workers : ServeEnd(w) \/ WorkerTimeout(w) \/ Work(w)

Spec == Init /\ [][Next]_vars

(* The scheduler runs every thread that can go on; a connection being      *)
(* served comes to an end (its peer leaves, or a read or keep-alive        *)
(* timeout closes it).  No client has to connect, and nothing times out    *)
(* that does not have to.  Weak fairness is enough: workersMutex is held   *)
(* across steps by close alone, and once.                                  *)
Fairness == /\ WF_vars(ServeLoop) /\ WF_vars(Closing)
            /\ \A w \in Workers : WF_vars(Work(w) \/ ServeEnd(w))
LiveSpec == Spec /\ Fairness

-----------------------------------------------------------------------------
TypeOK ==
  /\ conn \in [Conns -> {"new", "open", "ended", "closed"}] /\ activeConns \in 0 .. MaxConns
  /\ quit \in BOOLEAN /\ listening \in BOOLEAN /\ locked \in BOOLEAN /\ closed \in BOOLEAN
  /\ apc \in {"loop", "accept", "test", "free", "size", "create", "full",
              "enqueue", "add", "fail", "done"}
  /\ cur \in Conns \cup {None}
  /\ tq \in Seq(Conns) /\ tquit \in BOOLEAN
  /\ workers \subseteq Workers /\ actives \in 0 .. Capacity
  /\ wpc \in [Workers -> {"off", "run", "uncount", "clear", "loop", "take", "set",
                          "count", "leave", "exit"}]
  /\ task \in [Workers -> Conns \cup {None}] /\ running \in [Workers -> Conns \cup {None}]
  /\ cpc \in {"idle", "lock", "queue", "drain", "workers", "listener", "done"}
  /\ todo \subseteq Workers

(* The pool never has more workers than its capacity, although submit      *)
(* reads workers.size outside workersMutex: it is enough that the serve    *)
(* loop is the only submitter.                                             *)
WorkersBounded == Cardinality(workers) <= Capacity

\* Where connection c is: being submitted, queued, or in a worker's hands.
Places(c) == (IF cur = c THEN {"serve"} ELSE {})
             \cup {<<"queue", i>> : i \in {j \in DOMAIN tq : tq[j] = c}}
             \cup {<<"worker", w>> : w \in {v \in Workers : task[v] = c}}

(* No connection is lost or served twice: an open connection is always in  *)
(* exactly one place, be it the serve loop, the queue or one worker.       *)
OneHolder == \A c \in Conns : conn[c] = "open" => Cardinality(Places(c)) = 1

(* The number the accept gate compares with the pool's room is, until a    *)
(* close drops tasks, the number of connections accepted and not yet       *)
(* served: a connection counted for ever would lower the server's capacity *)
(* for good, one not counted would let the gate promise too much.          *)
Pending(c) == \/ cur = c
              \/ \E i \in DOMAIN tq : tq[i] = c
              \/ \E w \in Workers : task[w] = c /\ wpc[w] \in {"set", "count", "run"}
GateCounts == cpc \in {"idle", "lock", "queue"} => activeConns = Cardinality({c \in Conns : Pending(c)})

(* Every accepted connection is served to its end or closed by the server, *)
(* with two exceptions: it waits in the task queue, or for a place in it,  *)
(* when the last worker has timed out and left, or when the pool has been  *)
(* closed under it.                                                        *)
Deserted(c) == /\ workers = {} \/ closed
               /\ \/ \E i \in DOMAIN tq : tq[i] = c
                  \/ apc = "add" /\ cur = c
ServedUnlessDeserted == \A c \in Conns : conn[c] = "open" ~> (conn[c] # "open" \/ Deserted(c))

(* close and closeGracefully return, and the serve loop returns as well:   *)
(* nobody waits for workersMutex or a full queue for ever.                 *)
CloseReturns == quit ~> (cpc = "done" /\ apc = "done")
=============================================================================
