---------------------------- MODULE Http1Client ----------------------------
(***************************************************************************)
(* The connections of one HttpEngine1 of the HTTP/1.1 client: the pool and *)
(* the list of connections in use (intrusive linked lists), the count that *)
(* is compared with poolSize, requests by user threads, their bodies and   *)
(* upgrades, the read and write timers of a connection with the lifeState  *)
(* that they race with, and close.  Only one of the two indices (plain,    *)
(* TLS) is modelled: they are alike.                                       *)
(***************************************************************************)
EXTENDS Integers, FiniteSets

CONSTANTS
  Reqs,      \* requests, each by a user thread of its own
  PoolSize,  \* client.poolSize
  MaxNodes,  \* bound: connections made
  Scenes     \* what one engine may meet: the requests, and the set of troubles

ASSUME ClientAssumption ==
  /\ PoolSize \in Nat \ {0} /\ MaxNodes \in Nat \ {0}
  /\ \A s \in Scenes : /\ s.reqs \subseteq Reqs
                        /\ s.troubles \subseteq {"timeout", "drop", "shut", "last", "upgrade"}

Nodes == 1 .. MaxNodes          \* ConnNode objects; 0 is None
Timers == {"read", "write"}
Lists == [head : [{"pool", "use"} -> Nodes \cup {0}],
          prev : [Nodes -> Nodes \cup {0}], next : [Nodes -> Nodes \cup {0}]]

VARIABLES
  lists,               \* connPool and connInUse
  connNum, isClosed,   \* of the engine
  made,                \* connections made so far
  closed, lifeState,   \* of a ConnNode
  upgraded, last,      \* of a ConnNode: isUpgraded, shouldClose
  gone,                \* the server has closed its end of a connection
  armed,               \* per connection: timers whose task may run, with capturedState
  won,                 \* timer tasks that are about to close their connection
  pc, node, kind,      \* per request: where it is, its ConnNode, whether it upgrades
  tried, sending,      \* per request: it is a retry; its body is being sent
  resp,                \* per request: what was received
  troubles             \* what may go wrong: that of a scene

engineVars == <<lists, connNum, isClosed, made>>
nodeVars   == <<closed, lifeState, upgraded, last, gone>>
timerVars  == <<armed, won>>
reqVars    == <<pc, node, kind, tried, sending, resp>>
vars == <<engineVars, nodeVars, timerVars, reqVars, troubles>>

Init ==
  /\ lists = [head |-> [pool |-> 0, use |-> 0],
              prev |-> [n \in Nodes |-> 0], next |-> [n \in Nodes |-> 0]]
  /\ connNum = 0 /\ isClosed = FALSE /\ made = 0
  /\ closed = [n \in Nodes |-> FALSE] /\ lifeState = [n \in Nodes |-> 0]
  /\ upgraded = [n \in Nodes |-> FALSE] /\ last = [n \in Nodes |-> FALSE]
  /\ gone = [n \in Nodes |-> FALSE]
  /\ armed = [n \in Nodes |-> {}] /\ won = {}
  /\ \E s \in Scenes : /\ troubles = s.troubles
                      /\ pc = [r \in Reqs |-> IF r \in s.reqs THEN "get" ELSE "over"]
  /\ kind \in [Reqs -> IF "upgrade" \in troubles THEN {"plain", "upgrade"} ELSE {"plain"}]
  /\ node = [r \in Reqs |-> 0]
  /\ tried = [r \in Reqs |-> FALSE] /\ sending = [r \in Reqs |-> FALSE]
  /\ resp = [r \in Reqs |-> "none"]

-----------------------------------------------------------------------------
(* ConnNodeLinkedList *)

Link(f, n, m) == IF n = 0 THEN f ELSE [f EXCEPT ![n] = m]

Prepend(L, l, n) ==
  [head |-> [L.head EXCEPT ![l] = n],
   prev |-> Link([L.prev EXCEPT ![n] = 0], L.head[l], n),
   next |-> [L.next EXCEPT ![n] = L.head[l]]]

Prepop(L, l) ==
  LET n == L.head[l] IN
  [head |-> [L.head EXCEPT ![l] = L.next[n]],
   prev |-> Link(L.prev, L.next[n], 0),
   next |-> [L.next EXCEPT ![n] = 0]]

\* Mutant: the node is always taken for the head.
RemoveHead(L, l, n) ==
  [head |-> [L.head EXCEPT ![l] = L.next[n]],
   prev |-> [Link(L.prev, L.next[n], L.prev[n]) EXCEPT ![n] = 0],
   next |-> [Link(L.next, L.prev[n], L.next[n]) EXCEPT ![n] = 0]]

\* remove: a node without a predecessor is taken for the head of this list.
Remove(L, l, n) ==
  [head |-> IF L.prev[n] = 0 THEN [L.head EXCEPT ![l] = L.next[n]] ELSE L.head,
   prev |-> [Link(L.prev, L.next[n], L.prev[n]) EXCEPT ![n] = 0],
   next |-> [Link(L.next, L.prev[n], L.next[n]) EXCEPT ![n] = 0]]

\* The nodes that a walk from the head meets: those of every set that holds
\* the head and, with a node, the one after it.
In(L, l) ==
  LET Holds(S) == /\ L.head[l] \in S \cup {0}
                  /\ \A n \in S : L.next[n] \in S \cup {0}
  IN  {n \in Nodes : \A S \in SUBSET Nodes : Holds(S) => n \in S}

-----------------------------------------------------------------------------
(* The engine *)

Goto(r, from, to) == pc[r] = from /\ pc' = [pc EXCEPT ![r] = to]

\* closeConnInUse, under connLock: nothing for a closed node; the timers of a
\* closed node do nothing either.
CloseConnInUse(n) ==
  IF closed[n] THEN UNCHANGED <<lists, connNum, closed, armed>>
  ELSE /\ lists' = Remove(lists, "use", n) /\ armed' = [armed EXCEPT ![n] = {}]
       /\ closed' = [closed EXCEPT ![n] = TRUE] /\ connNum' = connNum - 1

\* tryGetConnFromPool, under connLock.
GetConn(r) ==
  LET n == lists.head["pool"] IN
  /\ IF isClosed THEN Goto(r, "get", "over") /\ UNCHANGED <<lists, node>>
     ELSE IF n = 0 THEN Goto(r, "get", "new") /\ UNCHANGED <<lists, node>>
     ELSE /\ Goto(r, "get", "send") /\ node' = [node EXCEPT ![r] = n]
          /\ lists' = Prepend(Prepop(lists, "pool"), "use", n)
  /\ UNCHANGED <<connNum, isClosed, made, nodeVars, timerVars, kind, tried,
                 sending, resp, troubles>>

\* Mutant: > for >=.
CountConnOff(r) ==
  /\ IF isClosed THEN Goto(r, "new", "over") /\ UNCHANGED connNum
     ELSE Goto(r, "new", IF connNum > PoolSize THEN "undo" ELSE "connect") /\ connNum' = connNum + 1
  /\ UNCHANGED <<lists, isClosed, made, nodeVars, timerVars, node, kind, tried,
                 sending, resp, troubles>>

\* createNewConn: the number of connections is raised, then compared.
CountConn(r) ==
  /\ IF isClosed THEN Goto(r, "new", "over") /\ UNCHANGED connNum
     ELSE Goto(r, "new", IF connNum >= PoolSize THEN "undo" ELSE "connect") /\ connNum' = connNum + 1
  /\ UNCHANGED <<lists, isClosed, made, nodeVars, timerVars, node, kind, tried,
                 sending, resp, troubles>>

\* "Too many connections to the same server", or no connection to it.
UndoCount(r) ==
  /\ Goto(r, "undo", "over")
  /\ connNum' = connNum - 1
  /\ UNCHANGED <<lists, isClosed, made, nodeVars, timerVars, node, kind, tried,
                 sending, resp, troubles>>

Connect(r) ==
  /\ \/ Goto(r, "connect", "undo") /\ "drop" \in troubles /\ UNCHANGED <<made, node>>
     \/ /\ Goto(r, "connect", "enlist") /\ made < MaxNodes
        /\ made' = made + 1 /\ node' = [node EXCEPT ![r] = made + 1]
  /\ UNCHANGED <<lists, connNum, isClosed, nodeVars, timerVars, kind, tried,
                 sending, resp, troubles>>

Enlist(r) ==
  /\ IF isClosed
     THEN /\ Goto(r, "enlist", "over")
          /\ closed' = [closed EXCEPT ![node[r]] = TRUE] /\ connNum' = connNum - 1 /\ UNCHANGED lists
     ELSE /\ Goto(r, "enlist", "send")
          /\ lists' = Prepend(lists, "use", node[r]) /\ UNCHANGED <<closed, connNum>>
  /\ UNCHANGED <<isClosed, made, lifeState, upgraded, last, gone, timerVars, node, kind, tried, sending,
                 resp, troubles>>

\* close: the connections of both lists are closed and counted off.
EngineClose ==
  LET ns == In(lists, "pool") \cup In(lists, "use") IN
  /\ "shut" \in troubles /\ ~ isClosed
  /\ isClosed' = TRUE
  /\ lists' = [head |-> [pool |-> 0, use |-> 0],
               prev |-> [n \in Nodes |-> IF n \in ns THEN 0 ELSE lists.prev[n]],
               next |-> [n \in Nodes |-> IF n \in ns THEN 0 ELSE lists.next[n]]]
  /\ closed' = [n \in Nodes |-> closed[n] \/ n \in ns] /\ connNum' = connNum - Cardinality(ns)
  /\ armed' = [n \in Nodes |-> IF n \in ns THEN {} ELSE armed[n]]
  /\ UNCHANGED <<made, lifeState, upgraded, last, gone, won, reqVars, troubles>>

-----------------------------------------------------------------------------
(* A request on its connection *)

Alive(n) == ~ closed[n] /\ ~ gone[n]
Without(n, ts) == {a \in armed[n] : a.by \notin ts}

Arm(n, t) ==
  armed' = [armed EXCEPT ![n] =
              IF closed[n] THEN {} ELSE Without(n, {t}) \cup {[by |-> t, cap |-> lifeState[n]]}]

\* cancel does not stop a task that has started: it stays armed.
Cancel(n, ts) ==
  /\ \E started \in SUBSET {a \in armed[n] : /\ a.by \in ts /\ a.cap = lifeState[n]
                                            /\ "timeout" \in troubles} :
       armed' = [armed EXCEPT ![n] = Without(n, ts) \cup started]
  /\ UNCHANGED won

\* sendRequestTimeout: the flag of an upgrade, the write timer, the request's
\* head, and a thread for its body.
Send(r) ==
  LET n == node[r] IN
  /\ pc[r] = "send"
  /\ upgraded' = [upgraded EXCEPT ![n] = @ \/ kind[r] = "upgrade"]
  /\ Arm(n, "write")
  /\ \/ Goto(r, "send", "arm") /\ Alive(n) /\ sending' = [sending EXCEPT ![r] = TRUE]
     \/ Goto(r, "send", "failed") /\ ~ Alive(n) /\ UNCHANGED sending
  /\ UNCHANGED <<engineVars, closed, lifeState, last, gone, won, node, kind,
                 tried, resp, troubles>>

BodySent(r) ==
  /\ sending[r] /\ sending' = [sending EXCEPT ![r] = FALSE]
  /\ Cancel(node[r], {"write"})
  /\ UNCHANGED <<engineVars, nodeVars, pc, node, kind, tried, resp, troubles>>

ArmRead(r) ==
  /\ Goto(r, "arm", "recv")
  /\ Arm(node[r], "read")
  /\ UNCHANGED <<engineVars, nodeVars, won, node, kind, tried, sending, resp, troubles>>

\* readResponse: no body (the read timer is cancelled), 101, a body of known
\* length or in chunks, or one that lasts until the connection closes.
Answers(r) == {"empty", "body", "rest"} \cup (IF kind[r] = "upgrade" THEN {"switch"} ELSE {})

Receive(r) ==
  LET n == node[r] IN
  /\ \/ Goto(r, "recv", "failed") /\ ~ Alive(n) /\ UNCHANGED <<timerVars, last, resp>>
     \/ /\ Goto(r, "recv", "close") /\ ~ closed[n]
        /\ \E a \in Answers(r) :
             /\ resp' = [resp EXCEPT ![r] = a]
             /\ IF a \in {"empty", "switch"} THEN Cancel(n, {"read"}) ELSE UNCHANGED timerVars
        /\ \/ UNCHANGED last
           \/ "last" \in troubles /\ last' = [last EXCEPT ![n] = TRUE]
  /\ UNCHANGED <<engineVars, closed, lifeState, upgraded, gone, node, kind,
                 tried, sending, troubles>>

\* On the last request of a connection an empty body closes it at once and a
\* body of known length is read before that.
CloseLast(r) ==
  LET n == node[r]
      keep == resp[r] = "switch" \/ upgraded[n] \/ ~ last[n]
  IN
  /\ \/ /\ Goto(r, "close", "wait")
        /\ keep \/ resp[r] \in {"body", "rest"}
        /\ UNCHANGED <<lists, connNum, closed, armed, resp>>
     \/ /\ Goto(r, "close", "wait") /\ ~ keep /\ resp[r] \in {"empty", "body"} /\ CloseConnInUse(n)
        /\ resp' = [resp EXCEPT ![r] = IF @ = "body" THEN "read" ELSE @]
     \/ /\ Goto(r, "close", "failed") /\ ~ keep /\ resp[r] = "body" /\ ~ Alive(n)
        /\ CloseConnInUse(n) /\ UNCHANGED resp
  /\ UNCHANGED <<isClosed, made, lifeState, upgraded, last, gone, won, node, kind, tried, sending,
                 troubles>>

\* The request's body is sent: a response without a body gives the connection
\* back, unless it is, or was, that of an upgrade.
Respond(r) ==
  /\ ~ sending[r]
  /\ Goto(r, "wait", IF resp[r] \in {"body", "rest"} THEN "body"
                     ELSE IF resp[r] # "read" /\ ~ upgraded[node[r]] THEN "return"
                     ELSE IF resp[r] # "read" /\ kind[r] = "upgrade" THEN "user" ELSE "done")
  /\ UNCHANGED <<engineVars, nodeVars, timerVars, node, kind, tried, sending,
                 resp, troubles>>

\* sendRequest after an exception: timers, connection, and one retry on a new
\* connection for an idempotent method.
Fail(r) ==
  LET n == node[r] IN
  /\ pc[r] = "failed" /\ ~ sending[r]
  /\ CloseConnInUse(n)
  /\ \/ Goto(r, "failed", "over") /\ UNCHANGED tried
     \/ Goto(r, "failed", "new") /\ ~ tried[r] /\ tried' = [tried EXCEPT ![r] = TRUE]
  /\ UNCHANGED <<won, isClosed, made, lifeState, upgraded, last, gone, node,
                 kind, sending, resp, troubles>>

\* The body is read to its end, ...
ReadBody(r) ==
  /\ Goto(r, "body", "return") /\ resp[r] # "rest" /\ ~ closed[node[r]]
  /\ Cancel(node[r], {"read"})
  /\ UNCHANGED <<engineVars, nodeVars, node, kind, tried, sending, resp, troubles>>

\* ... or reading fails, the user closes the response, or the connection that
\* delimits the body ends.
CloseBody(r) ==
  /\ Goto(r, "body", "over") /\ CloseConnInUse(node[r])
  /\ UNCHANGED <<isClosed, made, lifeState, upgraded, last, gone, won, node, kind, tried, sending, resp,
                 troubles>>

\* Client.upgrade: the connection is the user's after a 101.
Upgrade(r) ==
  /\ \/ /\ Goto(r, "user", "over") /\ resp[r] = "switch" /\ closed[node[r]]
        /\ UNCHANGED <<lists, connNum>>
     \/ /\ Goto(r, "user", "extract") /\ resp[r] = "switch" /\ ~ closed[node[r]]
        /\ UNCHANGED <<lists, connNum>>
     \/ /\ Goto(r, "user", "return") /\ resp[r] = "empty"
        /\ UNCHANGED <<lists, connNum>>
     \/ /\ Goto(r, "extract", "own")
        /\ lists' = Remove(lists, "use", node[r]) /\ connNum' = connNum - 1
  /\ UNCHANGED <<isClosed, made, nodeVars, timerVars, node, kind, tried, sending,
                 resp, troubles>>

\* Mutant: two timers that win look like none.
PhaseOf2(s) == s % 2

\* How many timers have won during this use.
Phase(s) == s % 4

\* returnConn: a closed connection is left alone; one whose timer has won, or
\* that is to be closed, is closed.
ReturnConn(r) ==
  LET n == node[r] IN
  /\ pc[r] = "return"
  /\ IF closed[n]
     THEN Goto(r, "return", "done") /\ UNCHANGED <<lists, connNum, closed, armed, lifeState>>
     ELSE IF Phase(lifeState[n]) # 0
     THEN Goto(r, "return", "done") /\ CloseConnInUse(n) /\ UNCHANGED lifeState
     ELSE /\ lifeState' = [lifeState EXCEPT ![n] = @ + 4]
          /\ IF last[n] THEN Goto(r, "return", "done") /\ CloseConnInUse(n)
             ELSE Goto(r, "return", "put") /\ UNCHANGED <<lists, connNum, closed, armed>>
  /\ UNCHANGED <<isClosed, made, upgraded, last, gone, won, node, kind, tried,
                 sending, resp, troubles>>

PutConn(r) ==
  /\ Goto(r, "put", "done")
  /\ lists' = Prepend(Remove(lists, "use", node[r]), "pool", node[r])
  /\ UNCHANGED <<connNum, isClosed, made, nodeVars, timerVars, node, kind,
                 tried, sending, resp, troubles>>
-----------------------------------------------------------------------------
(* The timers of a connection, and its server *)

\* Mutant: the task does not compare the state with the captured one.
MatchesAny(n, a) == ~ closed[n]

Matches(n, a) == ~ closed[n] /\ lifeState[n] = a.cap

\* The task ends unless the connection is in the use that it was armed for, ...
TimerWins(n, a) ==
  /\ "timeout" \in troubles /\ Matches(n, a)
  /\ lifeState' = [lifeState EXCEPT ![n] = @ + 1]
  /\ armed' = [armed EXCEPT ![n] = @ \ {a}]
  /\ won' = won \cup {[node |-> n, cap |-> a.cap]}
  /\ UNCHANGED <<engineVars, closed, upgraded, last, gone, reqVars, troubles>>

\* ... and closes it.
TimerCloses(w) ==
  /\ won' = won \ {w}
  /\ CloseConnInUse(w.node)
  /\ UNCHANGED <<isClosed, made, lifeState, upgraded, last, gone, reqVars, troubles>>

ServerCloses(n) ==
  /\ "drop" \in troubles /\ n <= made /\ ~ gone[n]
  /\ gone' = [gone EXCEPT ![n] = TRUE]
  /\ UNCHANGED <<engineVars, closed, lifeState, upgraded, last, timerVars,
                 reqVars, troubles>>

-----------------------------------------------------------------------------
Step(r) ==
  \/ GetConn(r) \/ CountConn(r) \/ UndoCount(r) \/ Connect(r) \/ Enlist(r)
  \/ Send(r) \/ BodySent(r) \/ ArmRead(r) \/ Receive(r) \/ CloseLast(r) \/ Respond(r) \/ Fail(r)
  \/ ReadBody(r) \/ CloseBody(r) \/ Upgrade(r)
  \/ ReturnConn(r) \/ PutConn(r)

Next == \/ \E r \in Reqs : Step(r)
        \/ \E n \in Nodes : ServerCloses(n) \/ \E a \in armed[n] : TimerWins(n, a)
        \/ \E w \in won : TimerCloses(w)
        \/ EngineClose

Spec == Init /\ [][Next]_vars

-----------------------------------------------------------------------------
Holding == {"send", "arm", "recv", "close", "wait", "failed", "body", "user", "extract",
            "return", "put"}
States == Holding \cup {"get", "new", "undo", "connect", "enlist", "own", "done", "over"}
Holders(n) == {r \in Reqs : node[r] = n /\ pc[r] \in Holding}

TypeOK ==
  /\ lists \in Lists /\ isClosed \in BOOLEAN /\ made \in 0 .. MaxNodes
  /\ connNum \in - Cardinality(Reqs) .. PoolSize + Cardinality(Reqs)
  /\ closed \in [Nodes -> BOOLEAN] /\ lifeState \in [Nodes -> Nat]
  /\ upgraded \in [Nodes -> BOOLEAN] /\ last \in [Nodes -> BOOLEAN] /\ gone \in [Nodes -> BOOLEAN]
  /\ armed \in [Nodes -> SUBSET [by : Timers, cap : Nat]] /\ won \subseteq [node : Nodes, cap : Nat]
  /\ pc \in [Reqs -> States] /\ node \in [Reqs -> Nodes \cup {0}]
  /\ kind \in [Reqs -> {"plain", "upgrade"}]
  /\ tried \in [Reqs -> BOOLEAN] /\ sending \in [Reqs -> BOOLEAN]
  /\ resp \in [Reqs -> {"none", "empty", "body", "read", "rest", "switch"}]
  /\ troubles \in {s.troubles : s \in Scenes}

(* "a stale task can never kill a pooled or reused connection": a task that *)
(* has won is about a connection that is closed already or that the request *)
(* of that very use holds and will not give back.                           *)
StaleNeverKills ==
  \A w \in won :
    ~ closed[w.node] => /\ Holders(w.node) # {} /\ w.node \notin In(lists, "pool")
                        /\ lifeState[w.node] \div 4 = w.cap \div 4

(* "a closed conn can never re-enter the pool and affect the NEXT request": *)
(* while the engine is open its pool holds open connections only, which no  *)
(* request holds; and two requests never hold the same one.                 *)
PooledIsFree ==
  /\ ~ isClosed => \A n \in In(lists, "pool") : ~ closed[n] /\ Holders(n) = {}
  /\ \A n \in Nodes : Cardinality(Holders(n)) <= 1

(* The linked lists, in which a node may be removed by a request, a timer   *)
(* or close: a request's open connection is in the list that close walks,   *)
(* and nowhere else.                                                        *)
HeldIsListed ==
  \A n \in Nodes : Holders(n) # {} /\ ~ closed[n] =>
                    n \in In(lists, "use") /\ n \notin In(lists, "pool")

(* connNum counts the connections in the making and the open ones that no  *)
(* upgraded request owns; and poolSize, "the maximum number of simultaneous *)
(* connections to the same host", bounds them.                              *)
NumAccounts ==
  LET making(at) == Cardinality({r \in Reqs : pc[r] \in at})
      given == {node[r] : r \in {q \in Reqs : pc[q] \in {"enlist", "own"}}}
      open  == Cardinality({n \in 1 .. made : ~ closed[n]} \ given)
  IN /\ ~ isClosed => connNum = making({"connect", "undo", "enlist"}) + open
     /\ making({"connect", "enlist"}) + open <= PoolSize

(* "the connNode will be returned or closed until the caller has finished   *)
(* consuming the body": a request that is finished has let its connection   *)
(* go.                                                                      *)
FinishedLetsGo ==
  \A r \in Reqs : pc[r] = "done" /\ Holders(node[r]) = {} => node[r] \notin In(lists, "use")
=============================================================================
