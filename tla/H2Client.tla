------------------------------ MODULE H2Client ------------------------------
(***************************************************************************)
(* One HTTP/2 connection of the client (HttpClientEngine2, ClientStream):  *)
(* user threads that start one request each, the connection's write thread *)
(* with its cache of headers that are early, its read thread, the stream   *)
(* map and the statuses both threads change.  outputQueue is the           *)
(* SPMCLevelQueue, here two sequences and a flag; windows are left out.    *)
(***************************************************************************)
EXTENDS Integers, Sequences, FiniteSets

CONSTANTS
  Reqs,        \* requests, each in a user thread of its own
  NoReq,
  MaxStreams,  \* the server's SETTINGS_MAX_CONCURRENT_STREAMS
  FirstAlone,  \* TRUE: nobody begins a request while the first takes its id
  Kinds,       \* subset of {"plain", "body", "trailers"}
  Troubles     \* the sets of troubles that one behaviour may meet

ASSUME ClientAssumption ==
  /\ IsFiniteSet(Reqs) /\ NoReq \notin Reqs
  /\ MaxStreams \in Nat
  /\ Kinds \subseteq {"plain", "body", "trailers"}
  /\ FirstAlone \in BOOLEAN
  /\ Troubles \subseteq SUBSET {"fail", "reset", "peer"}

Ids == {2 * k - 1 : k \in 1 .. Cardinality(Reqs)}
Statuses == {"Idle", "Open", "HalfClosedLocal", "HalfClosedRemote", "Closed"}
Frame(id, type, end) == [id |-> id, type |-> type, end |-> end]
Frames == [id : Ids, type : {"fields", "data", "rst"}, end : BOOLEAN]
NoFrame == Frame(0, "rst", FALSE)

\* What writeRequest enqueues for a request: header, body and trailer.
Written(kind, id) ==
  CASE kind = "plain"    -> <<Frame(id, "fields", TRUE)>>
    [] kind = "body"     -> <<Frame(id, "fields", FALSE), Frame(id, "data", TRUE)>>
    [] kind = "trailers" -> <<Frame(id, "fields", FALSE), Frame(id, "data", FALSE),
                              Frame(id, "fields", TRUE)>>

VARIABLES
  lastStreamId, active, streams,        \* the engine's counters and map
  upc, sid, todo, status, input, inq,   \* per request: thread and ClientStream
  control, message, outClosed,          \* outputQueue, by priority
  wpc, wframe, wreq, wseen, lastSendId, cacheMap,   \* the write thread
  rpc, rframe, rreq, rseen,             \* the read thread
  wire, opened, srv,                    \* what went out, and the server's answer
  cause, down,                          \* why the connection ends, steps of shutdown
  overwritten,                          \* requests with a lost change of status
  troubles                              \* what may go wrong: a member of Troubles

engineVars == <<lastStreamId, active, streams>>
statusVars == <<status, overwritten>>
userVars   == <<upc, sid, todo, inq>>
queueVars  == <<control, message, outClosed>>
writeVars  == <<wpc, wframe, wreq, wseen, lastSendId, cacheMap>>
readVars   == <<rpc, rframe, rreq, rseen>>
wireVars   == <<wire, opened, srv>>
downVars   == <<cause, down, troubles>>
vars == <<engineVars, userVars, statusVars, input, queueVars, writeVars, readVars, wireVars, downVars>>

Init ==
  /\ lastStreamId = 0
  /\ active = 0 /\ streams = [id \in Ids |-> NoReq]
  /\ upc = [r \in Reqs |-> "new"] /\ sid = [r \in Reqs |-> 0] /\ todo = [r \in Reqs |-> << >>]
  /\ status = [r \in Reqs |-> "Idle"] /\ overwritten = {}
  /\ input = [r \in Reqs |-> "none"] /\ inq = [r \in Reqs |-> << >>]
  /\ control = << >> /\ message = << >> /\ outClosed = FALSE
  /\ wpc = "take" /\ wframe = NoFrame /\ wreq = NoReq /\ wseen = "Idle"
  /\ lastSendId = lastStreamId /\ cacheMap = [id \in Ids |-> << >>]
  /\ rpc = "read" /\ rframe = NoFrame /\ rreq = NoReq /\ rseen = "Idle"
  /\ wire = [id \in Ids |-> << >>] /\ opened = << >> /\ srv = [id \in Ids |-> "idle"]
  /\ cause = "none" /\ down = 0 /\ troubles \in Troubles

-----------------------------------------------------------------------------
(* HttpClientEngine2.send: one user thread per request *)

User(r, from, to) == upc[r] = from /\ upc' = [upc EXCEPT ![r] = to]

\* The first request of a connection has its id before the next begins.
MayBegin == FirstAlone => \A q \in Reqs : upc[q] # "load" /\ (lastStreamId = 0 => upc[q] # "cas")

\* Mutant: the old value is not tested.
CountUnchecked(r) ==
  /\ down < 3 /\ MayBegin
  /\ User(r, "new", "cas")
  /\ active' = active + 1
  /\ UNCHANGED <<lastStreamId, streams, sid, todo, inq, statusVars, input, queueVars, writeVars,
                 readVars, wireVars, downVars>>

\* activeClientStreamNum.fetchAdd(1), and the test of its old value.
Count(r) ==
  /\ down < 3 /\ MayBegin
  /\ User(r, "new", IF active > MaxStreams THEN "refuse" ELSE "cas")
  /\ active' = active + 1
  /\ UNCHANGED <<lastStreamId, streams, sid, todo, inq, statusVars, input, queueVars, writeVars,
                 readVars, wireVars, downVars>>

Refuse(r) ==
  /\ User(r, "refuse", "failed")
  /\ active' = active - 1
  /\ UNCHANGED <<lastStreamId, streams, sid, todo, inq, statusVars, input, queueVars, writeVars,
                 readVars, wireVars, downVars>>

\* lastStreamId.compareAndSwap(0, 1)
FirstId(r) ==
  /\ User(r, "cas", IF lastStreamId = 0 THEN "load" ELSE "next")
  /\ lastStreamId' = IF lastStreamId = 0 THEN 1 ELSE lastStreamId
  /\ UNCHANGED <<active, streams, sid, todo, inq, statusVars, input, queueVars, writeVars,
                 readVars, wireVars, downVars>>

LoadId(r) ==
  /\ User(r, "load", "map")
  /\ sid' = [sid EXCEPT ![r] = lastStreamId]
  /\ UNCHANGED <<engineVars, todo, inq, statusVars, input, queueVars, writeVars,
                 readVars, wireVars, downVars>>

NextId(r) ==
  /\ User(r, "next", "map")
  /\ lastStreamId' = lastStreamId + 2
  /\ sid' = [sid EXCEPT ![r] = lastStreamId + 2]
  /\ UNCHANGED <<active, streams, todo, inq, statusVars, input, queueVars, writeVars,
                 readVars, wireVars, downVars>>

\* streams.add under streamsLock
MapStream(r) ==
  /\ User(r, "map", "open")
  /\ streams' = [streams EXCEPT ![sid[r]] = r]
  /\ UNCHANGED <<lastStreamId, active, sid, todo, inq, statusVars, input, queueVars, writeVars,
                 readVars, wireVars, downVars>>

\* ClientStream.send makes the stream's connection and starts to write.
OpenConn(r) ==
  /\ User(r, "open", "write")
  /\ \E kind \in Kinds : todo' = [todo EXCEPT ![r] = Written(kind, sid[r])]
  /\ input' = [input EXCEPT ![r] = "open"]
  /\ UNCHANGED <<engineVars, sid, inq, statusVars, queueVars, writeVars, readVars, wireVars,
                 downVars>>

\* writeHeaders and writeBody: silent on a closed stream, an exception on a
\* closed queue.
Write(r) ==
  /\ todo[r] # << >>
  /\ IF outClosed /\ input[r] # "quit"
     THEN User(r, "write", "failed") /\ UNCHANGED <<todo, message>>
     ELSE /\ User(r, "write", IF Len(todo[r]) = 1 THEN "wait" ELSE "write")
          /\ todo' = [todo EXCEPT ![r] = Tail(@)]
          /\ message' = IF input[r] = "quit" THEN message ELSE Append(message, Head(todo[r]))
  /\ UNCHANGED <<engineVars, sid, inq, statusVars, input, control, outClosed, writeVars, readVars,
                 wireVars, downVars>>

\* writeHeaders throws before anything is enqueued (a malformed query).
WriteFails(r) ==
  /\ "fail" \in troubles
  /\ User(r, "open", "failed")
  /\ input' = [input EXCEPT ![r] = "open"]
  /\ UNCHANGED <<engineVars, sid, todo, inq, statusVars, queueVars, writeVars, readVars,
                 wireVars, downVars>>

\* decodeResponseHeader: the queue gives its frames before it is over.
Response(r) ==
  /\ inq[r] # << >>
  /\ User(r, "wait", IF Head(inq[r]) = "fields" THEN "done" ELSE "failed")
  /\ inq' = [inq EXCEPT ![r] = Tail(@)]
  /\ UNCHANGED <<engineVars, sid, todo, statusVars, input, queueVars, writeVars, readVars,
                 wireVars, downVars>>

NoResponse(r) ==
  /\ inq[r] = << >> /\ input[r] \in {"closed", "quit"}
  /\ User(r, "wait", "failed")
  /\ UNCHANGED <<engineVars, sid, todo, inq, statusVars, input, queueVars, writeVars, readVars,
                 wireVars, downVars>>

\* The write timer, or the read timer until the server's end: close.
Reset(r) ==
  /\ "reset" \in troubles
  /\ upc[r] \in {"write", "wait", "done"} /\ input[r] # "quit"
  /\ upc[r] = "done" => srv[sid[r]] # "done"
  /\ control' = IF outClosed THEN control ELSE Append(control, Frame(sid[r], "rst", FALSE))
  /\ input' = [input EXCEPT ![r] = "quit"]
  /\ UNCHANGED <<engineVars, userVars, statusVars, message, outClosed, writeVars, readVars,
                 wireVars, downVars>>

-----------------------------------------------------------------------------
(* purgeStream and the end of the connection *)

\* The assignment of a status that was matched as seen some steps before.
Assign(r, seen, to) ==
  IF to = seen THEN UNCHANGED statusVars
  ELSE /\ status' = [status EXCEPT ![r] = to]
       /\ overwritten' = IF status[r] = seen THEN overwritten ELSE overwritten \cup {r}

\* The map loses the stream and activeClientStreamNum goes down with it.
Purge(purged, id) ==
  IF purged /\ streams[id] # NoReq
  THEN streams' = [streams EXCEPT ![id] = NoReq] /\ active' = active - 1
  ELSE UNCHANGED <<streams, active>>

\* A connection exception: the thread closes the connection and ends.
Fatal(who) == cause' = IF cause = "none" THEN who ELSE cause

PeerClose ==
  /\ "peer" \in troubles /\ Fatal("peer") /\ cause = "none"
  /\ UNCHANGED <<engineVars, userVars, statusVars, input, queueVars, writeVars, readVars,
                 wireVars, down, troubles>>

\* shutdown: quit, then the queue, then the socket ...
ShutdownStep ==
  /\ cause # "none" /\ down < 3 /\ down' = down + 1
  /\ IF down = 1 THEN outClosed' = TRUE /\ control' = << >> /\ message' = << >>
                 ELSE UNCHANGED queueVars
  /\ UNCHANGED <<engineVars, userVars, statusVars, input, writeVars, readVars, wireVars,
                 cause, troubles>>

\* Mutant: streams whose request is sent are left to wait.
ShutdownStreamsOpen ==
  /\ down = 3 /\ down' = 4
  /\ LET live == {r \in Reqs : (\E id \in Ids : streams[id] = r) /\ status[r] \in {"Idle", "Open"}} IN
       /\ status' = [r \in Reqs |-> IF r \in live THEN "Closed" ELSE status[r]]
       /\ UNCHANGED overwritten
       /\ input' = [r \in Reqs |-> IF r \in live /\ input[r] # "none" THEN "quit" ELSE input[r]]
  /\ UNCHANGED <<engineVars, userVars, queueVars, writeVars, readVars, wireVars, cause, troubles>>

\* ... then, under streamsLock, every stream that is not Closed.
ShutdownStreams ==
  /\ down = 3 /\ down' = 4
  /\ LET live == {r \in Reqs : (\E id \in Ids : streams[id] = r) /\ status[r] # "Closed"} IN
       /\ status' = [r \in Reqs |-> IF r \in live THEN "Closed" ELSE status[r]]
       /\ UNCHANGED overwritten
       /\ input' = [r \in Reqs |-> IF r \in live /\ input[r] # "none" THEN "quit" ELSE input[r]]
  /\ UNCHANGED <<engineVars, userVars, queueVars, writeVars, readVars, wireVars, cause, troubles>>

-----------------------------------------------------------------------------
(* The write thread *)

Cached(id) == id \in Ids /\ cacheMap[id] # << >>

\* takeFrame: the cached frames of the next stream before the queue.
Taken == IF Cached(lastSendId + 2) THEN Head(cacheMap[lastSendId + 2])
         ELSE IF control # << >> THEN Head(control) ELSE Head(message)

Take ==
  IF Cached(lastSendId + 2)
  THEN cacheMap' = [cacheMap EXCEPT ![lastSendId + 2] = Tail(@)] /\ UNCHANGED queueVars
  ELSE /\ control # << >> \/ message # << >>
       /\ IF control # << >> THEN control' = Tail(control) /\ UNCHANGED message
                             ELSE message' = Tail(message) /\ UNCHANGED control
       /\ UNCHANGED <<cacheMap, outClosed>>

\* A frame whose stream is purged is dropped.
WriterDrop ==
  /\ wpc = "take" /\ down < 2
  /\ Take /\ streams[Taken.id] = NoReq
  /\ UNCHANGED <<engineVars, userVars, statusVars, input, wpc, wframe, wreq, wseen, lastSendId,
                 readVars, wireVars, downVars>>

\* Mutant: the stream after the next one is let through.
EarlyOffByOne == Taken.type # "rst" /\ Taken.id > lastSendId + 4

\* Mutant: only fields are cached.
EarlyFieldsOnly == Taken.type = "fields" /\ Taken.id > lastSendId + 2

\* Fields and data of a stream that is not next wait in the cache.
Early == Taken.type # "rst" /\ Taken.id > lastSendId + 2

WriterCache ==
  /\ wpc = "take" /\ down < 2 /\ ~ Cached(lastSendId + 2)
  /\ control = << >> /\ message # << >>
  /\ Early /\ streams[Taken.id] # NoReq
  /\ cacheMap' = [cacheMap EXCEPT ![Taken.id] = Append(@, Taken)]
  /\ message' = Tail(message)
  /\ UNCHANGED <<engineVars, userVars, statusVars, input, control, outClosed, wpc, wframe, wreq,
                 wseen, lastSendId, readVars, wireVars, downVars>>

WriterTake ==
  /\ wpc = "take" /\ wpc' = "match" /\ down < 2
  /\ Take /\ ~ Early /\ streams[Taken.id] # NoReq
  /\ wframe' = Taken /\ wreq' = streams[Taken.id]
  /\ UNCHANGED <<engineVars, userVars, statusVars, input, wseen, lastSendId, readVars,
                 wireVars, downVars>>

\* preProcess reads the status ...
WriterMatch ==
  /\ wpc = "match" /\ wpc' = "update"
  /\ wseen' = status[wreq]
  /\ UNCHANGED <<engineVars, userVars, statusVars, input, queueVars, wframe, wreq, lastSendId,
                 cacheMap, readVars, wireVars, downVars>>

\* Mutant: the end of the request leaves a stream that the server has ended.
AfterWriteKeeps(seen, f) ==
  CASE seen = "Idle" -> IF f.end THEN "HalfClosedLocal" ELSE "Open"
    [] seen = "Open" -> IF f.end THEN "HalfClosedLocal" ELSE "Open"
    [] OTHER         -> "HalfClosedRemote"

\* onFieldsWrite and onDataWrite: the status after the frame.
AfterWrite(seen, f) ==
  CASE seen = "Idle" -> IF f.end THEN "HalfClosedLocal" ELSE "Open"
    [] seen = "Open" -> IF f.end THEN "HalfClosedLocal" ELSE "Open"
    [] OTHER         -> IF f.end THEN "Closed" ELSE "HalfClosedRemote"

Writable(seen, f) == \/ seen \in {"Open", "HalfClosedRemote"}
                     \/ seen = "Idle" /\ f.type = "fields"

\* Mutant: the next id is not recorded.
SentIdLate(id) == IF ~ Cached(lastSendId + 2) /\ id > lastSendId + 2 THEN id ELSE lastSendId

\* The last headers sent, unless frames of the next stream are still cached.
SentId(id) == IF ~ Cached(lastSendId + 2) /\ id > lastSendId THEN id ELSE lastSendId

WriterDone == wframe' = NoFrame /\ wreq' = NoReq /\ wseen' = "Idle"

\* ... and writes it, the frame, and the id that went out.
WriterSend ==
  /\ wpc = "update" /\ wpc' = "take" /\ wframe.type # "rst" /\ Writable(wseen, wframe)
  /\ LET to == AfterWrite(wseen, wframe) IN
       /\ Assign(wreq, wseen, to)
       /\ Purge(to = "Closed", wframe.id)
  /\ wire' = IF down < 3 THEN [wire EXCEPT ![wframe.id] = Append(@, wframe.type)] ELSE wire
  /\ opened' = IF wseen = "Idle" THEN Append(opened, wframe.id) ELSE opened
  /\ srv' = IF wseen = "Idle" THEN [srv EXCEPT ![wframe.id] = "asked"] ELSE srv
  /\ lastSendId' = SentId(wframe.id)
  /\ WriterDone
  /\ UNCHANGED <<lastStreamId, userVars, input, queueVars, cacheMap,
                 readVars, downVars>>

\* Data of a stream that is over is dropped, its trailer ends the connection.
WriterRefuse ==
  /\ wpc = "update" /\ wframe.type # "rst" /\ ~ Writable(wseen, wframe)
  /\ IF wframe.type = "data" THEN wpc' = "take" /\ UNCHANGED cause
                             ELSE wpc' = "dead" /\ Fatal("writer")
  /\ WriterDone
  /\ UNCHANGED <<engineVars, userVars, statusVars, input, queueVars, lastSendId, cacheMap,
                 readVars, wireVars, down, troubles>>

\* onRstWrite; the reset of an idle stream is not written but counts as sent.
WriterReset ==
  /\ wpc = "update" /\ wpc' = "take" /\ wframe.type = "rst"
  /\ status' = [status EXCEPT ![wreq] = "Closed"] /\ UNCHANGED overwritten
  /\ Purge(TRUE, wframe.id)
  /\ input' = [input EXCEPT ![wreq] = "quit"]
  /\ wire' = IF wseen = "Idle" \/ down > 2 THEN wire ELSE [wire EXCEPT ![wframe.id] = Append(@, "rst")]
  /\ lastSendId' = SentId(wframe.id)
  /\ WriterDone
  /\ UNCHANGED <<lastStreamId, userVars, queueVars, cacheMap, opened, srv,
                 readVars, downVars>>

-----------------------------------------------------------------------------
(* The read thread: a frame of the server, in the order HTTP/2 allows *)

ServerFrames(id) ==
  CASE srv[id] = "asked"   -> {Frame(id, "fields", FALSE), Frame(id, "fields", TRUE),
                               Frame(id, "rst", FALSE)}
    [] srv[id] = "headers" -> {Frame(id, "data", TRUE), Frame(id, "rst", FALSE)}
    [] OTHER -> {}

\* processStream: a frame of a purged stream is ignored.
ReadFrame ==
  /\ rpc = "read" /\ down < 3
  /\ \E id \in Ids : \E f \in ServerFrames(id) :
       /\ srv' = [srv EXCEPT ![id] = IF f.type = "rst" THEN "reset"
                                     ELSE IF f.end THEN "done" ELSE "headers"]
       /\ IF streams[id] = NoReq
          THEN UNCHANGED <<rpc, rframe, rreq>>
          ELSE rpc' = "match" /\ rframe' = f /\ rreq' = streams[id]
  /\ UNCHANGED <<engineVars, userVars, statusVars, input, queueVars, writeVars, rseen, wire,
                 opened, downVars>>

ReadMatch ==
  /\ rpc = "match" /\ rpc' = "update"
  /\ rseen' = status[rreq]
  /\ UNCHANGED <<engineVars, userVars, statusVars, input, queueVars, writeVars, rframe, rreq,
                 wireVars, downVars>>

ReaderDone == rframe' = NoFrame /\ rreq' = NoReq /\ rseen' = "Idle"

\* onHeadersRead and onDataRead
AfterRead(seen, f) ==
  IF ~ f.end THEN seen ELSE IF seen = "Open" THEN "HalfClosedRemote" ELSE "Closed"

\* The response is kept for the user; a queue that will get no more is closed.
Deliver(to) ==
  /\ inq' = IF input[rreq] = "open" THEN [inq EXCEPT ![rreq] = Append(@, rframe.type)] ELSE inq
  /\ input' = IF to \in {"Closed", "HalfClosedRemote"} /\ input[rreq] = "open"
              THEN [input EXCEPT ![rreq] = "closed"] ELSE input

ReadResponse ==
  /\ rpc = "update" /\ rpc' = "read" /\ rframe.type # "rst"
  /\ rseen \in {"Open", "HalfClosedLocal"}
  /\ LET to == AfterRead(rseen, rframe) IN
       /\ Assign(rreq, rseen, to)
       /\ Purge(to = "Closed", rframe.id)
       /\ Deliver(to)
  /\ ReaderDone
  /\ UNCHANGED <<lastStreamId, upc, sid, todo, queueVars, writeVars, wireVars, downVars>>

\* Data of a stream that is over resets it, headers end the connection.
ReadRefuse ==
  /\ rpc = "update" /\ rframe.type # "rst" /\ rseen \notin {"Open", "HalfClosedLocal"}
  /\ IF rframe.type = "data"
     THEN /\ rpc' = "read" /\ UNCHANGED cause
          /\ control' = IF outClosed THEN control ELSE Append(control, Frame(rframe.id, "rst", FALSE))
          /\ input' = [input EXCEPT ![rreq] = "quit"]
     ELSE rpc' = "dead" /\ Fatal("reader") /\ UNCHANGED <<control, input>>
  /\ ReaderDone
  /\ UNCHANGED <<engineVars, userVars, statusVars, message, outClosed, writeVars, wireVars,
                 down, troubles>>

\* onRstRead
ReadReset ==
  /\ rpc = "update" /\ rpc' = "read" /\ rframe.type = "rst"
  /\ status' = [status EXCEPT ![rreq] = "Closed"] /\ UNCHANGED overwritten
  /\ Purge(TRUE, rframe.id)
  /\ input' = [input EXCEPT ![rreq] = "quit"]
  /\ ReaderDone
  /\ UNCHANGED <<lastStreamId, userVars, queueVars, writeVars, wireVars, downVars>>

-----------------------------------------------------------------------------
Requesting(r) == \/ Refuse(r) \/ FirstId(r) \/ LoadId(r) \/ NextId(r) \/ MapStream(r) \/ OpenConn(r)
                 \/ Write(r) \/ Response(r) \/ NoResponse(r)
Writing  == \/ WriterDrop \/ WriterCache \/ WriterTake \/ WriterMatch
            \/ WriterSend \/ WriterRefuse \/ WriterReset
Reading  == ReadMatch \/ ReadResponse \/ ReadRefuse \/ ReadReset
Shutting == ShutdownStep \/ ShutdownStreams

Next == \/ \E r \in Reqs : Count(r) \/ Requesting(r) \/ WriteFails(r) \/ Reset(r)
        \/ Writing \/ ReadFrame \/ Reading \/ PeerClose \/ Shutting

Spec == Init /\ [][Next]_vars

(* The scheduler runs the threads.  Nothing obliges a user to begin, the   *)
(* server to answer, a timer to expire or the socket to fail.              *)
LiveSpec == /\ Spec /\ WF_vars(Writing) /\ WF_vars(Reading) /\ WF_vars(Shutting)
            /\ \A r \in Reqs : WF_vars(Requesting(r))

-----------------------------------------------------------------------------
Mapped == {id \in Ids : streams[id] # NoReq}

TypeOK ==
  /\ lastStreamId \in Ids \cup {0} /\ active \in 0 .. Cardinality(Reqs)
  /\ streams \in [Ids -> Reqs \cup {NoReq}]
  /\ upc \in [Reqs -> {"new", "refuse", "cas", "load", "next", "map", "open", "write", "wait",
                        "done", "failed"}]
  /\ sid \in [Reqs -> Ids \cup {0}] /\ todo \in [Reqs -> Seq(Frames)]
  /\ overwritten \subseteq Reqs
  /\ status \in [Reqs -> Statuses] /\ input \in [Reqs -> {"none", "open", "closed", "quit"}]
  /\ inq \in [Reqs -> Seq({"fields", "data"})]
  /\ control \in Seq(Frames) /\ message \in Seq(Frames) /\ outClosed \in BOOLEAN
  /\ wpc \in {"take", "match", "update", "dead"} /\ rpc \in {"read", "match", "update", "dead"}
  /\ {wframe, rframe} \subseteq Frames \cup {NoFrame} /\ {wreq, rreq} \subseteq Reqs \cup {NoReq}
  /\ {wseen, rseen} \subseteq Statuses
  /\ lastSendId \in Ids \cup {0} /\ cacheMap \in [Ids -> Seq(Frames)]
  /\ wire \in [Ids -> Seq({"fields", "data", "rst"})] /\ opened \in Seq(Ids)
  /\ srv \in [Ids -> {"idle", "asked", "headers", "done", "reset"}]
  /\ cause \in {"none", "peer", "reader", "writer"} /\ down \in 0 .. 4 /\ troubles \in Troubles

(* Streams are opened on the wire in the order of their ids, which is what *)
(* the write thread's cache is for; unless a timer resets a stream whose   *)
(* headers are not written.  That reset counts as sent and lets the        *)
(* headers of the stream after it overtake those of the stream before.     *)
InOrder == \A i, j \in DOMAIN opened : i < j => opened[i] < opened[j]
OpenedInOrder == "reset" \notin troubles => InOrder

(* What the cache waits for is to come: the headers of the next stream are *)
(* about to be written, in the queue or with the write thread.             *)
Coming(id) ==
  \/ \E r \in Reqs : sid[r] = id /\ upc[r] \in {"map", "open", "write"}
  \/ \E q \in {control, message} : \E i \in DOMAIN q : q[i].id = id
  \/ Cached(id) \/ wframe.id = id

NextToSend == IF lastSendId = 0 THEN 1 ELSE lastSendId + 2
AwaitedComes == cause = "none" /\ (\E id \in Ids : Cached(id)) => Coming(NextToSend)

(* However headers, body and trailer are cached, a stream's frames go out  *)
(* in the order they were written, and none before its headers.            *)
FramesInOrder ==
  \A id \in Ids :
    wire[id] \in {<< >>, <<"fields">>, <<"fields", "data">>, <<"fields", "data", "fields">>}
                      \cup {<<"fields", "rst">>, <<"fields", "data", "rst">>,
                            <<"fields", "data", "fields", "rst">>}

(* However many users test the counter at once, the map has at most one    *)
(* stream more than the server allows.                                     *)
StreamsBounded == Cardinality(Mapped) <= MaxStreams + 1

(* A stream that both sides have ended leaves the map, whichever thread    *)
(* ended its half last; the exception are streams whose two threads both   *)
(* matched the old status, so that one assigned over the other.            *)
AllWritten(r) ==
  /\ upc[r] \in {"wait", "done"} /\ status[r] # "Idle"
  /\ cacheMap[sid[r]] = << >>
  /\ \A q \in {control, message} : \A i \in DOMAIN q : q[i].id # sid[r]

EndedIsPurged ==
  cause = "none" /\ rpc = "read" /\ wpc = "take" =>
    \A r \in Reqs \ overwritten : AllWritten(r) /\ srv[sid[r]] = "done" => streams[sid[r]] # r

(* Headers in the queue or the cache go out, or the request fails.         *)
HeadersAreSent == \A r \in Reqs : upc[r] = "wait" ~> status[r] # "Idle" \/ upc[r] = "failed"

(* After shutdown no request waits: its queue is closed, or holds what is  *)
(* still to be read, even if it was between two steps of its own when the  *)
(* streams were closed.                                                    *)
ShutdownReleases ==
  down = 4 => \A r \in Reqs : upc[r] = "wait" => inq[r] # << >> \/ input[r] \in {"closed", "quit"}
=============================================================================
