------------------------------ MODULE H2Server ------------------------------
(***************************************************************************)
(* The streams of one HTTP/2 connection of the server (HttpServer2,        *)
(* Stream): the read thread that creates them, a handler thread for each   *)
(* request, the timers, and the write thread; the map of streams, the pool *)
(* that Stream objects are recycled through, and the counters that the     *)
(* limit on concurrent streams is tested with.  A stream is ended by the   *)
(* thread that ends its second half, by whoever closes it, or by a reset   *)
(* of the client.  Windows, push, settings and the end of the connection   *)
(* are left out; a request's fields are decoded in one step.               *)
(***************************************************************************)
EXTENDS Integers, Sequences, FiniteSets

CONSTANTS
  MaxReqs,   \* bound: requests of the client; its n-th stream is n here
  Limit,     \* SETTINGS_MAX_CONCURRENT_STREAMS of the server
  Wide,      \* bound: the counters' 2^32
  Troubles   \* the sets of troubles that one connection may meet

ASSUME ServerAssumption ==
  /\ MaxReqs \in Nat \ {0} /\ Limit \in Nat /\ Wide \in Nat /\ Wide > 4 * MaxReqs
  /\ Troubles \subseteq SUBSET {"rst", "timeout"}

Reqs == 1 .. MaxReqs
Objs == 1 .. MaxReqs      \* Stream objects; 0 is None
Statuses == {"Idle", "Open", "HalfClosedLocal", "HalfClosedRemote", "Closed"}
Frame(id, type, by) == [id |-> id, type |-> type, by |-> by]
Frames == [id : Reqs, type : {"fields", "last", "rst"}, by : Reqs]
NoFrame == Frame(0, "rst", 0)

VARIABLES
  sent,                        \* what the client has sent on a stream
  map, pool, made,             \* streams, streamPool, objects made by its newFn
  active, rstNum,              \* activeClientStreamNum, activeClientRstStreamNum
  st, sid, isRst, counted,     \* per object: status, streamId, isRst, isRstCounted
  rpc, robj, rseen,            \* the read thread
  obj, hpc, tpc,               \* per request: its object, handler and timer threads
  due, control, message,       \* resets about to be sent; responseQueue by priority
  wpc, wf, wobj, wseen,        \* the write thread
  wire,                        \* per stream: the frames written
  stolen, overwritten,         \* requests that shared an object, that lost a status
  troubles                     \* what may go wrong: a member of Troubles

tableVars  == <<map, pool, made>>
countVars  == <<active, rstNum>>
objectVars == <<st, sid, isRst, counted>>
readVars   == <<sent, rpc, robj, rseen>>
workVars   == <<obj, hpc, tpc>>
queueVars  == <<due, control, message>>
writeVars  == <<wpc, wf, wobj, wseen, wire>>
ghostVars  == <<stolen, overwritten, troubles>>
vars == <<tableVars, countVars, objectVars, readVars, workVars, queueVars, writeVars, ghostVars>>

Init ==
  /\ sent = [r \in Reqs |-> "nothing"]
  /\ map = [r \in Reqs |-> 0] /\ pool = << >> /\ made = 0
  /\ active = 0 /\ rstNum = 0
  /\ st = [o \in Objs |-> "Idle"] /\ sid = [o \in Objs |-> 0]
  /\ isRst = [o \in Objs |-> FALSE] /\ counted = [o \in Objs |-> FALSE]
  /\ rpc = "read" /\ robj = 0 /\ rseen = "Idle"
  /\ obj = [r \in Reqs |-> 0] /\ hpc = [r \in Reqs |-> "none"] /\ tpc = [r \in Reqs |-> "off"]
  /\ due = {} /\ control = << >> /\ message = << >>
  /\ wpc = "take" /\ wf = NoFrame /\ wobj = 0 /\ wseen = "Idle"
  /\ wire = [r \in Reqs |-> << >>]
  /\ stolen = {} /\ overwritten = {} /\ troubles \in Troubles

\* AtomicUInt32.fetchAdd and fetchSub
Plus(n, d) == (n + d) % Wide

-----------------------------------------------------------------------------
(* Stream.close and purgeStream, steps of whichever thread calls them *)

\* close: a closed stream is only counted off, and once; another is closed,
\* and a new thread is to send its reset.
Close(o, slow) ==
  IF st[o] = "Closed"
  THEN counted' = [counted EXCEPT ![o] = @ \/ ~ slow] /\ UNCHANGED <<st, due>>
  ELSE st' = [st EXCEPT ![o] = "Closed"] /\ due' = due \cup {sid[o]} /\ UNCHANGED counted

CloseThen(o, slow, then) ==
  IF st[o] = "Closed" /\ ~ slow /\ ~ counted[o] THEN "uncount" ELSE then

\* purgeStream: isRstCounted is set, the map's object goes to the pool.
Purge(o) ==
  /\ counted' = [counted EXCEPT ![o] = TRUE]
  /\ IF map[sid[o]] = 0 THEN UNCHANGED <<map, pool>>
     ELSE map' = [map EXCEPT ![sid[o]] = 0] /\ pool' = Append(pool, map[sid[o]])

\* Mutant: a stream that is counted off before is counted off again.
PurgeThenAgain(o, then) == IF map[sid[o]] # 0 THEN "uncount" ELSE then

\* A stream that is counted off before, or not in the map, is not counted.
PurgeThen(o, then) == IF ~ counted[o] /\ map[sid[o]] # 0 THEN "uncount" ELSE then

\* HttpServer2.purgeStream: which counter goes down depends on isRst.
Uncount(o) ==
  IF isRst[o]
  THEN isRst' = [isRst EXCEPT ![o] = FALSE] /\ rstNum' = Plus(rstNum, -1) /\ UNCHANGED active
  ELSE active' = Plus(active, -1) /\ UNCHANGED <<isRst, rstNum>>

\* A status assigned some steps after it was matched as seen.
Assign(o, seen, to) ==
  /\ st' = [st EXCEPT ![o] = to]
  /\ overwritten' = IF st[o] = seen THEN overwritten ELSE overwritten \cup {sid[o]}

SendReset ==
  /\ \E id \in due : due' = due \ {id} /\ control' = Append(control, id)
  /\ UNCHANGED <<message, tableVars, countVars, objectVars, readVars, workVars,
                 writeVars, ghostVars>>

-----------------------------------------------------------------------------
(* The read thread *)

\* The threads that still use an object, by their requests.
UsersOf(o) ==
  {r \in Reqs : obj[r] = o /\ (hpc[r] \notin {"none", "done"} \/ tpc[r] \in {"fired", "uncount"})}
    \cup (IF wpc # "take" /\ wobj = o THEN {wf.id} ELSE {})

OverLimit == Plus(active, 1) > Limit \/ rstNum \div 2 > Limit

\* createClientStream and the fields of the request: Stream.reset, the map,
\* the counter and the test of the limit, the status and requestQueue.
ReadHeaders(r) ==
  LET o == IF pool = << >> THEN made + 1 ELSE Head(pool) IN
  /\ rpc = "read" /\ sent[r] = "nothing" /\ \A q \in 1 .. r - 1 : sent[q] # "nothing"
  /\ IF pool = << >> THEN made' = made + 1 /\ UNCHANGED pool ELSE pool' = Tail(pool) /\ UNCHANGED made
  /\ map' = [map EXCEPT ![r] = o] /\ active' = Plus(active, 1)
  /\ obj' = [obj EXCEPT ![r] = o] /\ sid' = [sid EXCEPT ![o] = r]
  /\ isRst' = [isRst EXCEPT ![o] = FALSE] /\ counted' = [counted EXCEPT ![o] = FALSE]
  /\ stolen' = IF UsersOf(o) = {} THEN stolen ELSE stolen \cup UsersOf(o) \cup {r}
  /\ \E end \in BOOLEAN :
       /\ sent' = [sent EXCEPT ![r] = IF end THEN "end" ELSE "headers"]
       /\ IF OverLimit
          THEN st' = [st EXCEPT ![o] = "Closed"] /\ due' = due \cup {r} /\ UNCHANGED hpc
          ELSE /\ st' = [st EXCEPT ![o] = IF end THEN "HalfClosedRemote" ELSE "Open"]
               /\ hpc' = [hpc EXCEPT ![r] = "queued"] /\ UNCHANGED due
  /\ UNCHANGED <<rstNum, rpc, robj, rseen, tpc, control, message, writeVars,
                 overwritten, troubles>>

\* The last data of a request, or a reset; ignored if the stream is purged.
ReadFrame(r) ==
  /\ rpc = "read"
  /\ \/ /\ sent[r] = "headers" /\ sent' = [sent EXCEPT ![r] = "end"]
        /\ rpc' = IF map[r] = 0 THEN "read" ELSE "match"
     \/ /\ "rst" \in troubles /\ sent[r] \in {"headers", "end"}
        /\ sent' = [sent EXCEPT ![r] = "rst"]
        /\ rpc' = IF map[r] = 0 THEN "read" ELSE "rst"
  /\ robj' = map[r]
  /\ UNCHANGED <<rseen, tableVars, countVars, objectVars, workVars, queueVars,
                 writeVars, ghostVars>>

Reader(from, to) == rpc = from /\ rpc' = to

\* onDataRead matches on the status ...
ReadMatch ==
  /\ Reader("match", "assign")
  /\ rseen' = st[robj]
  /\ UNCHANGED <<sent, robj, tableVars, countVars, objectVars, workVars,
                 queueVars, writeVars, ghostVars>>

\* ... and assigns it; data of a stream that is over closes the stream.
ReadAssign ==
  /\ rpc = "assign"
  /\ CASE rseen = "Open"            -> Assign(robj, rseen, "HalfClosedRemote") /\ rpc' = "read"
       [] rseen = "HalfClosedLocal" -> Assign(robj, rseen, "Closed") /\ rpc' = "purge"
       [] OTHER                     -> UNCHANGED <<st, overwritten>> /\ rpc' = "close"
  /\ UNCHANGED <<sent, robj, rseen, tableVars, countVars, sid, isRst, counted, workVars, queueVars,
                 writeVars, stolen, troubles>>

ReadPurge ==
  /\ Reader("purge", PurgeThen(robj, "read")) /\ Purge(robj)
  /\ UNCHANGED <<sent, robj, rseen, made, countVars, st, sid, isRst, workVars, queueVars, writeVars,
                 ghostVars>>

\* slow: the connection had another stream exception in the last 5 seconds.
ReadClose ==
  /\ \E slow \in BOOLEAN : Reader("close", CloseThen(robj, slow, "read")) /\ Close(robj, slow)
  /\ UNCHANGED <<sent, robj, rseen, tableVars, countVars, sid, isRst, workVars, control, message,
                 writeVars, ghostVars>>

ReadUncount ==
  /\ Reader("uncount", "read") /\ Uncount(robj)
  /\ UNCHANGED <<sent, robj, rseen, tableVars, st, sid, counted, workVars, queueVars, writeVars,
                 ghostVars>>

\* onRSTRead: purgeStream without a count, then the status, ...
RstPurge ==
  /\ Reader("rst", "rstClose")
  /\ IF map[sid[robj]] = 0 THEN UNCHANGED <<map, pool>>
     ELSE map' = [map EXCEPT ![sid[robj]] = 0] /\ pool' = Append(pool, map[sid[robj]])
  /\ UNCHANGED <<sent, robj, rseen, made, countVars, objectVars, workVars,
                 queueVars, writeVars, ghostVars>>

RstClose ==
  /\ Reader("rstClose", "rstCount")
  /\ st' = [st EXCEPT ![robj] = "Closed"]
  /\ UNCHANGED <<sent, robj, rseen, tableVars, countVars, sid, isRst, counted, workVars, queueVars,
                 writeVars, ghostVars>>

\* ... addRstStreamCnt, ...
RstCount ==
  /\ Reader("rstCount", "rstSet")
  /\ rstNum' = Plus(rstNum, 1) /\ active' = Plus(active, -1)
  /\ UNCHANGED <<sent, robj, rseen, tableVars, objectVars, workVars, queueVars,
                 writeVars, ghostVars>>

\* ... and isRst.
RstSet ==
  /\ Reader("rstSet", "read")
  /\ isRst' = [isRst EXCEPT ![robj] = TRUE]
  /\ UNCHANGED <<sent, robj, rseen, tableVars, countVars, st, sid, counted, workVars, queueVars,
                 writeVars, ghostVars>>

-----------------------------------------------------------------------------
(* The handlers and the timers of the requests *)

Handler(r, from, to) == hpc[r] = from /\ hpc' = [hpc EXCEPT ![r] = to]

\* The handle thread takes the stream from requestQueue.
HandlerStart(r) ==
  /\ Handler(r, "queued", "head")
  /\ UNCHANGED <<obj, tpc, tableVars, countVars, objectVars, readVars,
                 queueVars, writeVars, ghostVars>>

\* writeResponse throws on a closed stream; the frame names the object's stream.
HandlerHead(r) ==
  /\ hpc[r] = "head"
  /\ IF st[obj[r]] = "Closed" THEN Handler(r, "head", "close") /\ UNCHANGED message
     ELSE /\ Handler(r, "head", "last")
          /\ message' = Append(message, Frame(sid[obj[r]], "fields", r))
  /\ UNCHANGED <<obj, tpc, due, control, tableVars, countVars, objectVars,
                 readVars, writeVars, ghostVars>>

\* writeBody of a raw body tests the status again, writeEmptyDataFrame does not.
HandlerLast(r) ==
  /\ \/ Handler(r, "last", "close") /\ st[obj[r]] = "Closed" /\ UNCHANGED message
     \/ Handler(r, "last", "done") /\ message' = Append(message, Frame(sid[obj[r]], "last", r))
  /\ UNCHANGED <<obj, tpc, due, control, tableVars, countVars, objectVars,
                 readVars, writeVars, ghostVars>>

\* handleRequests closes the stream of a handler that threw.
HandlerClose(r) ==
  /\ Handler(r, "close", CloseThen(obj[r], FALSE, "done")) /\ Close(obj[r], FALSE)
  /\ UNCHANGED <<obj, tpc, tableVars, countVars, sid, isRst, readVars, control, message, writeVars,
                 ghostVars>>

HandlerUncount(r) ==
  /\ Handler(r, "uncount", "done") /\ Uncount(obj[r])
  /\ UNCHANGED <<obj, tpc, tableVars, st, sid, counted, readVars, queueVars,
                 writeVars, ghostVars>>

Timer(r, from, to) == tpc[r] = from /\ tpc' = [tpc EXCEPT ![r] = to]

\* The read timer until the request's end, the write timer until the response's.
TimerFires(r) ==
  /\ "timeout" \in troubles
  /\ Timer(r, "off", "fired")
  /\ map[r] # 0 /\ st[obj[r]] # "Closed"
  /\ sent[r] = "headers" \/ hpc[r] \in {"last", "done"}
  /\ UNCHANGED <<obj, hpc, tableVars, countVars, objectVars, readVars,
                 queueVars, writeVars, ghostVars>>

TimerClose(r) ==
  /\ Timer(r, "fired", CloseThen(obj[r], FALSE, "over")) /\ Close(obj[r], FALSE)
  /\ UNCHANGED <<obj, hpc, tableVars, countVars, sid, isRst, readVars, control, message, writeVars,
                 ghostVars>>

TimerUncount(r) ==
  /\ Timer(r, "uncount", "over") /\ Uncount(obj[r])
  /\ UNCHANGED <<obj, hpc, tableVars, st, sid, counted, readVars, queueVars,
                 writeVars, ghostVars>>

-----------------------------------------------------------------------------
(* The write thread *)

Writer(from, to) == wpc = from /\ wpc' = to
WriterDone == wf' = NoFrame /\ wobj' = 0 /\ wseen' = "Idle"

NextFrame == IF control # << >> THEN Frame(Head(control), "rst", Head(control)) ELSE Head(message)

\* Mutant: a message is looked at and not removed.
TakeNextPeeks ==
  IF control # << >> THEN control' = Tail(control) /\ UNCHANGED message
                     ELSE message # << >> /\ UNCHANGED <<control, message>>

TakeNext == IF control # << >> THEN control' = Tail(control) /\ UNCHANGED message
            ELSE message # << >> /\ message' = Tail(message) /\ UNCHANGED control

\* A frame of a purged stream is dropped, and any but a reset of a closed one.
Dropped(f) == map[f.id] = 0 \/ (f.type # "rst" /\ st[map[f.id]] = "Closed")

WriterTake ==
  /\ wpc = "take" /\ TakeNext
  /\ IF Dropped(NextFrame) THEN UNCHANGED <<wpc, wf, wobj>>
     ELSE /\ wpc' = IF NextFrame.type = "rst" THEN "purge" ELSE "match"
          /\ wf' = NextFrame /\ wobj' = map[NextFrame.id]
  /\ UNCHANGED <<wseen, wire, due, tableVars, countVars, objectVars, readVars,
                 workVars, ghostVars>>

WriterMatch ==
  /\ Writer("match", "assign")
  /\ wseen' = st[wobj]
  /\ UNCHANGED <<wf, wobj, wire, queueVars, tableVars, countVars, objectVars, readVars, workVars,
                 ghostVars>>

\* Mutant: a response that ends before its request leaves the stream open.
EndOfResponseNoClose ==
  CASE wseen = "Open"             -> Assign(wobj, wseen, "HalfClosedLocal") /\ wpc' = "write"
    [] wseen = "HalfClosedRemote" -> Assign(wobj, wseen, "Closed") /\ wpc' = "purge"
    [] OTHER                      -> UNCHANGED <<st, overwritten>> /\ wpc' = "refuse"

\* onDataWrite with streamEnd: close sends a reset to a client that is not
\* done, the second end purges; other statuses are exceptions.
EndOfResponse ==
  CASE wseen = "Open"             -> Assign(wobj, wseen, "HalfClosedLocal") /\ wpc' = "close"
    [] wseen = "HalfClosedRemote" -> Assign(wobj, wseen, "Closed") /\ wpc' = "purge"
    [] OTHER                      -> UNCHANGED <<st, overwritten>> /\ wpc' = "refuse"

WriterAssign ==
  /\ wpc = "assign"
  /\ IF wf.type = "last" THEN EndOfResponse
     ELSE /\ wpc' = IF wseen \in {"Open", "HalfClosedRemote"} THEN "write" ELSE "refuse"
          /\ UNCHANGED <<st, overwritten>>
  /\ UNCHANGED <<wf, wobj, wseen, wire, queueVars, tableVars, countVars, sid, isRst, counted, readVars,
                 workVars, stolen, troubles>>

WriterPurge ==
  /\ Writer("purge", PurgeThen(wobj, "write")) /\ Purge(wobj)
  /\ UNCHANGED <<wf, wobj, wseen, wire, queueVars, made, countVars, st, sid, isRst, readVars, workVars,
                 ghostVars>>

WriterClose ==
  /\ Writer("close", CloseThen(wobj, FALSE, "write")) /\ Close(wobj, FALSE)
  /\ UNCHANGED <<wf, wobj, wseen, wire, control, message, tableVars, countVars, sid, isRst, readVars,
                 workVars, ghostVars>>

WriterUncount ==
  /\ Writer("uncount", "write") /\ Uncount(wobj)
  /\ UNCHANGED <<wf, wobj, wseen, wire, queueVars, tableVars, st, sid, counted, readVars, workVars,
                 ghostVars>>

WriterWrite ==
  /\ Writer("write", "take")
  /\ wire' = [wire EXCEPT ![wf.id] = Append(@, wf)]
  /\ WriterDone
  /\ UNCHANGED <<queueVars, tableVars, countVars, objectVars, readVars,
                 workVars, ghostVars>>

\* A stream exception: the frame is not written, the stream is closed.
WriterRefuse ==
  /\ Writer("refuse", IF CloseThen(wobj, FALSE, "take") = "take" THEN "take" ELSE "refused")
  /\ Close(wobj, FALSE)
  /\ IF wpc' = "take" THEN WriterDone ELSE UNCHANGED <<wf, wobj, wseen>>
  /\ UNCHANGED <<wire, control, message, tableVars, countVars, sid, isRst,
                 readVars, workVars, ghostVars>>

WriterRefused ==
  /\ Writer("refused", "take") /\ Uncount(wobj)
  /\ WriterDone
  /\ UNCHANGED <<wire, queueVars, tableVars, st, sid, counted, readVars,
                 workVars, ghostVars>>

-----------------------------------------------------------------------------
Reading == \/ ReadMatch \/ ReadAssign \/ ReadPurge \/ ReadClose \/ ReadUncount
           \/ RstPurge \/ RstClose \/ RstCount \/ RstSet
Handling(r) ==
  \/ HandlerStart(r) \/ HandlerHead(r) \/ HandlerLast(r) \/ HandlerClose(r) \/ HandlerUncount(r)
Timing(r)   == TimerClose(r) \/ TimerUncount(r)
Writing == \/ WriterTake \/ WriterMatch \/ WriterAssign \/ WriterPurge \/ WriterClose \/ WriterUncount
           \/ WriterWrite \/ WriterRefuse \/ WriterRefused

Next == \/ \E r \in Reqs : ReadHeaders(r) \/ ReadFrame(r) \/ Handling(r) \/ TimerFires(r) \/ Timing(r)
        \/ Reading \/ Writing \/ SendReset

Spec == Init /\ [][Next]_vars

-----------------------------------------------------------------------------
TypeOK ==
  /\ sent \in [Reqs -> {"nothing", "headers", "end", "rst"}]
  /\ map \in [Reqs -> Objs \cup {0}] /\ pool \in Seq(Objs) /\ made \in 0 .. MaxReqs
  /\ {active, rstNum} \subseteq 0 .. Wide - 1
  /\ st \in [Objs -> Statuses] /\ sid \in [Objs -> Reqs \cup {0}]
  /\ isRst \in [Objs -> BOOLEAN] /\ counted \in [Objs -> BOOLEAN]
  /\ rpc \in {"read", "match", "assign", "purge", "close", "uncount",
              "rst", "rstClose", "rstCount", "rstSet"}
  /\ {robj, wobj} \subseteq Objs \cup {0} /\ {rseen, wseen} \subseteq Statuses
  /\ obj \in [Reqs -> Objs \cup {0}]
  /\ hpc \in [Reqs -> {"none", "queued", "head", "last", "close", "uncount", "done"}]
  /\ tpc \in [Reqs -> {"off", "fired", "uncount", "over"}]
  /\ due \subseteq Reqs /\ control \in Seq(Reqs) /\ message \in Seq(Frames)
  /\ wpc \in {"take", "match", "assign", "purge", "close", "uncount", "write", "refuse", "refused"}
  /\ wf \in Frames \cup {NoFrame} /\ wire \in [Reqs -> Seq(Frames)]
  /\ {stolen, overwritten} \subseteq SUBSET Reqs /\ troubles \in Troubles

\* The stream is not counted off yet, or a thread is about to do it.
Counted(r) ==
  \/ obj[r] # 0 /\ sid[obj[r]] = r /\ ~ counted[obj[r]]
  \/ hpc[r] = "uncount" \/ tpc[r] = "uncount"
  \/ wpc \in {"uncount", "refused"} /\ wf.id = r
  \/ rpc = "uncount" /\ obj[r] = robj /\ sid[robj] = r

(* Without resets of the client every stream is counted exactly once,      *)
(* however many threads close or purge it at once, until somebody counts   *)
(* it off; closeGracefully relies on the counters to come back to zero.    *)
CountsBalance ==
  "rst" \notin troubles /\ stolen = {} =>
    active = Cardinality({r \in Reqs : Counted(r)}) /\ rstNum = 0

(* "close the stream immediately, if num of client streams exceeds         *)
(* SettingsMaxConcurrentStreams": no more than that many are in the map    *)
(* and not closed.                                                         *)
LimitKept ==
  stolen = {} => Cardinality({r \in Reqs : map[r] # 0 /\ st[map[r]] # "Closed"}) <= Limit

(* What a client receives on a stream is the beginning of the response of  *)
(* the handler of that very request, possibly ended by a reset; unless its *)
(* Stream object was recycled while another thread still used it, or a     *)
(* status matched before was assigned over the one that closed it.         *)
ResponseInOrder ==
  \A r \in Reqs \ (stolen \cup overwritten) :
    /\ \A i \in DOMAIN wire[r] : wire[r][i].by = r
    /\ [i \in DOMAIN wire[r] |-> wire[r][i].type] \in
         {<< >>, <<"fields">>, <<"fields", "last">>, <<"rst">>, <<"fields", "rst">>,
          <<"fields", "last", "rst">>}

(* A stream whose handler is done and that nobody is about to reset has    *)
(* left the map: by its last frame, by the reset that close sends, or by   *)
(* the client's.                                                           *)
HandledIsPurged ==
  rpc = "read" /\ wpc = "take" =>
    \A r \in Reqs \ stolen :
      (hpc[r] = "done" /\ tpc[r] \in {"off", "over"} /\ r \notin due
         /\ (\A i \in DOMAIN control : control[i] # r) /\ (\A i \in DOMAIN message : message[i].id # r))
        => map[r] = 0
=============================================================================
