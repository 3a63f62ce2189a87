--------------------------- MODULE H2ServerProofs ---------------------------
(* The streams of one HTTP/2 connection of the server, for every number of   *)
(* requests and every limit.                                                 *)
EXTENDS H2Server, QueueLemmas, FiniteSetTheorems

-----------------------------------------------------------------------------
(* What holds whatever goes wrong: a thread that works on a stream has an    *)
(* object that was made for some request.                                    *)

\* An object with a name; a name is changed, never taken away.
Named(o) == o # 0 /\ sid[o] # 0

Arrived ==
  /\ \A r, q \in Reqs : q < r /\ sent[r] # "nothing" => sent[q] # "nothing"
  /\ made # 0 => sent[made] # "nothing"
  /\ \A o \in Objs : o > made => sid[o] = 0
  /\ \A o \in Objs : sid[o] # 0 => sent[sid[o]] # "nothing"
  /\ \A r \in Reqs : IF sent[r] = "nothing"
                     THEN obj[r] = 0 /\ map[r] = 0 /\ hpc[r] = "none" /\ tpc[r] = "off"
                     ELSE Named(obj[r]) /\ (map[r] # 0 => Named(map[r]))

AtWork ==
  /\ \A i \in DOMAIN pool : sid[pool[i]] # 0
  /\ rpc # "read" => Named(robj)
  /\ wpc # "take" => Named(wobj) /\ wf \in Frames

Sound == TypeOK /\ Arrived /\ AtWork

\* An object is the one of the stream it is named for, and in the pool only
\* when that stream has left the map.
Linked ==
  /\ \A o \in Objs : sid[o] # 0 => obj[sid[o]] = o
  /\ \A r \in Reqs : map[r] # 0 => sid[map[r]] = r
  /\ \A i \in DOMAIN pool : map[sid[pool[i]]] = 0
  /\ \A i, j \in DOMAIN pool : pool[i] = pool[j] => i = j

-----------------------------------------------------------------------------
(* What holds on a connection without resets of the client, until a Stream   *)
(* object is recycled under a thread that still uses it.                     *)

Calm == "rst" \notin troubles /\ stolen = {}

NoResets ==
  /\ rstNum = 0 /\ \A o \in Objs : ~ isRst[o]
  /\ rpc \notin {"rst", "rstClose", "rstCount", "rstSet"}

\* Whoever uses an object uses it for the stream it is named for.
Users ==
  /\ \A r \in Reqs : hpc[r] \notin {"none", "done"} \/ tpc[r] \in {"fired", "uncount"} => sid[obj[r]] = r
  /\ wpc # "take" => sid[wobj] = wf.id

\* The four places from which a stream is counted off.
ByHandler(r) == hpc[r] = "uncount"
ByTimer(r)   == tpc[r] = "uncount"
ByWriter(r)  == wpc \in {"uncount", "refused"} /\ wf.id = r
ByReader(r)  == rpc = "uncount" /\ sid[robj] = r
Claimed(r)   == ByHandler(r) \/ ByTimer(r) \/ ByWriter(r) \/ ByReader(r)

\* A stream that nobody has claimed to count off is in the map; a stream is
\* claimed by one thread at most.
Claims ==
  /\ \A o \in Objs : sid[o] # 0 /\ ~ counted[o] => map[sid[o]] = o /\ ~ Claimed(sid[o])
  /\ \A r \in Reqs : /\ ByHandler(r) => ~ ByTimer(r) /\ ~ ByWriter(r) /\ ~ ByReader(r)
                     /\ ByTimer(r) => ~ ByWriter(r) /\ ~ ByReader(r)
                     /\ ByWriter(r) => ~ ByReader(r)

Orderly == Users /\ Claims /\ NoResets

CountedOnes == {r \in Reqs : Counted(r)}

\* The inductive invariant.
ServerInv == Sound /\ Linked /\ (Calm => Orderly /\ active = Cardinality(CountedOnes))

-----------------------------------------------------------------------------
(* What the shared steps keep, whoever takes them. *)

\* 0 is no request and no object.
LEMMA ZeroIsNone == 0 \notin Reqs /\ 0 \notin Objs
BY ServerAssumption DEF Reqs, Objs

\* The counters of streams wrap around at their width.
LEMMA PlusInRange == \A n \in 0 .. Wide - 1 : Plus(n, 1) \in 0 .. Wide - 1 /\ Plus(n, -1) \in 0 .. Wide - 1
BY ServerAssumption DEF Plus

\* Close of an object with a name keeps the types.
LEMMA CloseTypes ==
  ASSUME TypeOK, NEW o \in Objs, sid[o] # 0, NEW slow \in BOOLEAN, Close(o, slow)
  PROVE  st' \in [Objs -> Statuses] /\ counted' \in [Objs -> BOOLEAN] /\ due' \subseteq Reqs
<1>1. /\ st \in [Objs -> Statuses] /\ counted \in [Objs -> BOOLEAN]
      /\ due \subseteq Reqs /\ sid[o] \in Reqs /\ "Closed" \in Statuses
  BY DEF TypeOK, Statuses
<1> QED
  BY <1>1 DEF Close

\* Types after a purge,
LEMMA PurgeTypes ==
  ASSUME TypeOK, NEW o \in Objs, sid[o] # 0, Purge(o)
  PROVE  map' \in [Reqs -> Objs \cup {0}] /\ pool' \in Seq(Objs) /\ counted' \in [Objs -> BOOLEAN]
<1>1. /\ sid[o] \in Reqs /\ map \in [Reqs -> Objs \cup {0}] /\ pool \in Seq(Objs)
      /\ counted \in [Objs -> BOOLEAN]
  BY DEF TypeOK
<1>2. counted' \in [Objs -> BOOLEAN]
  BY <1>1 DEF Purge
<1>3. CASE map[sid[o]] = 0
  BY <1>1, <1>2, <1>3 DEF Purge
<1>4. CASE map[sid[o]] # 0
  <2>1. map' = [map EXCEPT ![sid[o]] = 0] /\ pool' = Append(pool, map[sid[o]]) /\ map[sid[o]] \in Objs
    BY <1>1, <1>4 DEF Purge
  <2>2. pool' \in Seq(Objs)
    BY <1>1, <2>1, AppendAt
  <2> QED
    BY <1>1, <1>2, <2>1, <2>2
<1> QED
  BY <1>3, <1>4

\* after a stream is counted off,
LEMMA UncountTypes ==
  ASSUME TypeOK, NEW o \in Objs, Uncount(o)
  PROVE  isRst' \in [Objs -> BOOLEAN] /\ active' \in 0 .. Wide - 1 /\ rstNum' \in 0 .. Wide - 1
<1>1. active \in 0 .. Wide - 1 /\ rstNum \in 0 .. Wide - 1 /\ isRst \in [Objs -> BOOLEAN]
  BY DEF TypeOK
<1> QED
  BY <1>1, PlusInRange DEF Uncount

\* and after a status is assigned.
LEMMA AssignTypes ==
  ASSUME TypeOK, NEW o \in Objs, sid[o] # 0, NEW seen, NEW to \in Statuses, Assign(o, seen, to)
  PROVE  st' \in [Objs -> Statuses] /\ overwritten' \in SUBSET Reqs
BY DEF TypeOK, Assign

\* The object of a new request is made or comes from the pool.
New == IF pool = << >> THEN made + 1 ELSE Head(pool)

\* What reading the headers of a stream does: its object is new, or the first of the pool.
LEMMA NewObject ==
  ASSUME Sound, NEW r \in Reqs, ReadHeaders(r)
  PROVE  /\ New \in Objs
         /\ \/ pool = << >> /\ New = made + 1 /\ made' = New /\ New <= r /\ sid[New] = 0 /\ pool' = pool
            \/ pool # << >> /\ New = pool[1] /\ made' = made /\ New <= made /\ sid[New] # 0
               /\ pool' = Tail(pool)
         /\ sent[r] = "nothing" /\ \A q \in Reqs : q < r => sent[q] # "nothing"
         /\ map' = [map EXCEPT ![r] = New] /\ obj' = [obj EXCEPT ![r] = New]
         /\ sid' = [sid EXCEPT ![New] = r] /\ isRst' = [isRst EXCEPT ![New] = FALSE]
         /\ counted' = [counted EXCEPT ![New] = FALSE] /\ rpc = "read" /\ UNCHANGED <<rpc, robj, tpc>>
         /\ hpc' \in {hpc, [hpc EXCEPT ![r] = "queued"]}
         /\ \E to \in {"headers", "end"} : sent' = [sent EXCEPT ![r] = to]
<1>0. MaxReqs \in Nat \ {0}
  BY ServerAssumption
<1>1. pool \in Seq(Objs) /\ made \in 0 .. MaxReqs /\ sid \in [Objs -> Reqs \cup {0}]
  BY DEF Sound, TypeOK
<1>2. sent[r] = "nothing" /\ \A q \in 1 .. r - 1 : sent[q] # "nothing"
  BY DEF ReadHeaders
<1>3. \A q \in Reqs : q < r => sent[q] # "nothing"
  BY <1>2 DEF Reqs
<1>4. CASE pool = << >>
  <2>1. made < r
    BY <1>0, <1>1, <1>2 DEF Sound, Arrived, Reqs
  <2>2. New = made + 1 /\ New \in Objs /\ New <= r
    BY <1>0, <1>1, <1>4, <2>1 DEF New, Objs, Reqs
  <2>3. sid[New] = 0
    BY <1>1, <2>2 DEF Sound, Arrived
  <2>4. made' = New /\ pool' = pool
    BY <1>4, <2>2 DEF ReadHeaders
  <2> QED
    BY <1>2, <1>3, <1>4, <2>2, <2>3, <2>4 DEF ReadHeaders, New
<1>5. CASE pool # << >>
  <2>1. 1 \in DOMAIN pool /\ Head(pool) = pool[1] /\ pool[1] \in Objs
    BY <1>1, <1>5, TailAt
  <2>2. New = pool[1] /\ New \in Objs
    BY <1>5, <2>1 DEF New
  <2>3. sid[New] # 0
    BY <2>1, <2>2 DEF Sound, AtWork
  <2>4. New <= made
    BY <1>0, <1>1, <2>2, <2>3 DEF Sound, Arrived, Objs
  <2>5. made' = made /\ pool' = Tail(pool)
    BY <1>5 DEF ReadHeaders
  <2> QED
    BY <1>2, <1>3, <1>5, <2>2, <2>3, <2>4, <2>5 DEF ReadHeaders, New
<1> QED
  BY <1>4, <1>5

\* The pool afterwards is the one before, without that object.
LEMMA PoolWithoutNew ==
  ASSUME Sound, NEW r \in Reqs, ReadHeaders(r)
  PROVE  /\ pool' \in Seq(Objs)
         /\ \A i \in DOMAIN pool' : i + 1 \in DOMAIN pool /\ pool'[i] = pool[i + 1]
<1>1. pool \in Seq(Objs)
  BY DEF Sound, TypeOK
<1>2. CASE pool = << >>
  <2>1. pool' = << >>
    BY <1>2, NewObject
  <2> QED
    BY <2>1
<1>3. CASE pool # << >>
  <2>1. pool' = Tail(pool)
    BY <1>3, NewObject
  <2>2. Tail(pool) \in Seq(Objs) /\ \A i \in DOMAIN Tail(pool) : i + 1 \in DOMAIN pool /\ Tail(pool)[i] = pool[i + 1]
    BY <1>1, <1>3, TailAt
  <2> QED
    BY <2>1, <2>2
<1> QED
  BY <1>2, <1>3

\* What the write thread takes is a frame.
LEMMA NextIsFrame ==
  ASSUME Sound, WriterTake
  PROVE  NextFrame \in Frames
<1>1. control \in Seq(Reqs) /\ message \in Seq(Frames)
  BY DEF Sound, TypeOK
<1>2. CASE control # << >>
  <2>1. Head(control) \in Reqs
    BY <1>1, <1>2, TailAt
  <2> QED
    BY <1>2, <2>1 DEF NextFrame, Frame, Frames
<1>3. CASE control = << >>
  <2>1. Head(message) \in Frames
    BY <1>1, <1>3, TailAt DEF WriterTake, TakeNext
  <2> QED
    BY <1>3, <2>1 DEF NextFrame
<1> QED
  BY <1>2, <1>3

\* Every step keeps the types.
LEMMA StepTypes == Sound /\ [Next]_vars => TypeOK'
<1> SUFFICES ASSUME Sound, [Next]_vars PROVE TypeOK'
  OBVIOUS
<1>0. MaxReqs \in Nat \ {0} /\ Wide \in Nat /\ Wide > 4 * MaxReqs
  BY ServerAssumption
<1>1. ASSUME NEW r \in Reqs, ReadHeaders(r) PROVE TypeOK'
  <2>1. /\ pool \in Seq(Objs) /\ made \in 0 .. MaxReqs /\ active \in 0 .. Wide - 1 /\ stolen \in SUBSET Reqs
        /\ New \in Objs
    BY <1>1, NewObject DEF Sound, TypeOK
  <2>2. pool' \in Seq(Objs)
    BY <1>1, PoolWithoutNew
  <2>3. made' \in 0 .. MaxReqs
    BY <1>0, <1>1, <2>1, NewObject DEF Objs
  <2>4. UsersOf(New) \subseteq Reqs
    BY DEF UsersOf, Sound, TypeOK, AtWork, Frames
  <2>5. stolen' \in SUBSET Reqs
    BY <1>1, <2>1, <2>4 DEF ReadHeaders, New
  <2>6. /\ map' \in [Reqs -> Objs \cup {0}] /\ obj' \in [Reqs -> Objs \cup {0}]
        /\ sid' \in [Objs -> Reqs \cup {0}]
    <3>1. /\ map \in [Reqs -> Objs \cup {0}] /\ obj \in [Reqs -> Objs \cup {0}]
          /\ sid \in [Objs -> Reqs \cup {0}]
      BY DEF Sound, TypeOK
    <3>2. /\ map' = [map EXCEPT ![r] = New] /\ obj' = [obj EXCEPT ![r] = New]
          /\ sid' = [sid EXCEPT ![New] = r]
      BY <1>1, NewObject
    <3> QED
      BY <2>1, <3>1, <3>2
  <2>7. active' \in 0 .. Wide - 1
    BY <1>1, <2>1, PlusInRange DEF ReadHeaders
  <2>8. isRst' \in [Objs -> BOOLEAN] /\ counted' \in [Objs -> BOOLEAN]
    BY <1>1, <2>1, NewObject DEF Sound, TypeOK
  <2>9. st' \in [Objs -> Statuses]
    <3>1. st \in [Objs -> Statuses] /\ \E to \in Statuses : st' = [st EXCEPT ![New] = to]
      BY <1>1 DEF Sound, TypeOK, ReadHeaders, New, Statuses
    <3> QED
      BY <2>1, <3>1
  <2>10. due' \subseteq Reqs
    BY <1>1 DEF Sound, TypeOK, ReadHeaders
  <2>11. sent' \in [Reqs -> {"nothing", "headers", "end", "rst"}]
    BY <1>1, NewObject DEF Sound, TypeOK
  <2>12. hpc' \in [Reqs -> {"none", "queued", "head", "last", "close", "uncount", "done"}]
    BY <1>1, NewObject DEF Sound, TypeOK
  <2> QED
    BY <1>1, <2>2, <2>3, <2>5, <2>6, <2>7, <2>8, <2>9, <2>10, <2>11, <2>12
       DEF Sound, TypeOK, ReadHeaders, writeVars
<1>2. ASSUME NEW r \in Reqs, ReadFrame(r) PROVE TypeOK'
  <2>1. /\ sent' \in [Reqs -> {"nothing", "headers", "end", "rst"}] /\ robj' \in Objs \cup {0}
        /\ rpc' \in {"read", "match", "rst"}
    BY <1>2 DEF Sound, TypeOK, ReadFrame
  <2> QED
    BY <1>2, <2>1 DEF Sound, TypeOK, ReadFrame, tableVars, countVars, objectVars, workVars, queueVars,
       writeVars, ghostVars
<1>3. ASSUME NEW r \in Reqs, HandlerStart(r) PROVE TypeOK'
  BY <1>0, <1>3 DEF Sound, TypeOK, Frames, Frame, Statuses, NoFrame, HandlerStart, Handler,
       tableVars, countVars, objectVars, readVars, queueVars, writeVars, ghostVars
<1>4. ASSUME NEW r \in Reqs, HandlerHead(r) PROVE TypeOK'
  <2>1. obj[r] \in Objs /\ sid[obj[r]] \in Reqs /\ message \in Seq(Frames)
    BY <1>4 DEF Sound, TypeOK, Arrived, Named, HandlerHead, Handler
  <2>2. Frame(sid[obj[r]], "fields", r) \in Frames
    BY <2>1 DEF Frame, Frames
  <2>3. message' \in Seq(Frames)
    BY <1>4, <2>1, <2>2, AppendAt DEF HandlerHead
  <2>4. hpc' \in [Reqs -> {"none", "queued", "head", "last", "close", "uncount", "done"}]
    BY <1>4 DEF Sound, TypeOK, HandlerHead, Handler
  <2> QED
    BY <1>4, <2>3, <2>4 DEF Sound, TypeOK, HandlerHead, tableVars, countVars, objectVars, readVars, writeVars,
       ghostVars
<1>5. ASSUME NEW r \in Reqs, HandlerLast(r) PROVE TypeOK'
  <2>1. obj[r] \in Objs /\ sid[obj[r]] \in Reqs /\ message \in Seq(Frames)
    BY <1>5 DEF Sound, TypeOK, Arrived, Named, HandlerLast, Handler
  <2>2. Frame(sid[obj[r]], "last", r) \in Frames
    BY <2>1 DEF Frame, Frames
  <2>3. message' \in Seq(Frames)
    BY <1>5, <2>1, <2>2, AppendAt DEF HandlerLast
  <2>4. hpc' \in [Reqs -> {"none", "queued", "head", "last", "close", "uncount", "done"}]
    BY <1>5 DEF Sound, TypeOK, HandlerLast, Handler
  <2> QED
    BY <1>5, <2>3, <2>4 DEF Sound, TypeOK, HandlerLast, tableVars, countVars, objectVars, readVars, writeVars,
       ghostVars
<1>6. ASSUME NEW r \in Reqs, HandlerClose(r) PROVE TypeOK'
  <2>1. obj[r] \in Objs /\ sid[obj[r]] # 0
    BY <1>6 DEF Sound, TypeOK, Named, Arrived, HandlerClose, Handler
  <2>2. Close(obj[r], FALSE)
    BY <1>6 DEF HandlerClose
  <2>3. st' \in [Objs -> Statuses] /\ counted' \in [Objs -> BOOLEAN] /\ due' \subseteq Reqs
    BY <2>1, <2>2, CloseTypes DEF Sound
  <2>4. hpc' \in [Reqs -> {"none", "queued", "head", "last", "close", "uncount", "done"}]
    BY <1>6 DEF Sound, TypeOK, HandlerClose, Handler, CloseThen
  <2> QED
    BY <1>6, <2>3, <2>4 DEF Sound, TypeOK, HandlerClose, tableVars, countVars, readVars, writeVars,
           ghostVars
<1>7. ASSUME NEW r \in Reqs, HandlerUncount(r) PROVE TypeOK'
  <2>1. obj[r] \in Objs /\ sid[obj[r]] # 0
    BY <1>7 DEF Sound, TypeOK, Named, Arrived, HandlerUncount, Handler
  <2>2. Uncount(obj[r])
    BY <1>7 DEF HandlerUncount
  <2>3. isRst' \in [Objs -> BOOLEAN] /\ active' \in 0 .. Wide - 1 /\ rstNum' \in 0 .. Wide - 1
    BY <2>1, <2>2, UncountTypes DEF Sound
  <2>4. hpc' \in [Reqs -> {"none", "queued", "head", "last", "close", "uncount", "done"}]
    BY <1>7 DEF Sound, TypeOK, HandlerUncount, Handler
  <2> QED
    BY <1>7, <2>3, <2>4 DEF Sound, TypeOK, HandlerUncount, tableVars, readVars, queueVars,
           writeVars, ghostVars
<1>8. ASSUME NEW r \in Reqs, TimerFires(r) PROVE TypeOK'
  BY <1>0, <1>8 DEF Sound, TypeOK, Frames, Frame, Statuses, NoFrame, TimerFires, Timer, tableVars,
       countVars, objectVars, readVars, queueVars, writeVars, ghostVars
<1>9. ASSUME NEW r \in Reqs, TimerClose(r) PROVE TypeOK'
  <2>1. obj[r] \in Objs /\ sid[obj[r]] # 0
    BY <1>9 DEF Sound, TypeOK, Named, Arrived, TimerClose, Timer
  <2>2. Close(obj[r], FALSE)
    BY <1>9 DEF TimerClose
  <2>3. st' \in [Objs -> Statuses] /\ counted' \in [Objs -> BOOLEAN] /\ due' \subseteq Reqs
    BY <2>1, <2>2, CloseTypes DEF Sound
  <2>4. tpc' \in [Reqs -> {"off", "fired", "uncount", "over"}]
    BY <1>9 DEF Sound, TypeOK, TimerClose, Timer, CloseThen
  <2> QED
    BY <1>9, <2>3, <2>4 DEF Sound, TypeOK, TimerClose, tableVars, countVars, readVars, writeVars,
           ghostVars
<1>10. ASSUME NEW r \in Reqs, TimerUncount(r) PROVE TypeOK'
  <2>1. obj[r] \in Objs /\ sid[obj[r]] # 0
    BY <1>10 DEF Sound, TypeOK, Named, Arrived, TimerUncount, Timer
  <2>2. Uncount(obj[r])
    BY <1>10 DEF TimerUncount
  <2>3. isRst' \in [Objs -> BOOLEAN] /\ active' \in 0 .. Wide - 1 /\ rstNum' \in 0 .. Wide - 1
    BY <2>1, <2>2, UncountTypes DEF Sound
  <2>4. tpc' \in [Reqs -> {"off", "fired", "uncount", "over"}]
    BY <1>10 DEF Sound, TypeOK, TimerUncount, Timer
  <2> QED
    BY <1>10, <2>3, <2>4 DEF Sound, TypeOK, TimerUncount, tableVars, readVars, queueVars, writeVars,
           ghostVars
<1>11. CASE ReadMatch
  <2>1. robj \in Objs
    BY <1>11 DEF Sound, TypeOK, AtWork, Named, ReadMatch, Reader
  <2>2. rseen' \in Statuses
    BY <1>11, <2>1 DEF Sound, TypeOK, ReadMatch
  <2> QED
    BY <1>11, <2>2 DEF Sound, TypeOK, ReadMatch, Reader, tableVars, countVars, objectVars, workVars, queueVars, writeVars, ghostVars
<1>12. CASE ReadAssign
  <2>1. robj \in Objs /\ sid[robj] # 0
    BY <1>12 DEF Sound, TypeOK, AtWork, Named, ReadAssign
  <2>2. st' \in [Objs -> Statuses] /\ overwritten' \in SUBSET Reqs
    <3>1. CASE \E to \in Statuses : Assign(robj, rseen, to)
      BY <2>1, <3>1, AssignTypes DEF Sound
    <3>2. CASE UNCHANGED <<st, overwritten>>
      BY <3>2 DEF Sound, TypeOK
    <3> QED
      BY <1>12, <3>1, <3>2 DEF ReadAssign, Statuses
  <2>3. rpc' \in {"read", "purge", "close"}
    BY <1>12 DEF ReadAssign
  <2> QED
    BY <1>12, <2>2, <2>3 DEF Sound, TypeOK, ReadAssign, tableVars, countVars, workVars, queueVars, writeVars
<1>13. CASE ReadPurge
  <2>1. robj \in Objs /\ sid[robj] # 0
    BY <1>13 DEF Sound, TypeOK, Named, AtWork, ReadPurge, Reader
  <2>2. Purge(robj)
    BY <1>13 DEF ReadPurge
  <2>3. map' \in [Reqs -> Objs \cup {0}] /\ pool' \in Seq(Objs) /\ counted' \in [Objs -> BOOLEAN]
    BY <2>1, <2>2, PurgeTypes DEF Sound
  <2>4. rpc' \in {"read", "match", "assign", "purge", "close", "uncount", "rst", "rstClose", "rstCount", "rstSet"}
    BY <1>13 DEF Sound, TypeOK, ReadPurge, Reader, PurgeThen
  <2> QED
    BY <1>13, <2>3, <2>4 DEF Sound, TypeOK, ReadPurge, countVars, workVars, queueVars, writeVars,
           ghostVars
<1>14. CASE ReadClose
  <2>1. robj \in Objs /\ sid[robj] # 0
    BY <1>14 DEF Sound, TypeOK, Named, AtWork, ReadClose, Reader
  <2>2. PICK slow \in BOOLEAN : Close(robj, slow)
    BY <1>14 DEF ReadClose
  <2>3. st' \in [Objs -> Statuses] /\ counted' \in [Objs -> BOOLEAN] /\ due' \subseteq Reqs
    BY <2>1, <2>2, CloseTypes DEF Sound
  <2>4. rpc' \in {"read", "match", "assign", "purge", "close", "uncount", "rst", "rstClose", "rstCount", "rstSet"}
    BY <1>14 DEF Sound, TypeOK, ReadClose, Reader, CloseThen
  <2> QED
    BY <1>14, <2>3, <2>4 DEF Sound, TypeOK, ReadClose, tableVars, countVars, workVars, writeVars,
           ghostVars
<1>15. CASE ReadUncount
  <2>1. robj \in Objs /\ sid[robj] # 0
    BY <1>15 DEF Sound, TypeOK, Named, AtWork, ReadUncount, Reader
  <2>2. Uncount(robj)
    BY <1>15 DEF ReadUncount
  <2>3. isRst' \in [Objs -> BOOLEAN] /\ active' \in 0 .. Wide - 1 /\ rstNum' \in 0 .. Wide - 1
    BY <2>1, <2>2, UncountTypes DEF Sound
  <2>4. rpc' \in {"read", "match", "assign", "purge", "close", "uncount", "rst", "rstClose", "rstCount", "rstSet"}
    BY <1>15 DEF Sound, TypeOK, ReadUncount, Reader
  <2> QED
    BY <1>15, <2>3, <2>4 DEF Sound, TypeOK, ReadUncount, tableVars, workVars, queueVars, writeVars,
           ghostVars
<1>16. CASE RstPurge
  <2>1. /\ robj \in Objs /\ sid[robj] \in Reqs /\ map \in [Reqs -> Objs \cup {0}] /\ pool \in Seq(Objs)
    BY <1>16 DEF Sound, TypeOK, AtWork, Named, RstPurge, Reader
  <2>2. CASE map[sid[robj]] = 0
    BY <1>16, <2>2 DEF Sound, TypeOK, RstPurge, Reader, countVars, objectVars, workVars, queueVars,
       writeVars, ghostVars
  <2>3. CASE map[sid[robj]] # 0
    <3>1. /\ map' = [map EXCEPT ![sid[robj]] = 0] /\ pool' = Append(pool, map[sid[robj]])
          /\ map[sid[robj]] \in Objs
      BY <1>16, <2>1, <2>3 DEF RstPurge
    <3>2. map' \in [Reqs -> Objs \cup {0}] /\ pool' \in Seq(Objs)
      BY <2>1, <3>1, AppendAt
    <3> QED
      BY <1>16, <3>2 DEF Sound, TypeOK, RstPurge, Reader, countVars, objectVars, workVars, queueVars,
         writeVars, ghostVars
  <2> QED
    BY <2>2, <2>3
<1>17. CASE RstClose
  BY <1>0, <1>17 DEF Sound, TypeOK, Frames, Frame, Statuses, NoFrame, RstClose, Reader, tableVars,
       countVars, workVars, queueVars, writeVars, ghostVars
<1>18. CASE RstCount
  <2>1. {active', rstNum'} \subseteq 0 .. Wide - 1
    BY <1>18, PlusInRange DEF Sound, TypeOK, RstCount
  <2> QED
    BY <1>18, <2>1 DEF Sound, TypeOK, RstCount, Reader, tableVars, objectVars, workVars, queueVars,
       writeVars, ghostVars
<1>19. CASE RstSet
  BY <1>0, <1>19 DEF Sound, TypeOK, Frames, Frame, Statuses, NoFrame, RstSet, Reader, tableVars,
       countVars, workVars, queueVars, writeVars, ghostVars
<1>20. CASE WriterTake
  <2>1. control \in Seq(Reqs) /\ message \in Seq(Frames) /\ map \in [Reqs -> Objs \cup {0}]
    BY DEF Sound, TypeOK
  <2>2. control' \in Seq(Reqs) /\ message' \in Seq(Frames)
    BY <1>20, <2>1, TailAt DEF WriterTake, TakeNext
  <2>3. NextFrame \in Frames
    BY <1>20, NextIsFrame
  <2>4. map[NextFrame.id] \in Objs \cup {0}
    BY <2>1, <2>3 DEF Frames
  <2>5. /\ wpc' \in {"take", "match", "assign", "purge", "close", "uncount", "write", "refuse", "refused"}
        /\ wf' \in Frames \cup {NoFrame} /\ wobj' \in Objs \cup {0}
    BY <1>20, <2>3, <2>4 DEF Sound, TypeOK, WriterTake
  <2> QED
    BY <1>20, <2>2, <2>5 DEF Sound, TypeOK, WriterTake, tableVars, countVars, objectVars, readVars,
       workVars, ghostVars
<1>21. CASE WriterMatch
  <2>1. wobj \in Objs
    BY <1>21 DEF Sound, TypeOK, AtWork, Named, WriterMatch, Writer
  <2>2. wseen' \in Statuses
    BY <1>21, <2>1 DEF Sound, TypeOK, WriterMatch
  <2> QED
    BY <1>21, <2>2 DEF Sound, TypeOK, WriterMatch, Writer, tableVars, countVars, objectVars, readVars, workVars, queueVars, ghostVars
<1>22. CASE WriterAssign
  <2>1. wobj \in Objs /\ sid[wobj] # 0
    BY <1>22 DEF Sound, TypeOK, AtWork, Named, WriterAssign
  <2>2. st' \in [Objs -> Statuses] /\ overwritten' \in SUBSET Reqs
    <3>1. CASE \E to \in Statuses : Assign(wobj, wseen, to)
      BY <2>1, <3>1, AssignTypes DEF Sound
    <3>2. CASE UNCHANGED <<st, overwritten>>
      BY <3>2 DEF Sound, TypeOK
    <3> QED
      BY <1>22, <3>1, <3>2 DEF WriterAssign, EndOfResponse, Statuses
  <2>3. wpc' \in {"close", "purge", "refuse", "write"}
    BY <1>22 DEF WriterAssign, EndOfResponse
  <2> QED
    BY <1>22, <2>2, <2>3 DEF Sound, TypeOK, WriterAssign, tableVars, countVars, readVars, workVars, queueVars
<1>23. CASE WriterPurge
  <2>1. wobj \in Objs /\ sid[wobj] # 0
    BY <1>23 DEF Sound, TypeOK, Named, AtWork, WriterPurge, Writer
  <2>2. Purge(wobj)
    BY <1>23 DEF WriterPurge
  <2>3. map' \in [Reqs -> Objs \cup {0}] /\ pool' \in Seq(Objs) /\ counted' \in [Objs -> BOOLEAN]
    BY <2>1, <2>2, PurgeTypes DEF Sound
  <2>4. wpc' \in {"take", "match", "assign", "purge", "close", "uncount", "write", "refuse", "refused"}
    BY <1>23 DEF Sound, TypeOK, WriterPurge, Writer, PurgeThen
  <2> QED
    BY <1>23, <2>3, <2>4 DEF Sound, TypeOK, WriterPurge, countVars, readVars, workVars, queueVars,
           ghostVars
<1>24. CASE WriterClose
  <2>1. wobj \in Objs /\ sid[wobj] # 0
    BY <1>24 DEF Sound, TypeOK, Named, AtWork, WriterClose, Writer
  <2>2. Close(wobj, FALSE)
    BY <1>24 DEF WriterClose
  <2>3. st' \in [Objs -> Statuses] /\ counted' \in [Objs -> BOOLEAN] /\ due' \subseteq Reqs
    BY <2>1, <2>2, CloseTypes DEF Sound
  <2>4. wpc' \in {"take", "match", "assign", "purge", "close", "uncount", "write", "refuse", "refused"}
    BY <1>24 DEF Sound, TypeOK, WriterClose, Writer, CloseThen
  <2> QED
    BY <1>24, <2>3, <2>4 DEF Sound, TypeOK, WriterClose, tableVars, countVars, readVars, workVars,
           ghostVars
<1>25. CASE WriterUncount
  <2>1. wobj \in Objs /\ sid[wobj] # 0
    BY <1>25 DEF Sound, TypeOK, Named, AtWork, WriterUncount, Writer
  <2>2. Uncount(wobj)
    BY <1>25 DEF WriterUncount
  <2>3. isRst' \in [Objs -> BOOLEAN] /\ active' \in 0 .. Wide - 1 /\ rstNum' \in 0 .. Wide - 1
    BY <2>1, <2>2, UncountTypes DEF Sound
  <2>4. wpc' \in {"take", "match", "assign", "purge", "close", "uncount", "write", "refuse", "refused"}
    BY <1>25 DEF Sound, TypeOK, WriterUncount, Writer
  <2> QED
    BY <1>25, <2>3, <2>4 DEF Sound, TypeOK, WriterUncount, tableVars, readVars, workVars, queueVars,
           ghostVars
<1>26. CASE WriterWrite
  <2>1. wf \in Frames /\ wf.id \in Reqs /\ wire[wf.id] \in Seq(Frames)
    BY <1>26 DEF Sound, TypeOK, AtWork, WriterWrite, Writer, Frames
  <2>2. Append(wire[wf.id], wf) \in Seq(Frames)
    BY <2>1, AppendAt
  <2>3. wire' \in [Reqs -> Seq(Frames)]
    BY <1>26, <2>1, <2>2 DEF Sound, TypeOK, WriterWrite
  <2>4. wpc' = "take" /\ wf' = NoFrame /\ wobj' = 0 /\ wseen' \in Statuses
    BY <1>26 DEF WriterWrite, Writer, WriterDone, Statuses
  <2> QED
    BY <1>26, <2>3, <2>4 DEF Sound, TypeOK, WriterWrite, queueVars, tableVars, countVars, objectVars,
       readVars, workVars, ghostVars
<1>27. CASE WriterRefuse
  <2>1. wobj \in Objs /\ sid[wobj] # 0
    BY <1>27 DEF Sound, TypeOK, Named, AtWork, WriterRefuse, Writer
  <2>2. Close(wobj, FALSE)
    BY <1>27 DEF WriterRefuse
  <2>3. st' \in [Objs -> Statuses] /\ counted' \in [Objs -> BOOLEAN] /\ due' \subseteq Reqs
    BY <2>1, <2>2, CloseTypes DEF Sound
  <2>4. wpc' \in {"take", "match", "assign", "purge", "close", "uncount", "write", "refuse", "refused"} /\ wf' \in Frames \cup {NoFrame} /\ wobj' \in Objs \cup {0} /\ wseen' \in Statuses
    BY <1>27 DEF Sound, TypeOK, WriterRefuse, Writer, WriterDone, CloseThen, Statuses
  <2> QED
    BY <1>27, <2>3, <2>4 DEF Sound, TypeOK, WriterRefuse, tableVars, countVars, readVars, workVars,
           ghostVars
<1>28. CASE WriterRefused
  <2>1. wobj \in Objs /\ sid[wobj] # 0
    BY <1>28 DEF Sound, TypeOK, Named, AtWork, WriterRefused, Writer
  <2>2. Uncount(wobj)
    BY <1>28 DEF WriterRefused
  <2>3. isRst' \in [Objs -> BOOLEAN] /\ active' \in 0 .. Wide - 1 /\ rstNum' \in 0 .. Wide - 1
    BY <2>1, <2>2, UncountTypes DEF Sound
  <2>4. wpc' \in {"take", "match", "assign", "purge", "close", "uncount", "write", "refuse", "refused"} /\ wf' \in Frames \cup {NoFrame} /\ wobj' \in Objs \cup {0} /\ wseen' \in Statuses
    BY <1>28 DEF Sound, TypeOK, WriterRefused, Writer, WriterDone, Statuses
  <2> QED
    BY <1>28, <2>3, <2>4 DEF Sound, TypeOK, WriterRefused, tableVars, readVars, workVars, queueVars,
           ghostVars
<1>29. CASE SendReset
  <2>1. due' \subseteq Reqs /\ control' \in Seq(Reqs)
    BY <1>29, AppendAt DEF Sound, TypeOK, SendReset
  <2> QED
    BY <1>29, <2>1 DEF Sound, TypeOK, SendReset, tableVars, countVars, objectVars, readVars, workVars,
       writeVars, ghostVars
<1>30. CASE UNCHANGED vars
  BY <1>0, <1>30 DEF Sound, TypeOK, Frames, Frame, Statuses, NoFrame, vars, tableVars, countVars,
       objectVars, readVars, workVars, queueVars, writeVars, ghostVars
<1> QED
  BY <1>1, <1>2, <1>3, <1>4, <1>5, <1>6, <1>7, <1>8, <1>9, <1>10, <1>11, <1>12, <1>13,
        <1>14, <1>15, <1>16, <1>17, <1>18, <1>19, <1>20, <1>21, <1>22, <1>23, <1>24, <1>25, <1>26,
        <1>27, <1>28, <1>29, <1>30
     DEF Next, Reading, Handling, Timing, Writing

\* Every step keeps what is known of the requests and their objects.
LEMMA StepArrived == Sound /\ [Next]_vars => Arrived'
<1> SUFFICES ASSUME Sound, [Next]_vars PROVE Arrived'
  OBVIOUS
<1>0. MaxReqs \in Nat \ {0}
  BY ServerAssumption
<1>1. ASSUME NEW r \in Reqs, ReadHeaders(r) PROVE Arrived'
  <2>1. /\ sent \in [Reqs -> {"nothing", "headers", "end", "rst"}] /\ made \in 0 .. MaxReqs
        /\ sid \in [Objs -> Reqs \cup {0}] /\ map \in [Reqs -> Objs \cup {0}]
        /\ obj \in [Reqs -> Objs \cup {0}] /\ New \in Objs
    BY <1>1, NewObject DEF Sound, TypeOK
  <2>2. sent'[r] # "nothing" /\ \A q \in Reqs : q # r => sent'[q] = sent[q]
    BY <1>1, <2>1, NewObject
  <2>3. \A p, q \in Reqs : q < p /\ sent'[p] # "nothing" => sent'[q] # "nothing"
    BY <1>1, <2>2, NewObject DEF Sound, Arrived
  <2>4. made' # 0 => sent'[made'] # "nothing"
    BY <1>0, <1>1, <2>1, <2>2, NewObject DEF Sound, Arrived, Reqs, Objs
  <2>5. \A o \in Objs : o > made' => sid'[o] = 0
    BY <1>0, <1>1, <2>1, NewObject DEF Sound, Arrived, Objs
  <2>6. \A o \in Objs : sid'[o] # 0 => sent'[sid'[o]] # "nothing"
    BY <1>1, <2>1, <2>2, NewObject DEF Sound, Arrived
  <2>7. ASSUME NEW q \in Reqs
        PROVE  IF sent'[q] = "nothing"
               THEN obj'[q] = 0 /\ map'[q] = 0 /\ hpc'[q] = "none" /\ tpc'[q] = "off"
               ELSE Named(obj[q])' /\ (map'[q] # 0 => Named(map[q])')
    <3>1. CASE q = r
      <4>1. obj'[q] = New /\ map'[q] = New /\ sid'[New] = r
        BY <1>1, <2>1, <3>1, NewObject
      <4> QED
        BY <2>1, <2>2, <3>1, <4>1 DEF Named, Reqs, Objs
    <3>2. CASE q # r
      <4>0. hpc \in [Reqs -> {"none", "queued", "head", "last", "close", "uncount", "done"}]
        BY DEF Sound, TypeOK
      <4>1. obj'[q] = obj[q] /\ map'[q] = map[q] /\ hpc'[q] = hpc[q] /\ tpc'[q] = tpc[q]
        <5>1. /\ map' = [map EXCEPT ![r] = New] /\ obj' = [obj EXCEPT ![r] = New]
              /\ tpc' = tpc /\ hpc' \in {hpc, [hpc EXCEPT ![r] = "queued"]}
          BY <1>1, NewObject
        <5> QED
          BY <2>1, <3>2, <4>0, <5>1
      <4>2. \A o \in Objs : sid[o] # 0 => sid'[o] # 0
        BY <1>1, <2>1, NewObject DEF Reqs
      <4> QED
        BY <2>1, <2>2, <3>2, <4>1, <4>2 DEF Sound, Arrived, Named
    <3> QED
      BY <3>1, <3>2
  <2> QED
    BY <2>3, <2>4, <2>5, <2>6, <2>7 DEF Arrived, Named
<1>2. ASSUME NEW r \in Reqs, ReadFrame(r) PROVE Arrived'
  <2>1. /\ sent \in [Reqs -> {"nothing", "headers", "end", "rst"}] /\ sid \in [Objs -> Reqs \cup {0}]
        /\ made \in 0 .. MaxReqs
    BY DEF Sound, TypeOK
  <2>2. sent[r] # "nothing" /\ \E to \in {"end", "rst"} : sent' = [sent EXCEPT ![r] = to]
    BY <1>2 DEF ReadFrame
  <2>3. \A q \in Reqs : sent'[q] = "nothing" <=> sent[q] = "nothing"
    BY <2>1, <2>2
  <2>4. UNCHANGED <<made, sid, obj, map, hpc, tpc>>
    BY <1>2 DEF ReadFrame, tableVars, objectVars, workVars
  <2>5. made # 0 => made \in Reqs
    BY <1>0, <2>1 DEF Reqs
  <2> QED
    BY <2>1, <2>3, <2>4, <2>5 DEF Sound, Arrived, Named
<1>3. ASSUME NEW r \in Reqs, HandlerStart(r) PROVE Arrived'
  BY <1>0, <1>3 DEF Sound, TypeOK, Arrived, AtWork, Named, Reqs, Objs, HandlerStart, Handler,
       tableVars, countVars, objectVars, readVars, queueVars, writeVars, ghostVars
<1>4. ASSUME NEW r \in Reqs, HandlerHead(r) PROVE Arrived'
  BY <1>0, <1>4 DEF Sound, TypeOK, Arrived, AtWork, Named, Reqs, Objs, HandlerHead, Handler, Frame,
       tableVars, countVars, objectVars, readVars, writeVars, ghostVars
<1>5. ASSUME NEW r \in Reqs, HandlerLast(r) PROVE Arrived'
  BY <1>0, <1>5 DEF Sound, TypeOK, Arrived, AtWork, Named, Reqs, Objs, HandlerLast, Handler, Frame,
       tableVars, countVars, objectVars, readVars, writeVars, ghostVars
<1>6. ASSUME NEW r \in Reqs, HandlerClose(r) PROVE Arrived'
  BY <1>0, <1>6 DEF Sound, TypeOK, Arrived, AtWork, Named, Reqs, Objs, HandlerClose, Handler, Close,
       CloseThen, tableVars, countVars, readVars, writeVars, ghostVars
<1>7. ASSUME NEW r \in Reqs, HandlerUncount(r) PROVE Arrived'
  BY <1>0, <1>7 DEF Sound, TypeOK, Arrived, AtWork, Named, Reqs, Objs, HandlerUncount, Handler,
       Uncount, Plus, tableVars, readVars, queueVars, writeVars, ghostVars
<1>8. ASSUME NEW r \in Reqs, TimerFires(r) PROVE Arrived'
  BY <1>0, <1>8 DEF Sound, TypeOK, Arrived, AtWork, Named, Reqs, Objs, TimerFires, Timer, tableVars,
       countVars, objectVars, readVars, queueVars, writeVars, ghostVars
<1>9. ASSUME NEW r \in Reqs, TimerClose(r) PROVE Arrived'
  BY <1>0, <1>9 DEF Sound, TypeOK, Arrived, AtWork, Named, Reqs, Objs, TimerClose, Timer, Close,
       CloseThen, tableVars, countVars, readVars, writeVars, ghostVars
<1>10. ASSUME NEW r \in Reqs, TimerUncount(r) PROVE Arrived'
  BY <1>0, <1>10 DEF Sound, TypeOK, Arrived, AtWork, Named, Reqs, Objs, TimerUncount, Timer,
       Uncount, Plus, tableVars, readVars, queueVars, writeVars, ghostVars
<1>11. CASE ReadMatch
  BY <1>0, <1>11 DEF Sound, TypeOK, Arrived, AtWork, Named, Reqs, Objs, ReadMatch, Reader,
       tableVars, countVars, objectVars, workVars, queueVars, writeVars, ghostVars
<1>12. CASE ReadAssign
  BY <1>0, <1>12 DEF Sound, TypeOK, Arrived, AtWork, Named, Reqs, Objs, ReadAssign, Assign,
       tableVars, countVars, workVars, queueVars, writeVars
<1>13. CASE ReadPurge
  BY <1>0, <1>13 DEF Sound, TypeOK, Arrived, AtWork, Named, Reqs, Objs, ReadPurge, Reader, Purge,
       PurgeThen, countVars, workVars, queueVars, writeVars, ghostVars
<1>14. CASE ReadClose
  BY <1>0, <1>14 DEF Sound, TypeOK, Arrived, AtWork, Named, Reqs, Objs, ReadClose, Reader, Close,
       CloseThen, tableVars, countVars, workVars, writeVars, ghostVars
<1>15. CASE ReadUncount
  BY <1>0, <1>15 DEF Sound, TypeOK, Arrived, AtWork, Named, Reqs, Objs, ReadUncount, Reader,
       Uncount, Plus, tableVars, workVars, queueVars, writeVars, ghostVars
<1>16. CASE RstPurge
  BY <1>0, <1>16 DEF Sound, TypeOK, Arrived, AtWork, Named, Reqs, Objs, RstPurge, Reader, countVars,
       objectVars, workVars, queueVars, writeVars, ghostVars
<1>17. CASE RstClose
  BY <1>0, <1>17 DEF Sound, TypeOK, Arrived, AtWork, Named, Reqs, Objs, RstClose, Reader, tableVars,
       countVars, workVars, queueVars, writeVars, ghostVars
<1>18. CASE RstCount
  BY <1>0, <1>18 DEF Sound, TypeOK, Arrived, AtWork, Named, Reqs, Objs, RstCount, Reader, Plus,
       tableVars, objectVars, workVars, queueVars, writeVars, ghostVars
<1>19. CASE RstSet
  BY <1>0, <1>19 DEF Sound, TypeOK, Arrived, AtWork, Named, Reqs, Objs, RstSet, Reader, tableVars,
       countVars, workVars, queueVars, writeVars, ghostVars
<1>20. CASE WriterTake
  BY <1>0, <1>20 DEF Sound, TypeOK, Arrived, AtWork, Named, Reqs, Objs, WriterTake, TakeNext,
       NextFrame, Frame, Dropped, tableVars, countVars, objectVars, readVars, workVars, ghostVars
<1>21. CASE WriterMatch
  BY <1>0, <1>21 DEF Sound, TypeOK, Arrived, AtWork, Named, Reqs, Objs, WriterMatch, Writer,
       tableVars, countVars, objectVars, readVars, workVars, queueVars, ghostVars
<1>22. CASE WriterAssign
  BY <1>0, <1>22 DEF Sound, TypeOK, Arrived, AtWork, Named, Reqs, Objs, WriterAssign, EndOfResponse,
       Assign, tableVars, countVars, readVars, workVars, queueVars
<1>23. CASE WriterPurge
  BY <1>0, <1>23 DEF Sound, TypeOK, Arrived, AtWork, Named, Reqs, Objs, WriterPurge, Writer, Purge,
       PurgeThen, countVars, readVars, workVars, queueVars, ghostVars
<1>24. CASE WriterClose
  BY <1>0, <1>24 DEF Sound, TypeOK, Arrived, AtWork, Named, Reqs, Objs, WriterClose, Writer, Close,
       CloseThen, tableVars, countVars, readVars, workVars, ghostVars
<1>25. CASE WriterUncount
  BY <1>0, <1>25 DEF Sound, TypeOK, Arrived, AtWork, Named, Reqs, Objs, WriterUncount, Writer,
       Uncount, Plus, tableVars, readVars, workVars, queueVars, ghostVars
<1>26. CASE WriterWrite
  BY <1>0, <1>26 DEF Sound, TypeOK, Arrived, AtWork, Named, Reqs, Objs, WriterWrite, Writer,
       WriterDone, NoFrame, Frame, tableVars, countVars, objectVars, readVars, workVars, queueVars,
       ghostVars
<1>27. CASE WriterRefuse
  BY <1>0, <1>27 DEF Sound, TypeOK, Arrived, AtWork, Named, Reqs, Objs, WriterRefuse, Writer,
       WriterDone, NoFrame, Frame, Close, CloseThen, tableVars, countVars, readVars, workVars,
       ghostVars
<1>28. CASE WriterRefused
  BY <1>0, <1>28 DEF Sound, TypeOK, Arrived, AtWork, Named, Reqs, Objs, WriterRefused, Writer,
       WriterDone, NoFrame, Frame, Uncount, Plus, tableVars, readVars, workVars, queueVars,
       ghostVars
<1>29. CASE SendReset
  BY <1>0, <1>29 DEF Sound, TypeOK, Arrived, AtWork, Named, Reqs, Objs, SendReset, tableVars,
       countVars, objectVars, readVars, workVars, writeVars, ghostVars
<1>30. CASE UNCHANGED vars
  BY <1>0, <1>30 DEF Sound, TypeOK, Arrived, AtWork, Named, Reqs, Objs, vars, tableVars, countVars,
       objectVars, readVars, workVars, queueVars, writeVars, ghostVars
<1> QED
  BY <1>1, <1>2, <1>3, <1>4, <1>5, <1>6, <1>7, <1>8, <1>9, <1>10, <1>11, <1>12, <1>13,
        <1>14, <1>15, <1>16, <1>17, <1>18, <1>19, <1>20, <1>21, <1>22, <1>23, <1>24, <1>25, <1>26,
        <1>27, <1>28, <1>29, <1>30
     DEF Next, Reading, Handling, Timing, Writing

\* A thread that starts to work on a stream has an object with a name.
LEMMA StepAtWork == Sound /\ [Next]_vars => AtWork'
<1> SUFFICES ASSUME Sound, [Next]_vars PROVE AtWork'
  OBVIOUS
<1>1. ASSUME NEW r \in Reqs, ReadHeaders(r) PROVE AtWork'
  <2>1. sid \in [Objs -> Reqs \cup {0}] /\ pool \in Seq(Objs) /\ New \in Objs
    BY <1>1, NewObject DEF Sound, TypeOK
  <2>2. \A o : Named(o) /\ o \in Objs => Named(o)'
    BY <1>1, <2>1, NewObject DEF Named, Reqs
  <2>3. ASSUME NEW i \in DOMAIN pool' PROVE sid'[pool'[i]] # 0
    <3>1. \E j \in DOMAIN pool : pool'[i] = pool[j]
      BY <1>1, PoolWithoutNew
    <3>2. \A j \in DOMAIN pool : pool[j] \in Objs
      BY <2>1
    <3> QED
      BY <1>1, <2>1, <3>1, <3>2, NewObject DEF Sound, AtWork, Reqs
  <2>4. wpc' # "take" => Named(wobj)' /\ wf' \in Frames
    BY <1>1, <2>2 DEF Sound, TypeOK, AtWork, ReadHeaders, writeVars, Named
  <2> QED
    BY <1>1, <2>3, <2>4, NewObject DEF AtWork
<1>2. ASSUME NEW r \in Reqs, ReadFrame(r) PROVE AtWork'
  BY <1>2 DEF Sound, TypeOK, Arrived, AtWork, Named, ReadFrame, tableVars, countVars, objectVars,
       workVars, queueVars, writeVars, ghostVars
<1>3. ASSUME NEW r \in Reqs, HandlerStart(r) PROVE AtWork'
  BY <1>3 DEF Sound, TypeOK, Arrived, AtWork, Named, HandlerStart, Handler, tableVars, countVars,
       objectVars, readVars, queueVars, writeVars, ghostVars
<1>4. ASSUME NEW r \in Reqs, HandlerHead(r) PROVE AtWork'
  BY <1>4 DEF Sound, TypeOK, Arrived, AtWork, Named, HandlerHead, Handler, Frame, tableVars,
       countVars, objectVars, readVars, writeVars, ghostVars
<1>5. ASSUME NEW r \in Reqs, HandlerLast(r) PROVE AtWork'
  BY <1>5 DEF Sound, TypeOK, Arrived, AtWork, Named, HandlerLast, Handler, Frame, tableVars,
       countVars, objectVars, readVars, writeVars, ghostVars
<1>6. ASSUME NEW r \in Reqs, HandlerClose(r) PROVE AtWork'
  BY <1>6 DEF Sound, TypeOK, Arrived, AtWork, Named, HandlerClose, Handler, Close, CloseThen,
       tableVars, countVars, readVars, writeVars, ghostVars
<1>7. ASSUME NEW r \in Reqs, HandlerUncount(r) PROVE AtWork'
  BY <1>7 DEF Sound, TypeOK, Arrived, AtWork, Named, HandlerUncount, Handler, Uncount, Plus,
       tableVars, readVars, queueVars, writeVars, ghostVars
<1>8. ASSUME NEW r \in Reqs, TimerFires(r) PROVE AtWork'
  BY <1>8 DEF Sound, TypeOK, Arrived, AtWork, Named, TimerFires, Timer, tableVars, countVars,
       objectVars, readVars, queueVars, writeVars, ghostVars
<1>9. ASSUME NEW r \in Reqs, TimerClose(r) PROVE AtWork'
  BY <1>9 DEF Sound, TypeOK, Arrived, AtWork, Named, TimerClose, Timer, Close, CloseThen, tableVars,
       countVars, readVars, writeVars, ghostVars
<1>10. ASSUME NEW r \in Reqs, TimerUncount(r) PROVE AtWork'
  BY <1>10 DEF Sound, TypeOK, Arrived, AtWork, Named, TimerUncount, Timer, Uncount, Plus, tableVars,
       readVars, queueVars, writeVars, ghostVars
<1>11. CASE ReadMatch
  BY <1>11 DEF Sound, TypeOK, Arrived, AtWork, Named, ReadMatch, Reader, tableVars, countVars,
       objectVars, workVars, queueVars, writeVars, ghostVars
<1>12. CASE ReadAssign
  BY <1>12 DEF Sound, TypeOK, Arrived, AtWork, Named, ReadAssign, Assign, tableVars, countVars,
       workVars, queueVars, writeVars
<1>13. CASE ReadPurge
  <2>1. /\ robj \in Objs /\ sid[robj] \in Reqs /\ sid[robj] # 0 /\ pool \in Seq(Objs)
        /\ map \in [Reqs -> Objs \cup {0}]
    BY <1>13 DEF Sound, TypeOK, AtWork, Named, ReadPurge, Reader
  <2>2. UNCHANGED <<sid, robj, wobj, wf>>
    BY <1>13 DEF ReadPurge, objectVars, writeVars, readVars
  <2>3. \A i \in DOMAIN pool' : sid[pool'[i]] # 0
    <3>1. CASE map[sid[robj]] = 0
      BY <1>13, <3>1 DEF Sound, AtWork, ReadPurge, Purge
    <3>2. CASE map[sid[robj]] # 0
      <4>1. pool' = Append(pool, map[sid[robj]]) /\ map[sid[robj]] \in Objs
        BY <1>13, <2>1, <3>2 DEF ReadPurge, Purge
      <4>2. sid[map[sid[robj]]] # 0
        BY <2>1, <3>2 DEF Sound, Arrived, Named
      <4> DEFINE q == pool'
      <4>3. \A i \in DOMAIN q : q[i] = map[sid[robj]] \/ \E j \in DOMAIN pool : q[i] = pool[j]
        <5>1. /\ Len(pool) \in Nat /\ DOMAIN pool = 1 .. Len(pool) /\ DOMAIN q = 1 .. Len(pool) + 1
              /\ \A i \in DOMAIN pool : q[i] = pool[i]
              /\ q[Len(pool) + 1] = map[sid[robj]]
          BY <2>1, <4>1, AppendAt
        <5> HIDE DEF q
        <5> QED
          BY <5>1
      <4> QED
        BY <4>2, <4>3 DEF Sound, AtWork
    <3> QED
      BY <3>1, <3>2
  <2>4. /\ rpc' # "read" => Named(robj)
        /\ wpc' # "take" => Named(wobj) /\ wf \in Frames
    BY <1>13 DEF Sound, AtWork, ReadPurge, Reader, writeVars, readVars
  <2> QED
    BY <2>2, <2>3, <2>4 DEF AtWork, Named
<1>14. CASE ReadClose
  BY <1>14 DEF Sound, TypeOK, Arrived, AtWork, Named, ReadClose, Reader, Close, CloseThen,
       tableVars, countVars, workVars, writeVars, ghostVars
<1>15. CASE ReadUncount
  BY <1>15 DEF Sound, TypeOK, Arrived, AtWork, Named, ReadUncount, Reader, Uncount, Plus, tableVars,
       workVars, queueVars, writeVars, ghostVars
<1>16. CASE RstPurge
  <2>1. /\ robj \in Objs /\ sid[robj] \in Reqs /\ sid[robj] # 0 /\ pool \in Seq(Objs)
        /\ map \in [Reqs -> Objs \cup {0}]
    BY <1>16 DEF Sound, TypeOK, AtWork, Named, RstPurge, Reader
  <2>2. UNCHANGED <<sid, robj, wobj, wf>>
    BY <1>16 DEF RstPurge, objectVars, writeVars, readVars
  <2>3. \A i \in DOMAIN pool' : sid[pool'[i]] # 0
    <3>1. CASE map[sid[robj]] = 0
      BY <1>16, <3>1 DEF Sound, AtWork, RstPurge
    <3>2. CASE map[sid[robj]] # 0
      <4>1. pool' = Append(pool, map[sid[robj]]) /\ map[sid[robj]] \in Objs
        BY <1>16, <2>1, <3>2 DEF RstPurge
      <4>2. sid[map[sid[robj]]] # 0
        BY <2>1, <3>2 DEF Sound, Arrived, Named
      <4> DEFINE q == pool'
      <4>3. \A i \in DOMAIN q : q[i] = map[sid[robj]] \/ \E j \in DOMAIN pool : q[i] = pool[j]
        <5>1. /\ Len(pool) \in Nat /\ DOMAIN pool = 1 .. Len(pool) /\ DOMAIN q = 1 .. Len(pool) + 1
              /\ \A i \in DOMAIN pool : q[i] = pool[i]
              /\ q[Len(pool) + 1] = map[sid[robj]]
          BY <2>1, <4>1, AppendAt
        <5> HIDE DEF q
        <5> QED
          BY <5>1
      <4> QED
        BY <4>2, <4>3 DEF Sound, AtWork
    <3> QED
      BY <3>1, <3>2
  <2>4. /\ rpc' # "read" => Named(robj)
        /\ wpc' # "take" => Named(wobj) /\ wf \in Frames
    BY <1>16 DEF Sound, AtWork, RstPurge, Reader, writeVars, readVars
  <2> QED
    BY <2>2, <2>3, <2>4 DEF AtWork, Named
<1>17. CASE RstClose
  BY <1>17 DEF Sound, TypeOK, Arrived, AtWork, Named, RstClose, Reader, tableVars, countVars,
       workVars, queueVars, writeVars, ghostVars
<1>18. CASE RstCount
  BY <1>18 DEF Sound, TypeOK, Arrived, AtWork, Named, RstCount, Reader, Plus, tableVars, objectVars,
       workVars, queueVars, writeVars, ghostVars
<1>19. CASE RstSet
  BY <1>19 DEF Sound, TypeOK, Arrived, AtWork, Named, RstSet, Reader, tableVars, countVars,
       workVars, queueVars, writeVars, ghostVars
<1>20. CASE WriterTake
  <2>1. control \in Seq(Reqs) /\ message \in Seq(Frames)
    BY DEF Sound, TypeOK
  <2>2. NextFrame \in Frames
    BY <1>20, NextIsFrame
  <2>3. wpc' # "take" => map[NextFrame.id] # 0 /\ wf' = NextFrame /\ wobj' = map[NextFrame.id]
    BY <1>20 DEF Sound, AtWork, WriterTake, Dropped
  <2>4. NextFrame.id \in Reqs
    BY <2>2 DEF Frames
  <2>5. wpc' # "take" => Named(wobj)' /\ wf' \in Frames
    BY <1>20, <2>2, <2>3, <2>4 DEF Sound, Arrived, Named, WriterTake, objectVars
  <2> QED
    BY <1>20, <2>5 DEF Sound, AtWork, WriterTake, tableVars, objectVars, readVars, Named
<1>21. CASE WriterMatch
  BY <1>21 DEF Sound, TypeOK, Arrived, AtWork, Named, WriterMatch, Writer, tableVars, countVars,
       objectVars, readVars, workVars, queueVars, ghostVars
<1>22. CASE WriterAssign
  BY <1>22 DEF Sound, TypeOK, Arrived, AtWork, Named, WriterAssign, EndOfResponse, Assign,
       tableVars, countVars, readVars, workVars, queueVars
<1>23. CASE WriterPurge
  <2>1. /\ wobj \in Objs /\ sid[wobj] \in Reqs /\ sid[wobj] # 0 /\ pool \in Seq(Objs)
        /\ map \in [Reqs -> Objs \cup {0}]
    BY <1>23 DEF Sound, TypeOK, AtWork, Named, WriterPurge, Writer
  <2>2. UNCHANGED <<sid, robj, wobj, wf>>
    BY <1>23 DEF WriterPurge, objectVars, writeVars, readVars
  <2>3. \A i \in DOMAIN pool' : sid[pool'[i]] # 0
    <3>1. CASE map[sid[wobj]] = 0
      BY <1>23, <3>1 DEF Sound, AtWork, WriterPurge, Purge
    <3>2. CASE map[sid[wobj]] # 0
      <4>1. pool' = Append(pool, map[sid[wobj]]) /\ map[sid[wobj]] \in Objs
        BY <1>23, <2>1, <3>2 DEF WriterPurge, Purge
      <4>2. sid[map[sid[wobj]]] # 0
        BY <2>1, <3>2 DEF Sound, Arrived, Named
      <4> DEFINE q == pool'
      <4>3. \A i \in DOMAIN q : q[i] = map[sid[wobj]] \/ \E j \in DOMAIN pool : q[i] = pool[j]
        <5>1. /\ Len(pool) \in Nat /\ DOMAIN pool = 1 .. Len(pool) /\ DOMAIN q = 1 .. Len(pool) + 1
              /\ \A i \in DOMAIN pool : q[i] = pool[i]
              /\ q[Len(pool) + 1] = map[sid[wobj]]
          BY <2>1, <4>1, AppendAt
        <5> HIDE DEF q
        <5> QED
          BY <5>1
      <4> QED
        BY <4>2, <4>3 DEF Sound, AtWork
    <3> QED
      BY <3>1, <3>2
  <2>4. /\ rpc' # "read" => Named(robj)
        /\ wpc' # "take" => Named(wobj) /\ wf \in Frames
    BY <1>23 DEF Sound, AtWork, WriterPurge, Writer, writeVars, readVars
  <2> QED
    BY <2>2, <2>3, <2>4 DEF AtWork, Named
<1>24. CASE WriterClose
  BY <1>24 DEF Sound, TypeOK, Arrived, AtWork, Named, WriterClose, Writer, Close, CloseThen,
       tableVars, countVars, readVars, workVars, ghostVars
<1>25. CASE WriterUncount
  BY <1>25 DEF Sound, TypeOK, Arrived, AtWork, Named, WriterUncount, Writer, Uncount, Plus,
       tableVars, readVars, workVars, queueVars, ghostVars
<1>26. CASE WriterWrite
  BY <1>26 DEF Sound, TypeOK, Arrived, AtWork, Named, WriterWrite, Writer, WriterDone, NoFrame,
       Frame, tableVars, countVars, objectVars, readVars, workVars, queueVars, ghostVars
<1>27. CASE WriterRefuse
  BY <1>27 DEF Sound, TypeOK, Arrived, AtWork, Named, WriterRefuse, Writer, WriterDone, NoFrame,
       Frame, Close, CloseThen, tableVars, countVars, readVars, workVars, ghostVars
<1>28. CASE WriterRefused
  BY <1>28 DEF Sound, TypeOK, Arrived, AtWork, Named, WriterRefused, Writer, WriterDone, NoFrame,
       Frame, Uncount, Plus, tableVars, readVars, workVars, queueVars, ghostVars
<1>29. CASE SendReset
  BY <1>29 DEF Sound, TypeOK, Arrived, AtWork, Named, SendReset, tableVars, countVars, objectVars,
       readVars, workVars, writeVars, ghostVars
<1>30. CASE UNCHANGED vars
  BY <1>30 DEF Sound, TypeOK, Arrived, AtWork, Named, vars, tableVars, countVars, objectVars,
       readVars, workVars, queueVars, writeVars, ghostVars
<1> QED
  BY <1>1, <1>2, <1>3, <1>4, <1>5, <1>6, <1>7, <1>8, <1>9, <1>10, <1>11, <1>12, <1>13,
        <1>14, <1>15, <1>16, <1>17, <1>18, <1>19, <1>20, <1>21, <1>22, <1>23, <1>24, <1>25, <1>26,
        <1>27, <1>28, <1>29, <1>30
     DEF Next, Reading, Handling, Timing, Writing


\* What a purge of an object does to the map and the pool.
TakenOut(o) ==
  IF map[sid[o]] = 0 THEN UNCHANGED <<map, pool>>
  ELSE map' = [map EXCEPT ![sid[o]] = 0] /\ pool' = Append(pool, map[sid[o]])

\* A purge keeps objects and names linked.
LEMMA TakenOutLinked ==
  ASSUME Sound, Linked, NEW o \in Objs, sid[o] # 0, TakenOut(o), UNCHANGED <<sid, obj>>
  PROVE  Linked'
<1>1. /\ sid \in [Objs -> Reqs \cup {0}] /\ map \in [Reqs -> Objs \cup {0}] /\ pool \in Seq(Objs)
      /\ sid[o] \in Reqs /\ 0 \notin Objs /\ 0 \notin Reqs
  BY ZeroIsNone DEF Sound, TypeOK
<1>2. CASE map[sid[o]] = 0
  BY <1>2 DEF TakenOut, Linked
<1>3. CASE map[sid[o]] # 0
  <2>1. map[sid[o]] = o
    BY <1>1, <1>3 DEF Linked
  <2>2. map' = [map EXCEPT ![sid[o]] = 0] /\ pool' = Append(pool, o)
    BY <1>3, <2>1 DEF TakenOut
  <2> DEFINE p == pool'
  <2>3. /\ Len(pool) \in Nat /\ DOMAIN pool = 1 .. Len(pool) /\ DOMAIN p = 1 .. Len(pool) + 1
        /\ \A i \in DOMAIN pool : p[i] = pool[i]
        /\ p[Len(pool) + 1] = o
    BY <1>1, <2>2, AppendAt
  <2> HIDE DEF p
  <2>4. \A i \in DOMAIN p : i \in DOMAIN pool \/ (i = Len(pool) + 1 /\ i \notin DOMAIN pool)
    BY <2>3
  <2>5. \A i \in DOMAIN pool : pool[i] # o
    BY <1>3 DEF Linked
  <2>6. \A i, j \in DOMAIN p : p[i] = p[j] => i = j
    BY <2>3, <2>4, <2>5 DEF Linked
  <2>7. \A i \in DOMAIN p : map'[sid[p[i]]] = 0
    <3> SUFFICES ASSUME NEW i \in DOMAIN p PROVE map'[sid[p[i]]] = 0
      OBVIOUS
    <3>1. CASE i \in DOMAIN pool
      <4>1. p[i] \in Objs /\ p[i] = pool[i] /\ map[sid[pool[i]]] = 0 /\ sid[pool[i]] # 0
        BY <1>1, <2>3, <3>1 DEF Linked, Sound, AtWork
      <4> QED
        BY <1>1, <2>2, <4>1
    <3>2. CASE i = Len(pool) + 1
      BY <1>1, <2>2, <2>3, <3>2
    <3> QED
      BY <2>4, <3>1, <3>2
  <2>8. \A r \in Reqs : map'[r] # 0 => sid[map'[r]] = r
    BY <1>1, <2>2 DEF Linked
  <2> QED
    BY <2>6, <2>7, <2>8 DEF Linked, p
<1> QED
  BY <1>2, <1>3

\* The map, the pool and the objects stay linked.
LEMMA StepLinked == Sound /\ Linked /\ [Next]_vars => Linked'
<1> SUFFICES ASSUME Sound /\ Linked, [Next]_vars PROVE Linked'
  OBVIOUS
<1>1. ASSUME NEW r \in Reqs, ReadHeaders(r) PROVE Linked'
  <2>1. /\ sid \in [Objs -> Reqs \cup {0}] /\ map \in [Reqs -> Objs \cup {0}]
        /\ obj \in [Reqs -> Objs \cup {0}] /\ pool \in Seq(Objs) /\ New \in Objs /\ 0 \notin Reqs /\ 0 \notin Objs
    BY <1>1, NewObject, ZeroIsNone DEF Sound, TypeOK
  <2>2. /\ map' = [map EXCEPT ![r] = New] /\ obj' = [obj EXCEPT ![r] = New]
        /\ sid' = [sid EXCEPT ![New] = r]
    BY <1>1, NewObject
  <2>3. \A o \in Objs : sid[o] # r
    BY <1>1, <2>1, NewObject DEF Sound, Arrived
  <2>4. \A o \in Objs : sid'[o] # 0 => obj'[sid'[o]] = o
    BY <2>1, <2>2, <2>3 DEF Linked
  <2>5. ASSUME NEW q \in Reqs, q # r, map[q] # 0 PROVE map[q] # New
    <3>1. sid[map[q]] = q
      BY <2>5 DEF Linked
    <3>2. sid[New] # 0 => pool # << >> /\ New = pool[1]
      BY <1>1, NewObject
    <3>3. pool # << >> => 1 \in DOMAIN pool
      BY <2>1, TailAt
    <3> QED
      BY <2>1, <2>5, <3>1, <3>2, <3>3 DEF Linked
  <2>6. \A q \in Reqs : map'[q] # 0 => sid'[map'[q]] = q
    BY <2>1, <2>2, <2>5 DEF Linked
  <2>7. \A i \in DOMAIN pool' : i + 1 \in DOMAIN pool /\ pool'[i] = pool[i + 1]
    BY <1>1, PoolWithoutNew
  <2>8. DOMAIN pool = 1 .. Len(pool) /\ Len(pool) \in Nat /\ \A i \in DOMAIN pool : pool[i] \in Objs
    BY <2>1
  <2>9. \A i \in DOMAIN pool' : i \in Int
    <3>1. pool' \in Seq(Objs)
      BY <1>1, PoolWithoutNew
    <3> QED
      BY <3>1
  <2>10. \A i, j \in DOMAIN pool' : pool'[i] = pool'[j] => i = j
    <3> SUFFICES ASSUME NEW i \in DOMAIN pool', NEW j \in DOMAIN pool', pool'[i] = pool'[j] PROVE i = j
      OBVIOUS
    <3>1. i + 1 = j + 1
      BY <2>7 DEF Linked
    <3> QED
      BY <2>9, <3>1
  <2>11. ASSUME NEW i \in DOMAIN pool' PROVE pool'[i] # New
    <3>1. i + 1 # 1 /\ i + 1 \in DOMAIN pool
      BY <2>7, <2>8, <2>11
    <3>2. pool # << >> /\ 1 \in DOMAIN pool
      BY <2>8, <3>1
    <3>3. New = pool[1]
      BY <1>1, <3>2, NewObject
    <3>4. 1 \in DOMAIN pool /\ pool[1] # pool[i + 1]
      BY <3>1, <3>2 DEF Linked
    <3> QED
      BY <2>7, <3>3, <3>4
  <2>12. ASSUME NEW i \in DOMAIN pool' PROVE map'[sid'[pool'[i]]] = 0
    <3>1. pool'[i] \in Objs /\ map[sid[pool'[i]]] = 0 /\ sid[pool'[i]] # 0
      BY <2>7, <2>8 DEF Linked, Sound, AtWork
    <3>2. sid'[pool'[i]] = sid[pool'[i]] /\ sid[pool'[i]] # r
      BY <2>1, <2>2, <2>3, <2>11, <3>1
    <3> QED
      BY <2>1, <2>2, <3>1, <3>2
  <2> QED
    BY <2>4, <2>6, <2>10, <2>12 DEF Linked
<1>2. ASSUME NEW r \in Reqs, ReadFrame(r) PROVE Linked'
  BY <1>2 DEF Linked, ReadFrame, tableVars, countVars, objectVars, workVars, queueVars, writeVars,
       ghostVars
<1>3. ASSUME NEW r \in Reqs, HandlerStart(r) PROVE Linked'
  BY <1>3 DEF Linked, HandlerStart, Handler, tableVars, countVars, objectVars, readVars, queueVars,
       writeVars, ghostVars
<1>4. ASSUME NEW r \in Reqs, HandlerHead(r) PROVE Linked'
  BY <1>4 DEF Linked, HandlerHead, Handler, Frame, tableVars, countVars, objectVars, readVars,
       writeVars, ghostVars
<1>5. ASSUME NEW r \in Reqs, HandlerLast(r) PROVE Linked'
  BY <1>5 DEF Linked, HandlerLast, Handler, Frame, tableVars, countVars, objectVars, readVars,
       writeVars, ghostVars
<1>6. ASSUME NEW r \in Reqs, HandlerClose(r) PROVE Linked'
  BY <1>6 DEF Linked, HandlerClose, Handler, Close, CloseThen, tableVars, countVars, readVars,
       writeVars, ghostVars
<1>7. ASSUME NEW r \in Reqs, HandlerUncount(r) PROVE Linked'
  BY <1>7 DEF Linked, HandlerUncount, Handler, Uncount, Plus, tableVars, readVars, queueVars,
       writeVars, ghostVars
<1>8. ASSUME NEW r \in Reqs, TimerFires(r) PROVE Linked'
  BY <1>8 DEF Linked, TimerFires, Timer, tableVars, countVars, objectVars, readVars, queueVars,
       writeVars, ghostVars
<1>9. ASSUME NEW r \in Reqs, TimerClose(r) PROVE Linked'
  BY <1>9 DEF Linked, TimerClose, Timer, Close, CloseThen, tableVars, countVars, readVars,
       writeVars, ghostVars
<1>10. ASSUME NEW r \in Reqs, TimerUncount(r) PROVE Linked'
  BY <1>10 DEF Linked, TimerUncount, Timer, Uncount, Plus, tableVars, readVars, queueVars,
       writeVars, ghostVars
<1>11. CASE ReadMatch
  BY <1>11 DEF Linked, ReadMatch, Reader, tableVars, countVars, objectVars, workVars, queueVars,
       writeVars, ghostVars
<1>12. CASE ReadAssign
  BY <1>12 DEF Linked, ReadAssign, Assign, tableVars, countVars, workVars, queueVars, writeVars
<1>13. CASE ReadPurge
  <2>1. robj \in Objs /\ sid[robj] # 0
    BY <1>13 DEF Sound, TypeOK, AtWork, Named, ReadPurge, Reader
  <2>2. UNCHANGED <<sid, obj>> /\ TakenOut(robj)
    BY <1>13 DEF ReadPurge, TakenOut, objectVars, workVars, Purge
  <2> QED
    BY <2>1, <2>2, TakenOutLinked
<1>14. CASE ReadClose
  BY <1>14 DEF Linked, ReadClose, Reader, Close, CloseThen, tableVars, countVars, workVars,
       writeVars, ghostVars
<1>15. CASE ReadUncount
  BY <1>15 DEF Linked, ReadUncount, Reader, Uncount, Plus, tableVars, workVars, queueVars,
       writeVars, ghostVars
<1>16. CASE RstPurge
  <2>1. robj \in Objs /\ sid[robj] # 0
    BY <1>16 DEF Sound, TypeOK, AtWork, Named, RstPurge, Reader
  <2>2. UNCHANGED <<sid, obj>> /\ TakenOut(robj)
    BY <1>16 DEF RstPurge, TakenOut, objectVars, workVars
  <2> QED
    BY <2>1, <2>2, TakenOutLinked
<1>17. CASE RstClose
  BY <1>17 DEF Linked, RstClose, Reader, tableVars, countVars, workVars, queueVars, writeVars,
       ghostVars
<1>18. CASE RstCount
  BY <1>18 DEF Linked, RstCount, Reader, Plus, tableVars, objectVars, workVars, queueVars,
       writeVars, ghostVars
<1>19. CASE RstSet
  BY <1>19 DEF Linked, RstSet, Reader, tableVars, countVars, workVars, queueVars, writeVars,
       ghostVars
<1>20. CASE WriterTake
  BY <1>20 DEF Linked, WriterTake, TakeNext, NextFrame, Frame, Dropped, tableVars, countVars,
       objectVars, readVars, workVars, ghostVars
<1>21. CASE WriterMatch
  BY <1>21 DEF Linked, WriterMatch, Writer, tableVars, countVars, objectVars, readVars, workVars,
       queueVars, ghostVars
<1>22. CASE WriterAssign
  BY <1>22 DEF Linked, WriterAssign, EndOfResponse, Assign, tableVars, countVars, readVars,
       workVars, queueVars
<1>23. CASE WriterPurge
  <2>1. wobj \in Objs /\ sid[wobj] # 0
    BY <1>23 DEF Sound, TypeOK, AtWork, Named, WriterPurge, Writer
  <2>2. UNCHANGED <<sid, obj>> /\ TakenOut(wobj)
    BY <1>23 DEF WriterPurge, TakenOut, objectVars, workVars, Purge
  <2> QED
    BY <2>1, <2>2, TakenOutLinked
<1>24. CASE WriterClose
  BY <1>24 DEF Linked, WriterClose, Writer, Close, CloseThen, tableVars, countVars, readVars,
       workVars, ghostVars
<1>25. CASE WriterUncount
  BY <1>25 DEF Linked, WriterUncount, Writer, Uncount, Plus, tableVars, readVars, workVars,
       queueVars, ghostVars
<1>26. CASE WriterWrite
  BY <1>26 DEF Linked, WriterWrite, Writer, WriterDone, NoFrame, Frame, tableVars, countVars,
       objectVars, readVars, workVars, queueVars, ghostVars
<1>27. CASE WriterRefuse
  BY <1>27 DEF Linked, WriterRefuse, Writer, WriterDone, NoFrame, Frame, Close, CloseThen,
       tableVars, countVars, readVars, workVars, ghostVars
<1>28. CASE WriterRefused
  BY <1>28 DEF Linked, WriterRefused, Writer, WriterDone, NoFrame, Frame, Uncount, Plus, tableVars,
       readVars, workVars, queueVars, ghostVars
<1>29. CASE SendReset
  BY <1>29 DEF Linked, SendReset, tableVars, countVars, objectVars, readVars, workVars, writeVars,
       ghostVars
<1>30. CASE UNCHANGED vars
  BY <1>30 DEF Linked, vars, tableVars, countVars, objectVars, readVars, workVars, queueVars,
       writeVars, ghostVars
<1> QED
  BY <1>1, <1>2, <1>3, <1>4, <1>5, <1>6, <1>7, <1>8, <1>9, <1>10, <1>11, <1>12, <1>13,
        <1>14, <1>15, <1>16, <1>17, <1>18, <1>19, <1>20, <1>21, <1>22, <1>23, <1>24, <1>25, <1>26,
        <1>27, <1>28, <1>29, <1>30
     DEF Next, Reading, Handling, Timing, Writing

-----------------------------------------------------------------------------
(* Without resets, until an object is stolen. *)

\* A connection is calm until it is not.
LEMMA CalmBefore == [Next]_vars /\ Calm' => Calm
<1> SUFFICES ASSUME [Next]_vars, Calm' PROVE Calm
  OBVIOUS
<1>1. troubles' = troubles /\ (stolen' = stolen \/ \E S : stolen' = stolen \cup S)
  <2>1. CASE \E r \in Reqs : ReadHeaders(r)
    <3>1. PICK r \in Reqs : ReadHeaders(r)
      BY <2>1
    <3>2. troubles' = troubles
      BY <3>1 DEF ReadHeaders
    <3>3. stolen' = stolen \/ \E S : stolen' = stolen \cup S
      BY <3>1 DEF ReadHeaders
    <3> QED
      BY <3>2, <3>3
  <2>2. CASE UNCHANGED vars
    BY <2>2 DEF vars, ghostVars
  <2>3. CASE \E r \in Reqs : ReadFrame(r) \/ Handling(r) \/ TimerFires(r) \/ Timing(r)
    BY <2>3 DEF ghostVars, ReadFrame, Handling, HandlerStart, HandlerHead, HandlerLast, HandlerClose,
       HandlerUncount, TimerFires, Timing, TimerClose, TimerUncount
  <2>4. CASE Reading
    BY <2>4 DEF ghostVars, Reading, ReadMatch, ReadAssign, ReadPurge, ReadClose, ReadUncount, RstPurge,
       RstClose, RstCount, RstSet
  <2>5. CASE Writing
    BY <2>5 DEF ghostVars, Writing, WriterTake, WriterMatch, WriterAssign, WriterPurge, WriterClose,
       WriterUncount, WriterWrite, WriterRefuse, WriterRefused
  <2>6. CASE SendReset
    BY <2>6 DEF SendReset, ghostVars
  <2> QED
    BY <2>1, <2>2, <2>3, <2>4, <2>5, <2>6 DEF Next
<1> QED
  BY <1>1 DEF Calm

\* No reset is read or counted.
LEMMA StepNoResets == Sound /\ Calm /\ NoResets /\ [Next]_vars => NoResets'
<1> SUFFICES ASSUME Sound /\ Calm /\ NoResets, [Next]_vars PROVE NoResets'
  OBVIOUS
<1>1. ASSUME NEW r \in Reqs, ReadHeaders(r) PROVE NoResets'
  BY <1>1 DEF Calm, NoResets, ReadHeaders, Plus, writeVars
<1>2. ASSUME NEW r \in Reqs, ReadFrame(r) PROVE NoResets'
  BY <1>2 DEF Calm, NoResets, ReadFrame, tableVars, countVars, objectVars, workVars, queueVars,
       writeVars, ghostVars
<1>3. ASSUME NEW r \in Reqs, HandlerStart(r) PROVE NoResets'
  BY <1>3 DEF Calm, NoResets, HandlerStart, Handler, tableVars, countVars, objectVars, readVars,
       queueVars, writeVars, ghostVars
<1>4. ASSUME NEW r \in Reqs, HandlerHead(r) PROVE NoResets'
  BY <1>4 DEF Calm, NoResets, HandlerHead, Handler, Frame, tableVars, countVars, objectVars,
       readVars, writeVars, ghostVars
<1>5. ASSUME NEW r \in Reqs, HandlerLast(r) PROVE NoResets'
  BY <1>5 DEF Calm, NoResets, HandlerLast, Handler, Frame, tableVars, countVars, objectVars,
       readVars, writeVars, ghostVars
<1>6. ASSUME NEW r \in Reqs, HandlerClose(r) PROVE NoResets'
  BY <1>6 DEF Calm, NoResets, HandlerClose, Handler, Close, CloseThen, tableVars, countVars,
       readVars, writeVars, ghostVars
<1>7. ASSUME NEW r \in Reqs, HandlerUncount(r) PROVE NoResets'
  <2>1. obj[r] \in Objs
    BY <1>7 DEF HandlerUncount, Handler, Sound, TypeOK, Named, Arrived
  <2>2. UNCHANGED <<isRst, rstNum>>
    BY <1>7, <2>1 DEF HandlerUncount, Uncount, NoResets
  <2> QED
    BY <1>7, <2>2 DEF NoResets, HandlerUncount, readVars
<1>8. ASSUME NEW r \in Reqs, TimerFires(r) PROVE NoResets'
  BY <1>8 DEF Calm, NoResets, TimerFires, Timer, tableVars, countVars, objectVars, readVars,
       queueVars, writeVars, ghostVars
<1>9. ASSUME NEW r \in Reqs, TimerClose(r) PROVE NoResets'
  BY <1>9 DEF Calm, NoResets, TimerClose, Timer, Close, CloseThen, tableVars, countVars, readVars,
       writeVars, ghostVars
<1>10. ASSUME NEW r \in Reqs, TimerUncount(r) PROVE NoResets'
  <2>1. obj[r] \in Objs
    BY <1>10 DEF TimerUncount, Timer, Sound, TypeOK, Named, Arrived
  <2>2. UNCHANGED <<isRst, rstNum>>
    BY <1>10, <2>1 DEF TimerUncount, Uncount, NoResets
  <2> QED
    BY <1>10, <2>2 DEF NoResets, TimerUncount, readVars
<1>11. CASE ReadMatch
  BY <1>11 DEF Calm, NoResets, ReadMatch, Reader, tableVars, countVars, objectVars, workVars,
       queueVars, writeVars, ghostVars
<1>12. CASE ReadAssign
  BY <1>12 DEF Calm, NoResets, ReadAssign, Assign, tableVars, countVars, workVars, queueVars,
       writeVars
<1>13. CASE ReadPurge
  BY <1>13 DEF Calm, NoResets, ReadPurge, Reader, Purge, PurgeThen, countVars, workVars, queueVars,
       writeVars, ghostVars
<1>14. CASE ReadClose
  BY <1>14 DEF Calm, NoResets, ReadClose, Reader, Close, CloseThen, tableVars, countVars, workVars,
       writeVars, ghostVars
<1>15. CASE ReadUncount
  <2>1. robj \in Objs
    BY <1>15 DEF ReadUncount, Reader, Sound, TypeOK, Named, AtWork
  <2>2. UNCHANGED <<isRst, rstNum>>
    BY <1>15, <2>1 DEF ReadUncount, Uncount, NoResets
  <2> QED
    BY <1>15, <2>2 DEF NoResets, ReadUncount, Reader
<1>16. CASE RstPurge
  BY <1>16 DEF Calm, NoResets, RstPurge, Reader, countVars, objectVars, workVars, queueVars,
       writeVars, ghostVars
<1>17. CASE RstClose
  BY <1>17 DEF Calm, NoResets, RstClose, Reader, tableVars, countVars, workVars, queueVars,
       writeVars, ghostVars
<1>18. CASE RstCount
  BY <1>18 DEF Calm, NoResets, RstCount, Reader, Plus, tableVars, objectVars, workVars, queueVars,
       writeVars, ghostVars
<1>19. CASE RstSet
  BY <1>19 DEF Calm, NoResets, RstSet, Reader, tableVars, countVars, workVars, queueVars, writeVars,
       ghostVars
<1>20. CASE WriterTake
  BY <1>20 DEF Calm, NoResets, WriterTake, TakeNext, NextFrame, Frame, Dropped, tableVars,
       countVars, objectVars, readVars, workVars, ghostVars
<1>21. CASE WriterMatch
  BY <1>21 DEF Calm, NoResets, WriterMatch, Writer, tableVars, countVars, objectVars, readVars,
       workVars, queueVars, ghostVars
<1>22. CASE WriterAssign
  BY <1>22 DEF Calm, NoResets, WriterAssign, EndOfResponse, Assign, tableVars, countVars, readVars,
       workVars, queueVars
<1>23. CASE WriterPurge
  BY <1>23 DEF Calm, NoResets, WriterPurge, Writer, Purge, PurgeThen, countVars, readVars, workVars,
       queueVars, ghostVars
<1>24. CASE WriterClose
  BY <1>24 DEF Calm, NoResets, WriterClose, Writer, Close, CloseThen, tableVars, countVars,
       readVars, workVars, ghostVars
<1>25. CASE WriterUncount
  <2>1. wobj \in Objs
    BY <1>25 DEF WriterUncount, Writer, Sound, TypeOK, Named, AtWork
  <2>2. UNCHANGED <<isRst, rstNum>>
    BY <1>25, <2>1 DEF WriterUncount, Uncount, NoResets
  <2> QED
    BY <1>25, <2>2 DEF NoResets, WriterUncount, readVars
<1>26. CASE WriterWrite
  BY <1>26 DEF Calm, NoResets, WriterWrite, Writer, WriterDone, NoFrame, Frame, tableVars,
       countVars, objectVars, readVars, workVars, queueVars, ghostVars
<1>27. CASE WriterRefuse
  BY <1>27 DEF Calm, NoResets, WriterRefuse, Writer, WriterDone, NoFrame, Frame, Close, CloseThen,
       tableVars, countVars, readVars, workVars, ghostVars
<1>28. CASE WriterRefused
  <2>1. wobj \in Objs
    BY <1>28 DEF WriterRefused, Writer, Sound, TypeOK, Named, AtWork
  <2>2. UNCHANGED <<isRst, rstNum>>
    BY <1>28, <2>1 DEF WriterRefused, Uncount, NoResets
  <2> QED
    BY <1>28, <2>2 DEF NoResets, WriterRefused, readVars
<1>29. CASE SendReset
  BY <1>29 DEF Calm, NoResets, SendReset, tableVars, countVars, objectVars, readVars, workVars,
       writeVars, ghostVars
<1>30. CASE UNCHANGED vars
  BY <1>30 DEF Calm, NoResets, vars, tableVars, countVars, objectVars, readVars, workVars,
       queueVars, writeVars, ghostVars
<1> QED
  BY <1>1, <1>2, <1>3, <1>4, <1>5, <1>6, <1>7, <1>8, <1>9, <1>10, <1>11, <1>12, <1>13,
        <1>14, <1>15, <1>16, <1>17, <1>18, <1>19, <1>20, <1>21, <1>22, <1>23, <1>24, <1>25, <1>26,
        <1>27, <1>28, <1>29, <1>30
     DEF Next, Reading, Handling, Timing, Writing

\* A thread starts to use an object under the name it has, and keeps it from a new name.
LEMMA StepUsers == Sound /\ Linked /\ Users /\ Calm' /\ [Next]_vars => Users'
<1> SUFFICES ASSUME Sound /\ Linked /\ Users /\ Calm', [Next]_vars PROVE Users'
  OBVIOUS
<1>1. ASSUME NEW r \in Reqs, ReadHeaders(r) PROVE Users'
  <2>1. /\ sid \in [Objs -> Reqs \cup {0}] /\ obj \in [Reqs -> Objs \cup {0}] /\ New \in Objs
        /\ hpc \in [Reqs -> {"none", "queued", "head", "last", "close", "uncount", "done"}]
        /\ tpc \in [Reqs -> {"off", "fired", "uncount", "over"}]
    BY <1>1, NewObject DEF Sound, TypeOK
  <2>2. UsersOf(New) = {}
    BY <1>1 DEF Calm, ReadHeaders, New
  <2>3. /\ obj' = [obj EXCEPT ![r] = New] /\ sid' = [sid EXCEPT ![New] = r]
        /\ tpc' = tpc /\ hpc' \in {hpc, [hpc EXCEPT ![r] = "queued"]}
    BY <1>1, NewObject
  <2>4. ASSUME NEW q \in Reqs, hpc'[q] \notin {"none", "done"} \/ tpc'[q] \in {"fired", "uncount"}
        PROVE  sid'[obj'[q]] = q
    <3>1. CASE q = r
      BY <2>1, <2>3, <3>1
    <3>2. CASE q # r
      <4>1. obj'[q] = obj[q] /\ (hpc[q] \notin {"none", "done"} \/ tpc[q] \in {"fired", "uncount"})
        BY <2>1, <2>3, <2>4, <3>2
      <4>2. obj[q] # New
        BY <2>2, <4>1 DEF UsersOf
      <4>3. obj[q] \in Objs
        BY <2>1, <4>1 DEF Sound, Arrived, Named
      <4> QED
        BY <2>1, <2>3, <4>1, <4>2, <4>3 DEF Users
    <3> QED
      BY <3>1, <3>2
  <2>5. wpc' # "take" => sid'[wobj'] = wf'.id
    <3>1. UNCHANGED <<wpc, wobj, wf>>
      BY <1>1 DEF ReadHeaders, writeVars
    <3>2. wpc # "take" => wobj # New /\ wobj \in Objs
      BY <2>2 DEF UsersOf, Sound, TypeOK, AtWork, Named
    <3> QED
      BY <2>1, <2>3, <3>1, <3>2 DEF Users
  <2> QED
    BY <2>4, <2>5 DEF Users
<1>2. ASSUME NEW r \in Reqs, ReadFrame(r) PROVE Users'
  BY <1>2 DEF Sound, TypeOK, Users, ReadFrame, tableVars, countVars, objectVars, workVars,
       queueVars, writeVars, ghostVars
<1>3. ASSUME NEW r \in Reqs, HandlerStart(r) PROVE Users'
  BY <1>3 DEF Sound, TypeOK, Users, HandlerStart, Handler, tableVars, countVars, objectVars,
       readVars, queueVars, writeVars, ghostVars
<1>4. ASSUME NEW r \in Reqs, HandlerHead(r) PROVE Users'
  BY <1>4 DEF Sound, TypeOK, Users, HandlerHead, Handler, Frame, tableVars, countVars, objectVars,
       readVars, writeVars, ghostVars
<1>5. ASSUME NEW r \in Reqs, HandlerLast(r) PROVE Users'
  BY <1>5 DEF Sound, TypeOK, Users, HandlerLast, Handler, Frame, tableVars, countVars, objectVars,
       readVars, writeVars, ghostVars
<1>6. ASSUME NEW r \in Reqs, HandlerClose(r) PROVE Users'
  BY <1>6 DEF Sound, TypeOK, Users, HandlerClose, Handler, Close, CloseThen, tableVars, countVars,
       readVars, writeVars, ghostVars
<1>7. ASSUME NEW r \in Reqs, HandlerUncount(r) PROVE Users'
  BY <1>7 DEF Sound, TypeOK, Users, HandlerUncount, Handler, Uncount, Plus, tableVars, readVars,
       queueVars, writeVars, ghostVars
<1>8. ASSUME NEW r \in Reqs, TimerFires(r) PROVE Users'
  <2>1. map[r] # 0 /\ sid[map[r]] = r /\ map[r] \in Objs
    BY <1>8 DEF TimerFires, Linked, Sound, TypeOK
  <2>2. obj[r] = map[r]
    BY <2>1, ZeroIsNone DEF Linked
  <2>3. \A q \in Reqs : q # r => tpc'[q] = tpc[q]
    BY <1>8 DEF TimerFires, Timer, Sound, TypeOK
  <2> QED
    BY <1>8, <2>1, <2>2, <2>3 DEF Users, TimerFires, tableVars, objectVars, writeVars
<1>9. ASSUME NEW r \in Reqs, TimerClose(r) PROVE Users'
  BY <1>9 DEF Sound, TypeOK, Users, TimerClose, Timer, Close, CloseThen, tableVars, countVars,
       readVars, writeVars, ghostVars
<1>10. ASSUME NEW r \in Reqs, TimerUncount(r) PROVE Users'
  BY <1>10 DEF Sound, TypeOK, Users, TimerUncount, Timer, Uncount, Plus, tableVars, readVars,
       queueVars, writeVars, ghostVars
<1>11. CASE ReadMatch
  BY <1>11 DEF Sound, TypeOK, Users, ReadMatch, Reader, tableVars, countVars, objectVars, workVars,
       queueVars, writeVars, ghostVars
<1>12. CASE ReadAssign
  BY <1>12 DEF Sound, TypeOK, Users, ReadAssign, Assign, tableVars, countVars, workVars, queueVars,
       writeVars
<1>13. CASE ReadPurge
  BY <1>13 DEF Sound, TypeOK, Users, ReadPurge, Reader, Purge, PurgeThen, countVars, workVars,
       queueVars, writeVars, ghostVars
<1>14. CASE ReadClose
  BY <1>14 DEF Sound, TypeOK, Users, ReadClose, Reader, Close, CloseThen, tableVars, countVars,
       workVars, writeVars, ghostVars
<1>15. CASE ReadUncount
  BY <1>15 DEF Sound, TypeOK, Users, ReadUncount, Reader, Uncount, Plus, tableVars, workVars,
       queueVars, writeVars, ghostVars
<1>16. CASE RstPurge
  BY <1>16 DEF Sound, TypeOK, Users, RstPurge, Reader, countVars, objectVars, workVars, queueVars,
       writeVars, ghostVars
<1>17. CASE RstClose
  BY <1>17 DEF Sound, TypeOK, Users, RstClose, Reader, tableVars, countVars, workVars, queueVars,
       writeVars, ghostVars
<1>18. CASE RstCount
  BY <1>18 DEF Sound, TypeOK, Users, RstCount, Reader, Plus, tableVars, objectVars, workVars,
       queueVars, writeVars, ghostVars
<1>19. CASE RstSet
  BY <1>19 DEF Sound, TypeOK, Users, RstSet, Reader, tableVars, countVars, workVars, queueVars,
       writeVars, ghostVars
<1>20. CASE WriterTake
  <2>1. NextFrame.id \in Reqs
    BY <1>20, NextIsFrame DEF Frames
  <2>2. wpc' # "take" => sid[map[NextFrame.id]] = NextFrame.id /\ wobj' = map[NextFrame.id] /\ wf' = NextFrame
    BY <1>20, <2>1 DEF WriterTake, Dropped, Linked
  <2> QED
    BY <1>20, <2>2 DEF Users, WriterTake, objectVars, workVars
<1>21. CASE WriterMatch
  BY <1>21 DEF Sound, TypeOK, Users, WriterMatch, Writer, tableVars, countVars, objectVars,
       readVars, workVars, queueVars, ghostVars
<1>22. CASE WriterAssign
  BY <1>22 DEF Sound, TypeOK, Users, WriterAssign, EndOfResponse, Assign, tableVars, countVars,
       readVars, workVars, queueVars
<1>23. CASE WriterPurge
  BY <1>23 DEF Sound, TypeOK, Users, WriterPurge, Writer, Purge, PurgeThen, countVars, readVars,
       workVars, queueVars, ghostVars
<1>24. CASE WriterClose
  BY <1>24 DEF Sound, TypeOK, Users, WriterClose, Writer, Close, CloseThen, tableVars, countVars,
       readVars, workVars, ghostVars
<1>25. CASE WriterUncount
  BY <1>25 DEF Sound, TypeOK, Users, WriterUncount, Writer, Uncount, Plus, tableVars, readVars,
       workVars, queueVars, ghostVars
<1>26. CASE WriterWrite
  BY <1>26 DEF Sound, TypeOK, Users, WriterWrite, Writer, WriterDone, NoFrame, Frame, tableVars,
       countVars, objectVars, readVars, workVars, queueVars, ghostVars
<1>27. CASE WriterRefuse
  BY <1>27 DEF Sound, TypeOK, Users, WriterRefuse, Writer, WriterDone, NoFrame, Frame, Close,
       CloseThen, tableVars, countVars, readVars, workVars, ghostVars
<1>28. CASE WriterRefused
  BY <1>28 DEF Sound, TypeOK, Users, WriterRefused, Writer, WriterDone, NoFrame, Frame, Uncount,
       Plus, tableVars, readVars, workVars, queueVars, ghostVars
<1>29. CASE SendReset
  BY <1>29 DEF Sound, TypeOK, Users, SendReset, tableVars, countVars, objectVars, readVars,
       workVars, writeVars, ghostVars
<1>30. CASE UNCHANGED vars
  BY <1>30 DEF Sound, TypeOK, Users, vars, tableVars, countVars, objectVars, readVars, workVars,
       queueVars, writeVars, ghostVars
<1> QED
  BY <1>1, <1>2, <1>3, <1>4, <1>5, <1>6, <1>7, <1>8, <1>9, <1>10, <1>11, <1>12, <1>13,
        <1>14, <1>15, <1>16, <1>17, <1>18, <1>19, <1>20, <1>21, <1>22, <1>23, <1>24, <1>25, <1>26,
        <1>27, <1>28, <1>29, <1>30
     DEF Next, Reading, Handling, Timing, Writing

\* What a step on an object may do to the claims: the thread who takes the
\* step may claim the object's stream, if nobody has.
MayClaim(who, o) ==
  LET new(r) == r = sid[o] /\ ~ counted[o] /\ counted'[o]
  IN  \A r \in Reqs : /\ ByHandler(r)' => ByHandler(r) \/ (who = "handler" /\ new(r))
                      /\ ByTimer(r)' => ByTimer(r) \/ (who = "timer" /\ new(r))
                      /\ ByWriter(r)' => ByWriter(r) \/ (who = "writer" /\ new(r))
                      /\ ByReader(r)' => ByReader(r) \/ (who = "reader" /\ new(r))

\* The object may get counted off, and then leave the map.
MayLeave(o) ==
  /\ counted' \in {counted, [counted EXCEPT ![o] = TRUE]}
  /\ map' = map \/ (map' = [map EXCEPT ![sid[o]] = 0] /\ counted'[o])
  /\ UNCHANGED sid

\* A step that claims a stream nobody has claimed, or drops its own claim, keeps the claims.
LEMMA ClaimsKept ==
  ASSUME Sound, Linked, Claims, NEW o \in Objs, sid[o] # 0, NEW who, MayLeave(o), MayClaim(who, o)
  PROVE  Claims'
<1>1. /\ counted \in [Objs -> BOOLEAN] /\ sid \in [Objs -> Reqs \cup {0}] /\ map \in [Reqs -> Objs \cup {0}]
      /\ sid[o] \in Reqs /\ sid' = sid
  BY DEF Sound, TypeOK, MayLeave
<1> DEFINE new == ~ counted[o] /\ counted'[o]
<1>2. \A p \in Objs : ~ counted'[p] => ~ counted[p] /\ (new => p # o)
  BY <1>1 DEF MayLeave
<1>3. \A p \in Objs : sid[p] # 0 /\ sid[p] = sid[o] => p = o
  BY DEF Linked
<1>4. \A r \in Reqs : /\ ByHandler(r)' => ByHandler(r) \/ (who = "handler" /\ r = sid[o] /\ new)
                      /\ ByTimer(r)' => ByTimer(r) \/ (who = "timer" /\ r = sid[o] /\ new)
                      /\ ByWriter(r)' => ByWriter(r) \/ (who = "writer" /\ r = sid[o] /\ new)
                      /\ ByReader(r)' => ByReader(r) \/ (who = "reader" /\ r = sid[o] /\ new)
  BY DEF MayClaim
<1>5. new => ~ Claimed(sid[o])
  BY <1>1 DEF Claims
<1> HIDE DEF new
<1>6. ASSUME NEW p \in Objs, sid[p] # 0, ~ counted'[p] PROVE map'[sid[p]] = p /\ ~ Claimed(sid[p])'
  <2>1. sid[p] \in Reqs /\ ~ counted[p] /\ map[sid[p]] = p /\ ~ Claimed(sid[p])
    BY <1>1, <1>2, <1>6 DEF Claims
  <2>2. new => sid[p] # sid[o]
    BY <1>2, <1>3, <1>6
  <2>3. ~ Claimed(sid[p])'
    BY <1>1, <1>4, <2>1, <2>2 DEF Claimed
  <2>4. map'[sid[p]] = p
    BY <1>1, <1>3, <1>6, <2>1 DEF MayLeave
  <2> QED
    BY <2>3, <2>4
<1>7. ASSUME NEW r \in Reqs
      PROVE  /\ ByHandler(r)' => ~ ByTimer(r)' /\ ~ ByWriter(r)' /\ ~ ByReader(r)'
             /\ ByTimer(r)' => ~ ByWriter(r)' /\ ~ ByReader(r)'
             /\ ByWriter(r)' => ~ ByReader(r)'
  BY <1>4, <1>5 DEF Claims, Claimed
<1> QED
  BY <1>1, <1>6, <1>7 DEF Claims

\* A stream is claimed once.
LEMMA StepClaims == Sound /\ Linked /\ Calm /\ Users /\ NoResets /\ Claims /\ Calm' /\ [Next]_vars => Claims'
<1> SUFFICES ASSUME Sound /\ Linked /\ Calm /\ Users /\ NoResets /\ Claims /\ Calm', [Next]_vars PROVE Claims'
  OBVIOUS
<1>1. ASSUME NEW r \in Reqs, ReadHeaders(r) PROVE Claims'
  BY <1>1 DEF Sound, TypeOK, Arrived, AtWork, Named, Users, NoResets, Calm, Claims, Claimed,
       ByHandler, ByTimer, ByWriter, ByReader, ReadHeaders, Plus, writeVars
<1>2. ASSUME NEW r \in Reqs, ReadFrame(r) PROVE Claims'
  BY <1>2 DEF Sound, TypeOK, Arrived, AtWork, Named, Users, NoResets, Calm, Claims, Claimed,
       ByHandler, ByTimer, ByWriter, ByReader, ReadFrame, tableVars, countVars, objectVars,
       workVars, queueVars, writeVars, ghostVars
<1>3. ASSUME NEW r \in Reqs, HandlerStart(r) PROVE Claims'
  BY <1>3 DEF Sound, TypeOK, Arrived, AtWork, Named, Users, NoResets, Calm, Claims, Claimed,
       ByHandler, ByTimer, ByWriter, ByReader, HandlerStart, Handler, tableVars, countVars,
       objectVars, readVars, queueVars, writeVars, ghostVars
<1>4. ASSUME NEW r \in Reqs, HandlerHead(r) PROVE Claims'
  BY <1>4 DEF Sound, TypeOK, Arrived, AtWork, Named, Users, NoResets, Calm, Claims, Claimed,
       ByHandler, ByTimer, ByWriter, ByReader, HandlerHead, Handler, Frame, tableVars, countVars,
       objectVars, readVars, writeVars, ghostVars
<1>5. ASSUME NEW r \in Reqs, HandlerLast(r) PROVE Claims'
  BY <1>5 DEF Sound, TypeOK, Arrived, AtWork, Named, Users, NoResets, Calm, Claims, Claimed,
       ByHandler, ByTimer, ByWriter, ByReader, HandlerLast, Handler, Frame, tableVars, countVars,
       objectVars, readVars, writeVars, ghostVars
<1>6. ASSUME NEW r \in Reqs, HandlerClose(r) PROVE Claims'
  <2>1. obj[r] \in Objs /\ sid[obj[r]] # 0 /\ sid[obj[r]] = r
    BY <1>6, ZeroIsNone DEF Sound,
           TypeOK, Arrived, Named, Users, HandlerClose, Handler
  <2>2. counted \in [Objs -> BOOLEAN] /\ hpc \in [Reqs -> {"none", "queued", "head", "last", "close", "uncount", "done"}]
    BY DEF Sound, TypeOK
  <2>3. MayLeave(obj[r])
    BY <1>6, <2>1, <2>2 DEF MayLeave, HandlerClose, Close, tableVars, countVars, readVars,
           writeVars, ghostVars
  <2>4. MayClaim("handler", obj[r])
    BY <1>6, <2>1, <2>2 DEF MayClaim, ByHandler, ByTimer, ByWriter, ByReader, HandlerClose, Handler,
           Close, CloseThen, tableVars, countVars, readVars, writeVars, ghostVars
  <2> QED
    BY <2>1, <2>3, <2>4, ClaimsKept
<1>7. ASSUME NEW r \in Reqs, HandlerUncount(r) PROVE Claims'
  BY <1>7 DEF Sound, TypeOK, Arrived, AtWork, Named, Users, NoResets, Calm, Claims, Claimed,
       ByHandler, ByTimer, ByWriter, ByReader, HandlerUncount, Handler, Uncount, Plus, tableVars,
       readVars, queueVars, writeVars, ghostVars
<1>8. ASSUME NEW r \in Reqs, TimerFires(r) PROVE Claims'
  BY <1>8 DEF Sound, TypeOK, Arrived, AtWork, Named, Users, NoResets, Calm, Claims, Claimed,
       ByHandler, ByTimer, ByWriter, ByReader, TimerFires, Timer, tableVars, countVars, objectVars,
       readVars, queueVars, writeVars, ghostVars
<1>9. ASSUME NEW r \in Reqs, TimerClose(r) PROVE Claims'
  <2>1. obj[r] \in Objs /\ sid[obj[r]] # 0 /\ sid[obj[r]] = r
    BY <1>9, ZeroIsNone DEF Sound,
           TypeOK, Arrived, Named, Users, TimerClose, Timer
  <2>2. counted \in [Objs -> BOOLEAN] /\ tpc \in [Reqs -> {"off", "fired", "uncount", "over"}]
    BY DEF Sound, TypeOK
  <2>3. MayLeave(obj[r])
    BY <1>9, <2>1, <2>2 DEF MayLeave, TimerClose, Close, tableVars, countVars, readVars, writeVars,
           ghostVars
  <2>4. MayClaim("timer", obj[r])
    BY <1>9, <2>1, <2>2 DEF MayClaim, ByHandler, ByTimer, ByWriter, ByReader, TimerClose, Timer,
           Close, CloseThen, tableVars, countVars, readVars, writeVars, ghostVars
  <2> QED
    BY <2>1, <2>3, <2>4, ClaimsKept
<1>10. ASSUME NEW r \in Reqs, TimerUncount(r) PROVE Claims'
  BY <1>10 DEF Sound, TypeOK, Arrived, AtWork, Named, Users, NoResets, Calm, Claims, Claimed,
       ByHandler, ByTimer, ByWriter, ByReader, TimerUncount, Timer, Uncount, Plus, tableVars,
       readVars, queueVars, writeVars, ghostVars
<1>11. CASE ReadMatch
  BY <1>11 DEF Sound, TypeOK, Arrived, AtWork, Named, Users, NoResets, Calm, Claims, Claimed,
       ByHandler, ByTimer, ByWriter, ByReader, ReadMatch, Reader, tableVars, countVars, objectVars,
       workVars, queueVars, writeVars, ghostVars
<1>12. CASE ReadAssign
  BY <1>12 DEF Sound, TypeOK, Arrived, AtWork, Named, Users, NoResets, Calm, Claims, Claimed,
       ByHandler, ByTimer, ByWriter, ByReader, ReadAssign, Assign, tableVars, countVars, workVars,
       queueVars, writeVars
<1>13. CASE ReadPurge
  <2>1. robj \in Objs /\ sid[robj] # 0
    BY <1>13, ZeroIsNone DEF Sound, TypeOK, AtWork, Named,
           Users, ReadPurge, Reader
  <2>2. counted \in [Objs -> BOOLEAN]
    BY DEF Sound, TypeOK
  <2>3. MayLeave(robj)
    BY <1>13, <2>1, <2>2 DEF MayLeave, ReadPurge, Purge, countVars, workVars, queueVars, writeVars,
           ghostVars
  <2>4. MayClaim("reader", robj)
    BY <1>13, <2>1, <2>2 DEF MayClaim, ByHandler, ByTimer, ByWriter, ByReader, ReadPurge, Reader,
           Purge, PurgeThen, countVars, workVars, queueVars, writeVars, ghostVars
  <2> QED
    BY <2>1, <2>3, <2>4, ClaimsKept
<1>14. CASE ReadClose
  <2>1. robj \in Objs /\ sid[robj] # 0
    BY <1>14, ZeroIsNone DEF Sound, TypeOK, AtWork, Named,
           Users, ReadClose, Reader
  <2>2. counted \in [Objs -> BOOLEAN]
    BY DEF Sound, TypeOK
  <2>3. MayLeave(robj)
    BY <1>14, <2>1, <2>2 DEF MayLeave, ReadClose, Close, tableVars, countVars, workVars, writeVars,
           ghostVars
  <2>4. MayClaim("reader", robj)
    BY <1>14, <2>1, <2>2 DEF MayClaim, ByHandler, ByTimer, ByWriter, ByReader, ReadClose, Reader,
           Close, CloseThen, tableVars, countVars, workVars, writeVars, ghostVars
  <2> QED
    BY <2>1, <2>3, <2>4, ClaimsKept
<1>15. CASE ReadUncount
  BY <1>15 DEF Sound, TypeOK, Arrived, AtWork, Named, Users, NoResets, Calm, Claims, Claimed,
       ByHandler, ByTimer, ByWriter, ByReader, ReadUncount, Reader, Uncount, Plus, tableVars,
       workVars, queueVars, writeVars, ghostVars
<1>16. CASE RstPurge
  BY <1>16 DEF Sound, TypeOK, Arrived, AtWork, Named, Users, NoResets, Calm, Claims, Claimed,
       ByHandler, ByTimer, ByWriter, ByReader, RstPurge, Reader, countVars, objectVars, workVars,
       queueVars, writeVars, ghostVars
<1>17. CASE RstClose
  BY <1>17 DEF Sound, TypeOK, Arrived, AtWork, Named, Users, NoResets, Calm, Claims, Claimed,
       ByHandler, ByTimer, ByWriter, ByReader, RstClose, Reader, tableVars, countVars, workVars,
       queueVars, writeVars, ghostVars
<1>18. CASE RstCount
  BY <1>18 DEF Sound, TypeOK, Arrived, AtWork, Named, Users, NoResets, Calm, Claims, Claimed,
       ByHandler, ByTimer, ByWriter, ByReader, RstCount, Reader, Plus, tableVars, objectVars,
       workVars, queueVars, writeVars, ghostVars
<1>19. CASE RstSet
  BY <1>19 DEF Sound, TypeOK, Arrived, AtWork, Named, Users, NoResets, Calm, Claims, Claimed,
       ByHandler, ByTimer, ByWriter, ByReader, RstSet, Reader, tableVars, countVars, workVars,
       queueVars, writeVars, ghostVars
<1>20. CASE WriterTake
  BY <1>20 DEF Sound, TypeOK, Arrived, AtWork, Named, Users, NoResets, Calm, Claims, Claimed,
       ByHandler, ByTimer, ByWriter, ByReader, WriterTake, TakeNext, NextFrame, Frame, Dropped,
       tableVars, countVars, objectVars, readVars, workVars, ghostVars
<1>21. CASE WriterMatch
  BY <1>21 DEF Sound, TypeOK, Arrived, AtWork, Named, Users, NoResets, Calm, Claims, Claimed,
       ByHandler, ByTimer, ByWriter, ByReader, WriterMatch, Writer, tableVars, countVars,
       objectVars, readVars, workVars, queueVars, ghostVars
<1>22. CASE WriterAssign
  BY <1>22 DEF Sound, TypeOK, Arrived, AtWork, Named, Users, NoResets, Calm, Claims, Claimed,
       ByHandler, ByTimer, ByWriter, ByReader, WriterAssign, EndOfResponse, Assign, tableVars,
       countVars, readVars, workVars, queueVars
<1>23. CASE WriterPurge
  <2>1. wobj \in Objs /\ sid[wobj] # 0 /\ sid[wobj] = wf.id
    BY <1>23, ZeroIsNone DEF Sound,
           TypeOK, AtWork, Named, Users, WriterPurge, Writer
  <2>2. counted \in [Objs -> BOOLEAN]
    BY DEF Sound, TypeOK
  <2>3. MayLeave(wobj)
    BY <1>23, <2>1, <2>2 DEF MayLeave, WriterPurge, Purge, countVars, readVars, workVars, queueVars,
           ghostVars
  <2>4. MayClaim("writer", wobj)
    BY <1>23, <2>1, <2>2 DEF MayClaim, ByHandler, ByTimer, ByWriter, ByReader, WriterPurge, Writer,
           Purge, PurgeThen, countVars, readVars, workVars, queueVars, ghostVars
  <2> QED
    BY <2>1, <2>3, <2>4, ClaimsKept
<1>24. CASE WriterClose
  <2>1. wobj \in Objs /\ sid[wobj] # 0 /\ sid[wobj] = wf.id
    BY <1>24, ZeroIsNone DEF Sound,
           TypeOK, AtWork, Named, Users, WriterClose, Writer
  <2>2. counted \in [Objs -> BOOLEAN]
    BY DEF Sound, TypeOK
  <2>3. MayLeave(wobj)
    BY <1>24, <2>1, <2>2 DEF MayLeave, WriterClose, Close, tableVars, countVars, readVars, workVars,
           ghostVars
  <2>4. MayClaim("writer", wobj)
    BY <1>24, <2>1, <2>2 DEF MayClaim, ByHandler, ByTimer, ByWriter, ByReader, WriterClose, Writer,
           Close, CloseThen, tableVars, countVars, readVars, workVars, ghostVars
  <2> QED
    BY <2>1, <2>3, <2>4, ClaimsKept
<1>25. CASE WriterUncount
  BY <1>25 DEF Sound, TypeOK, Arrived, AtWork, Named, Users, NoResets, Calm, Claims, Claimed,
       ByHandler, ByTimer, ByWriter, ByReader, WriterUncount, Writer, Uncount, Plus, tableVars,
       readVars, workVars, queueVars, ghostVars
<1>26. CASE WriterWrite
  BY <1>26 DEF Sound, TypeOK, Arrived, AtWork, Named, Users, NoResets, Calm, Claims, Claimed,
       ByHandler, ByTimer, ByWriter, ByReader, WriterWrite, Writer, WriterDone, NoFrame, Frame,
       tableVars, countVars, objectVars, readVars, workVars, queueVars, ghostVars
<1>27. CASE WriterRefuse
  <2>1. wobj \in Objs /\ sid[wobj] # 0 /\ sid[wobj] = wf.id
    BY <1>27, ZeroIsNone DEF Sound,
           TypeOK, AtWork, Named, Users, WriterRefuse, Writer
  <2>2. counted \in [Objs -> BOOLEAN]
    BY DEF Sound, TypeOK
  <2>3. MayLeave(wobj)
    BY <1>27, <2>1, <2>2 DEF MayLeave, WriterRefuse, Close, tableVars, countVars, readVars, workVars,
           ghostVars
  <2>4. MayClaim("writer", wobj)
    BY <1>27, <2>1, <2>2 DEF MayClaim, ByHandler, ByTimer, ByWriter, ByReader, WriterRefuse, Writer,
           Close, CloseThen, WriterDone, tableVars, countVars, readVars, workVars, ghostVars
  <2> QED
    BY <2>1, <2>3, <2>4, ClaimsKept
<1>28. CASE WriterRefused
  BY <1>28 DEF Sound, TypeOK, Arrived, AtWork, Named, Users, NoResets, Calm, Claims, Claimed,
       ByHandler, ByTimer, ByWriter, ByReader, WriterRefused, Writer, WriterDone, NoFrame, Frame,
       Uncount, Plus, tableVars, readVars, workVars, queueVars, ghostVars
<1>29. CASE SendReset
  BY <1>29 DEF Sound, TypeOK, Arrived, AtWork, Named, Users, NoResets, Calm, Claims, Claimed,
       ByHandler, ByTimer, ByWriter, ByReader, SendReset, tableVars, countVars, objectVars,
       readVars, workVars, writeVars, ghostVars
<1>30. CASE UNCHANGED vars
  BY <1>30 DEF Sound, TypeOK, Arrived, AtWork, Named, Users, NoResets, Calm, Claims, Claimed,
       ByHandler, ByTimer, ByWriter, ByReader, vars, tableVars, countVars, objectVars, readVars,
       workVars, queueVars, writeVars, ghostVars
<1> QED
  BY <1>1, <1>2, <1>3, <1>4, <1>5, <1>6, <1>7, <1>8, <1>9, <1>10, <1>11, <1>12, <1>13,
        <1>14, <1>15, <1>16, <1>17, <1>18, <1>19, <1>20, <1>21, <1>22, <1>23, <1>24, <1>25, <1>26,
        <1>27, <1>28, <1>29, <1>30
     DEF Next, Reading, Handling, Timing, Writing

\* What a step does to the streams that are counted and to their number.
Stays    == active' = active /\ \A q \in Reqs : Counted(q)' <=> Counted(q)
Adds(r)  == /\ active' = Plus(active, 1) /\ ~ Counted(r) /\ Counted(r)'
            /\ \A q \in Reqs : q # r => (Counted(q)' <=> Counted(q))
Drops(r) == /\ active' = Plus(active, -1) /\ Counted(r) /\ ~ Counted(r)'
            /\ \A q \in Reqs : q # r => (Counted(q)' <=> Counted(q))
Counting == Stays \/ \E r \in Reqs : Adds(r) \/ Drops(r)

\* Close and purge mark an object as counted when they claim it, and only then.
LEMMA CloseCounts ==
  ASSUME counted \in [Objs -> BOOLEAN], NEW o \in Objs, NEW then, Close(o, FALSE)
  PROVE  \/ counted' = counted /\ CloseThen(o, FALSE, then) = then
         \/ ~ counted[o] /\ counted' = [counted EXCEPT ![o] = TRUE] /\ CloseThen(o, FALSE, then) = "uncount"
<1>1. CASE st[o] = "Closed" /\ ~ counted[o]
  BY <1>1 DEF Close, CloseThen
<1>2. CASE ~ (st[o] = "Closed" /\ ~ counted[o])
  <2>1. counted' = counted
    BY <1>2 DEF Close
  <2> QED
    BY <1>2, <2>1 DEF CloseThen
<1> QED
  BY <1>1, <1>2

\* A purge leaves the counting to others when the object is marked, and marks it otherwise.
LEMMA PurgeCounts ==
  ASSUME counted \in [Objs -> BOOLEAN], NEW o \in Objs, map[sid[o]] # 0 \/ counted[o], NEW then, Purge(o)
  PROVE  \/ counted' = counted /\ PurgeThen(o, then) = then
         \/ ~ counted[o] /\ counted' = [counted EXCEPT ![o] = TRUE] /\ PurgeThen(o, then) = "uncount"
<1>1. CASE counted[o]
  BY <1>1 DEF Purge, PurgeThen
<1>2. CASE ~ counted[o]
  BY <1>2 DEF Purge, PurgeThen
<1> QED
  BY <1>1, <1>2

\* A stream is counted when its headers are read and counted off once.
LEMMA StepCounted == Sound /\ Linked /\ Calm /\ Users /\ NoResets /\ Claims /\ Calm' /\ [Next]_vars => Counting
<1> SUFFICES ASSUME Sound /\ Linked /\ Calm /\ Users /\ NoResets /\ Claims /\ Calm', [Next]_vars PROVE Counting
  OBVIOUS
<1>1. ASSUME NEW r \in Reqs, ReadHeaders(r) PROVE Counting
  <2>1. /\ sid \in [Objs -> Reqs \cup {0}] /\ obj \in [Reqs -> Objs \cup {0}] /\ New \in Objs
        /\ counted \in [Objs -> BOOLEAN]
        /\ hpc \in [Reqs -> {"none", "queued", "head", "last", "close", "uncount", "done"}]
    BY <1>1, NewObject DEF Sound, TypeOK
  <2>2. /\ obj' = [obj EXCEPT ![r] = New] /\ sid' = [sid EXCEPT ![New] = r]
        /\ counted' = [counted EXCEPT ![New] = FALSE] /\ rpc = "read" /\ rpc' = rpc /\ tpc' = tpc
        /\ hpc' \in {hpc, [hpc EXCEPT ![r] = "queued"]} /\ sent[r] = "nothing"
    BY <1>1, NewObject
  <2>3. UNCHANGED <<wpc, wf>> /\ active' = Plus(active, 1)
    BY <1>1 DEF ReadHeaders, writeVars
  <2>4. obj[r] = 0 /\ hpc[r] = "none" /\ tpc[r] = "off" /\ \A o \in Objs : sid[o] # r
    BY <2>2, ZeroIsNone DEF Sound, Arrived
  <2>5. wpc # "take" => wf.id # r
    BY <2>4 DEF Users, Sound, TypeOK, AtWork, Named
  <2>6. ~ Counted(r)
    BY <2>2, <2>4, <2>5 DEF Counted
  <2>7. Counted(r)'
    BY <2>1, <2>2, ZeroIsNone DEF Counted
  <2>8. sid[New] # 0 => counted[New]
    <3>1. sid[New] # 0 => pool # << >> /\ New = pool[1]
      BY <1>1, NewObject
    <3>2. pool # << >> => 1 \in DOMAIN pool
      BY TailAt DEF Sound, TypeOK
    <3> QED
      BY <2>1, <3>1, <3>2, ZeroIsNone DEF Linked, Claims
  <2>9. ASSUME NEW q \in Reqs, q # r PROVE Counted(q)' <=> Counted(q)
    <3>1. obj'[q] = obj[q] /\ (hpc'[q] = "uncount" <=> hpc[q] = "uncount")
      BY <2>1, <2>2, <2>9
    <3>2. CASE obj[q] # New
      BY <2>1, <2>2, <2>3, <3>1, <3>2 DEF Counted
    <3>3. CASE obj[q] = New
      <4>1. sid'[New] = r /\ ~ (sid[New] = q /\ ~ counted[New])
        BY <2>1, <2>2, <2>8, ZeroIsNone
      <4> QED
        BY <2>2, <2>3, <2>9, <3>1, <3>3, <4>1 DEF Counted
    <3> QED
      BY <3>2, <3>3
  <2> QED
    BY <2>3, <2>6, <2>7, <2>9 DEF Counting, Adds
<1>2. ASSUME NEW r \in Reqs, ReadFrame(r) PROVE Counting
  BY <1>2 DEF Sound, TypeOK, Arrived, AtWork, Named, Counting, Stays, Counted, ReadFrame, tableVars,
       countVars, objectVars, workVars, queueVars, writeVars, ghostVars
<1>3. ASSUME NEW r \in Reqs, HandlerStart(r) PROVE Counting
  BY <1>3 DEF Sound, TypeOK, Arrived, AtWork, Named, Counting, Stays, Counted, HandlerStart,
       Handler, tableVars, countVars, objectVars, readVars, queueVars, writeVars, ghostVars
<1>4. ASSUME NEW r \in Reqs, HandlerHead(r) PROVE Counting
  BY <1>4 DEF Sound, TypeOK, Arrived, AtWork, Named, Counting, Stays, Counted, HandlerHead, Handler,
       Frame, tableVars, countVars, objectVars, readVars, writeVars, ghostVars
<1>5. ASSUME NEW r \in Reqs, HandlerLast(r) PROVE Counting
  BY <1>5 DEF Sound, TypeOK, Arrived, AtWork, Named, Counting, Stays, Counted, HandlerLast, Handler,
       Frame, tableVars, countVars, objectVars, readVars, writeVars, ghostVars
<1>6. ASSUME NEW r \in Reqs, HandlerClose(r) PROVE Counting
  <2>1. obj[r] \in Objs /\ sid[obj[r]] = r /\ sid[obj[r]] # 0
    BY <1>6, ZeroIsNone DEF Sound, TypeOK, Arrived, Named, Users, HandlerClose, Handler
  <2>2. counted \in [Objs -> BOOLEAN] /\ obj[r] = obj[r] /\ hpc \in [Reqs -> {"none", "queued", "head", "last", "close", "uncount", "done"}]
    BY <2>1 DEF Sound, TypeOK, Linked
  <2>3. hpc[r] # "uncount" /\ \A q \in Reqs : q # r => hpc'[q] = hpc[q]
    BY <1>6, <2>2 DEF HandlerClose, Handler
  <2>4. \/ counted' = counted /\ CloseThen(obj[r], FALSE, "done") = "done"
        \/ /\ ~ counted[obj[r]] /\ counted' = [counted EXCEPT ![obj[r]] = TRUE]
           /\ CloseThen(obj[r], FALSE, "done") = "uncount"
    <3>1. Close(obj[r], FALSE)
      BY <1>6 DEF HandlerClose
    <3> QED
      BY <2>1, <2>2, <3>1, CloseCounts
  <2>5. \/ counted' = counted /\ hpc'[r] # "uncount"
        \/ ~ counted[obj[r]] /\ counted' = [counted EXCEPT ![obj[r]] = TRUE] /\ hpc'[r] = "uncount"
    BY <1>6, <2>1, <2>2, <2>4 DEF HandlerClose, Handler
  <2>6. UNCHANGED <<active, obj, sid, tpc, wpc, wf, rpc, robj>>
    BY <1>6 DEF HandlerClose, tableVars, countVars, readVars, writeVars, ghostVars
  <2>8. CASE counted' = counted /\ hpc'[r] # "uncount"
    BY <2>2, <2>3, <2>6, <2>8 DEF Counting, Stays, Counted
  <2>9. CASE ~ counted[obj[r]] /\ counted' = [counted EXCEPT ![obj[r]] = TRUE] /\ hpc'[r] = "uncount"
    <3>1. \A q \in Reqs : q # r => (Counted(q)' <=> Counted(q))
      <4>1. \A p \in Objs : p # obj[r] => counted'[p] = counted[p]
        BY <2>1, <2>2, <2>9
      <4>2. \A q \in Reqs : obj[q] # 0 => obj[q] \in Objs
        BY DEF Sound, TypeOK
      <4> QED
        BY <2>1, <2>2, <2>3, <2>6, <2>9, <4>1, <4>2 DEF Counted
    <3>2. Counted(r) /\ Counted(r)'
      BY <2>1, <2>2, <2>6, <2>9, ZeroIsNone DEF Counted
    <3> QED
      BY <2>6, <3>1, <3>2 DEF Counting, Stays
  <2> QED
    BY <2>5, <2>8, <2>9
<1>7. ASSUME NEW r \in Reqs, HandlerUncount(r) PROVE Counting
  <2>1. obj[r] \in Objs /\ sid[obj[r]] = r /\ r \in Reqs
    BY <1>7, ZeroIsNone DEF Sound, TypeOK, Arrived, Named, Users, HandlerUncount, Handler
  <2>2. obj[r] = obj[r] /\ ByHandler(r) /\ hpc \in [Reqs -> {"none", "queued", "head", "last", "close", "uncount", "done"}]
    BY <1>7, <2>1, ZeroIsNone DEF Sound, TypeOK, Linked, ByHandler, HandlerUncount, Handler
  <2>3. counted[obj[r]]
    BY <2>1, <2>2, ZeroIsNone DEF Claims, Claimed
  <2>4. active' = Plus(active, -1)
    BY <1>7, <2>1 DEF HandlerUncount, Uncount, NoResets
  <2>5. hpc'[r] # "uncount" /\ \A q \in Reqs : q # r => hpc'[q] = hpc[q]
    BY <1>7, <2>2 DEF HandlerUncount, Handler
  <2>6. UNCHANGED <<obj, sid, counted, tpc, wpc, wf, rpc, robj>>
    BY <1>7 DEF HandlerUncount, Handler, tableVars, readVars, queueVars, writeVars, ghostVars
  <2>7. \A q \in Reqs : q # r => (Counted(q)' <=> Counted(q))
    BY <1>7, <2>1, <2>2, <2>5, <2>6 DEF Counted, HandlerUncount, Handler
  <2>8. Counted(r)
    BY <2>1, <2>2 DEF Counted, ByHandler
  <2>9. ~ ByTimer(r) /\ ~ ByWriter(r) /\ ~ ByReader(r)
    BY <2>1, <2>2 DEF Claims
  <2>11. ~ Counted(r)'
    BY <2>1, <2>2, <2>3, <2>5, <2>6, <2>9, ZeroIsNone DEF Counted, ByHandler, ByTimer, ByWriter, ByReader
  <2> QED
    BY <2>4, <2>7, <2>8, <2>11 DEF Counting, Drops
<1>8. ASSUME NEW r \in Reqs, TimerFires(r) PROVE Counting
  BY <1>8 DEF Sound, TypeOK, Arrived, AtWork, Named, Counting, Stays, Counted, TimerFires, Timer,
       tableVars, countVars, objectVars, readVars, queueVars, writeVars, ghostVars
<1>9. ASSUME NEW r \in Reqs, TimerClose(r) PROVE Counting
  <2>1. obj[r] \in Objs /\ sid[obj[r]] = r /\ sid[obj[r]] # 0
    BY <1>9, ZeroIsNone DEF Sound, TypeOK, Arrived, Named, Users, TimerClose, Timer
  <2>2. counted \in [Objs -> BOOLEAN] /\ obj[r] = obj[r] /\ tpc \in [Reqs -> {"off", "fired", "uncount", "over"}]
    BY <2>1 DEF Sound, TypeOK, Linked
  <2>3. tpc[r] # "uncount" /\ \A q \in Reqs : q # r => tpc'[q] = tpc[q]
    BY <1>9, <2>2 DEF TimerClose, Timer
  <2>4. \/ counted' = counted /\ CloseThen(obj[r], FALSE, "over") = "over"
        \/ /\ ~ counted[obj[r]] /\ counted' = [counted EXCEPT ![obj[r]] = TRUE]
           /\ CloseThen(obj[r], FALSE, "over") = "uncount"
    <3>1. Close(obj[r], FALSE)
      BY <1>9 DEF TimerClose
    <3> QED
      BY <2>1, <2>2, <3>1, CloseCounts
  <2>5. \/ counted' = counted /\ tpc'[r] # "uncount"
        \/ ~ counted[obj[r]] /\ counted' = [counted EXCEPT ![obj[r]] = TRUE] /\ tpc'[r] = "uncount"
    BY <1>9, <2>1, <2>2, <2>4 DEF TimerClose, Timer
  <2>6. UNCHANGED <<active, obj, sid, hpc, wpc, wf, rpc, robj>>
    BY <1>9 DEF TimerClose, tableVars, countVars, readVars, writeVars, ghostVars
  <2>8. CASE counted' = counted /\ tpc'[r] # "uncount"
    BY <2>2, <2>3, <2>6, <2>8 DEF Counting, Stays, Counted
  <2>9. CASE ~ counted[obj[r]] /\ counted' = [counted EXCEPT ![obj[r]] = TRUE] /\ tpc'[r] = "uncount"
    <3>1. \A q \in Reqs : q # r => (Counted(q)' <=> Counted(q))
      <4>1. \A p \in Objs : p # obj[r] => counted'[p] = counted[p]
        BY <2>1, <2>2, <2>9
      <4>2. \A q \in Reqs : obj[q] # 0 => obj[q] \in Objs
        BY DEF Sound, TypeOK
      <4> QED
        BY <2>1, <2>2, <2>3, <2>6, <2>9, <4>1, <4>2 DEF Counted
    <3>2. Counted(r) /\ Counted(r)'
      BY <2>1, <2>2, <2>6, <2>9, ZeroIsNone DEF Counted
    <3> QED
      BY <2>6, <3>1, <3>2 DEF Counting, Stays
  <2> QED
    BY <2>5, <2>8, <2>9
<1>10. ASSUME NEW r \in Reqs, TimerUncount(r) PROVE Counting
  <2>1. obj[r] \in Objs /\ sid[obj[r]] = r /\ r \in Reqs
    BY <1>10, ZeroIsNone DEF Sound, TypeOK, Arrived, Named, Users, TimerUncount, Timer
  <2>2. obj[r] = obj[r] /\ ByTimer(r) /\ tpc \in [Reqs -> {"off", "fired", "uncount", "over"}]
    BY <1>10, <2>1, ZeroIsNone DEF Sound, TypeOK, Linked, ByTimer, TimerUncount, Timer
  <2>3. counted[obj[r]]
    BY <2>1, <2>2, ZeroIsNone DEF Claims, Claimed
  <2>4. active' = Plus(active, -1)
    BY <1>10, <2>1 DEF TimerUncount, Uncount, NoResets
  <2>5. tpc'[r] # "uncount" /\ \A q \in Reqs : q # r => tpc'[q] = tpc[q]
    BY <1>10, <2>2 DEF TimerUncount, Timer
  <2>6. UNCHANGED <<obj, sid, counted, hpc, wpc, wf, rpc, robj>>
    BY <1>10 DEF TimerUncount, Timer, tableVars, readVars, queueVars, writeVars, ghostVars
  <2>7. \A q \in Reqs : q # r => (Counted(q)' <=> Counted(q))
    BY <1>10, <2>1, <2>2, <2>5, <2>6 DEF Counted, TimerUncount, Timer
  <2>8. Counted(r)
    BY <2>1, <2>2 DEF Counted, ByTimer
  <2>9. ~ ByHandler(r) /\ ~ ByWriter(r) /\ ~ ByReader(r)
    BY <2>1, <2>2 DEF Claims
  <2>11. ~ Counted(r)'
    BY <2>1, <2>2, <2>3, <2>5, <2>6, <2>9, ZeroIsNone DEF Counted, ByHandler, ByTimer, ByWriter, ByReader
  <2> QED
    BY <2>4, <2>7, <2>8, <2>11 DEF Counting, Drops
<1>11. CASE ReadMatch
  BY <1>11 DEF Sound, TypeOK, Arrived, AtWork, Named, Counting, Stays, Counted, ReadMatch, Reader,
       tableVars, countVars, objectVars, workVars, queueVars, writeVars, ghostVars
<1>12. CASE ReadAssign
  BY <1>12 DEF Sound, TypeOK, Arrived, AtWork, Named, Counting, Stays, Counted, ReadAssign, Assign,
       tableVars, countVars, workVars, queueVars, writeVars
<1>13. CASE ReadPurge
  <2>1. robj \in Objs /\ sid[robj] = sid[robj] /\ sid[robj] # 0
    BY <1>13, ZeroIsNone DEF Sound, TypeOK, AtWork, Named, Users, ReadPurge, Reader
  <2>2. counted \in [Objs -> BOOLEAN] /\ obj[sid[robj]] = robj
    BY <2>1 DEF Sound, TypeOK, Linked
  <2>3. rpc # "uncount"
    BY <1>13, <2>2 DEF ReadPurge, Reader
  <2>4. ~ counted[robj] => map[sid[robj]] # 0
    BY <2>1, ZeroIsNone DEF Claims
  <2>5. \/ counted' = counted /\ rpc' # "uncount"
        \/ ~ counted[robj] /\ counted' = [counted EXCEPT ![robj] = TRUE] /\ rpc' = "uncount"
    BY <1>13, <2>1, <2>2, <2>4, PurgeCounts DEF ReadPurge, Reader
  <2>6. UNCHANGED <<active, obj, sid, hpc, tpc, wpc, wf, robj>>
    BY <1>13 DEF ReadPurge, countVars, workVars, queueVars, writeVars, ghostVars
  <2>8. CASE counted' = counted /\ rpc' # "uncount"
    BY <2>2, <2>3, <2>6, <2>8 DEF Counting, Stays, Counted
  <2>9. CASE ~ counted[robj] /\ counted' = [counted EXCEPT ![robj] = TRUE] /\ rpc' = "uncount"
    <3>1. \A q \in Reqs : q # sid[robj] => (Counted(q)' <=> Counted(q))
      <4>1. \A p \in Objs : p # robj => counted'[p] = counted[p]
        BY <2>1, <2>2, <2>9
      <4>2. \A q \in Reqs : obj[q] # 0 => obj[q] \in Objs
        BY DEF Sound, TypeOK
      <4> QED
        BY <2>1, <2>2, <2>3, <2>6, <2>9, <4>1, <4>2 DEF Counted
    <3>2. Counted(sid[robj]) /\ Counted(sid[robj])'
      BY <2>1, <2>2, <2>6, <2>9, ZeroIsNone DEF Counted
    <3> QED
      BY <2>6, <3>1, <3>2 DEF Counting, Stays
  <2> QED
    BY <2>5, <2>8, <2>9
<1>14. CASE ReadClose
  BY <1>14 DEF Sound, TypeOK, Arrived, AtWork, Named, Counting, Stays, Counted, ReadClose, Reader,
       Close, CloseThen, tableVars, countVars, workVars, writeVars, ghostVars
<1>15. CASE ReadUncount
  <2>1. robj \in Objs /\ sid[robj] = sid[robj] /\ sid[robj] \in Reqs
    BY <1>15, ZeroIsNone DEF Sound, TypeOK, AtWork, Named, Users, ReadUncount, Reader
  <2>2. obj[sid[robj]] = robj /\ ByReader(sid[robj])
    BY <1>15, <2>1, ZeroIsNone DEF Sound, TypeOK, Linked, ByReader, ReadUncount, Reader
  <2>3. counted[robj]
    BY <2>1, <2>2, ZeroIsNone DEF Claims, Claimed
  <2>4. active' = Plus(active, -1)
    BY <1>15, <2>1 DEF ReadUncount, Uncount, NoResets
  <2>5. rpc' # "uncount"
    BY <1>15, <2>2 DEF ReadUncount, Reader
  <2>6. UNCHANGED <<obj, sid, counted, hpc, tpc, wpc, wf, robj>>
    BY <1>15 DEF ReadUncount, Reader, tableVars, workVars, queueVars, writeVars, ghostVars
  <2>7. \A q \in Reqs : q # sid[robj] => (Counted(q)' <=> Counted(q))
    BY <1>15, <2>1, <2>2, <2>5, <2>6 DEF Counted, ReadUncount, Reader
  <2>8. Counted(sid[robj])
    BY <2>1, <2>2 DEF Counted, ByReader
  <2>9. ~ ByHandler(sid[robj]) /\ ~ ByTimer(sid[robj]) /\ ~ ByWriter(sid[robj])
    BY <2>1, <2>2 DEF Claims
  <2>10. PICK r \in Reqs : r = sid[robj]
    BY <2>1
  <2>11. ~ Counted(r)'
    BY <2>1, <2>2, <2>3, <2>5, <2>6, <2>9, <2>10 DEF Counted, ByHandler, ByTimer, ByWriter
  <2> QED
    BY <2>4, <2>7, <2>8, <2>10, <2>11 DEF Counting, Drops
<1>16. CASE RstPurge
  BY <1>16 DEF Sound, TypeOK, Arrived, AtWork, Named, Counting, Stays, Counted, RstPurge, Reader,
       countVars, objectVars, workVars, queueVars, writeVars, ghostVars
<1>17. CASE RstClose
  BY <1>17 DEF Sound, TypeOK, Arrived, AtWork, Named, Counting, Stays, Counted, RstClose, Reader,
       tableVars, countVars, workVars, queueVars, writeVars, ghostVars
<1>18. CASE RstCount
  BY <1>18 DEF NoResets, RstCount, Reader
<1>19. CASE RstSet
  BY <1>19 DEF Sound, TypeOK, Arrived, AtWork, Named, Counting, Stays, Counted, RstSet, Reader,
       tableVars, countVars, workVars, queueVars, writeVars, ghostVars
<1>20. CASE WriterTake
  BY <1>20 DEF Sound, TypeOK, Arrived, AtWork, Named, Counting, Stays, Counted, WriterTake,
       TakeNext, NextFrame, Frame, Dropped, tableVars, countVars, objectVars, readVars, workVars,
       ghostVars
<1>21. CASE WriterMatch
  BY <1>21 DEF Sound, TypeOK, Arrived, AtWork, Named, Counting, Stays, Counted, WriterMatch, Writer,
       tableVars, countVars, objectVars, readVars, workVars, queueVars, ghostVars
<1>22. CASE WriterAssign
  BY <1>22 DEF Sound, TypeOK, Arrived, AtWork, Named, Counting, Stays, Counted, WriterAssign,
       EndOfResponse, Assign, tableVars, countVars, readVars, workVars, queueVars
<1>23. CASE WriterPurge
  <2>1. wobj \in Objs /\ sid[wobj] = wf.id /\ sid[wobj] # 0
    BY <1>23, ZeroIsNone DEF Sound, TypeOK, AtWork, Named, Users, WriterPurge, Writer
  <2>2. counted \in [Objs -> BOOLEAN] /\ obj[wf.id] = wobj
    BY <2>1 DEF Sound, TypeOK, Linked
  <2>3. wpc \notin {"uncount", "refused"}
    BY <1>23, <2>2 DEF WriterPurge, Writer
  <2>4. ~ counted[wobj] => map[sid[wobj]] # 0
    BY <2>1, ZeroIsNone DEF Claims
  <2>5. \/ counted' = counted /\ wpc' \notin {"uncount", "refused"}
        \/ ~ counted[wobj] /\ counted' = [counted EXCEPT ![wobj] = TRUE] /\ wpc' = "uncount"
    BY <1>23, <2>1, <2>2, <2>4, PurgeCounts DEF WriterPurge, Writer
  <2>6. UNCHANGED <<active, obj, sid, hpc, tpc, rpc, robj>>
    BY <1>23 DEF WriterPurge, countVars, readVars, workVars, queueVars, ghostVars
  <2>7. wpc' \in {"uncount", "refused"} => wf' = wf
    BY <1>23 DEF WriterPurge
  <2>8. CASE counted' = counted /\ wpc' \notin {"uncount", "refused"}
    BY <2>2, <2>3, <2>6, <2>7, <2>8 DEF Counting, Stays, Counted
  <2>9. CASE ~ counted[wobj] /\ counted' = [counted EXCEPT ![wobj] = TRUE] /\ wpc' = "uncount"
    <3>1. \A q \in Reqs : q # wf.id => (Counted(q)' <=> Counted(q))
      <4>1. \A p \in Objs : p # wobj => counted'[p] = counted[p]
        BY <2>1, <2>2, <2>9
      <4>2. \A q \in Reqs : obj[q] # 0 => obj[q] \in Objs
        BY DEF Sound, TypeOK
      <4> QED
        BY <2>1, <2>2, <2>3, <2>6, <2>7, <2>9, <4>1, <4>2 DEF Counted
    <3>2. Counted(wf.id) /\ \A q \in Reqs : q = wf.id => Counted(q)'
      BY <2>1, <2>2, <2>6, <2>7, <2>9, ZeroIsNone DEF Counted
    <3> QED
      BY <2>6, <3>1, <3>2 DEF Counting, Stays
  <2> QED
    BY <2>5, <2>8, <2>9
<1>24. CASE WriterClose
  <2>1. wobj \in Objs /\ sid[wobj] = wf.id /\ sid[wobj] # 0
    BY <1>24, ZeroIsNone DEF Sound, TypeOK, AtWork, Named, Users, WriterClose, Writer
  <2>2. counted \in [Objs -> BOOLEAN] /\ obj[wf.id] = wobj
    BY <2>1 DEF Sound, TypeOK, Linked
  <2>3. wpc \notin {"uncount", "refused"}
    BY <1>24, <2>2 DEF WriterClose, Writer
  <2>4. \/ counted' = counted /\ CloseThen(wobj, FALSE, "write") = "write"
        \/ /\ ~ counted[wobj] /\ counted' = [counted EXCEPT ![wobj] = TRUE]
           /\ CloseThen(wobj, FALSE, "write") = "uncount"
    <3>1. Close(wobj, FALSE)
      BY <1>24 DEF WriterClose
    <3> QED
      BY <2>1, <2>2, <3>1, CloseCounts
  <2>5. \/ counted' = counted /\ wpc' \notin {"uncount", "refused"}
        \/ ~ counted[wobj] /\ counted' = [counted EXCEPT ![wobj] = TRUE] /\ wpc' = "uncount"
    BY <1>24, <2>1, <2>2, <2>4 DEF WriterClose, Writer
  <2>6. UNCHANGED <<active, obj, sid, hpc, tpc, rpc, robj>>
    BY <1>24 DEF WriterClose, tableVars, countVars, readVars, workVars, ghostVars
  <2>7. wpc' \in {"uncount", "refused"} => wf' = wf
    BY <1>24 DEF WriterClose
  <2>8. CASE counted' = counted /\ wpc' \notin {"uncount", "refused"}
    BY <2>2, <2>3, <2>6, <2>7, <2>8 DEF Counting, Stays, Counted
  <2>9. CASE ~ counted[wobj] /\ counted' = [counted EXCEPT ![wobj] = TRUE] /\ wpc' = "uncount"
    <3>1. \A q \in Reqs : q # wf.id => (Counted(q)' <=> Counted(q))
      <4>1. \A p \in Objs : p # wobj => counted'[p] = counted[p]
        BY <2>1, <2>2, <2>9
      <4>2. \A q \in Reqs : obj[q] # 0 => obj[q] \in Objs
        BY DEF Sound, TypeOK
      <4> QED
        BY <2>1, <2>2, <2>3, <2>6, <2>7, <2>9, <4>1, <4>2 DEF Counted
    <3>2. Counted(wf.id) /\ \A q \in Reqs : q = wf.id => Counted(q)'
      BY <2>1, <2>2, <2>6, <2>7, <2>9, ZeroIsNone DEF Counted
    <3> QED
      BY <2>6, <3>1, <3>2 DEF Counting, Stays
  <2> QED
    BY <2>5, <2>8, <2>9
<1>25. CASE WriterUncount
  <2>1. wobj \in Objs /\ sid[wobj] = wf.id /\ wf.id \in Reqs
    BY <1>25, ZeroIsNone DEF Sound, TypeOK, AtWork, Named, Users, WriterUncount, Writer
  <2>2. obj[wf.id] = wobj /\ ByWriter(wf.id)
    BY <1>25, <2>1, ZeroIsNone DEF Sound, TypeOK, Linked, ByWriter, WriterUncount, Writer
  <2>3. counted[wobj]
    BY <2>1, <2>2, ZeroIsNone DEF Claims, Claimed
  <2>4. active' = Plus(active, -1)
    BY <1>25, <2>1 DEF WriterUncount, Uncount, NoResets
  <2>5. wpc' \notin {"uncount", "refused"}
    BY <1>25, <2>2 DEF WriterUncount, Writer
  <2>6. UNCHANGED <<obj, sid, counted, hpc, tpc, rpc, robj>>
    BY <1>25 DEF WriterUncount, Writer, tableVars, readVars, workVars, queueVars, ghostVars
  <2>7. \A q \in Reqs : q # wf.id => (Counted(q)' <=> Counted(q))
    BY <1>25, <2>1, <2>2, <2>5, <2>6 DEF Counted, WriterUncount, Writer
  <2>8. Counted(wf.id)
    BY <2>1, <2>2 DEF Counted, ByWriter
  <2>9. ~ ByHandler(wf.id) /\ ~ ByTimer(wf.id) /\ ~ ByReader(wf.id)
    BY <2>1, <2>2 DEF Claims
  <2>10. PICK r \in Reqs : r = wf.id
    BY <2>1
  <2>11. ~ Counted(r)'
    BY <2>1, <2>2, <2>3, <2>5, <2>6, <2>9, <2>10 DEF Counted, ByHandler, ByTimer, ByReader
  <2> QED
    BY <2>4, <2>7, <2>8, <2>10, <2>11 DEF Counting, Drops
<1>26. CASE WriterWrite
  BY <1>26 DEF Sound, TypeOK, Arrived, AtWork, Named, Counting, Stays, Counted, WriterWrite, Writer,
       WriterDone, NoFrame, Frame, tableVars, countVars, objectVars, readVars, workVars, queueVars,
       ghostVars
<1>27. CASE WriterRefuse
  <2>1. wobj \in Objs /\ sid[wobj] = wf.id /\ sid[wobj] # 0
    BY <1>27, ZeroIsNone DEF Sound, TypeOK, AtWork, Named, Users, WriterRefuse, Writer
  <2>2. counted \in [Objs -> BOOLEAN] /\ obj[wf.id] = wobj
    BY <2>1 DEF Sound, TypeOK, Linked
  <2>3. wpc \notin {"uncount", "refused"}
    BY <1>27, <2>2 DEF WriterRefuse, Writer
  <2>4. \/ counted' = counted /\ CloseThen(wobj, FALSE, "take") = "take"
        \/ /\ ~ counted[wobj] /\ counted' = [counted EXCEPT ![wobj] = TRUE]
           /\ CloseThen(wobj, FALSE, "take") = "uncount"
    <3>1. Close(wobj, FALSE)
      BY <1>27 DEF WriterRefuse
    <3> QED
      BY <2>1, <2>2, <3>1, CloseCounts
  <2>5. \/ counted' = counted /\ wpc' \notin {"uncount", "refused"}
        \/ ~ counted[wobj] /\ counted' = [counted EXCEPT ![wobj] = TRUE] /\ wpc' = "refused"
    BY <1>27, <2>1, <2>2, <2>4 DEF WriterRefuse, Writer
  <2>6. UNCHANGED <<active, obj, sid, hpc, tpc, rpc, robj>>
    BY <1>27 DEF WriterRefuse, tableVars, countVars, readVars, workVars, ghostVars
  <2>7. wpc' \in {"uncount", "refused"} => wf' = wf
    BY <1>27 DEF WriterRefuse
  <2>8. CASE counted' = counted /\ wpc' \notin {"uncount", "refused"}
    BY <2>2, <2>3, <2>6, <2>7, <2>8 DEF Counting, Stays, Counted
  <2>9. CASE ~ counted[wobj] /\ counted' = [counted EXCEPT ![wobj] = TRUE] /\ wpc' = "refused"
    <3>1. \A q \in Reqs : q # wf.id => (Counted(q)' <=> Counted(q))
      <4>1. \A p \in Objs : p # wobj => counted'[p] = counted[p]
        BY <2>1, <2>2, <2>9
      <4>2. \A q \in Reqs : obj[q] # 0 => obj[q] \in Objs
        BY DEF Sound, TypeOK
      <4> QED
        BY <2>1, <2>2, <2>3, <2>6, <2>7, <2>9, <4>1, <4>2 DEF Counted
    <3>2. Counted(wf.id) /\ \A q \in Reqs : q = wf.id => Counted(q)'
      BY <2>1, <2>2, <2>6, <2>7, <2>9, ZeroIsNone DEF Counted
    <3> QED
      BY <2>6, <3>1, <3>2 DEF Counting, Stays
  <2> QED
    BY <2>5, <2>8, <2>9
<1>28. CASE WriterRefused
  <2>1. wobj \in Objs /\ sid[wobj] = wf.id /\ wf.id \in Reqs
    BY <1>28, ZeroIsNone DEF Sound, TypeOK, AtWork, Named, Users, WriterRefused, Writer
  <2>2. obj[wf.id] = wobj /\ ByWriter(wf.id)
    BY <1>28, <2>1, ZeroIsNone DEF Sound, TypeOK, Linked, ByWriter, WriterRefused, Writer
  <2>3. counted[wobj]
    BY <2>1, <2>2, ZeroIsNone DEF Claims, Claimed
  <2>4. active' = Plus(active, -1)
    BY <1>28, <2>1 DEF WriterRefused, Uncount, NoResets
  <2>5. wpc' \notin {"uncount", "refused"}
    BY <1>28, <2>2 DEF WriterRefused, Writer
  <2>6. UNCHANGED <<obj, sid, counted, hpc, tpc, rpc, robj>>
    BY <1>28 DEF WriterRefused, Writer, tableVars, readVars, workVars, queueVars, ghostVars
  <2>7. \A q \in Reqs : q # wf.id => (Counted(q)' <=> Counted(q))
    BY <1>28, <2>1, <2>2, <2>5, <2>6 DEF Counted, WriterRefused, Writer
  <2>8. Counted(wf.id)
    BY <2>1, <2>2 DEF Counted, ByWriter
  <2>9. ~ ByHandler(wf.id) /\ ~ ByTimer(wf.id) /\ ~ ByReader(wf.id)
    BY <2>1, <2>2 DEF Claims
  <2>10. PICK r \in Reqs : r = wf.id
    BY <2>1
  <2>11. ~ Counted(r)'
    BY <2>1, <2>2, <2>3, <2>5, <2>6, <2>9, <2>10 DEF Counted, ByHandler, ByTimer, ByReader
  <2> QED
    BY <2>4, <2>7, <2>8, <2>10, <2>11 DEF Counting, Drops
<1>29. CASE SendReset
  BY <1>29 DEF Sound, TypeOK, Arrived, AtWork, Named, Counting, Stays, Counted, SendReset,
       tableVars, countVars, objectVars, readVars, workVars, writeVars, ghostVars
<1>30. CASE UNCHANGED vars
  BY <1>30 DEF Sound, TypeOK, Arrived, AtWork, Named, Counting, Stays, Counted, vars, tableVars,
       countVars, objectVars, readVars, workVars, queueVars, writeVars, ghostVars
<1> QED
  BY <1>1, <1>2, <1>3, <1>4, <1>5, <1>6, <1>7, <1>8, <1>9, <1>10, <1>11, <1>12, <1>13,
        <1>14, <1>15, <1>16, <1>17, <1>18, <1>19, <1>20, <1>21, <1>22, <1>23, <1>24, <1>25, <1>26,
        <1>27, <1>28, <1>29, <1>30
     DEF Next, Reading, Handling, Timing, Writing

-----------------------------------------------------------------------------
\* Far from the end of its range the counter counts.
LEMMA PlusIsExact ==
  /\ \A n \in Nat : n <= MaxReqs => Plus(n, 1) = n + 1
  /\ \A n \in Nat : 0 < n /\ n <= MaxReqs => Plus(n, -1) = n - 1
<1>1. \A n \in Int : 0 <= n /\ n < Wide => n % Wide = n
  BY ServerAssumption
<1>2. MaxReqs \in Nat /\ Wide \in Nat /\ MaxReqs + 1 < Wide
  BY ServerAssumption
<1>3. ASSUME NEW n \in Nat, n <= MaxReqs PROVE Plus(n, 1) = n + 1
  BY <1>1, <1>2, <1>3 DEF Plus
<1>4. ASSUME NEW n \in Nat, 0 < n, n <= MaxReqs PROVE Plus(n, -1) = n - 1
  BY <1>1, <1>2, <1>4 DEF Plus
<1> QED
  BY <1>3, <1>4

\* Sets of streams are finite, and within their number.
LEMMA SetOfReqs ==
  ASSUME NEW S \in SUBSET Reqs
  PROVE  IsFiniteSet(S) /\ Cardinality(S) \in Nat /\ Cardinality(S) <= MaxReqs
<1>1. IsFiniteSet(Reqs) /\ Cardinality(Reqs) = MaxReqs
  BY ServerAssumption, FS_Interval DEF Reqs
<1> QED
  BY <1>1, FS_Subset, FS_CardinalityType

\* The counter follows the streams that are counted.
LEMMA CountFollows ==
  ASSUME active = Cardinality(CountedOnes), Counting
  PROVE  active' = Cardinality(CountedOnes')
<1>1. /\ CountedOnes \in SUBSET Reqs /\ CountedOnes' \in SUBSET Reqs
      /\ \A q \in Reqs : (q \in CountedOnes <=> Counted(q)) /\ (q \in CountedOnes' <=> Counted(q)')
  BY DEF CountedOnes
<1>2. IsFiniteSet(CountedOnes) /\ active \in Nat /\ active <= MaxReqs
  BY <1>1, SetOfReqs
<1>3. IsFiniteSet(CountedOnes') /\ Cardinality(CountedOnes') \in Nat /\ Cardinality(CountedOnes') <= MaxReqs
  BY <1>1, SetOfReqs
<1>4. CASE Stays
  <2>1. CountedOnes' = CountedOnes
    BY <1>1, <1>4 DEF Stays
  <2> QED
    BY <1>4, <2>1 DEF Stays
<1>5. ASSUME NEW r \in Reqs, Adds(r) PROVE active' = Cardinality(CountedOnes')
  <2>1. CountedOnes' = CountedOnes \cup {r} /\ r \notin CountedOnes
    BY <1>1, <1>5 DEF Adds
  <2>2. Cardinality(CountedOnes') = active + 1
    BY <1>2, <2>1, FS_AddElement
  <2>3. active' = Plus(active, 1)
    BY <1>5 DEF Adds
  <2> QED
    BY <1>2, <2>2, <2>3, PlusIsExact
<1>6. ASSUME NEW r \in Reqs, Drops(r) PROVE active' = Cardinality(CountedOnes')
  <2>1. CountedOnes' = CountedOnes \ {r} /\ r \in CountedOnes
    BY <1>1, <1>6 DEF Drops
  <2>2. Cardinality(CountedOnes') = active - 1
    BY <1>2, <2>1, FS_RemoveElement
  <2>3. active' = Plus(active, -1)
    BY <1>6 DEF Drops
  <2>4. 0 < active
    BY <1>2, <1>3, <2>2
  <2> QED
    BY <1>2, <2>2, <2>3, <2>4, PlusIsExact
<1> QED
  BY <1>4, <1>5, <1>6 DEF Counting

\* The invariant holds before the first stream,
LEMMA InitServer == Init => ServerInv
<1> SUFFICES ASSUME Init PROVE ServerInv
  OBVIOUS
<1>0. MaxReqs \in Nat \ {0} /\ Wide \in Nat /\ Wide > 0
  BY ServerAssumption
<1>1. TypeOK
  BY <1>0 DEF Init, TypeOK, Statuses, NoFrame
<1>2. Arrived /\ AtWork /\ Linked
  BY <1>0 DEF Init, Arrived, AtWork, Linked, Named
<1>3. Users /\ Claims /\ NoResets
  BY DEF Init, Users, Claims, NoResets, ByHandler, ByTimer, ByWriter, ByReader
<1>4. CountedOnes = {}
  BY DEF Init, CountedOnes, Counted
<1>5. active = Cardinality(CountedOnes)
  BY <1>4, FS_EmptySet DEF Init
<1> QED
  BY <1>1, <1>2, <1>3, <1>5 DEF ServerInv, Sound, Orderly

\* and every step keeps it.
LEMMA NextServer == ServerInv /\ [Next]_vars => ServerInv'
<1> SUFFICES ASSUME ServerInv, [Next]_vars PROVE ServerInv'
  OBVIOUS
<1>1. Sound /\ Linked
  BY DEF ServerInv
<1>2. Sound'
  BY <1>1, StepTypes, StepArrived, StepAtWork DEF Sound
<1>3. Linked'
  BY <1>1, StepLinked
<1>4. ASSUME Calm' PROVE Orderly' /\ active' = Cardinality(CountedOnes')
  <2>1. Calm
    BY <1>4, CalmBefore
  <2>2. Users /\ Claims /\ NoResets /\ active = Cardinality(CountedOnes)
    BY <2>1 DEF ServerInv, Orderly
  <2>3. NoResets' /\ Users'
    BY <1>1, <1>4, <2>1, <2>2, StepNoResets, StepUsers
  <2>4. Claims' /\ Counting
    BY <1>1, <1>4, <2>1, <2>2, StepClaims, StepCounted
  <2> QED
    BY <2>2, <2>3, <2>4, CountFollows DEF Orderly
<1> QED
  BY <1>2, <1>3, <1>4 DEF ServerInv

\* The types hold whatever goes wrong, resets and stolen objects included.
THEOREM ServerTypes == Spec => []TypeOK
<1>1. ServerInv => TypeOK
  BY DEF ServerInv, Sound
<1> QED
  BY <1>1, InitServer, NextServer, PTL DEF Spec

\* For every number of requests, every limit and every interleaving of the
\* read thread, the handlers, the timers and the write thread: without resets
\* of the client a stream is counted once and counted off once, until an
\* object is recycled under a thread that still uses it.
THEOREM StreamsCountedOnce == Spec => []CountsBalance
<1>1. ServerInv => CountsBalance
  BY DEF ServerInv, Orderly, NoResets, Calm, CountedOnes, CountsBalance
<1> QED
  BY <1>1, InitServer, NextServer, PTL DEF Spec

-----------------------------------------------------------------------------
(* What holds on any connection for a stream whose object nobody shared.     *)

Busy(r) == hpc[r] \notin {"none", "done"} \/ tpc[r] \in {"fired", "uncount"}
InHand(r) == wpc # "take" /\ wf.id = r

\* A thread that works on an object for a stream that the object is no longer
\* named for was stolen from, and so was the stream it is named for.
Owned ==
  /\ \A r \in Reqs : Busy(r) /\ sid[obj[r]] # r => {r, sid[obj[r]]} \subseteq stolen
  /\ wpc # "take" /\ sid[wobj] # wf.id => {wf.id, sid[wobj]} \subseteq stolen

\* Nothing is written on a stream before its headers are read.
Announced ==
  /\ wpc # "take" => sent[wf.id] # "nothing"
  /\ \A r \in Reqs : wire[r] # << >> => sent[r] # "nothing"

\* The types of the frames on a stream; those of a response and, cut off by a
\* reset, of its beginning.
TypesOf(w) == [i \in DOMAIN w |-> w[i].type]
None == << >>
Part == <<"fields">>
Whole == <<"fields", "last">>
NoneCut == <<"rst">>
PartCut == <<"fields", "rst">>
WholeCut == <<"fields", "last", "rst">>
Uncut == {None, Part, Whole}
Cut == {NoneCut, PartCut, WholeCut}

Over(r) == map[r] = 0 \/ st[map[r]] = "Closed"

\* The messages of a stream that wait are its handler's, in their order.
MessagesOf(r) ==
  /\ \A i \in DOMAIN message : message[i].id = r => message[i].by = r /\ message[i].type # "rst"
  /\ \A i, j \in DOMAIN message :
       i < j /\ message[i].id = r /\ message[j].id = r =>
         message[i].type = "fields" /\ message[j].type = "last"

FramesOf(r) ==
  /\ InHand(r) => wf.by = r
  /\ TypesOf(wire[r]) \in Uncut \cup Cut
  /\ \A i \in DOMAIN wire[r] : wire[r][i].by = r

\* A reset has taken the stream out of the map before it is written.
ResetsOf(r) ==
  /\ TypesOf(wire[r]) \in Cut => map[r] = 0
  /\ InHand(r) => TypesOf(wire[r]) \in Uncut
  /\ InHand(r) /\ wf.type = "rst" /\ wpc # "purge" => map[r] = 0 /\ wpc \in {"uncount", "write"}

Waits(r, type) == \E i \in DOMAIN message : message[i].id = r /\ message[i].type = type
Holds(r, type) == InHand(r) /\ wf.type = type

\* A frame is in one place, and not before its handler has sent it; the last
\* one follows the first, or will be dropped as the first was.
StagesOf(r) ==
  /\ Waits(r, "fields") \/ Holds(r, "fields") => TypesOf(wire[r]) \in {None, NoneCut}
  /\ Waits(r, "fields") => ~ Holds(r, "fields") /\ ~ Holds(r, "last")
  /\ Waits(r, "last") => ~ Holds(r, "last") /\ TypesOf(wire[r]) \notin {Whole, WholeCut}
  /\ Holds(r, "last") => TypesOf(wire[r]) = Part
  /\ hpc[r] \in {"none", "queued", "head"} =>
       ~ Waits(r, "fields") /\ ~ Holds(r, "fields") /\ TypesOf(wire[r]) \in {None, NoneCut}
  /\ hpc[r] # "done" =>
       ~ Waits(r, "last") /\ ~ Holds(r, "last") /\ TypesOf(wire[r]) \notin {Whole, WholeCut}
  /\ hpc[r] = "last" \/ Waits(r, "last") =>
       Waits(r, "fields") \/ Holds(r, "fields") \/ TypesOf(wire[r]) \in {Part, PartCut} \/ Over(r)
  /\ InHand(r) /\ wpc = "refused" => Over(r)

Clean(r) == r \notin stolen \cup overwritten
OrderOf(r) == MessagesOf(r) /\ FramesOf(r) /\ ResetsOf(r) /\ StagesOf(r)
Ordered == \A r \in Reqs : Clean(r) => OrderOf(r)

\* The stream has left the map, or a thread is about to take it out.
Doomed(r) ==
  \/ map[r] = 0 \/ r \in due \/ (\E i \in DOMAIN control : control[i] = r)
  \/ wpc = "purge" /\ wf.id = r
  \/ rpc = "purge" /\ sid[robj] = r

\* The stream's last frame waits or is being dealt with.
Ending(r) == Waits(r, "last") \/ (Holds(r, "last") /\ wpc \in {"match", "assign", "close", "refuse"})

\* A stream that is closed is about to leave the map, and one whose handler is
\* done is, too, when its last frame has been dealt with.
LeavesOf(r) ==
  /\ sid[obj[r]] = r /\ st[obj[r]] = "Closed" => Doomed(r)
  /\ hpc[r] = "uncount" => Doomed(r)
  /\ hpc[r] = "done" => Doomed(r) \/ Ending(r)

ResetsOut == rpc \in {"rstClose", "rstCount", "rstSet"} => map[sid[robj]] = 0
Leaving == \A r \in Reqs : r \notin stolen /\ sent[r] # "nothing" => LeavesOf(r)

StreamInv == Owned /\ Announced /\ Ordered /\ ResetsOut /\ Leaving

-----------------------------------------------------------------------------
(* What every step keeps of that. *)

\* A thread starts to use an object under the name it has; a new name is noted.
LEMMA StepOwned == Sound /\ Linked /\ Owned /\ [Next]_vars => Owned'
<1> SUFFICES ASSUME Sound /\ Linked /\ Owned, [Next]_vars PROVE Owned'
  OBVIOUS
<1>1. ASSUME NEW r \in Reqs, ReadHeaders(r) PROVE Owned'
  <2>1. /\ sid \in [Objs -> Reqs \cup {0}] /\ obj \in [Reqs -> Objs \cup {0}] /\ New \in Objs
        /\ hpc \in [Reqs -> {"none", "queued", "head", "last", "close", "uncount", "done"}]
        /\ tpc \in [Reqs -> {"off", "fired", "uncount", "over"}]
    BY <1>1, NewObject DEF Sound, TypeOK
  <2>2. stolen \subseteq stolen' /\ (UsersOf(New) # {} => UsersOf(New) \cup {r} \subseteq stolen')
    BY <1>1 DEF ReadHeaders, New
  <2>3. /\ obj' = [obj EXCEPT ![r] = New] /\ sid' = [sid EXCEPT ![New] = r]
        /\ tpc' = tpc /\ hpc' \in {hpc, [hpc EXCEPT ![r] = "queued"]}
    BY <1>1, NewObject
  <2>4. ASSUME NEW q \in Reqs, Busy(q)', sid'[obj'[q]] # q
        PROVE  {q, sid'[obj'[q]]} \subseteq stolen'
    <3>1. q # r
      BY <2>1, <2>3, <2>4
    <3>2. obj'[q] = obj[q] /\ Busy(q)
      BY <2>1, <2>3, <2>4, <3>1 DEF Busy
    <3>3. obj[q] \in Objs
      BY <2>1, <3>2 DEF Sound, Arrived, Named, Busy
    <3>4. CASE obj[q] = New
      <4>1. q \in UsersOf(New)
        BY <3>2, <3>4 DEF UsersOf, Busy
      <4>2. sid'[obj'[q]] = r
        BY <2>1, <2>3, <3>2, <3>4
      <4> QED
        BY <2>2, <4>1, <4>2
    <3>5. CASE obj[q] # New
      <4>1. sid'[obj'[q]] = sid[obj[q]]
        BY <2>1, <2>3, <3>2, <3>3, <3>5
      <4> QED
        BY <2>2, <2>4, <3>2, <4>1 DEF Owned
    <3> QED
      BY <3>4, <3>5
  <2>5. ASSUME wpc' # "take", sid'[wobj'] # wf'.id
        PROVE  {wf'.id, sid'[wobj']} \subseteq stolen'
    <3>1. UNCHANGED <<wpc, wobj, wf>>
      BY <1>1 DEF ReadHeaders, writeVars
    <3>2. wobj \in Objs
      BY <2>5, <3>1 DEF Sound, TypeOK, AtWork, Named
    <3>3. CASE wobj = New
      <4>1. wf.id \in UsersOf(New) /\ sid'[wobj'] = r
        BY <2>1, <2>3, <2>5, <3>1, <3>3 DEF UsersOf
      <4> QED
        BY <2>2, <3>1, <4>1
    <3>4. CASE wobj # New
      <4>1. sid'[wobj'] = sid[wobj]
        BY <2>1, <2>3, <3>1, <3>2, <3>4
      <4> QED
        BY <2>2, <2>5, <3>1, <4>1 DEF Owned
    <3> QED
      BY <3>3, <3>4
  <2> QED
    BY <2>4, <2>5 DEF Owned
<1>2. ASSUME NEW r \in Reqs, ReadFrame(r) PROVE Owned'
  BY <1>2 DEF Sound, TypeOK, Owned, Busy, ReadFrame, tableVars, countVars, objectVars, workVars,
       queueVars, writeVars, ghostVars
<1>3. ASSUME NEW r \in Reqs, HandlerStart(r) PROVE Owned'
  BY <1>3 DEF Sound, TypeOK, Owned, Busy, HandlerStart, Handler, tableVars, countVars, objectVars,
       readVars, queueVars, writeVars, ghostVars
<1>4. ASSUME NEW r \in Reqs, HandlerHead(r) PROVE Owned'
  BY <1>4 DEF Sound, TypeOK, Owned, Busy, HandlerHead, Handler, Frame, tableVars, countVars, objectVars,
       readVars, writeVars, ghostVars
<1>5. ASSUME NEW r \in Reqs, HandlerLast(r) PROVE Owned'
  <2>1. hpc[r] = "last" /\ \E to \in {"close", "done"} : hpc' = [hpc EXCEPT ![r] = to]
    BY <1>5 DEF HandlerLast, Handler
  <2>2. \A q \in Reqs : Busy(q)' => Busy(q)
    BY <1>5, <2>1 DEF Sound, TypeOK, Busy, HandlerLast
  <2> QED
    BY <1>5, <2>2 DEF Owned, HandlerLast, tableVars, objectVars, writeVars, ghostVars
<1>6. ASSUME NEW r \in Reqs, HandlerClose(r) PROVE Owned'
  BY <1>6 DEF Sound, TypeOK, Owned, Busy, HandlerClose, Handler, Close, CloseThen, tableVars, countVars,
       readVars, writeVars, ghostVars
<1>7. ASSUME NEW r \in Reqs, HandlerUncount(r) PROVE Owned'
  BY <1>7 DEF Sound, TypeOK, Owned, Busy, HandlerUncount, Handler, Uncount, Plus, tableVars, readVars,
       queueVars, writeVars, ghostVars
<1>8. ASSUME NEW r \in Reqs, TimerFires(r) PROVE Owned'
  <2>1. map[r] # 0 /\ sid[map[r]] = r /\ map[r] \in Objs
    BY <1>8 DEF TimerFires, Linked, Sound, TypeOK
  <2>2. obj[r] = map[r]
    BY <2>1, ZeroIsNone DEF Linked
  <2>3. \A q \in Reqs : q # r => tpc'[q] = tpc[q]
    BY <1>8 DEF TimerFires, Timer, Sound, TypeOK
  <2> QED
    BY <1>8, <2>1, <2>2, <2>3 DEF Owned, Busy, TimerFires, tableVars, objectVars, writeVars, ghostVars
<1>9. ASSUME NEW r \in Reqs, TimerClose(r) PROVE Owned'
  BY <1>9 DEF Sound, TypeOK, Owned, Busy, TimerClose, Timer, Close, CloseThen, tableVars, countVars,
       readVars, writeVars, ghostVars
<1>10. ASSUME NEW r \in Reqs, TimerUncount(r) PROVE Owned'
  BY <1>10 DEF Sound, TypeOK, Owned, Busy, TimerUncount, Timer, Uncount, Plus, tableVars, readVars,
       queueVars, writeVars, ghostVars
<1>11. CASE ReadMatch
  BY <1>11 DEF Sound, TypeOK, Owned, Busy, ReadMatch, Reader, tableVars, countVars, objectVars, workVars,
       queueVars, writeVars, ghostVars
<1>12. CASE ReadAssign
  BY <1>12 DEF Sound, TypeOK, Owned, Busy, ReadAssign, Assign, tableVars, countVars, workVars, queueVars,
       writeVars
<1>13. CASE ReadPurge
  BY <1>13 DEF Sound, TypeOK, Owned, Busy, ReadPurge, Reader, Purge, PurgeThen, countVars, workVars,
       queueVars, writeVars, ghostVars
<1>14. CASE ReadClose
  BY <1>14 DEF Sound, TypeOK, Owned, Busy, ReadClose, Reader, Close, CloseThen, tableVars, countVars,
       workVars, writeVars, ghostVars
<1>15. CASE ReadUncount
  BY <1>15 DEF Sound, TypeOK, Owned, Busy, ReadUncount, Reader, Uncount, Plus, tableVars, workVars,
       queueVars, writeVars, ghostVars
<1>16. CASE RstPurge
  BY <1>16 DEF Sound, TypeOK, Owned, Busy, RstPurge, Reader, countVars, objectVars, workVars, queueVars,
       writeVars, ghostVars
<1>17. CASE RstClose
  BY <1>17 DEF Sound, TypeOK, Owned, Busy, RstClose, Reader, tableVars, countVars, workVars, queueVars,
       writeVars, ghostVars
<1>18. CASE RstCount
  BY <1>18 DEF Sound, TypeOK, Owned, Busy, RstCount, Reader, Plus, tableVars, objectVars, workVars,
       queueVars, writeVars, ghostVars
<1>19. CASE RstSet
  BY <1>19 DEF Sound, TypeOK, Owned, Busy, RstSet, Reader, tableVars, countVars, workVars, queueVars,
       writeVars, ghostVars
<1>20. CASE WriterTake
  <2>1. NextFrame.id \in Reqs
    BY <1>20, NextIsFrame DEF Frames
  <2>2. wpc' # "take" => sid[map[NextFrame.id]] = NextFrame.id /\ wobj' = map[NextFrame.id] /\ wf' = NextFrame
    BY <1>20, <2>1 DEF WriterTake, Dropped, Linked
  <2> QED
    BY <1>20, <2>2 DEF Owned, Busy, WriterTake, objectVars, workVars, ghostVars
<1>21. CASE WriterMatch
  BY <1>21 DEF Sound, TypeOK, Owned, Busy, WriterMatch, Writer, tableVars, countVars, objectVars,
       readVars, workVars, queueVars, ghostVars
<1>22. CASE WriterAssign
  BY <1>22 DEF Sound, TypeOK, Owned, Busy, WriterAssign, EndOfResponse, Assign, tableVars, countVars,
       readVars, workVars, queueVars
<1>23. CASE WriterPurge
  BY <1>23 DEF Sound, TypeOK, Owned, Busy, WriterPurge, Writer, Purge, PurgeThen, countVars, readVars,
       workVars, queueVars, ghostVars
<1>24. CASE WriterClose
  BY <1>24 DEF Sound, TypeOK, Owned, Busy, WriterClose, Writer, Close, CloseThen, tableVars, countVars,
       readVars, workVars, ghostVars
<1>25. CASE WriterUncount
  BY <1>25 DEF Sound, TypeOK, Owned, Busy, WriterUncount, Writer, Uncount, Plus, tableVars, readVars,
       workVars, queueVars, ghostVars
<1>26. CASE WriterWrite
  BY <1>26 DEF Sound, TypeOK, Owned, Busy, WriterWrite, Writer, WriterDone, NoFrame, Frame, tableVars,
       countVars, objectVars, readVars, workVars, queueVars, ghostVars
<1>27. CASE WriterRefuse
  BY <1>27 DEF Sound, TypeOK, Owned, Busy, WriterRefuse, Writer, WriterDone, NoFrame, Frame, Close,
       CloseThen, tableVars, countVars, readVars, workVars, ghostVars
<1>28. CASE WriterRefused
  BY <1>28 DEF Sound, TypeOK, Owned, Busy, WriterRefused, Writer, WriterDone, NoFrame, Frame, Uncount,
       Plus, tableVars, readVars, workVars, queueVars, ghostVars
<1>29. CASE SendReset
  BY <1>29 DEF Sound, TypeOK, Owned, Busy, SendReset, tableVars, countVars, objectVars, readVars,
       workVars, writeVars, ghostVars
<1>30. CASE UNCHANGED vars
  BY <1>30 DEF Sound, TypeOK, Owned, Busy, vars, tableVars, countVars, objectVars, readVars, workVars,
       queueVars, writeVars, ghostVars
<1> QED
  BY <1>1, <1>2, <1>3, <1>4, <1>5, <1>6, <1>7, <1>8, <1>9, <1>10, <1>11, <1>12, <1>13,
        <1>14, <1>15, <1>16, <1>17, <1>18, <1>19, <1>20, <1>21, <1>22, <1>23, <1>24, <1>25, <1>26,
        <1>27, <1>28, <1>29, <1>30
     DEF Next, Reading, Handling, Timing, Writing

\* A stream has headers before a frame of it is taken or written.
LEMMA StepAnnounced == Sound /\ Announced /\ [Next]_vars => Announced'
<1> SUFFICES ASSUME Sound /\ Announced, [Next]_vars PROVE Announced'
  OBVIOUS
<1>1. ASSUME NEW q \in Reqs, ReadHeaders(q) PROVE Announced'
  <2>1. \A r \in Reqs : sent[r] # "nothing" => sent'[r] # "nothing"
    BY <1>1, NewObject DEF Sound, TypeOK
  <2> QED
    BY <1>1, <2>1 DEF Sound, TypeOK, AtWork, Frames, Announced, ReadHeaders, writeVars
<1>2. ASSUME NEW q \in Reqs, ReadFrame(q) PROVE Announced'
    BY <1>2 DEF Sound, TypeOK, AtWork, Frames, Announced, ReadFrame, tableVars, countVars,
       objectVars, workVars, queueVars, writeVars, ghostVars
<1>3. ASSUME NEW q \in Reqs, HandlerStart(q) PROVE Announced'
    BY <1>3 DEF Sound, TypeOK, AtWork, Frames, Announced, HandlerStart, Handler, tableVars,
       countVars, objectVars, readVars, queueVars, writeVars, ghostVars
<1>4. ASSUME NEW q \in Reqs, HandlerHead(q) PROVE Announced'
    BY <1>4 DEF Sound, TypeOK, AtWork, Frames, Announced, HandlerHead, Handler, tableVars,
       countVars, objectVars, readVars, writeVars, ghostVars
<1>5. ASSUME NEW q \in Reqs, HandlerLast(q) PROVE Announced'
    BY <1>5 DEF Sound, TypeOK, AtWork, Frames, Announced, HandlerLast, Handler, tableVars,
       countVars, objectVars, readVars, writeVars, ghostVars
<1>6. ASSUME NEW q \in Reqs, HandlerClose(q) PROVE Announced'
    BY <1>6 DEF Sound, TypeOK, AtWork, Frames, Announced, HandlerClose, Handler, Close, tableVars,
       countVars, readVars, writeVars, ghostVars
<1>7. ASSUME NEW q \in Reqs, HandlerUncount(q) PROVE Announced'
    BY <1>7 DEF Sound, TypeOK, AtWork, Frames, Announced, HandlerUncount, Handler, Uncount,
       tableVars, readVars, queueVars, writeVars, ghostVars
<1>8. ASSUME NEW q \in Reqs, TimerFires(q) PROVE Announced'
    BY <1>8 DEF Sound, TypeOK, AtWork, Frames, Announced, TimerFires, Timer, tableVars, countVars,
       objectVars, readVars, queueVars, writeVars, ghostVars
<1>9. ASSUME NEW q \in Reqs, TimerClose(q) PROVE Announced'
    BY <1>9 DEF Sound, TypeOK, AtWork, Frames, Announced, TimerClose, Timer, Close, tableVars,
       countVars, readVars, writeVars, ghostVars
<1>10. ASSUME NEW q \in Reqs, TimerUncount(q) PROVE Announced'
    BY <1>10 DEF Sound, TypeOK, AtWork, Frames, Announced, TimerUncount, Timer, Uncount, tableVars,
       readVars, queueVars, writeVars, ghostVars
<1>11. CASE ReadMatch
    BY <1>11 DEF Sound, TypeOK, AtWork, Frames, Announced, ReadMatch, Reader, tableVars, countVars,
       objectVars, workVars, queueVars, writeVars, ghostVars
<1>12. CASE ReadAssign
    BY <1>12 DEF Sound, TypeOK, AtWork, Frames, Announced, ReadAssign, Assign, tableVars, countVars,
       workVars, queueVars, writeVars
<1>13. CASE ReadPurge
    BY <1>13 DEF Sound, TypeOK, AtWork, Frames, Announced, ReadPurge, Reader, Purge, countVars,
       workVars, queueVars, writeVars, ghostVars
<1>14. CASE ReadClose
    BY <1>14 DEF Sound, TypeOK, AtWork, Frames, Announced, ReadClose, Reader, Close, tableVars,
       countVars, workVars, writeVars, ghostVars
<1>15. CASE ReadUncount
    BY <1>15 DEF Sound, TypeOK, AtWork, Frames, Announced, ReadUncount, Reader, Uncount, tableVars,
       workVars, queueVars, writeVars, ghostVars
<1>16. CASE RstPurge
    BY <1>16 DEF Sound, TypeOK, AtWork, Frames, Announced, RstPurge, Reader, countVars, objectVars,
       workVars, queueVars, writeVars, ghostVars
<1>17. CASE RstClose
    BY <1>17 DEF Sound, TypeOK, AtWork, Frames, Announced, RstClose, Reader, tableVars, countVars,
       workVars, queueVars, writeVars, ghostVars
<1>18. CASE RstCount
    BY <1>18 DEF Sound, TypeOK, AtWork, Frames, Announced, RstCount, Reader, tableVars, objectVars,
       workVars, queueVars, writeVars, ghostVars
<1>19. CASE RstSet
    BY <1>19 DEF Sound, TypeOK, AtWork, Frames, Announced, RstSet, Reader, tableVars, countVars,
       workVars, queueVars, writeVars, ghostVars
<1>20. CASE WriterTake
  <2>1. NextFrame.id \in Reqs
    BY <1>20, NextIsFrame DEF Frames
  <2>2. wpc' # "take" => map[NextFrame.id] # 0 /\ wf' = NextFrame
    BY <1>20, <2>1 DEF WriterTake, Dropped
  <2> QED
    BY <1>20, <2>1, <2>2 DEF Sound, Arrived, Announced, WriterTake, readVars
<1>21. CASE WriterMatch
    BY <1>21 DEF Sound, TypeOK, AtWork, Frames, Announced, WriterMatch, Writer, tableVars,
       countVars, objectVars, readVars, workVars, queueVars, ghostVars
<1>22. CASE WriterAssign
    BY <1>22 DEF Sound, TypeOK, AtWork, Frames, Announced, WriterAssign, EndOfResponse, Assign,
       tableVars, countVars, readVars, workVars, queueVars
<1>23. CASE WriterPurge
    BY <1>23 DEF Sound, TypeOK, AtWork, Frames, Announced, WriterPurge, Writer, Purge, countVars,
       readVars, workVars, queueVars, ghostVars
<1>24. CASE WriterClose
    BY <1>24 DEF Sound, TypeOK, AtWork, Frames, Announced, WriterClose, Writer, Close, tableVars,
       countVars, readVars, workVars, ghostVars
<1>25. CASE WriterUncount
    BY <1>25 DEF Sound, TypeOK, AtWork, Frames, Announced, WriterUncount, Writer, Uncount,
       tableVars, readVars, workVars, queueVars, ghostVars
<1>26. CASE WriterWrite
    BY <1>26 DEF Sound, TypeOK, AtWork, Frames, Announced, WriterWrite, Writer, WriterDone,
       tableVars, countVars, objectVars, readVars, workVars, queueVars, ghostVars
<1>27. CASE WriterRefuse
    BY <1>27 DEF Sound, TypeOK, AtWork, Frames, Announced, WriterRefuse, Writer, WriterDone, Close,
       tableVars, countVars, readVars, workVars, ghostVars
<1>28. CASE WriterRefused
    BY <1>28 DEF Sound, TypeOK, AtWork, Frames, Announced, WriterRefused, Writer, WriterDone,
       Uncount, tableVars, readVars, workVars, queueVars, ghostVars
<1>29. CASE SendReset
    BY <1>29 DEF Sound, TypeOK, AtWork, Frames, Announced, SendReset, tableVars, countVars,
       objectVars, readVars, workVars, writeVars, ghostVars
<1>30. CASE UNCHANGED vars
    BY <1>30 DEF Sound, TypeOK, AtWork, Frames, Announced, vars, tableVars, countVars, objectVars,
       readVars, workVars, queueVars, writeVars, ghostVars
<1> QED
  BY <1>1, <1>2, <1>3, <1>4, <1>5, <1>6, <1>7, <1>8, <1>9, <1>10, <1>11, <1>12, <1>13, <1>14,
     <1>15, <1>16, <1>17, <1>18, <1>19, <1>20, <1>21, <1>22, <1>23, <1>24, <1>25, <1>26, <1>27,
     <1>28, <1>29, <1>30
     DEF Next, Reading, Handling, Timing, Writing

\* What a step keeps of a stream that has headers: its object, that it has left
\* the map and, of one that nothing happened to, that it is over.
Keeps(r) ==
  /\ sent'[r] # "nothing" /\ obj'[r] = obj[r]
  /\ map[r] = 0 => map'[r] = 0
  /\ stolen \subseteq stolen' /\ overwritten \subseteq overwritten'
  /\ Clean(r)' /\ Over(r) => Over(r)'

\* What every step keeps.
LEMMA StepKeeps == Sound /\ Linked /\ [Next]_vars => \A r \in Reqs : sent[r] # "nothing" => Keeps(r)
<1> SUFFICES ASSUME Sound /\ Linked, [Next]_vars PROVE \A r \in Reqs : sent[r] # "nothing" => Keeps(r)
  OBVIOUS
<1>1. ASSUME NEW q \in Reqs, ReadHeaders(q) PROVE \A r \in Reqs : sent[r] # "nothing" => Keeps(r)
    BY <1>1 DEF Sound, TypeOK, AtWork, Arrived, Named, Linked, Keeps, Over, Clean, ReadHeaders,
       writeVars
<1>2. ASSUME NEW q \in Reqs, ReadFrame(q) PROVE \A r \in Reqs : sent[r] # "nothing" => Keeps(r)
    BY <1>2 DEF Sound, TypeOK, AtWork, Arrived, Named, Linked, Keeps, Over, Clean, ReadFrame,
       tableVars, countVars, objectVars, workVars, queueVars, writeVars, ghostVars
<1>3. ASSUME NEW q \in Reqs, HandlerStart(q) PROVE \A r \in Reqs : sent[r] # "nothing" => Keeps(r)
    BY <1>3 DEF Sound, TypeOK, AtWork, Arrived, Named, Linked, Keeps, Over, Clean, HandlerStart,
       Handler, tableVars, countVars, objectVars, readVars, queueVars, writeVars, ghostVars
<1>4. ASSUME NEW q \in Reqs, HandlerHead(q) PROVE \A r \in Reqs : sent[r] # "nothing" => Keeps(r)
    BY <1>4 DEF Sound, TypeOK, AtWork, Arrived, Named, Linked, Keeps, Over, Clean, HandlerHead,
       Handler, tableVars, countVars, objectVars, readVars, writeVars, ghostVars
<1>5. ASSUME NEW q \in Reqs, HandlerLast(q) PROVE \A r \in Reqs : sent[r] # "nothing" => Keeps(r)
    BY <1>5 DEF Sound, TypeOK, AtWork, Arrived, Named, Linked, Keeps, Over, Clean, HandlerLast,
       Handler, tableVars, countVars, objectVars, readVars, writeVars, ghostVars
<1>6. ASSUME NEW q \in Reqs, HandlerClose(q) PROVE \A r \in Reqs : sent[r] # "nothing" => Keeps(r)
    BY <1>6 DEF Sound, TypeOK, AtWork, Arrived, Named, Linked, Keeps, Over, Clean, HandlerClose,
       Handler, Close, tableVars, countVars, readVars, writeVars, ghostVars
<1>7. ASSUME NEW q \in Reqs, HandlerUncount(q) PROVE \A r \in Reqs : sent[r] # "nothing" => Keeps(r)
    BY <1>7 DEF Sound, TypeOK, AtWork, Arrived, Named, Linked, Keeps, Over, Clean, HandlerUncount,
       Handler, Uncount, tableVars, readVars, queueVars, writeVars, ghostVars
<1>8. ASSUME NEW q \in Reqs, TimerFires(q) PROVE \A r \in Reqs : sent[r] # "nothing" => Keeps(r)
    BY <1>8 DEF Sound, TypeOK, AtWork, Arrived, Named, Linked, Keeps, Over, Clean, TimerFires,
       Timer, tableVars, countVars, objectVars, readVars, queueVars, writeVars, ghostVars
<1>9. ASSUME NEW q \in Reqs, TimerClose(q) PROVE \A r \in Reqs : sent[r] # "nothing" => Keeps(r)
    BY <1>9 DEF Sound, TypeOK, AtWork, Arrived, Named, Linked, Keeps, Over, Clean, TimerClose,
       Timer, Close, tableVars, countVars, readVars, writeVars, ghostVars
<1>10. ASSUME NEW q \in Reqs, TimerUncount(q) PROVE \A r \in Reqs : sent[r] # "nothing" => Keeps(r)
    BY <1>10 DEF Sound, TypeOK, AtWork, Arrived, Named, Linked, Keeps, Over, Clean, TimerUncount,
       Timer, Uncount, tableVars, readVars, queueVars, writeVars, ghostVars
<1>11. CASE ReadMatch
    BY <1>11 DEF Sound, TypeOK, AtWork, Arrived, Named, Linked, Keeps, Over, Clean, ReadMatch,
       Reader, tableVars, countVars, objectVars, workVars, queueVars, writeVars, ghostVars
<1>12. CASE ReadAssign
    BY <1>12 DEF Sound, TypeOK, AtWork, Arrived, Named, Linked, Keeps, Over, Clean, ReadAssign,
       Assign, tableVars, countVars, workVars, queueVars, writeVars
<1>13. CASE ReadPurge
  <2>1. \A r \in Reqs : map'[r] \in {map[r], 0}
    BY <1>13 DEF Sound, TypeOK, AtWork, Named, ReadPurge, Reader, Purge
  <2> QED
    BY <1>13, <2>1 DEF Keeps, Over, Clean, ReadPurge, countVars, workVars, queueVars, writeVars, ghostVars
<1>14. CASE ReadClose
    BY <1>14 DEF Sound, TypeOK, AtWork, Arrived, Named, Linked, Keeps, Over, Clean, ReadClose,
       Reader, Close, tableVars, countVars, workVars, writeVars, ghostVars
<1>15. CASE ReadUncount
    BY <1>15 DEF Sound, TypeOK, AtWork, Arrived, Named, Linked, Keeps, Over, Clean, ReadUncount,
       Reader, Uncount, tableVars, workVars, queueVars, writeVars, ghostVars
<1>16. CASE RstPurge
  <2>1. \A r \in Reqs : map'[r] \in {map[r], 0}
    BY <1>16 DEF Sound, TypeOK, AtWork, Named, RstPurge, Reader
  <2> QED
    BY <1>16, <2>1 DEF Keeps, Over, Clean, RstPurge, countVars, objectVars, workVars, queueVars, writeVars, ghostVars
<1>17. CASE RstClose
    BY <1>17 DEF Sound, TypeOK, AtWork, Arrived, Named, Linked, Keeps, Over, Clean, RstClose,
       Reader, tableVars, countVars, workVars, queueVars, writeVars, ghostVars
<1>18. CASE RstCount
    BY <1>18 DEF Sound, TypeOK, AtWork, Arrived, Named, Linked, Keeps, Over, Clean, RstCount,
       Reader, tableVars, objectVars, workVars, queueVars, writeVars, ghostVars
<1>19. CASE RstSet
    BY <1>19 DEF Sound, TypeOK, AtWork, Arrived, Named, Linked, Keeps, Over, Clean, RstSet, Reader,
       tableVars, countVars, workVars, queueVars, writeVars, ghostVars
<1>20. CASE WriterTake
    BY <1>20 DEF Sound, TypeOK, AtWork, Arrived, Named, Linked, Keeps, Over, Clean, WriterTake,
       TakeNext, tableVars, countVars, objectVars, readVars, workVars, ghostVars
<1>21. CASE WriterMatch
    BY <1>21 DEF Sound, TypeOK, AtWork, Arrived, Named, Linked, Keeps, Over, Clean, WriterMatch,
       Writer, tableVars, countVars, objectVars, readVars, workVars, queueVars, ghostVars
<1>22. CASE WriterAssign
    BY <1>22 DEF Sound, TypeOK, AtWork, Arrived, Named, Linked, Keeps, Over, Clean, WriterAssign,
       EndOfResponse, Assign, tableVars, countVars, readVars, workVars, queueVars
<1>23. CASE WriterPurge
  <2>1. \A r \in Reqs : map'[r] \in {map[r], 0}
    BY <1>23 DEF Sound, TypeOK, AtWork, Named, WriterPurge, Writer, Purge
  <2> QED
    BY <1>23, <2>1 DEF Keeps, Over, Clean, WriterPurge, countVars, readVars, workVars, queueVars, ghostVars
<1>24. CASE WriterClose
    BY <1>24 DEF Sound, TypeOK, AtWork, Arrived, Named, Linked, Keeps, Over, Clean, WriterClose,
       Writer, Close, tableVars, countVars, readVars, workVars, ghostVars
<1>25. CASE WriterUncount
    BY <1>25 DEF Sound, TypeOK, AtWork, Arrived, Named, Linked, Keeps, Over, Clean, WriterUncount,
       Writer, Uncount, tableVars, readVars, workVars, queueVars, ghostVars
<1>26. CASE WriterWrite
    BY <1>26 DEF Sound, TypeOK, AtWork, Arrived, Named, Linked, Keeps, Over, Clean, WriterWrite,
       Writer, WriterDone, tableVars, countVars, objectVars, readVars, workVars, queueVars,
       ghostVars
<1>27. CASE WriterRefuse
    BY <1>27 DEF Sound, TypeOK, AtWork, Arrived, Named, Linked, Keeps, Over, Clean, WriterRefuse,
       Writer, WriterDone, Close, tableVars, countVars, readVars, workVars, ghostVars
<1>28. CASE WriterRefused
    BY <1>28 DEF Sound, TypeOK, AtWork, Arrived, Named, Linked, Keeps, Over, Clean, WriterRefused,
       Writer, WriterDone, Uncount, tableVars, readVars, workVars, queueVars, ghostVars
<1>29. CASE SendReset
    BY <1>29 DEF Sound, TypeOK, AtWork, Arrived, Named, Linked, Keeps, Over, Clean, SendReset,
       tableVars, countVars, objectVars, readVars, workVars, writeVars, ghostVars
<1>30. CASE UNCHANGED vars
    BY <1>30 DEF Sound, TypeOK, AtWork, Arrived, Named, Linked, Keeps, Over, Clean, vars, tableVars,
       countVars, objectVars, readVars, workVars, queueVars, writeVars, ghostVars
<1> QED
  BY <1>1, <1>2, <1>3, <1>4, <1>5, <1>6, <1>7, <1>8, <1>9, <1>10, <1>11, <1>12, <1>13, <1>14,
     <1>15, <1>16, <1>17, <1>18, <1>19, <1>20, <1>21, <1>22, <1>23, <1>24, <1>25, <1>26, <1>27,
     <1>28, <1>29, <1>30
     DEF Next, Reading, Handling, Timing, Writing

\* The six things a client can receive differ.
LEMMA ShapesDiffer ==
  /\ None \notin {Part, Whole, NoneCut, PartCut, WholeCut}
  /\ Part \notin {Whole, NoneCut, PartCut, WholeCut}
  /\ Whole \notin {NoneCut, PartCut, WholeCut}
  /\ NoneCut \notin {PartCut, WholeCut}
  /\ PartCut \notin {WholeCut}
<1>1. /\ Len(None) = 0 /\ Len(Part) = 1 /\ Len(Whole) = 2
      /\ Len(NoneCut) = 1 /\ Len(PartCut) = 2 /\ Len(WholeCut) = 3
  BY DEF None, Part, Whole, NoneCut, PartCut, WholeCut
<1>2. Part[1] = "fields" /\ NoneCut[1] = "rst" /\ Whole[2] = "last" /\ PartCut[2] = "rst"
  BY DEF Part, Whole, NoneCut, PartCut
<1> QED
  BY <1>1, <1>2

\* What one more frame makes of them.
LEMMA ShapesGrow ==
  ASSUME NEW w \in Seq(Frames), NEW f \in Frames
  PROVE  /\ TypesOf(w) = None /\ f.type = "fields" => TypesOf(Append(w, f)) = Part
         /\ TypesOf(w) = Part /\ f.type = "last" => TypesOf(Append(w, f)) = Whole
         /\ TypesOf(w) = None /\ f.type = "rst" => TypesOf(Append(w, f)) = NoneCut
         /\ TypesOf(w) = Part /\ f.type = "rst" => TypesOf(Append(w, f)) = PartCut
         /\ TypesOf(w) = Whole /\ f.type = "rst" => TypesOf(Append(w, f)) = WholeCut
<1>1. /\ Len(w) \in Nat /\ DOMAIN w = 1 .. Len(w) /\ DOMAIN Append(w, f) = 1 .. Len(w) + 1
      /\ \A i \in DOMAIN w : Append(w, f)[i] = w[i]
      /\ Append(w, f)[Len(w) + 1] = f
  BY AppendAt
<1> DEFINE s == TypesOf(w)
           t == TypesOf(Append(w, f))
<1>2. /\ DOMAIN s = 1 .. Len(w) /\ DOMAIN t = 1 .. Len(w) + 1
      /\ t = [i \in 1 .. Len(w) + 1 |-> t[i]]
      /\ \A i \in 1 .. Len(w) : t[i] = s[i]
      /\ t[Len(w) + 1] = f.type
  BY <1>1 DEF TypesOf
<1> HIDE DEF s, t
<1>3. ASSUME s = None PROVE t = << f.type >>
  <2>1. Len(w) = 0
    BY <1>1, <1>2, <1>3 DEF None
  <2> QED
    BY <1>2, <2>1
<1>4. ASSUME s = Part PROVE t = << "fields", f.type >>
  <2>1. DOMAIN s = 1 .. 1 /\ s[1] = "fields"
    BY <1>4 DEF Part
  <2>2. Len(w) = 1
    <3>1. 1 \in 1 .. Len(w)
      BY <1>2, <2>1
    <3>2. 1 <= Len(w)
      BY <1>1, <3>1
    <3>3. ~ 2 <= Len(w)
      <4>1. 2 \notin DOMAIN s
        BY <2>1
      <4> QED
        BY <1>1, <1>2, <4>1
    <3> QED
      BY <1>1, <3>2, <3>3
  <2> QED
    BY <1>2, <2>1, <2>2
<1>5. ASSUME s = Whole PROVE t = << "fields", "last", f.type >>
  <2>1. DOMAIN s = 1 .. 2 /\ s[1] = "fields" /\ s[2] = "last"
    BY <1>5 DEF Whole
  <2>2. Len(w) = 2
    <3>1. 2 \in 1 .. Len(w)
      BY <1>2, <2>1
    <3>2. 2 <= Len(w)
      BY <1>1, <3>1
    <3>3. Len(w) \in DOMAIN s
      BY <1>1, <1>2, <3>2
    <3> QED
      BY <1>1, <2>1, <3>2, <3>3
  <2> QED
    BY <1>2, <2>1, <2>2
<1> QED
  BY <1>3, <1>4, <1>5 DEF s, t, Part, Whole, NoneCut, PartCut, WholeCut

\* The messages of a stream do not change when another's comes or goes.
LEMMA MessagesRest ==
  ASSUME NEW r \in Reqs, message \in Seq(Frames), MessagesOf(r),
         \/ message' = message
         \/ \E f \in Frames : f.id # r /\ message' = Append(message, f)
         \/ message # << >> /\ Head(message).id # r /\ message' = Tail(message)
  PROVE  /\ MessagesOf(r)'
         /\ (Waits(r, "fields"))' <=> Waits(r, "fields")
         /\ (Waits(r, "last"))' <=> Waits(r, "last")
<1>0. Len(message) \in Nat /\ DOMAIN message = 1 .. Len(message)
  OBVIOUS
<1>1. CASE message' = message
  BY <1>1 DEF MessagesOf, Waits
<1>2. ASSUME NEW f \in Frames, f.id # r, message' = Append(message, f)
      PROVE  /\ MessagesOf(r)'
             /\ (Waits(r, "fields"))' <=> Waits(r, "fields")
             /\ (Waits(r, "last"))' <=> Waits(r, "last")
  <2> DEFINE t == Append(message, f)
  <2>0. /\ DOMAIN t = 1 .. Len(message) + 1
        /\ \A i \in DOMAIN message : t[i] = message[i]
        /\ t[Len(message) + 1] = f
    BY AppendAt
  <2> HIDE DEF t
  <2>1. /\ DOMAIN message' = 1 .. Len(message) + 1
        /\ \A i \in DOMAIN message : message'[i] = message[i]
        /\ message'[Len(message) + 1] = f
    BY <1>2, <2>0 DEF t
  <2>2. /\ \A i \in 1 .. Len(message) : i \in 1 .. Len(message) + 1
        /\ \A i \in 1 .. Len(message) + 1 : i \in 1 .. Len(message) \/ i = Len(message) + 1
    BY <1>0
  <2>3. /\ \A i \in DOMAIN message : i \in DOMAIN message'
        /\ \A i \in DOMAIN message' : i \in DOMAIN message \/ i = Len(message) + 1
    BY <1>0, <2>1, <2>2
  <2> QED
    BY <1>2, <2>1, <2>3 DEF MessagesOf, Waits
<1>3. CASE message # << >> /\ Head(message).id # r /\ message' = Tail(message)
  <2>1. /\ \A i \in DOMAIN message' : i + 1 \in DOMAIN message /\ message'[i] = message[i + 1]
        /\ \A i \in DOMAIN message : i = 1 \/ (i - 1 \in DOMAIN message' /\ message'[i - 1] = message[i])
        /\ Head(message) = message[1]
    BY <1>0, <1>3, TailAt
  <2>2. MessagesOf(r)'
    BY <1>0, <2>1 DEF MessagesOf
  <2>3. \A i \in DOMAIN message : message[i].id = r => i - 1 \in DOMAIN message' /\ message'[i - 1] = message[i]
    BY <1>3, <2>1
  <2> QED
    BY <2>1, <2>2, <2>3 DEF Waits
<1> QED
  BY <1>1, <1>2, <1>3

\* A handler appends a frame of its stream, the last one after the first.
LEMMA MessageAdded ==
  ASSUME NEW r \in Reqs, message \in Seq(Frames), MessagesOf(r), ~ Waits(r, "last"),
         NEW f \in Frames, f.id = r, f.by = r, message' = Append(message, f),
         f.type = "last" \/ (f.type = "fields" /\ ~ Waits(r, "fields"))
  PROVE  /\ MessagesOf(r)'
         /\ (Waits(r, "fields"))' <=> Waits(r, "fields") \/ f.type = "fields"
         /\ (Waits(r, "last"))' <=> f.type = "last"
<1>0. /\ Len(message) \in Nat /\ DOMAIN message = 1 .. Len(message)
      /\ \A i \in DOMAIN message : message[i].type \in {"fields", "last", "rst"}
  <2>1. Len(message) \in Nat /\ DOMAIN message = 1 .. Len(message)
    OBVIOUS
  <2>2. \A i \in 1 .. Len(message) : message[i] \in Frames
    OBVIOUS
  <2>3. \A m \in Frames : m.type \in {"fields", "last", "rst"}
    BY DEF Frames
  <2> QED
    BY <2>1, <2>2, <2>3
<1>1. /\ DOMAIN message' = 1 .. Len(message) + 1
      /\ \A i \in DOMAIN message : i \in DOMAIN message' /\ message'[i] = message[i]
      /\ message'[Len(message) + 1] = f
  BY <1>0, AppendAt
<1>2. \A i \in DOMAIN message' : i \in DOMAIN message \/ i = Len(message) + 1
  BY <1>0, <1>1
<1>3. \A i \in DOMAIN message : message[i].id = r => message[i].type = "fields"
  BY <1>0 DEF MessagesOf, Waits
<1>4. ASSUME NEW i \in DOMAIN message', message'[i].id = r
      PROVE  message'[i].by = r /\ message'[i].type # "rst"
  BY <1>1, <1>2, <1>4 DEF MessagesOf
<1>5. ASSUME NEW i \in DOMAIN message', NEW j \in DOMAIN message', i < j,
             message'[i].id = r, message'[j].id = r
      PROVE  message'[i].type = "fields" /\ message'[j].type = "last"
  <2>1. i \in DOMAIN message
    BY <1>0, <1>1, <1>2, <1>5
  <2>2. message[i].id = r /\ message'[i] = message[i] /\ message[i].type = "fields"
    BY <1>1, <1>3, <1>5, <2>1
  <2>3. CASE j \in DOMAIN message
    BY <1>1, <1>5, <2>1, <2>2, <2>3 DEF MessagesOf
  <2>4. CASE j = Len(message) + 1
    BY <1>1, <2>1, <2>2, <2>4 DEF Waits
  <2> QED
    BY <1>2, <2>3, <2>4
<1>6. (Waits(r, "fields"))' <=> Waits(r, "fields") \/ f.type = "fields"
  BY <1>0, <1>1, <1>2 DEF Waits
<1>7. (Waits(r, "last"))' <=> f.type = "last"
  BY <1>0, <1>1, <1>2 DEF Waits
<1> QED
  BY <1>4, <1>5, <1>6, <1>7 DEF MessagesOf

\* The write thread takes a frame of the stream; of two, the first one.
LEMMA MessageTaken ==
  ASSUME NEW r \in Reqs, message \in Seq(Frames), MessagesOf(r), message # << >>,
         Head(message).id = r, message' = Tail(message)
  PROVE  /\ MessagesOf(r)' /\ Head(message).by = r
         /\ ~ (Waits(r, "fields"))'
         /\ \/ /\ Head(message).type = "fields" /\ Waits(r, "fields")
               /\ (Waits(r, "last"))' <=> Waits(r, "last")
            \/ /\ Head(message).type = "last" /\ Waits(r, "last")
               /\ ~ Waits(r, "fields") /\ ~ (Waits(r, "last"))'
<1>0. /\ Len(message) \in Nat /\ DOMAIN message = 1 .. Len(message) /\ 1 \in DOMAIN message
      /\ Head(message) = message[1] /\ message[1].type \in {"fields", "last", "rst"}
  <2>1. Len(message) \in Nat /\ DOMAIN message = 1 .. Len(message)
    OBVIOUS
  <2>2. 1 \in DOMAIN message /\ Head(message) = message[1] /\ message[1] \in Frames
    BY TailAt
  <2>3. message[1].type \in {"fields", "last", "rst"}
    BY <2>2 DEF Frames
  <2> QED
    BY <2>1, <2>2, <2>3
<1>1. /\ \A i \in DOMAIN message' : i + 1 \in DOMAIN message /\ message'[i] = message[i + 1]
      /\ \A i \in DOMAIN message : i = 1 \/ (i - 1 \in DOMAIN message' /\ message'[i - 1] = message[i])
      /\ DOMAIN message' \subseteq 1 .. Len(message)
  BY <1>0, TailAt
<1>2. MessagesOf(r)'
  BY <1>0, <1>1 DEF MessagesOf
<1>3. \A i \in DOMAIN message : i # 1 /\ message[i].id = r => message[1].type = "fields" /\ message[i].type = "last"
  BY <1>0 DEF MessagesOf
<1>4. \A i \in DOMAIN message' : message'[i].id = r => message[1].type = "fields" /\ message'[i].type = "last"
  BY <1>0, <1>1, <1>3
<1>5. message[1].by = r /\ message[1].type # "rst"
  BY <1>0 DEF MessagesOf
<1>6. CASE message[1].type = "fields"
  <2>1. Waits(r, "fields")
    BY <1>0, <1>6 DEF Waits
  <2>2. ASSUME Waits(r, "last") PROVE (Waits(r, "last"))'
    <3>1. PICK i \in DOMAIN message : message[i].id = r /\ message[i].type = "last"
      BY <2>2 DEF Waits
    <3>2. i - 1 \in DOMAIN message' /\ message'[i - 1] = message[i]
      BY <1>1, <1>6, <3>1
    <3> QED
      BY <3>1, <3>2 DEF Waits
  <2>3. (Waits(r, "last"))' => Waits(r, "last")
    BY <1>1 DEF Waits
  <2> QED
    BY <1>0, <1>2, <1>4, <1>5, <1>6, <2>1, <2>2, <2>3 DEF Waits
<1>7. CASE message[1].type = "last"
  <2>1. Waits(r, "last") /\ ~ Waits(r, "fields")
    BY <1>0, <1>3, <1>7 DEF Waits
  <2> QED
    BY <1>0, <1>2, <1>4, <1>5, <1>7, <2>1 DEF Waits
<1> QED
  BY <1>0, <1>5, <1>6, <1>7

\* A step that neither sends, takes nor writes a frame of the stream, and drops
\* one only of a stream that is over.
Rests(r) ==
  /\ MessagesOf(r)'
  /\ ((Waits(r, "fields"))' <=> Waits(r, "fields")) /\ ((Waits(r, "last"))' <=> Waits(r, "last"))
  /\ wire'[r] = wire[r]
  /\ \/ InHand(r) /\ InHand(r)' /\ wf' = wf
     \/ ~ InHand(r)' /\ (InHand(r) => Over(r)')
  /\ InHand(r)' /\ wf.type = "rst" /\ wpc' \notin {wpc, "purge"} => map'[r] = 0 /\ wpc' \in {"uncount", "write"}
  /\ InHand(r)' /\ wpc' = "refused" => wpc' = wpc \/ Over(r)'
  /\ hpc'[r] \in {"none", "queued", "head"} => hpc[r] \in {"none", "queued", "head"}
  /\ hpc'[r] # "done" => hpc[r] # "done"
  /\ hpc'[r] = "last" => hpc[r] = "last"

\* Before its headers are read there is nothing of a stream to be in order.
LEMMA NothingYet ==
  ASSUME Sound, Announced, NEW r \in Reqs, sent[r] = "nothing"
  PROVE  hpc[r] = "none" /\ map[r] = 0 /\ TypesOf(wire[r]) = None /\ ~ InHand(r)
<1>1. hpc[r] = "none" /\ map[r] = 0
  BY DEF Sound, Arrived
<1>2. wire[r] = << >> /\ ~ InHand(r)
  BY DEF Announced, InHand
<1>3. TypesOf(<< >>) = << >>
  BY DEF TypesOf
<1> QED
  BY <1>1, <1>2, <1>3 DEF None

\* Such a step keeps the order.
LEMMA OrderRests ==
  ASSUME Sound, Announced, NEW r \in Reqs, OrderOf(r), Clean(r)',
         sent[r] # "nothing" => Keeps(r), Rests(r)
  PROVE  OrderOf(r)'
<1>1. MessagesOf(r)'
  BY DEF Rests
<1>2. FramesOf(r)'
  BY DEF OrderOf, FramesOf, Rests, InHand
<1>3. CASE sent[r] = "nothing"
  <2>1. hpc[r] = "none" /\ TypesOf(wire[r]) = None /\ ~ InHand(r)
    BY <1>3, NothingYet
  <2>2. ~ InHand(r)' /\ TypesOf(wire'[r]) = None /\ TypesOf(wire'[r]) \notin {Part, Whole} \cup Cut
    BY <2>1, ShapesDiffer DEF Rests, Cut
  <2>3. ~ Waits(r, "fields")' /\ ~ Waits(r, "last")'
    BY <2>1 DEF OrderOf, StagesOf, Rests
  <2>4. hpc'[r] # "last"
    BY <2>1 DEF Rests
  <2>5. ResetsOf(r)'
    BY <2>2 DEF ResetsOf
  <2>6. StagesOf(r)'
    BY <2>2, <2>3, <2>4, ShapesDiffer DEF StagesOf, Holds
  <2> QED
    BY <1>1, <1>2, <2>5, <2>6 DEF OrderOf
<1>4. CASE sent[r] # "nothing"
  <2>1. (map[r] = 0 => map'[r] = 0) /\ (Over(r) => Over(r)')
    BY <1>4 DEF Keeps
  <2>2. ResetsOf(r)'
    BY <2>1 DEF OrderOf, ResetsOf, Rests, InHand
  <2>3. ASSUME ~ InHand(r)' PROVE StagesOf(r)'
    BY <2>1, <2>3 DEF OrderOf, StagesOf, Rests, Holds
  <2>4. ASSUME InHand(r)' PROVE StagesOf(r)'
    <3>1. InHand(r) /\ wf' = wf /\ wire'[r] = wire[r]
      BY <2>4 DEF Rests
    <3>2. /\ (Holds(r, "fields"))' <=> Holds(r, "fields")
          /\ (Holds(r, "last"))' <=> Holds(r, "last")
      BY <2>4, <3>1 DEF Holds
    <3>3. InHand(r)' /\ wpc' = "refused" => Over(r)'
      BY <2>1, <3>1 DEF OrderOf, StagesOf, Rests
    <3> QED
      BY <2>1, <3>1, <3>2, <3>3 DEF OrderOf, StagesOf, Rests
  <2> QED
    BY <1>1, <1>2, <2>2, <2>3, <2>4 DEF OrderOf
<1> QED
  BY <1>3, <1>4

\* The handler of a stream that is not over sends its first frame ...
LEMMA HeadOrder ==
  ASSUME Sound, Owned, NEW r \in Reqs, OrderOf(r), Clean(r)', HandlerHead(r), Keeps(r)
  PROVE  OrderOf(r)'
<1>0. /\ hpc[r] = "head" /\ Clean(r) /\ hpc \in [Reqs -> {"none", "queued", "head", "last", "close", "uncount", "done"}]
      /\ UNCHANGED <<map, st, wpc, wf, wire>> /\ message \in Seq(Frames)
  BY DEF Sound, TypeOK, Clean, HandlerHead, tableVars, objectVars, writeVars, ghostVars
<1>1. sid[obj[r]] = r
  BY <1>0 DEF Owned, Busy, Clean
<1>2. ~ Waits(r, "fields") /\ ~ Waits(r, "last") /\ ~ Holds(r, "fields") /\ ~ Holds(r, "last")
      /\ TypesOf(wire[r]) \in {None, NoneCut}
  BY <1>0 DEF OrderOf, StagesOf
<1>3. CASE hpc'[r] = "close"
  <2>1. hpc'[r] = "close" /\ message' = message
    BY <1>0, <1>3 DEF HandlerHead, Handler
  <2>2. MessagesOf(r)' /\ ((Waits(r, "fields"))' <=> Waits(r, "fields")) /\ ((Waits(r, "last"))' <=> Waits(r, "last"))
    BY <1>0, <2>1, MessagesRest DEF OrderOf
  <2> QED
    BY <1>0, <1>2, <2>1, <2>2, ShapesDiffer DEF OrderOf, FramesOf, ResetsOf, StagesOf, Holds, InHand, Over
<1>4. CASE hpc'[r] # "close"
  <2>1. hpc'[r] = "last" /\ message' = Append(message, Frame(r, "fields", r))
    BY <1>0, <1>1, <1>4 DEF HandlerHead, Handler
  <2>2. Frame(r, "fields", r) \in Frames
    BY DEF Frame, Frames
  <2>3. /\ Frame(r, "fields", r).id = r /\ Frame(r, "fields", r).by = r /\ Frame(r, "fields", r).type = "fields"
    BY DEF Frame
  <2>4. MessagesOf(r)' /\ (Waits(r, "fields"))' /\ ~ (Waits(r, "last"))'
    BY <1>0, <1>2, <2>1, <2>2, <2>3, MessageAdded DEF OrderOf
  <2>5. FramesOf(r)' /\ ResetsOf(r)'
    BY <1>0, <2>1 DEF OrderOf, FramesOf, ResetsOf, InHand
  <2>6. /\ ~ (Holds(r, "fields"))' /\ ~ (Holds(r, "last"))'
        /\ InHand(r)' <=> InHand(r)
        /\ Over(r)' <=> Over(r)
    BY <1>0, <1>2 DEF Holds, InHand, Over
  <2>7. StagesOf(r)'
    BY <1>0, <1>2, <2>1, <2>4, <2>6, ShapesDiffer DEF OrderOf, StagesOf
  <2> QED
    BY <2>4, <2>5, <2>7 DEF OrderOf
<1> QED
  BY <1>3, <1>4

\* ... and its last one.
LEMMA LastOrder ==
  ASSUME Sound, Owned, NEW r \in Reqs, OrderOf(r), Clean(r)', HandlerLast(r), Keeps(r)
  PROVE  OrderOf(r)'
<1>0. /\ hpc[r] = "last" /\ Clean(r) /\ hpc \in [Reqs -> {"none", "queued", "head", "last", "close", "uncount", "done"}]
      /\ UNCHANGED <<map, st, wpc, wf, wire>> /\ message \in Seq(Frames)
  BY DEF Sound, TypeOK, Clean, HandlerLast, Handler, tableVars, objectVars, writeVars, ghostVars
<1>1. sid[obj[r]] = r
  BY <1>0 DEF Owned, Busy, Clean
<1>2. /\ ~ Waits(r, "last") /\ ~ Holds(r, "last") /\ TypesOf(wire[r]) \notin {Whole, WholeCut}
      /\ Waits(r, "fields") \/ Holds(r, "fields") \/ TypesOf(wire[r]) \in {Part, PartCut} \/ Over(r)
  BY <1>0 DEF OrderOf, StagesOf
<1>3. CASE hpc'[r] = "close"
  <2>1. hpc'[r] = "close" /\ message' = message
    BY <1>0, <1>3 DEF HandlerLast, Handler
  <2>2. MessagesOf(r)' /\ ((Waits(r, "fields"))' <=> Waits(r, "fields")) /\ ((Waits(r, "last"))' <=> Waits(r, "last"))
    BY <1>0, <2>1, MessagesRest DEF OrderOf
  <2> QED
    BY <1>0, <1>2, <2>1, <2>2 DEF OrderOf, FramesOf, ResetsOf, StagesOf, Holds, InHand, Over
<1>4. CASE hpc'[r] # "close"
  <2>1. hpc'[r] = "done" /\ message' = Append(message, Frame(r, "last", r))
    BY <1>0, <1>1, <1>4 DEF HandlerLast, Handler
  <2>2. Frame(r, "last", r) \in Frames
    BY DEF Frame, Frames
  <2>3. /\ Frame(r, "last", r).id = r /\ Frame(r, "last", r).by = r /\ Frame(r, "last", r).type = "last"
    BY DEF Frame
  <2>4. MessagesOf(r)' /\ ((Waits(r, "fields"))' <=> Waits(r, "fields")) /\ (Waits(r, "last"))'
    BY <1>0, <1>2, <2>1, <2>2, <2>3, MessageAdded DEF OrderOf
  <2>5. FramesOf(r)' /\ ResetsOf(r)'
    BY <1>0, <2>1 DEF OrderOf, FramesOf, ResetsOf, InHand
  <2>6. /\ (Holds(r, "fields"))' <=> Holds(r, "fields")
        /\ (Holds(r, "last"))' <=> Holds(r, "last")
        /\ InHand(r)' <=> InHand(r)
        /\ Over(r)' <=> Over(r)
    BY <1>0 DEF Holds, InHand, Over
  <2>7. StagesOf(r)'
    BY <1>0, <1>2, <2>1, <2>4, <2>6 DEF OrderOf, StagesOf
  <2> QED
    BY <2>4, <2>5, <2>7 DEF OrderOf
<1> QED
  BY <1>3, <1>4

\* The write thread takes a frame of the stream: a reset ...
LEMMA TakeResetOrder ==
  ASSUME Sound, NEW r \in Reqs, OrderOf(r), Clean(r)', WriterTake, Keeps(r),
         control # << >>, Head(control) = r
  PROVE  OrderOf(r)'
<1>0. /\ wpc = "take" /\ UNCHANGED <<message, map, st, hpc, wire>> /\ message \in Seq(Frames)
      /\ NextFrame = Frame(r, "rst", r) /\ ~ InHand(r)
  BY DEF Sound, TypeOK, WriterTake, TakeNext, NextFrame, InHand, tableVars, objectVars, workVars
<1>1. MessagesOf(r)' /\ ((Waits(r, "fields"))' <=> Waits(r, "fields")) /\ ((Waits(r, "last"))' <=> Waits(r, "last"))
  BY <1>0, MessagesRest DEF OrderOf
<1>2. /\ Frame(r, "rst", r).id = r /\ Frame(r, "rst", r).by = r /\ Frame(r, "rst", r).type = "rst"
  BY DEF Frame
<1>3. /\ ~ Holds(r, "fields") /\ ~ (Holds(r, "fields"))' /\ ~ Holds(r, "last") /\ ~ (Holds(r, "last"))'
      /\ \/ wpc' = wpc /\ ~ InHand(r)'
         \/ wpc' = "purge" /\ wf' = Frame(r, "rst", r) /\ map[r] # 0
  BY <1>0, <1>2 DEF WriterTake, Dropped, Holds, InHand
<1>4. Over(r)' <=> Over(r)
  BY <1>0 DEF Over
<1>5. FramesOf(r)'
  BY <1>0, <1>2, <1>3 DEF OrderOf, FramesOf, InHand
<1>6. ResetsOf(r)'
  BY <1>0, <1>3 DEF OrderOf, FramesOf, ResetsOf
<1>7. StagesOf(r)'
  <2>1. wpc' # "refused"
    BY <1>0, <1>3
  <2> QED
    BY <1>0, <1>1, <1>3, <1>4, <2>1 DEF OrderOf, StagesOf
<1> QED
  BY <1>1, <1>5, <1>6, <1>7 DEF OrderOf

\* ... or a message.
LEMMA TakeMessageOrder ==
  ASSUME Sound, NEW r \in Reqs, OrderOf(r), Clean(r)', WriterTake, Keeps(r),
         control = << >>, Head(message).id = r
  PROVE  OrderOf(r)'
<1>0. /\ wpc = "take" /\ UNCHANGED <<map, st, hpc, wire>> /\ message \in Seq(Frames)
      /\ NextFrame = Head(message) /\ ~ InHand(r) /\ message # << >> /\ message' = Tail(message)
  BY DEF Sound, TypeOK, WriterTake, TakeNext, NextFrame, InHand, tableVars, objectVars, workVars
<1>1. /\ MessagesOf(r)' /\ Head(message).by = r
      /\ ~ (Waits(r, "fields"))'
      /\ \/ /\ Head(message).type = "fields" /\ Waits(r, "fields")
            /\ (Waits(r, "last"))' <=> Waits(r, "last")
         \/ /\ Head(message).type = "last" /\ Waits(r, "last")
            /\ ~ Waits(r, "fields") /\ ~ (Waits(r, "last"))'
  BY <1>0, MessageTaken DEF OrderOf
<1>2. ~ Holds(r, "fields") /\ ~ Holds(r, "last") /\ (Over(r)' <=> Over(r))
  BY <1>0 DEF Holds, InHand, Over
<1>3. CASE Over(r)
  <2>1. wpc' = wpc /\ ~ InHand(r)'
    BY <1>0, <1>1, <1>3 DEF WriterTake, Dropped, Over, InHand
  <2>2. ~ (Holds(r, "fields"))' /\ ~ (Holds(r, "last"))'
    BY <2>1 DEF Holds
  <2>3. FramesOf(r)' /\ ResetsOf(r)'
    BY <1>0, <2>1 DEF OrderOf, FramesOf, ResetsOf
  <2>4. StagesOf(r)'
    BY <1>0, <1>1, <1>2, <1>3, <2>1, <2>2 DEF OrderOf, StagesOf
  <2> QED
    BY <1>1, <2>3, <2>4 DEF OrderOf
<1>4. CASE ~ Over(r)
  <2>1. wpc' = "match" /\ wf' = Head(message) /\ InHand(r)' /\ map[r] # 0
    BY <1>0, <1>1, <1>4 DEF WriterTake, Dropped, Over, InHand
  <2>2. TypesOf(wire[r]) \in Uncut
    BY <2>1 DEF OrderOf, FramesOf, ResetsOf
  <2>3. FramesOf(r)'
    BY <1>0, <1>1, <2>1 DEF OrderOf, FramesOf
  <2>4. ResetsOf(r)'
    BY <1>0, <1>1, <2>1, <2>2 DEF OrderOf, ResetsOf
  <2>5. CASE Head(message).type = "fields"
    <3>1. (Holds(r, "fields"))' /\ ~ (Holds(r, "last"))' /\ Waits(r, "fields")
      BY <1>1, <2>1, <2>5 DEF Holds
    <3> QED
      BY <1>0, <1>1, <1>2, <2>1, <2>3, <2>4, <2>5, <3>1 DEF OrderOf, StagesOf
  <2>6. CASE Head(message).type = "last"
    <3>1. ~ (Holds(r, "fields"))' /\ (Holds(r, "last"))' /\ Waits(r, "last") /\ ~ Waits(r, "fields") /\ ~ (Waits(r, "last"))'
      BY <1>1, <2>1, <2>6 DEF Holds
    <3>2. TypesOf(wire[r]) = Part
      BY <1>2, <1>4, <2>2, <3>1, ShapesDiffer DEF OrderOf, StagesOf, Uncut
    <3>3. hpc[r] = "done"
      BY <3>1 DEF OrderOf, StagesOf
    <3> QED
      BY <1>0, <1>1, <1>2, <2>1, <2>3, <2>4, <3>1, <3>2, <3>3, ShapesDiffer DEF OrderOf, StagesOf
  <2> QED
    BY <1>1, <2>5, <2>6
<1> QED
  BY <1>3, <1>4

\* The write thread writes a frame of the stream.
LEMMA WriteOrder ==
  ASSUME Sound, NEW r \in Reqs, OrderOf(r), Clean(r)', WriterWrite, Keeps(r), wf.id = r
  PROVE  OrderOf(r)'
<1>0. /\ wpc = "write" /\ wpc' = "take" /\ InHand(r) /\ ~ InHand(r)' /\ wf \in Frames
      /\ UNCHANGED <<message, map, st, hpc>> /\ message \in Seq(Frames) /\ wire[r] \in Seq(Frames)
      /\ wire'[r] = Append(wire[r], wf)
  BY DEF Sound, TypeOK, AtWork, WriterWrite, Writer, InHand, queueVars, tableVars, objectVars, workVars
<1>1. MessagesOf(r)' /\ ((Waits(r, "fields"))' <=> Waits(r, "fields")) /\ ((Waits(r, "last"))' <=> Waits(r, "last"))
  BY <1>0, MessagesRest DEF OrderOf
<1>2. /\ ~ (Holds(r, "fields"))' /\ ~ (Holds(r, "last"))' /\ (Over(r)' <=> Over(r))
      /\ wf.type \in {"fields", "last", "rst"} /\ TypesOf(wire[r]) \in Uncut
      /\ wf.by = r
  BY <1>0 DEF Holds, Over, OrderOf, ResetsOf, FramesOf, Frames
<1>3. \A i \in DOMAIN wire'[r] : wire'[r][i].by = r
  <2>1. /\ \A i \in DOMAIN wire[r] : Append(wire[r], wf)[i] = wire[r][i]
        /\ Append(wire[r], wf)[Len(wire[r]) + 1] = wf
        /\ Len(wire[r]) \in Nat /\ DOMAIN wire[r] = 1 .. Len(wire[r])
        /\ DOMAIN Append(wire[r], wf) = 1 .. Len(wire[r]) + 1
    BY <1>0, AppendAt
  <2>2. \A i \in DOMAIN wire[r] : wire[r][i].by = r
    BY DEF OrderOf, FramesOf
  <2>3. \A i \in DOMAIN Append(wire[r], wf) : i \in DOMAIN wire[r] \/ i = Len(wire[r]) + 1
    BY <2>1
  <2> QED
    BY <1>0, <1>2, <2>1, <2>2, <2>3
<1>4. CASE wf.type = "fields"
  <2>1. Holds(r, "fields")
    BY <1>0, <1>4 DEF Holds
  <2>2. TypesOf(wire[r]) = None /\ ~ Waits(r, "fields") /\ hpc[r] \notin {"none", "queued", "head"}
    BY <1>2, <2>1, ShapesDiffer DEF OrderOf, StagesOf, Uncut
  <2>3. TypesOf(wire'[r]) = Part
    BY <1>0, <1>4, <2>2, ShapesGrow
  <2>4. FramesOf(r)' /\ ResetsOf(r)'
    BY <1>0, <1>3, <2>3, ShapesDiffer DEF FramesOf, ResetsOf, Cut, Uncut
  <2>5. StagesOf(r)'
    BY <1>0, <1>1, <1>2, <2>2, <2>3, ShapesDiffer DEF OrderOf, StagesOf
  <2> QED
    BY <1>1, <2>4, <2>5 DEF OrderOf
<1>5. CASE wf.type = "last"
  <2>1. Holds(r, "last")
    BY <1>0, <1>5 DEF Holds
  <2>2. TypesOf(wire[r]) = Part /\ ~ Waits(r, "fields") /\ ~ Waits(r, "last") /\ hpc[r] = "done"
    BY <2>1 DEF OrderOf, StagesOf
  <2>3. TypesOf(wire'[r]) = Whole
    BY <1>0, <1>5, <2>2, ShapesGrow
  <2>4. FramesOf(r)' /\ ResetsOf(r)'
    BY <1>0, <1>3, <2>3, ShapesDiffer DEF FramesOf, ResetsOf, Cut, Uncut
  <2>5. StagesOf(r)'
    BY <1>0, <1>1, <1>2, <2>2, <2>3 DEF OrderOf, StagesOf
  <2> QED
    BY <1>1, <2>4, <2>5 DEF OrderOf
<1>6. CASE wf.type = "rst"
  <2>1. map[r] = 0 /\ Over(r)
    BY <1>0, <1>6 DEF OrderOf, ResetsOf, Over
  <2>2. /\ TypesOf(wire[r]) = None => TypesOf(wire'[r]) = NoneCut
        /\ TypesOf(wire[r]) = Part => TypesOf(wire'[r]) = PartCut
        /\ TypesOf(wire[r]) = Whole => TypesOf(wire'[r]) = WholeCut
    BY <1>0, <1>6, ShapesGrow
  <2>3. TypesOf(wire'[r]) \in Cut
    BY <1>2, <2>2 DEF Cut, Uncut
  <2>4. FramesOf(r)' /\ ResetsOf(r)'
    BY <1>0, <1>3, <2>1, <2>3 DEF FramesOf, ResetsOf
  <2>5. StagesOf(r)'
    BY <1>0, <1>1, <1>2, <2>1, <2>2, ShapesDiffer DEF OrderOf, StagesOf, Uncut
  <2> QED
    BY <1>1, <2>4, <2>5 DEF OrderOf
<1> QED
  BY <1>2, <1>4, <1>5, <1>6

\* What is noted of a stream stays noted.
LEMMA StepGhosts == Sound /\ [Next]_vars => stolen \subseteq stolen' /\ overwritten \subseteq overwritten'
<1> SUFFICES ASSUME Sound, [Next]_vars PROVE stolen \subseteq stolen' /\ overwritten \subseteq overwritten'
  OBVIOUS
<1>1. ASSUME NEW q \in Reqs, ReadHeaders(q) PROVE stolen \subseteq stolen' /\ overwritten \subseteq overwritten'
    BY <1>1 DEF Sound, ReadHeaders, writeVars
<1>2. ASSUME NEW q \in Reqs, ReadFrame(q) PROVE stolen \subseteq stolen' /\ overwritten \subseteq overwritten'
    BY <1>2 DEF Sound, ReadFrame, tableVars, countVars, objectVars, workVars, queueVars, writeVars,
       ghostVars
<1>3. ASSUME NEW q \in Reqs, HandlerStart(q) PROVE stolen \subseteq stolen' /\ overwritten \subseteq overwritten'
    BY <1>3 DEF Sound, HandlerStart, Handler, tableVars, countVars, objectVars, readVars, queueVars,
       writeVars, ghostVars
<1>4. ASSUME NEW q \in Reqs, HandlerHead(q) PROVE stolen \subseteq stolen' /\ overwritten \subseteq overwritten'
    BY <1>4 DEF Sound, HandlerHead, Handler, tableVars, countVars, objectVars, readVars, writeVars,
       ghostVars
<1>5. ASSUME NEW q \in Reqs, HandlerLast(q) PROVE stolen \subseteq stolen' /\ overwritten \subseteq overwritten'
    BY <1>5 DEF Sound, HandlerLast, Handler, tableVars, countVars, objectVars, readVars, writeVars,
       ghostVars
<1>6. ASSUME NEW q \in Reqs, HandlerClose(q) PROVE stolen \subseteq stolen' /\ overwritten \subseteq overwritten'
    BY <1>6 DEF Sound, HandlerClose, Handler, Close, tableVars, countVars, readVars, writeVars,
       ghostVars
<1>7. ASSUME NEW q \in Reqs, HandlerUncount(q) PROVE stolen \subseteq stolen' /\ overwritten \subseteq overwritten'
    BY <1>7 DEF Sound, HandlerUncount, Handler, Uncount, tableVars, readVars, queueVars, writeVars,
       ghostVars
<1>8. ASSUME NEW q \in Reqs, TimerFires(q) PROVE stolen \subseteq stolen' /\ overwritten \subseteq overwritten'
    BY <1>8 DEF Sound, TimerFires, Timer, tableVars, countVars, objectVars, readVars, queueVars,
       writeVars, ghostVars
<1>9. ASSUME NEW q \in Reqs, TimerClose(q) PROVE stolen \subseteq stolen' /\ overwritten \subseteq overwritten'
    BY <1>9 DEF Sound, TimerClose, Timer, Close, tableVars, countVars, readVars, writeVars,
       ghostVars
<1>10. ASSUME NEW q \in Reqs, TimerUncount(q) PROVE stolen \subseteq stolen' /\ overwritten \subseteq overwritten'
    BY <1>10 DEF Sound, TimerUncount, Timer, Uncount, tableVars, readVars, queueVars, writeVars,
       ghostVars
<1>11. CASE ReadMatch
    BY <1>11 DEF Sound, ReadMatch, Reader, tableVars, countVars, objectVars, workVars, queueVars,
       writeVars, ghostVars
<1>12. CASE ReadAssign
    BY <1>12 DEF Sound, ReadAssign, Assign, tableVars, countVars, workVars, queueVars, writeVars
<1>13. CASE ReadPurge
    BY <1>13 DEF Sound, ReadPurge, Reader, Purge, countVars, workVars, queueVars, writeVars,
       ghostVars
<1>14. CASE ReadClose
    BY <1>14 DEF Sound, ReadClose, Reader, Close, tableVars, countVars, workVars, writeVars,
       ghostVars
<1>15. CASE ReadUncount
    BY <1>15 DEF Sound, ReadUncount, Reader, Uncount, tableVars, workVars, queueVars, writeVars,
       ghostVars
<1>16. CASE RstPurge
    BY <1>16 DEF Sound, RstPurge, Reader, countVars, objectVars, workVars, queueVars, writeVars,
       ghostVars
<1>17. CASE RstClose
    BY <1>17 DEF Sound, RstClose, Reader, tableVars, countVars, workVars, queueVars, writeVars,
       ghostVars
<1>18. CASE RstCount
    BY <1>18 DEF Sound, RstCount, Reader, tableVars, objectVars, workVars, queueVars, writeVars,
       ghostVars
<1>19. CASE RstSet
    BY <1>19 DEF Sound, RstSet, Reader, tableVars, countVars, workVars, queueVars, writeVars,
       ghostVars
<1>20. CASE WriterTake
    BY <1>20 DEF Sound, WriterTake, TakeNext, tableVars, countVars, objectVars, readVars, workVars,
       ghostVars
<1>21. CASE WriterMatch
    BY <1>21 DEF Sound, WriterMatch, Writer, tableVars, countVars, objectVars, readVars, workVars,
       queueVars, ghostVars
<1>22. CASE WriterAssign
    BY <1>22 DEF Sound, WriterAssign, EndOfResponse, Assign, tableVars, countVars, readVars,
       workVars, queueVars
<1>23. CASE WriterPurge
    BY <1>23 DEF Sound, WriterPurge, Writer, Purge, countVars, readVars, workVars, queueVars,
       ghostVars
<1>24. CASE WriterClose
    BY <1>24 DEF Sound, WriterClose, Writer, Close, tableVars, countVars, readVars, workVars,
       ghostVars
<1>25. CASE WriterUncount
    BY <1>25 DEF Sound, WriterUncount, Writer, Uncount, tableVars, readVars, workVars, queueVars,
       ghostVars
<1>26. CASE WriterWrite
    BY <1>26 DEF Sound, WriterWrite, Writer, WriterDone, tableVars, countVars, objectVars, readVars,
       workVars, queueVars, ghostVars
<1>27. CASE WriterRefuse
    BY <1>27 DEF Sound, WriterRefuse, Writer, WriterDone, Close, tableVars, countVars, readVars,
       workVars, ghostVars
<1>28. CASE WriterRefused
    BY <1>28 DEF Sound, WriterRefused, Writer, WriterDone, Uncount, tableVars, readVars, workVars,
       queueVars, ghostVars
<1>29. CASE SendReset
    BY <1>29 DEF Sound, SendReset, tableVars, countVars, objectVars, readVars, workVars, writeVars,
       ghostVars
<1>30. CASE UNCHANGED vars
    BY <1>30 DEF Sound, vars, tableVars, countVars, objectVars, readVars, workVars, queueVars,
       writeVars, ghostVars
<1> QED
  BY <1>1, <1>2, <1>3, <1>4, <1>5, <1>6, <1>7, <1>8, <1>9, <1>10, <1>11, <1>12, <1>13, <1>14,
     <1>15, <1>16, <1>17, <1>18, <1>19, <1>20, <1>21, <1>22, <1>23, <1>24, <1>25, <1>26, <1>27,
     <1>28, <1>29, <1>30
     DEF Next, Reading, Handling, Timing, Writing

\* The frames of a stream stay in order.
LEMMA StepOrdered == Sound /\ Linked /\ Owned /\ Announced /\ Ordered /\ [Next]_vars => Ordered'
<1> SUFFICES ASSUME Sound /\ Linked /\ Owned /\ Announced /\ Ordered, [Next]_vars PROVE Ordered'
  OBVIOUS
<1> SUFFICES ASSUME NEW r \in Reqs, Clean(r)' PROVE OrderOf(r)'
  BY DEF Ordered
<1>0. /\ message \in Seq(Frames) /\ wire \in [Reqs -> Seq(Frames)] /\ map \in [Reqs -> Objs \cup {0}]
      /\ hpc \in [Reqs -> {"none", "queued", "head", "last", "close", "uncount", "done"}]
      /\ st \in [Objs -> Statuses] /\ sid \in [Objs -> Reqs \cup {0}] /\ obj \in [Reqs -> Objs \cup {0}]
  BY DEF Sound, TypeOK
<1>k. sent[r] # "nothing" => Keeps(r)
  BY StepKeeps
<1>o. Clean(r) /\ OrderOf(r)
  <2>1. Clean(r)
    BY StepGhosts DEF Clean
  <2> QED
    BY <2>1 DEF Ordered
<1>a. Rests(r) => OrderOf(r)'
  BY <1>k, <1>o, OrderRests
<1>b. message' = message =>
        MessagesOf(r)' /\ ((Waits(r, "fields"))' <=> Waits(r, "fields")) /\ ((Waits(r, "last"))' <=> Waits(r, "last"))
  BY <1>0, <1>o, MessagesRest DEF OrderOf
<1>c. UNCHANGED <<message, hpc, writeVars>> => OrderOf(r)'
  <2> HAVE UNCHANGED <<message, hpc, writeVars>>
  <2>1. InHand(r)' <=> InHand(r)
    BY DEF InHand, writeVars
  <2>2. Rests(r)
    BY <1>b, <2>1 DEF Rests, writeVars, InHand
  <2> QED
    BY <1>a, <2>2
<1>1. ASSUME NEW q \in Reqs, ReadHeaders(q) PROVE OrderOf(r)'
  <2>1. /\ UNCHANGED <<message, writeVars>>
        /\ hpc'[r] = hpc[r] \/ (hpc[r] = "none" /\ hpc'[r] = "queued")
    <3>1. q # r => hpc'[r] = hpc[r]
      BY <1>1, <1>0 DEF ReadHeaders
    <3>2. q = r => hpc[r] = "none" /\ hpc'[r] \in {"none", "queued"}
      BY <1>1, <1>0, NewObject DEF Sound, Arrived
    <3> QED
      BY <1>1, <3>1, <3>2 DEF ReadHeaders
  <2>2. InHand(r)' <=> InHand(r)
    BY <2>1 DEF InHand, writeVars
  <2>3. Rests(r)
    BY <1>b, <2>1, <2>2 DEF Rests, writeVars, InHand
  <2> QED
    BY <1>a, <2>3
<1>2. ASSUME NEW q \in Reqs, ReadFrame(q) PROVE OrderOf(r)'
  <2>1. UNCHANGED <<message, hpc, writeVars>>
    BY <1>2 DEF ReadFrame, workVars, queueVars, writeVars
  <2> QED
    BY <1>c, <2>1
<1>3. ASSUME NEW q \in Reqs, HandlerStart(q) PROVE OrderOf(r)'
  <2>1. /\ UNCHANGED <<message, writeVars>>
        /\ hpc'[r] = hpc[r] \/ (hpc[r] \in {"queued"} /\ hpc'[r] \in {"head"})
    BY <1>3, <1>0 DEF HandlerStart, Handler, queueVars
  <2>2. InHand(r)' <=> InHand(r)
    BY <2>1 DEF InHand, writeVars
  <2>3. Rests(r)
    BY <1>b, <2>1, <2>2 DEF Rests, writeVars, InHand
  <2> QED
    BY <1>a, <2>3
<1>4. ASSUME NEW q \in Reqs, HandlerHead(q) PROVE OrderOf(r)'
  <2>1. hpc[q] = "head" /\ UNCHANGED writeVars
    BY <1>4 DEF HandlerHead, Handler
  <2>2. CASE q = r
    <3>1. sent[r] # "nothing"
      BY <2>1, <2>2 DEF Sound, Arrived
    <3> QED
      BY <1>k, <1>o, <1>4, <2>2, <3>1, HeadOrder
  <2>3. CASE q # r
    <3>1. hpc'[r] = hpc[r]
      BY <1>0, <1>4, <2>3 DEF HandlerHead, Handler
    <3>2. sid[obj[q]] # r
      BY <1>o, <2>1, <2>3 DEF Owned, Busy, Clean
    <3>3. obj[q] \in Objs /\ sid[obj[q]] \in Reqs
      BY <2>1, <1>0 DEF Sound, Arrived, Named
    <3>4. message' = message \/ \E f \in Frames : f.id # r /\ message' = Append(message, f)
      <4>1. message' = message \/ message' = Append(message, Frame(sid[obj[q]], "fields", q))
        BY <1>4 DEF HandlerHead
      <4>2. Frame(sid[obj[q]], "fields", q) \in Frames /\ Frame(sid[obj[q]], "fields", q).id # r
        BY <3>2, <3>3 DEF Frame, Frames
      <4> QED
        BY <4>1, <4>2
    <3>5. MessagesOf(r)' /\ ((Waits(r, "fields"))' <=> Waits(r, "fields")) /\ ((Waits(r, "last"))' <=> Waits(r, "last"))
      BY <1>0, <1>o, <3>4, MessagesRest DEF OrderOf
    <3>6. InHand(r)' <=> InHand(r)
      BY <2>1 DEF InHand, writeVars
    <3>7. Rests(r)
      BY <2>1, <3>1, <3>5, <3>6 DEF Rests, writeVars, InHand
    <3> QED
      BY <1>a, <3>7
  <2> QED
    BY <2>2, <2>3
<1>5. ASSUME NEW q \in Reqs, HandlerLast(q) PROVE OrderOf(r)'
  <2>1. hpc[q] = "last" /\ UNCHANGED writeVars
    BY <1>5 DEF HandlerLast, Handler
  <2>2. CASE q = r
    <3>1. sent[r] # "nothing"
      BY <2>1, <2>2 DEF Sound, Arrived
    <3> QED
      BY <1>k, <1>o, <1>5, <2>2, <3>1, LastOrder
  <2>3. CASE q # r
    <3>1. hpc'[r] = hpc[r]
      BY <1>0, <1>5, <2>3 DEF HandlerLast, Handler
    <3>2. sid[obj[q]] # r
      BY <1>o, <2>1, <2>3 DEF Owned, Busy, Clean
    <3>3. obj[q] \in Objs /\ sid[obj[q]] \in Reqs
      BY <2>1, <1>0 DEF Sound, Arrived, Named
    <3>4. message' = message \/ \E f \in Frames : f.id # r /\ message' = Append(message, f)
      <4>1. message' = message \/ message' = Append(message, Frame(sid[obj[q]], "last", q))
        BY <1>5 DEF HandlerLast
      <4>2. Frame(sid[obj[q]], "last", q) \in Frames /\ Frame(sid[obj[q]], "last", q).id # r
        BY <3>2, <3>3 DEF Frame, Frames
      <4> QED
        BY <4>1, <4>2
    <3>5. MessagesOf(r)' /\ ((Waits(r, "fields"))' <=> Waits(r, "fields")) /\ ((Waits(r, "last"))' <=> Waits(r, "last"))
      BY <1>0, <1>o, <3>4, MessagesRest DEF OrderOf
    <3>6. InHand(r)' <=> InHand(r)
      BY <2>1 DEF InHand, writeVars
    <3>7. Rests(r)
      BY <2>1, <3>1, <3>5, <3>6 DEF Rests, writeVars, InHand
    <3> QED
      BY <1>a, <3>7
  <2> QED
    BY <2>2, <2>3
<1>6. ASSUME NEW q \in Reqs, HandlerClose(q) PROVE OrderOf(r)'
  <2>1. /\ UNCHANGED <<message, writeVars>>
        /\ hpc'[r] = hpc[r] \/ (hpc[r] \in {"close"} /\ hpc'[r] \in {"uncount", "done"})
    BY <1>6, <1>0 DEF HandlerClose, Handler, CloseThen
  <2>2. InHand(r)' <=> InHand(r)
    BY <2>1 DEF InHand, writeVars
  <2>3. Rests(r)
    BY <1>b, <2>1, <2>2 DEF Rests, writeVars, InHand
  <2> QED
    BY <1>a, <2>3
<1>7. ASSUME NEW q \in Reqs, HandlerUncount(q) PROVE OrderOf(r)'
  <2>1. /\ UNCHANGED <<message, writeVars>>
        /\ hpc'[r] = hpc[r] \/ (hpc[r] \in {"uncount"} /\ hpc'[r] \in {"done"})
    BY <1>7, <1>0 DEF HandlerUncount, Handler, queueVars
  <2>2. InHand(r)' <=> InHand(r)
    BY <2>1 DEF InHand, writeVars
  <2>3. Rests(r)
    BY <1>b, <2>1, <2>2 DEF Rests, writeVars, InHand
  <2> QED
    BY <1>a, <2>3
<1>8. ASSUME NEW q \in Reqs, TimerFires(q) PROVE OrderOf(r)'
  <2>1. UNCHANGED <<message, hpc, writeVars>>
    BY <1>8 DEF TimerFires, queueVars, writeVars
  <2> QED
    BY <1>c, <2>1
<1>9. ASSUME NEW q \in Reqs, TimerClose(q) PROVE OrderOf(r)'
  <2>1. UNCHANGED <<message, hpc, writeVars>>
    BY <1>9 DEF TimerClose, writeVars
  <2> QED
    BY <1>c, <2>1
<1>10. ASSUME NEW q \in Reqs, TimerUncount(q) PROVE OrderOf(r)'
  <2>1. UNCHANGED <<message, hpc, writeVars>>
    BY <1>10 DEF TimerUncount, queueVars, writeVars
  <2> QED
    BY <1>c, <2>1
<1>11. CASE ReadMatch
  <2>1. UNCHANGED <<message, hpc, writeVars>>
    BY <1>11 DEF ReadMatch, workVars, queueVars, writeVars
  <2> QED
    BY <1>c, <2>1
<1>12. CASE ReadAssign
  <2>1. UNCHANGED <<message, hpc, writeVars>>
    BY <1>12 DEF ReadAssign, workVars, queueVars, writeVars
  <2> QED
    BY <1>c, <2>1
<1>13. CASE ReadPurge
  <2>1. UNCHANGED <<message, hpc, writeVars>>
    BY <1>13 DEF ReadPurge, workVars, queueVars, writeVars
  <2> QED
    BY <1>c, <2>1
<1>14. CASE ReadClose
  <2>1. UNCHANGED <<message, hpc, writeVars>>
    BY <1>14 DEF ReadClose, workVars, writeVars
  <2> QED
    BY <1>c, <2>1
<1>15. CASE ReadUncount
  <2>1. UNCHANGED <<message, hpc, writeVars>>
    BY <1>15 DEF ReadUncount, workVars, queueVars, writeVars
  <2> QED
    BY <1>c, <2>1
<1>16. CASE RstPurge
  <2>1. UNCHANGED <<message, hpc, writeVars>>
    BY <1>16 DEF RstPurge, workVars, queueVars, writeVars
  <2> QED
    BY <1>c, <2>1
<1>17. CASE RstClose
  <2>1. UNCHANGED <<message, hpc, writeVars>>
    BY <1>17 DEF RstClose, workVars, queueVars, writeVars
  <2> QED
    BY <1>c, <2>1
<1>18. CASE RstCount
  <2>1. UNCHANGED <<message, hpc, writeVars>>
    BY <1>18 DEF RstCount, workVars, queueVars, writeVars
  <2> QED
    BY <1>c, <2>1
<1>19. CASE RstSet
  <2>1. UNCHANGED <<message, hpc, writeVars>>
    BY <1>19 DEF RstSet, workVars, queueVars, writeVars
  <2> QED
    BY <1>c, <2>1
<1>20. CASE WriterTake
  <2>1. /\ wpc = "take" /\ UNCHANGED <<hpc, wire>> /\ ~ InHand(r) /\ NextFrame.id \in Reqs
        /\ wpc' = "take" \/ wf' = NextFrame
    BY <1>20, NextIsFrame DEF WriterTake, InHand, workVars, Frames
  <2>2. CASE NextFrame.id = r /\ sent[r] # "nothing"
    <3>1. CASE control # << >>
      <4>1. Head(control) = r
        BY <2>2, <3>1 DEF NextFrame, Frame
      <4> QED
        BY <1>k, <1>o, <1>20, <2>2, <3>1, <4>1, TakeResetOrder
    <3>2. CASE control = << >>
      <4>1. Head(message).id = r
        BY <2>2, <3>2 DEF NextFrame
      <4> QED
        BY <1>k, <1>o, <1>20, <2>2, <3>2, <4>1, TakeMessageOrder
    <3> QED
      BY <3>1, <3>2
  <2>3. CASE NextFrame.id = r /\ sent[r] = "nothing"
    <3>1. map[r] = 0 /\ hpc[r] = "none"
      BY <2>3, NothingYet
    <3>2. ~ InHand(r)'
      BY <2>1, <2>3, <3>1, <1>20 DEF WriterTake, Dropped, InHand
    <3>3. control # << >>
      <4>1. ASSUME control = << >> PROVE FALSE
        <5>1. message # << >> /\ Head(message).id = r
          BY <1>20, <2>3, <4>1 DEF WriterTake, TakeNext, NextFrame
        <5>2. 1 \in DOMAIN message /\ Head(message) = message[1] /\ message[1] \in Frames
          BY <1>0, <5>1, TailAt
        <5>3. message[1].type \in {"fields", "last", "rst"}
          BY <5>2 DEF Frames
        <5>4. message[1].type # "rst"
          BY <1>o, <5>1, <5>2 DEF OrderOf, MessagesOf
        <5>5. ~ Waits(r, "fields") /\ ~ Waits(r, "last")
          BY <1>o, <3>1 DEF OrderOf, StagesOf
        <5> QED
          BY <5>1, <5>2, <5>3, <5>4, <5>5 DEF Waits
      <4> QED
        BY <4>1
    <3>4. message' = message
      BY <1>20, <3>3 DEF WriterTake, TakeNext
    <3>5. Rests(r)
      BY <1>b, <2>1, <3>2, <3>4 DEF Rests
    <3> QED
      BY <1>a, <3>5
  <2>4. CASE NextFrame.id # r
    <3>1. message' = message \/ (message # << >> /\ Head(message).id # r /\ message' = Tail(message))
      BY <1>20, <2>4 DEF WriterTake, TakeNext, NextFrame
    <3>2. MessagesOf(r)' /\ ((Waits(r, "fields"))' <=> Waits(r, "fields")) /\ ((Waits(r, "last"))' <=> Waits(r, "last"))
      BY <1>0, <1>o, <3>1, MessagesRest DEF OrderOf
    <3>3. ~ InHand(r)'
      BY <2>1, <2>4 DEF InHand
    <3>4. Rests(r)
      BY <2>1, <3>2, <3>3 DEF Rests
    <3> QED
      BY <1>a, <3>4
  <2> QED
    BY <2>2, <2>3, <2>4
<1>21. CASE WriterMatch
  <2>1. /\ UNCHANGED <<message, hpc, wf, wire>>
        /\ wpc = "match" /\ wpc' \in {"assign"}
    BY <1>21 DEF WriterMatch, Writer, queueVars, workVars
  <2>2. InHand(r) <=> InHand(r)'
    BY <2>1 DEF InHand
  <2>3. InHand(r) => wf.type # "rst"
    BY <1>o, <2>1 DEF OrderOf, ResetsOf
  <2>4. Rests(r)
    BY <1>b, <2>1, <2>2, <2>3 DEF Rests
  <2> QED
    BY <1>a, <2>4
<1>22. CASE WriterAssign
  <2>1. /\ UNCHANGED <<message, hpc, wf, wire>>
        /\ wpc = "assign" /\ wpc' \in {"write", "refuse", "close", "purge"}
    BY <1>22 DEF WriterAssign, EndOfResponse, queueVars, workVars
  <2>2. InHand(r) <=> InHand(r)'
    BY <2>1 DEF InHand
  <2>3. InHand(r) => wf.type # "rst"
    BY <1>o, <2>1 DEF OrderOf, ResetsOf
  <2>4. Rests(r)
    BY <1>b, <2>1, <2>2, <2>3 DEF Rests
  <2> QED
    BY <1>a, <2>4
<1>23. CASE WriterPurge
  <2>1. /\ UNCHANGED <<message, hpc, wf, wire, sid>>
        /\ wpc = "purge" /\ wpc' \in {"write", "uncount"} /\ Purge(wobj)
    BY <1>23 DEF WriterPurge, Writer, PurgeThen, queueVars, workVars
  <2>2. InHand(r) <=> InHand(r)'
    BY <2>1 DEF InHand
  <2>3. InHand(r) => map'[r] = 0
    <3>1. InHand(r) => sid[wobj] = r
      BY <1>o, <2>1 DEF Owned, InHand, Clean
    <3> QED
      BY <1>0, <2>1, <3>1 DEF Purge
  <2>4. Rests(r)
    BY <1>b, <2>1, <2>2, <2>3 DEF Rests
  <2> QED
    BY <1>a, <2>4
<1>24. CASE WriterClose
  <2>1. /\ UNCHANGED <<message, hpc, wf, wire>>
        /\ wpc = "close" /\ wpc' \in {"write", "uncount"}
    BY <1>24 DEF WriterClose, Writer, CloseThen, workVars
  <2>2. InHand(r) <=> InHand(r)'
    BY <2>1 DEF InHand
  <2>3. InHand(r) => wf.type # "rst"
    BY <1>o, <2>1 DEF OrderOf, ResetsOf
  <2>4. Rests(r)
    BY <1>b, <2>1, <2>2, <2>3 DEF Rests
  <2> QED
    BY <1>a, <2>4
<1>25. CASE WriterUncount
  <2>1. /\ UNCHANGED <<message, hpc, wf, wire, map>>
        /\ wpc = "uncount" /\ wpc' = "write"
    BY <1>25 DEF WriterUncount, Writer, queueVars, workVars, tableVars
  <2>2. InHand(r) <=> InHand(r)'
    BY <2>1 DEF InHand
  <2>3. InHand(r) /\ wf.type = "rst" => map'[r] = 0
    BY <1>o, <2>1 DEF OrderOf, ResetsOf
  <2>4. Rests(r)
    BY <1>b, <2>1, <2>2, <2>3 DEF Rests
  <2> QED
    BY <1>a, <2>4
<1>26. CASE WriterWrite
  <2>1. wpc = "write" /\ wpc' = "take" /\ UNCHANGED <<message, hpc>>
    BY <1>26 DEF WriterWrite, Writer, workVars, queueVars
  <2>2. CASE wf.id = r
    <3>1. sent[r] # "nothing"
      BY <2>1, <2>2 DEF Announced
    <3> QED
      BY <1>k, <1>o, <1>26, <2>2, <3>1, WriteOrder
  <2>3. CASE wf.id # r
    <3>1. wire'[r] = wire[r]
      BY <1>0, <1>26, <2>3 DEF WriterWrite
    <3>2. ~ InHand(r) /\ ~ InHand(r)'
      BY <2>1, <2>3 DEF InHand
    <3>3. Rests(r)
      BY <1>b, <2>1, <3>1, <3>2 DEF Rests
    <3> QED
      BY <1>a, <3>3
  <2> QED
    BY <2>2, <2>3
<1>27. CASE WriterRefuse
  <2>1. /\ UNCHANGED <<message, hpc, wire, map, sid>>
        /\ wpc = "refuse" /\ wpc' \in {"take", "refused"} /\ (wpc' = "refused" => wf' = wf)
        /\ Close(wobj, FALSE)
    BY <1>27 DEF WriterRefuse, Writer, workVars, tableVars
  <2>2. InHand(r) => wf.type # "rst"
    BY <1>o, <2>1 DEF OrderOf, ResetsOf
  <2>3. InHand(r) => Over(r)'
    <3>1. InHand(r) => sid[wobj] = r /\ wobj \in Objs
      BY <1>o, <2>1 DEF Owned, InHand, Clean, Sound, TypeOK, AtWork, Named
    <3>2. InHand(r) => st'[wobj] = "Closed" /\ obj[r] = wobj
      BY <1>0, <2>1, <3>1, ZeroIsNone DEF Close, Linked
    <3>3. map[r] # 0 => obj[r] = map[r]
      BY <1>0, ZeroIsNone DEF Linked
    <3> QED
      BY <2>1, <3>2, <3>3 DEF Over
  <2>4. InHand(r)' => InHand(r) /\ wf' = wf
    BY <2>1 DEF InHand
  <2>5. Rests(r)
    BY <1>b, <2>1, <2>2, <2>3, <2>4 DEF Rests
  <2> QED
    BY <1>a, <2>5
<1>28. CASE WriterRefused
  <2>1. UNCHANGED <<message, hpc, wire>> /\ wpc = "refused" /\ wpc' = "take"
    BY <1>28 DEF WriterRefused, Writer, workVars, queueVars
  <2>2. InHand(r) => Over(r)'
    BY <1>k, <1>o, <2>1 DEF OrderOf, StagesOf, Keeps, InHand, Announced
  <2>3. ~ InHand(r)'
    BY <2>1 DEF InHand
  <2>4. Rests(r)
    BY <1>b, <2>1, <2>2, <2>3 DEF Rests
  <2> QED
    BY <1>a, <2>4
<1>29. CASE SendReset
  <2>1. UNCHANGED <<message, hpc, writeVars>>
    BY <1>29 DEF SendReset, workVars, writeVars
  <2> QED
    BY <1>c, <2>1
<1>30. CASE UNCHANGED vars
  <2>1. UNCHANGED <<message, hpc, writeVars>>
    BY <1>30 DEF vars, workVars, queueVars
  <2> QED
    BY <1>c, <2>1
<1> QED
  BY <1>1, <1>2, <1>3, <1>4, <1>5, <1>6, <1>7, <1>8, <1>9, <1>10, <1>11, <1>12, <1>13, <1>14,
     <1>15, <1>16, <1>17, <1>18, <1>19, <1>20, <1>21, <1>22, <1>23, <1>24, <1>25, <1>26, <1>27,
     <1>28, <1>29, <1>30
     DEF Next, Reading, Handling, Timing, Writing

\* A stream stays out of the map while the client's reset is dealt with.
LEMMA StepResetsOut == Sound /\ Linked /\ ResetsOut /\ [Next]_vars => ResetsOut'
<1> SUFFICES ASSUME Sound /\ Linked /\ ResetsOut, [Next]_vars PROVE ResetsOut'
  OBVIOUS
<1>0. rpc \in {"rstClose", "rstCount", "rstSet"} => map'[sid[robj]] = 0
  <2> HAVE rpc \in {"rstClose", "rstCount", "rstSet"}
  <2>1. sid[robj] \in Reqs /\ sent[sid[robj]] # "nothing" /\ map[sid[robj]] = 0
    BY DEF Sound, TypeOK, Arrived, AtWork, Named, ResetsOut
  <2> QED
    BY <2>1, StepKeeps DEF Keeps
<1>1. ASSUME NEW q \in Reqs, ReadHeaders(q) PROVE ResetsOut'
  BY <1>1 DEF ResetsOut, ReadHeaders
<1>2. ASSUME NEW q \in Reqs, ReadFrame(q) PROVE ResetsOut'
  BY <1>2 DEF ResetsOut, ReadFrame
<1>3. ASSUME NEW q \in Reqs, HandlerStart(q) PROVE ResetsOut'
  BY <1>0, <1>3 DEF ResetsOut, HandlerStart, objectVars, readVars
<1>4. ASSUME NEW q \in Reqs, HandlerHead(q) PROVE ResetsOut'
  BY <1>0, <1>4 DEF ResetsOut, HandlerHead, objectVars, readVars
<1>5. ASSUME NEW q \in Reqs, HandlerLast(q) PROVE ResetsOut'
  BY <1>0, <1>5 DEF ResetsOut, HandlerLast, objectVars, readVars
<1>6. ASSUME NEW q \in Reqs, HandlerClose(q) PROVE ResetsOut'
  BY <1>0, <1>6 DEF ResetsOut, HandlerClose, readVars
<1>7. ASSUME NEW q \in Reqs, HandlerUncount(q) PROVE ResetsOut'
  BY <1>0, <1>7 DEF ResetsOut, HandlerUncount, readVars
<1>8. ASSUME NEW q \in Reqs, TimerFires(q) PROVE ResetsOut'
  BY <1>0, <1>8 DEF ResetsOut, TimerFires, objectVars, readVars
<1>9. ASSUME NEW q \in Reqs, TimerClose(q) PROVE ResetsOut'
  BY <1>0, <1>9 DEF ResetsOut, TimerClose, readVars
<1>10. ASSUME NEW q \in Reqs, TimerUncount(q) PROVE ResetsOut'
  BY <1>0, <1>10 DEF ResetsOut, TimerUncount, readVars
<1>11. CASE ReadMatch
  BY <1>11 DEF ResetsOut, ReadMatch, Reader
<1>12. CASE ReadAssign
  BY <1>12 DEF ResetsOut, ReadAssign
<1>13. CASE ReadPurge
  BY <1>13 DEF ResetsOut, ReadPurge, Reader, PurgeThen
<1>14. CASE ReadClose
  BY <1>14 DEF ResetsOut, ReadClose, Reader, CloseThen
<1>15. CASE ReadUncount
  BY <1>15 DEF ResetsOut, ReadUncount, Reader
<1>16. CASE RstPurge
  <2>1. sid[robj] \in Reqs /\ map \in [Reqs -> Objs \cup {0}]
    BY <1>16 DEF Sound, TypeOK, AtWork, Named, RstPurge, Reader
  <2> QED
    BY <1>16, <2>1 DEF ResetsOut, RstPurge, objectVars
<1>17. CASE RstClose
  BY <1>0, <1>17 DEF ResetsOut, RstClose, Reader, objectVars
<1>18. CASE RstCount
  BY <1>0, <1>18 DEF ResetsOut, RstCount, Reader, objectVars
<1>19. CASE RstSet
  BY <1>0, <1>19 DEF ResetsOut, RstSet, Reader, objectVars
<1>20. CASE WriterTake
  BY <1>0, <1>20 DEF ResetsOut, WriterTake, objectVars, readVars
<1>21. CASE WriterMatch
  BY <1>0, <1>21 DEF ResetsOut, WriterMatch, objectVars, readVars
<1>22. CASE WriterAssign
  BY <1>0, <1>22 DEF ResetsOut, WriterAssign, readVars
<1>23. CASE WriterPurge
  BY <1>0, <1>23 DEF ResetsOut, WriterPurge, readVars
<1>24. CASE WriterClose
  BY <1>0, <1>24 DEF ResetsOut, WriterClose, readVars
<1>25. CASE WriterUncount
  BY <1>0, <1>25 DEF ResetsOut, WriterUncount, readVars
<1>26. CASE WriterWrite
  BY <1>0, <1>26 DEF ResetsOut, WriterWrite, objectVars, readVars
<1>27. CASE WriterRefuse
  BY <1>0, <1>27 DEF ResetsOut, WriterRefuse, readVars
<1>28. CASE WriterRefused
  BY <1>0, <1>28 DEF ResetsOut, WriterRefused, readVars
<1>29. CASE SendReset
  BY <1>0, <1>29 DEF ResetsOut, SendReset, objectVars, readVars
<1>30. CASE UNCHANGED vars
  BY <1>0, <1>30 DEF ResetsOut, vars, readVars, objectVars
<1> QED
  BY <1>1, <1>2, <1>3, <1>4, <1>5, <1>6, <1>7, <1>8, <1>9, <1>10, <1>11, <1>12, <1>13, <1>14,
     <1>15, <1>16, <1>17, <1>18, <1>19, <1>20, <1>21, <1>22, <1>23, <1>24, <1>25, <1>26, <1>27,
     <1>28, <1>29, <1>30
     DEF Next, Reading, Handling, Timing, Writing

\* A stream that is about to leave the map leaves it.
LEMMA StepDoomed == Sound /\ Linked /\ Owned /\ [Next]_vars => \A r \in Reqs : r \notin stolen' /\ sent[r] # "nothing" /\ Doomed(r) => Doomed(r)'
<1> SUFFICES ASSUME Sound /\ Linked /\ Owned, [Next]_vars PROVE \A r \in Reqs : r \notin stolen' /\ sent[r] # "nothing" /\ Doomed(r) => Doomed(r)'
  OBVIOUS
<1> SUFFICES ASSUME NEW r \in Reqs, r \notin stolen', sent[r] # "nothing", Doomed(r) PROVE Doomed(r)'
  OBVIOUS
<1>k. (map[r] = 0 => map'[r] = 0) /\ r \notin stolen
  BY StepKeeps DEF Keeps
<1>0. /\ map \in [Reqs -> Objs \cup {0}] /\ control \in Seq(Reqs) /\ due \subseteq Reqs /\ sid \in [Objs -> Reqs \cup {0}]
  BY DEF Sound, TypeOK
<1>1. ASSUME NEW q \in Reqs, ReadHeaders(q) PROVE Doomed(r)'
  BY <1>k, <1>1 DEF Doomed, ReadHeaders, writeVars
<1>2. ASSUME NEW q \in Reqs, ReadFrame(q) PROVE Doomed(r)'
  BY <1>k, <1>2 DEF Doomed, ReadFrame, queueVars, writeVars
<1>3. ASSUME NEW q \in Reqs, HandlerStart(q) PROVE Doomed(r)'
    BY <1>k, <1>3 DEF Doomed, HandlerStart, Handler, tableVars, countVars, objectVars, readVars,
       queueVars, writeVars, ghostVars
<1>4. ASSUME NEW q \in Reqs, HandlerHead(q) PROVE Doomed(r)'
    BY <1>k, <1>4 DEF Doomed, HandlerHead, Handler, tableVars, countVars, objectVars, readVars,
       writeVars, ghostVars
<1>5. ASSUME NEW q \in Reqs, HandlerLast(q) PROVE Doomed(r)'
    BY <1>k, <1>5 DEF Doomed, HandlerLast, Handler, tableVars, countVars, objectVars, readVars,
       writeVars, ghostVars
<1>6. ASSUME NEW q \in Reqs, HandlerClose(q) PROVE Doomed(r)'
    BY <1>k, <1>6 DEF Doomed, HandlerClose, Handler, Close, tableVars, countVars, readVars, writeVars,
       ghostVars
<1>7. ASSUME NEW q \in Reqs, HandlerUncount(q) PROVE Doomed(r)'
    BY <1>k, <1>7 DEF Doomed, HandlerUncount, Handler, Uncount, tableVars, readVars, queueVars,
       writeVars, ghostVars
<1>8. ASSUME NEW q \in Reqs, TimerFires(q) PROVE Doomed(r)'
    BY <1>k, <1>8 DEF Doomed, TimerFires, Timer, tableVars, countVars, objectVars, readVars, queueVars,
       writeVars, ghostVars
<1>9. ASSUME NEW q \in Reqs, TimerClose(q) PROVE Doomed(r)'
    BY <1>k, <1>9 DEF Doomed, TimerClose, Timer, Close, tableVars, countVars, readVars, writeVars,
       ghostVars
<1>10. ASSUME NEW q \in Reqs, TimerUncount(q) PROVE Doomed(r)'
    BY <1>k, <1>10 DEF Doomed, TimerUncount, Timer, Uncount, tableVars, readVars, queueVars, writeVars,
       ghostVars
<1>11. CASE ReadMatch
    BY <1>k, <1>11 DEF Doomed, ReadMatch, Reader, tableVars, countVars, objectVars, workVars, queueVars,
       writeVars, ghostVars
<1>12. CASE ReadAssign
    BY <1>k, <1>12 DEF Doomed, ReadAssign, Assign, tableVars, countVars, workVars, queueVars, writeVars
<1>13. CASE ReadPurge
  <2>1. sid[robj] = r => map'[r] = 0
    BY <1>0, <1>13 DEF ReadPurge, Purge
  <2> QED
    BY <1>k, <1>13, <2>1 DEF Doomed, ReadPurge, Reader, queueVars, writeVars
<1>14. CASE ReadClose
    BY <1>k, <1>14 DEF Doomed, ReadClose, Reader, Close, tableVars, countVars, workVars, writeVars,
       ghostVars
<1>15. CASE ReadUncount
    BY <1>k, <1>15 DEF Doomed, ReadUncount, Reader, Uncount, tableVars, workVars, queueVars, writeVars,
       ghostVars
<1>16. CASE RstPurge
    BY <1>k, <1>16 DEF Doomed, RstPurge, Reader, countVars, objectVars, workVars, queueVars, writeVars,
       ghostVars
<1>17. CASE RstClose
    BY <1>k, <1>17 DEF Doomed, RstClose, Reader, tableVars, countVars, workVars, queueVars, writeVars,
       ghostVars
<1>18. CASE RstCount
    BY <1>k, <1>18 DEF Doomed, RstCount, Reader, tableVars, objectVars, workVars, queueVars, writeVars,
       ghostVars
<1>19. CASE RstSet
    BY <1>k, <1>19 DEF Doomed, RstSet, Reader, tableVars, countVars, workVars, queueVars, writeVars,
       ghostVars
<1>20. CASE WriterTake
  <2>1. UNCHANGED <<map, due, rpc, robj, sid>> /\ wpc = "take"
    BY <1>20 DEF WriterTake, tableVars, objectVars, readVars
  <2>2. CASE control # << >> /\ Head(control) = r
    <3>1. NextFrame.id = r /\ NextFrame.type = "rst"
      BY <2>2 DEF NextFrame, Frame
    <3>2. map[r] # 0 => wpc' = "purge" /\ wf'.id = r
      BY <1>20, <3>1 DEF WriterTake, Dropped
    <3> QED
      BY <2>1, <3>2 DEF Doomed
  <2>3. CASE control # << >> /\ Head(control) # r
    <3>1. control' = Tail(control) /\ control[1] # r
      BY <1>0, <1>20, <2>3, TailAt DEF WriterTake, TakeNext
    <3>2. (\E i \in DOMAIN control : control[i] = r)
            <=> (control[1] = r \/ \E i \in DOMAIN Tail(control) : Tail(control)[i] = r)
      BY <1>0, <2>3, TailHolds
    <3>3. (\E i \in DOMAIN control : control[i] = r) => \E i \in DOMAIN control' : control'[i] = r
      BY <3>1, <3>2
    <3> QED
      BY <2>1, <3>3 DEF Doomed
  <2>4. CASE control = << >>
    <3>1. control' = control
      BY <1>20, <2>4 DEF WriterTake, TakeNext
    <3> QED
      BY <2>1, <3>1 DEF Doomed
  <2> QED
    BY <2>2, <2>3, <2>4
<1>21. CASE WriterMatch
    BY <1>k, <1>21 DEF Doomed, WriterMatch, Writer, tableVars, countVars, objectVars, readVars,
       workVars, queueVars, ghostVars
<1>22. CASE WriterAssign
    BY <1>k, <1>22 DEF Doomed, WriterAssign, EndOfResponse, Assign, tableVars, countVars, readVars,
       workVars, queueVars
<1>23. CASE WriterPurge
  <2>1. wf.id = r => sid[wobj] = r
    BY <1>k, <1>23 DEF Owned, WriterPurge, Writer
  <2>2. wf.id = r => map'[r] = 0
    BY <1>0, <1>23, <2>1 DEF WriterPurge, Purge
  <2> QED
    BY <1>k, <1>23, <2>2 DEF Doomed, WriterPurge, queueVars, readVars
<1>24. CASE WriterClose
    BY <1>k, <1>24 DEF Doomed, WriterClose, Writer, Close, tableVars, countVars, readVars, workVars,
       ghostVars
<1>25. CASE WriterUncount
    BY <1>k, <1>25 DEF Doomed, WriterUncount, Writer, Uncount, tableVars, readVars, workVars, queueVars,
       ghostVars
<1>26. CASE WriterWrite
    BY <1>k, <1>26 DEF Doomed, WriterWrite, Writer, WriterDone, tableVars, countVars, objectVars,
       readVars, workVars, queueVars, ghostVars
<1>27. CASE WriterRefuse
    BY <1>k, <1>27 DEF Doomed, WriterRefuse, Writer, WriterDone, Close, tableVars, countVars, readVars,
       workVars, ghostVars
<1>28. CASE WriterRefused
    BY <1>k, <1>28 DEF Doomed, WriterRefused, Writer, WriterDone, Uncount, tableVars, readVars,
       workVars, queueVars, ghostVars
<1>29. CASE SendReset
  <2>1. PICK id \in due : due' = due \ {id} /\ control' = Append(control, id)
    BY <1>29 DEF SendReset
  <2>2. id \in Reqs /\ UNCHANGED <<map, wpc, wf, rpc, robj, sid>>
    BY <1>0, <2>1, <1>29 DEF SendReset, tableVars, objectVars, readVars, writeVars
  <2>3. /\ \A i \in DOMAIN control : Append(control, id)[i] = control[i]
        /\ Append(control, id)[Len(control) + 1] = id /\ Len(control) \in Nat
        /\ DOMAIN control = 1 .. Len(control) /\ DOMAIN Append(control, id) = 1 .. Len(control) + 1
    BY <1>0, <2>2, AppendAt
  <2>4. Len(control) + 1 \in DOMAIN control' /\ control'[Len(control) + 1] = id
    BY <2>1, <2>3
  <2>5. ASSUME NEW i \in DOMAIN control, control[i] = r PROVE i \in DOMAIN control' /\ control'[i] = r
    BY <2>1, <2>3, <2>5
  <2> QED
    BY <2>1, <2>2, <2>4, <2>5 DEF Doomed
<1>30. CASE UNCHANGED vars
    BY <1>k, <1>30 DEF Doomed, vars, tableVars, objectVars, readVars, queueVars, writeVars
<1> QED
  BY <1>1, <1>2, <1>3, <1>4, <1>5, <1>6, <1>7, <1>8, <1>9, <1>10, <1>11, <1>12, <1>13, <1>14,
     <1>15, <1>16, <1>17, <1>18, <1>19, <1>20, <1>21, <1>22, <1>23, <1>24, <1>25, <1>26, <1>27,
     <1>28, <1>29, <1>30
     DEF Next, Reading, Handling, Timing, Writing

\* A step that brings a stream no nearer to its end than the thread that takes
\* it out of the map.
Settles(r) ==
  /\ sid'[obj[r]] = r /\ st'[obj[r]] = "Closed" => (sid[obj[r]] = r /\ st[obj[r]] = "Closed") \/ Doomed(r)'
  /\ hpc'[r] = "uncount" => hpc[r] = "uncount" \/ Doomed(r)'
  /\ hpc'[r] = "done" => hpc[r] = "done" \/ Doomed(r)' \/ Ending(r)'
  /\ Ending(r) => Doomed(r)' \/ Ending(r)'

\* Whoever closes an object dooms the stream it is named for.
LEMMA CloseDooms ==
  ASSUME NEW r \in Reqs, Sound, Linked, LeavesOf(r), sent[r] # "nothing", Doomed(r) => Doomed(r)',
         NEW o \in Objs, NEW slow, Close(o, slow), UNCHANGED sid
  PROVE  /\ sid'[obj[r]] = r /\ st'[obj[r]] = "Closed" => (sid[obj[r]] = r /\ st[obj[r]] = "Closed") \/ Doomed(r)'
         /\ sid[o] = r => Doomed(r)'
<1>1. st \in [Objs -> Statuses] /\ obj[r] \in Objs
  BY DEF Sound, TypeOK, Arrived, Named
<1>2. sid[o] = r => obj[r] = o
  BY ZeroIsNone DEF Linked
<1>3. sid[o] = r => Doomed(r)'
  BY <1>2 DEF Close, LeavesOf, Doomed
<1>4. ASSUME sid'[obj[r]] = r, st'[obj[r]] = "Closed", ~ (sid[obj[r]] = r /\ st[obj[r]] = "Closed")
      PROVE  Doomed(r)'
  <2>1. obj[r] = o
    BY <1>1, <1>4 DEF Close
  <2> QED
    BY <1>3, <1>4, <2>1
<1> QED
  BY <1>3, <1>4

\* A last frame that waits still waits when another message is appended.
LEMMA WaitsOn ==
  ASSUME NEW r \in Reqs, message \in Seq(Frames), Waits(r, "last"),
         message' = message \/ \E f \in Frames : message' = Append(message, f)
  PROVE  (Waits(r, "last"))'
<1>1. CASE message' = message
  BY <1>1 DEF Waits
<1>2. ASSUME NEW f \in Frames, message' = Append(message, f) PROVE (Waits(r, "last"))'
  <2>1. PICK i \in DOMAIN message : message[i].id = r /\ message[i].type = "last"
    BY DEF Waits
  <2>2. /\ DOMAIN message = 1 .. Len(message) /\ DOMAIN Append(message, f) = 1 .. Len(message) + 1
        /\ Append(message, f)[i] = message[i] /\ Len(message) \in Nat
    BY AppendAt
  <2>3. i \in DOMAIN Append(message, f)
    BY <2>2
  <2> QED
    BY <1>2, <2>1, <2>2, <2>3 DEF Waits
<1> QED
  BY <1>1, <1>2

\* A last frame that is appended waits.
LEMMA WaitsNow ==
  ASSUME NEW r \in Reqs, message \in Seq(Frames), NEW f \in Frames,
         f.id = r, f.type = "last", message' = Append(message, f)
  PROVE  (Waits(r, "last"))'
<1>1. Len(message) + 1 \in DOMAIN Append(message, f) /\ Append(message, f)[Len(message) + 1] = f
  BY AppendAt
<1> QED
  BY <1>1 DEF Waits

\* A stream that is closed, or whose handler is done, leaves the map.
LEMMA StepLeaving == Sound /\ Linked /\ Owned /\ Leaving /\ ResetsOut /\ [Next]_vars => Leaving'
<1> SUFFICES ASSUME Sound /\ Linked /\ Owned /\ Leaving /\ ResetsOut, [Next]_vars PROVE Leaving'
  OBVIOUS
<1> SUFFICES ASSUME NEW r \in Reqs, r \notin stolen', sent'[r] # "nothing" PROVE LeavesOf(r)'
  BY DEF Leaving
<1>0. /\ message \in Seq(Frames) /\ map \in [Reqs -> Objs \cup {0}]
      /\ hpc \in [Reqs -> {"none", "queued", "head", "last", "close", "uncount", "done"}]
      /\ st \in [Objs -> Statuses] /\ sid \in [Objs -> Reqs \cup {0}] /\ obj \in [Reqs -> Objs \cup {0}]
      /\ r \notin stolen
  BY StepGhosts DEF Sound, TypeOK
<1>k. sent[r] # "nothing" => LeavesOf(r) /\ obj'[r] = obj[r] /\ (Doomed(r) => Doomed(r)')
  BY <1>0, StepKeeps, StepDoomed DEF Keeps, Leaving
<1>a. sent[r] # "nothing" /\ Settles(r) => LeavesOf(r)'
  BY <1>k DEF LeavesOf, Settles
<1>b. UNCHANGED <<message, wpc, wf>> => (Ending(r)' <=> Ending(r))
  BY DEF Ending, Waits, Holds, InHand
<1>c. sent[r] # "nothing" /\ UNCHANGED <<sid, st, hpc, message, wpc, wf>> => LeavesOf(r)'
  BY <1>a, <1>b DEF Settles
<1>f. sent[r] # "nothing" => obj[r] \in Objs
  BY <1>0 DEF Sound, Arrived, Named
<1>d. Busy(r) => sid[obj[r]] = r
  BY <1>0 DEF Owned
<1>e. wpc # "take" /\ (wf.id = r \/ sid[wobj] = r) => wf.id = r /\ sid[wobj] = r
  BY <1>0 DEF Owned
<1>1. ASSUME NEW q \in Reqs, ReadHeaders(q) PROVE LeavesOf(r)'
  <2>1. /\ New \in Objs /\ obj' = [obj EXCEPT ![q] = New] /\ sid' = [sid EXCEPT ![New] = q]
        /\ hpc' \in {hpc, [hpc EXCEPT ![q] = "queued"]} /\ UNCHANGED <<message, wpc, wf>>
        /\ \E to \in {"headers", "end"} : sent' = [sent EXCEPT ![q] = to]
    BY <1>1, NewObject DEF ReadHeaders, writeVars
  <2>2. \/ st' = [st EXCEPT ![New] = "Closed"] /\ due' = due \cup {q}
        \/ \E to \in {"Open", "HalfClosedRemote"} : st' = [st EXCEPT ![New] = to]
    BY <1>1 DEF ReadHeaders, New
  <2>3. CASE q = r
    <3>1. hpc'[r] \in {"none", "queued"}
      BY <1>0, <1>1, <2>1, <2>3, NewObject DEF Sound, Arrived
    <3>2. obj'[r] = New /\ (st'[New] = "Closed" => r \in due')
      BY <1>0, <2>1, <2>2, <2>3
    <3> QED
      BY <3>1, <3>2 DEF LeavesOf, Doomed
  <2>4. CASE q # r
    <3>1. sent[r] # "nothing" /\ hpc'[r] = hpc[r]
      BY <1>0, <2>1, <2>4 DEF Sound, TypeOK
    <3>2. obj[r] \in Objs
      BY <1>0, <3>1 DEF Sound, Arrived, Named
    <3>3. sid'[obj[r]] = r => sid[obj[r]] = r /\ st'[obj[r]] = st[obj[r]]
      BY <1>0, <2>1, <2>2, <2>4, <3>2
    <3>4. Settles(r)
      BY <1>b, <2>1, <3>1, <3>3 DEF Settles
    <3> QED
      BY <1>a, <3>1, <3>4
  <2> QED
    BY <2>3, <2>4
<1>2. ASSUME NEW q \in Reqs, ReadFrame(q) PROVE LeavesOf(r)'
  <2>1. UNCHANGED <<sid, st, hpc, message, wpc, wf>> /\ sent[r] # "nothing"
    BY <1>2 DEF Sound, TypeOK, ReadFrame, objectVars, workVars, queueVars, writeVars
  <2> QED
    BY <1>c, <2>1
<1>3. ASSUME NEW q \in Reqs, HandlerStart(q) PROVE LeavesOf(r)'
  <2>1. UNCHANGED <<sent, sid, st, message, wpc, wf>> /\ hpc' = [hpc EXCEPT ![q] = "head"]
    BY <1>3 DEF HandlerStart, Handler, readVars, objectVars, queueVars, writeVars
  <2>2. hpc'[r] \in {hpc[r], "head"}
    BY <1>0, <2>1
  <2>3. Settles(r)
    BY <1>b, <2>1, <2>2 DEF Settles
  <2> QED
    BY <1>a, <2>1, <2>3
<1>4. ASSUME NEW q \in Reqs, HandlerHead(q) PROVE LeavesOf(r)'
  <2>1. UNCHANGED <<sent, sid, st, wpc, wf>> /\ hpc[q] = "head"
        /\ hpc' \in {[hpc EXCEPT ![q] = "close"], [hpc EXCEPT ![q] = "last"]}
        /\ message' \in {message, Append(message, Frame(sid[obj[q]], "fields", q))}
    BY <1>4 DEF HandlerHead, Handler, readVars, objectVars, writeVars
  <2>2. hpc'[r] \in {hpc[r], "close", "last"}
    BY <1>0, <2>1
  <2>3. Frame(sid[obj[q]], "fields", q) \in Frames
    BY <1>0, <2>1 DEF Sound, Arrived, Named, Frame, Frames
  <2>4. Waits(r, "last") => (Waits(r, "last"))'
    BY <1>0, <2>1, <2>3, WaitsOn
  <2>5. Settles(r)
    BY <2>1, <2>2, <2>4 DEF Settles, Ending, Holds, InHand
  <2> QED
    BY <1>a, <2>1, <2>5
<1>5. ASSUME NEW q \in Reqs, HandlerLast(q) PROVE LeavesOf(r)'
  <2>1. UNCHANGED <<sent, sid, st, wpc, wf>> /\ hpc[q] = "last"
        /\ \/ hpc' = [hpc EXCEPT ![q] = "close"] /\ message' = message
           \/ /\ hpc' = [hpc EXCEPT ![q] = "done"]
              /\ message' = Append(message, Frame(sid[obj[q]], "last", q))
    BY <1>5 DEF HandlerLast, Handler, readVars, objectVars, writeVars
  <2>2. Frame(sid[obj[q]], "last", q) \in Frames
    BY <1>0, <2>1 DEF Sound, Arrived, Named, Frame, Frames
  <2>3. Waits(r, "last") => (Waits(r, "last"))'
    BY <1>0, <2>1, <2>2, WaitsOn
  <2>4. hpc'[r] = "done" => hpc[r] = "done" \/ (Waits(r, "last"))'
    <3>1. CASE q # r
      BY <1>0, <2>1, <3>1
    <3>2. CASE q = r /\ hpc'[r] = "done"
      <4>1. message' = Append(message, Frame(r, "last", r))
        BY <1>0, <1>d, <2>1, <3>2 DEF Busy
      <4>2. Frame(r, "last", r).id = r /\ Frame(r, "last", r).type = "last"
        BY DEF Frame
      <4>3. (Waits(r, "last"))'
        BY <1>0, <1>d, <2>1, <2>2, <3>2, <4>1, <4>2, WaitsNow DEF Busy
      <4> QED
        BY <4>3
    <3> QED
      BY <3>1, <3>2
  <2>5. hpc'[r] # "uncount" \/ hpc[r] = "uncount"
    BY <1>0, <2>1
  <2>6. Settles(r)
    BY <2>1, <2>3, <2>4, <2>5 DEF Settles, Ending, Holds, InHand
  <2> QED
    BY <1>a, <2>1, <2>6
<1>6. ASSUME NEW q \in Reqs, HandlerClose(q) PROVE LeavesOf(r)'
  <2>1. UNCHANGED <<sent, sid, message, wpc, wf>> /\ hpc[q] = "close" /\ Close(obj[q], FALSE)
        /\ \E to \in {"uncount", "done"} : hpc' = [hpc EXCEPT ![q] = to]
    BY <1>6 DEF HandlerClose, Handler, CloseThen, readVars, writeVars
  <2>2. obj[q] \in Objs
    BY <1>0, <2>1 DEF Sound, Arrived, Named
  <2>3. /\ sid'[obj[r]] = r /\ st'[obj[r]] = "Closed" => (sid[obj[r]] = r /\ st[obj[r]] = "Closed") \/ Doomed(r)'
        /\ sid[obj[q]] = r => Doomed(r)'
    BY <1>k, <2>1, <2>2, CloseDooms
  <2>4. hpc'[r] = hpc[r] \/ Doomed(r)'
    BY <1>0, <1>d, <2>1, <2>3 DEF Busy
  <2>5. Settles(r)
    BY <1>b, <2>1, <2>3, <2>4 DEF Settles
  <2> QED
    BY <1>a, <2>1, <2>5
<1>7. ASSUME NEW q \in Reqs, HandlerUncount(q) PROVE LeavesOf(r)'
  <2>1. UNCHANGED <<sent, sid, st, message, wpc, wf>> /\ hpc[q] = "uncount" /\ hpc' = [hpc EXCEPT ![q] = "done"]
    BY <1>7 DEF HandlerUncount, Handler, Uncount, readVars, queueVars, writeVars
  <2>2. hpc'[r] = hpc[r] \/ Doomed(r)'
    BY <1>0, <1>k, <2>1 DEF LeavesOf
  <2>3. Settles(r)
    BY <1>b, <2>1, <2>2 DEF Settles
  <2> QED
    BY <1>a, <2>1, <2>3
<1>8. ASSUME NEW q \in Reqs, TimerFires(q) PROVE LeavesOf(r)'
  <2>1. UNCHANGED <<sent, sid, st, hpc, message, wpc, wf>>
    BY <1>8 DEF TimerFires, objectVars, readVars, queueVars, writeVars
  <2> QED
    BY <1>c, <2>1
<1>9. ASSUME NEW q \in Reqs, TimerClose(q) PROVE LeavesOf(r)'
  <2>1. UNCHANGED <<sent, sid, hpc, message, wpc, wf>> /\ \E slow \in BOOLEAN : Close(obj[q], slow)
    BY <1>9 DEF TimerClose, readVars, workVars, writeVars
  <2>2. obj[q] \in Objs
    BY <1>0, <1>9 DEF Sound, TypeOK, Arrived, AtWork, Named, TimerClose, Timer
  <2>3. sid'[obj[r]] = r /\ st'[obj[r]] = "Closed" => (sid[obj[r]] = r /\ st[obj[r]] = "Closed") \/ Doomed(r)'
    BY <1>k, <2>1, <2>2, CloseDooms
  <2>4. Settles(r)
    BY <1>b, <2>1, <2>3 DEF Settles
  <2> QED
    BY <1>a, <2>1, <2>4
<1>10. ASSUME NEW q \in Reqs, TimerUncount(q) PROVE LeavesOf(r)'
  <2>1. UNCHANGED <<sent, sid, st, hpc, message, wpc, wf>>
    BY <1>10 DEF TimerUncount, Uncount, readVars, queueVars, writeVars
  <2> QED
    BY <1>c, <2>1
<1>11. CASE ReadMatch
  <2>1. UNCHANGED <<sent, sid, st, hpc, message, wpc, wf>>
    BY <1>11 DEF ReadMatch, objectVars, workVars, queueVars, writeVars
  <2> QED
    BY <1>c, <2>1
<1>12. CASE ReadAssign
  <2>1. /\ UNCHANGED <<sent, sid, hpc, message, wpc, wf, robj>>
        /\ \/ st' = [st EXCEPT ![robj] = "HalfClosedRemote"]
           \/ st' = [st EXCEPT ![robj] = "Closed"] /\ rpc' = "purge"
           \/ st' = st
    BY <1>12 DEF ReadAssign, Assign, workVars, queueVars, writeVars
  <2>2. sid'[obj[r]] = r /\ st'[obj[r]] = "Closed" => (sid[obj[r]] = r /\ st[obj[r]] = "Closed") \/ Doomed(r)'
    BY <1>0, <1>f, <2>1 DEF Doomed
  <2>3. Settles(r)
    BY <1>b, <2>1, <2>2 DEF Settles
  <2> QED
    BY <1>a, <2>1, <2>3
<1>13. CASE ReadPurge
  <2>1. UNCHANGED <<sent, sid, st, hpc, message, wpc, wf>>
    BY <1>13 DEF ReadPurge, Purge, workVars, queueVars, writeVars
  <2> QED
    BY <1>c, <2>1
<1>14. CASE ReadClose
  <2>1. UNCHANGED <<sent, sid, hpc, message, wpc, wf>> /\ \E slow \in BOOLEAN : Close(robj, slow)
    BY <1>14 DEF ReadClose, readVars, workVars, writeVars
  <2>2. robj \in Objs
    BY <1>0, <1>14 DEF Sound, TypeOK, Arrived, AtWork, Named, ReadClose, Reader
  <2>3. sid'[obj[r]] = r /\ st'[obj[r]] = "Closed" => (sid[obj[r]] = r /\ st[obj[r]] = "Closed") \/ Doomed(r)'
    BY <1>k, <2>1, <2>2, CloseDooms
  <2>4. Settles(r)
    BY <1>b, <2>1, <2>3 DEF Settles
  <2> QED
    BY <1>a, <2>1, <2>4
<1>15. CASE ReadUncount
  <2>1. UNCHANGED <<sent, sid, st, hpc, message, wpc, wf>>
    BY <1>15 DEF ReadUncount, Uncount, workVars, queueVars, writeVars
  <2> QED
    BY <1>c, <2>1
<1>16. CASE RstPurge
  <2>1. UNCHANGED <<sent, sid, st, hpc, message, wpc, wf>>
    BY <1>16 DEF RstPurge, objectVars, workVars, queueVars, writeVars
  <2> QED
    BY <1>c, <2>1
<1>17. CASE RstClose
  <2>1. /\ UNCHANGED <<sent, sid, hpc, message, wpc, wf, map>>
        /\ st' = [st EXCEPT ![robj] = "Closed"] /\ map[sid[robj]] = 0
    BY <1>17 DEF RstClose, Reader, ResetsOut, workVars, queueVars, writeVars, tableVars
  <2>2. sid'[obj[r]] = r /\ st'[obj[r]] = "Closed" => (sid[obj[r]] = r /\ st[obj[r]] = "Closed") \/ Doomed(r)'
    BY <1>0, <1>f, <2>1 DEF Doomed
  <2>3. Settles(r)
    BY <1>b, <2>1, <2>2 DEF Settles
  <2> QED
    BY <1>a, <2>1, <2>3
<1>18. CASE RstCount
  <2>1. UNCHANGED <<sent, sid, st, hpc, message, wpc, wf>>
    BY <1>18 DEF RstCount, objectVars, workVars, queueVars, writeVars
  <2> QED
    BY <1>c, <2>1
<1>19. CASE RstSet
  <2>1. UNCHANGED <<sent, sid, st, hpc, message, wpc, wf>>
    BY <1>19 DEF RstSet, workVars, queueVars, writeVars
  <2> QED
    BY <1>c, <2>1
<1>20. CASE WriterTake
  <2>1. UNCHANGED <<sent, map, sid, st, hpc>> /\ wpc = "take" /\ TakeNext
        /\ IF Dropped(NextFrame) THEN UNCHANGED <<wpc, wf, wobj>>
           ELSE wpc' = (IF NextFrame.type = "rst" THEN "purge" ELSE "match") /\ wf' = NextFrame
    BY <1>20 DEF WriterTake, readVars, tableVars, objectVars, workVars
  <2>2. ASSUME Ending(r) PROVE Doomed(r)' \/ Ending(r)'
    <3>1. Waits(r, "last")
      BY <2>1, <2>2 DEF Ending, Holds, InHand
    <3>2. PICK i \in DOMAIN message : message[i].id = r /\ message[i].type = "last"
      BY <3>1 DEF Waits
    <3>3. CASE message' = message
      BY <3>1, <3>3 DEF Ending, Waits
    <3>4. CASE message' # message
      <4>1. control = << >> /\ message # << >> /\ message' = Tail(message) /\ NextFrame = Head(message)
        BY <2>1, <3>4 DEF TakeNext, NextFrame
      <4>2. Head(message) = message[1] /\ (i = 1 \/ (i - 1 \in DOMAIN message' /\ message'[i - 1] = message[i]))
        BY <1>0, <4>1, TailAt
      <4>3. CASE i # 1
        BY <3>2, <4>2, <4>3 DEF Ending, Waits
      <4>4. CASE i = 1 /\ ~ Dropped(NextFrame)
        <5>1. wpc' = "match" /\ wf'.id = r /\ wf'.type = "last"
          BY <2>1, <3>2, <4>1, <4>2, <4>4
        <5> QED
          BY <5>1 DEF Ending, Holds, InHand
      <4>5. CASE i = 1 /\ Dropped(NextFrame)
        <5>1. map[r] = 0 \/ st[map[r]] = "Closed"
          BY <3>2, <4>1, <4>2, <4>5 DEF Dropped
        <5>2. map[r] # 0 => sid[map[r]] = r /\ obj[r] = map[r]
          BY <1>0, ZeroIsNone DEF Linked
        <5>3. Doomed(r)
          BY <1>k, <2>1, <5>1, <5>2 DEF LeavesOf, Doomed
        <5> QED
          BY <1>k, <2>1, <5>3
      <4> QED
        BY <4>3, <4>4, <4>5
    <3> QED
      BY <3>3, <3>4
  <2>3. Settles(r)
    BY <2>1, <2>2 DEF Settles
  <2> QED
    BY <1>a, <2>1, <2>3
<1>21. CASE WriterMatch
  <2>1. UNCHANGED <<sent, sid, st, hpc, message, wf>> /\ wpc = "match" /\ wpc' = "assign"
    BY <1>21 DEF WriterMatch, Writer, readVars, objectVars, workVars, queueVars
  <2>2. Settles(r)
    BY <2>1 DEF Settles, Ending, Waits, Holds, InHand
  <2> QED
    BY <1>a, <2>1, <2>2
<1>22. CASE WriterAssign
  <2>1. UNCHANGED <<sent, sid, hpc, message, wf>> /\ wpc = "assign"
    BY <1>22 DEF WriterAssign, readVars, workVars, queueVars
  <2>2. CASE wf.type = "last"
    <3>1. \/ st' = [st EXCEPT ![wobj] = "HalfClosedLocal"] /\ wpc' = "close"
          \/ st' = [st EXCEPT ![wobj] = "Closed"] /\ wpc' = "purge"
          \/ st' = st /\ wpc' = "refuse"
      BY <1>22, <2>2 DEF WriterAssign, EndOfResponse, Assign
    <3>2. wpc' = "purge" /\ (wf.id = r \/ sid[wobj] = r) => Doomed(r)'
      BY <1>e, <2>1 DEF Doomed
    <3>3. sid'[obj[r]] = r /\ st'[obj[r]] = "Closed" => (sid[obj[r]] = r /\ st[obj[r]] = "Closed") \/ Doomed(r)'
      BY <1>0, <1>f, <2>1, <3>1, <3>2
    <3>4. Ending(r) => Doomed(r)' \/ Ending(r)'
      BY <2>1, <3>1, <3>2 DEF Ending, Waits, Holds, InHand
    <3>5. Settles(r)
      BY <2>1, <3>3, <3>4 DEF Settles
    <3> QED
      BY <1>a, <2>1, <3>5
  <2>3. CASE wf.type # "last"
    <3>1. st' = st
      BY <1>22, <2>3 DEF WriterAssign
    <3>2. Settles(r)
      BY <2>1, <2>3, <3>1 DEF Settles, Ending, Waits, Holds, InHand
    <3> QED
      BY <1>a, <2>1, <3>2
  <2> QED
    BY <2>2, <2>3
<1>23. CASE WriterPurge
  <2>1. UNCHANGED <<sent, sid, st, hpc, message>> /\ wpc = "purge"
    BY <1>23 DEF WriterPurge, Writer, readVars, workVars, queueVars
  <2>2. Settles(r)
    BY <2>1 DEF Settles, Ending, Waits, Holds
  <2> QED
    BY <1>a, <2>1, <2>2
<1>24. CASE WriterClose
  <2>1. UNCHANGED <<sent, sid, hpc, message>> /\ wpc = "close" /\ Close(wobj, FALSE)
    BY <1>24 DEF WriterClose, Writer, readVars, workVars
  <2>2. wobj \in Objs
    BY <2>1 DEF Sound, TypeOK, AtWork, Named
  <2>3. /\ sid'[obj[r]] = r /\ st'[obj[r]] = "Closed" => (sid[obj[r]] = r /\ st[obj[r]] = "Closed") \/ Doomed(r)'
        /\ sid[wobj] = r => Doomed(r)'
    BY <1>k, <2>1, <2>2, CloseDooms
  <2>4. Ending(r) => Doomed(r)' \/ Ending(r)'
    BY <1>e, <2>1, <2>3 DEF Ending, Waits, Holds, InHand
  <2>5. Settles(r)
    BY <2>1, <2>3, <2>4 DEF Settles
  <2> QED
    BY <1>a, <2>1, <2>5
<1>25. CASE WriterUncount
  <2>1. UNCHANGED <<sent, sid, st, hpc, message>> /\ wpc = "uncount"
    BY <1>25 DEF WriterUncount, Writer, Uncount, readVars, workVars, queueVars
  <2>2. Settles(r)
    BY <2>1 DEF Settles, Ending, Waits, Holds
  <2> QED
    BY <1>a, <2>1, <2>2
<1>26. CASE WriterWrite
  <2>1. UNCHANGED <<sent, sid, st, hpc, message>> /\ wpc = "write"
    BY <1>26 DEF WriterWrite, Writer, objectVars, readVars, workVars, queueVars
  <2>2. Settles(r)
    BY <2>1 DEF Settles, Ending, Waits, Holds
  <2> QED
    BY <1>a, <2>1, <2>2
<1>27. CASE WriterRefuse
  <2>1. UNCHANGED <<sent, sid, hpc, message>> /\ wpc = "refuse" /\ Close(wobj, FALSE)
    BY <1>27 DEF WriterRefuse, Writer, readVars, workVars
  <2>2. wobj \in Objs
    BY <2>1 DEF Sound, TypeOK, AtWork, Named
  <2>3. /\ sid'[obj[r]] = r /\ st'[obj[r]] = "Closed" => (sid[obj[r]] = r /\ st[obj[r]] = "Closed") \/ Doomed(r)'
        /\ sid[wobj] = r => Doomed(r)'
    BY <1>k, <2>1, <2>2, CloseDooms
  <2>4. Ending(r) => Doomed(r)' \/ Ending(r)'
    BY <1>e, <2>1, <2>3 DEF Ending, Waits, Holds, InHand
  <2>5. Settles(r)
    BY <2>1, <2>3, <2>4 DEF Settles
  <2> QED
    BY <1>a, <2>1, <2>5
<1>28. CASE WriterRefused
  <2>1. UNCHANGED <<sent, sid, st, hpc, message>> /\ wpc = "refused"
    BY <1>28 DEF WriterRefused, Writer, Uncount, readVars, workVars, queueVars
  <2>2. Settles(r)
    BY <2>1 DEF Settles, Ending, Waits, Holds
  <2> QED
    BY <1>a, <2>1, <2>2
<1>29. CASE SendReset
  <2>1. UNCHANGED <<sent, sid, st, hpc, message, wpc, wf>>
    BY <1>29 DEF SendReset, objectVars, readVars, workVars, writeVars
  <2> QED
    BY <1>c, <2>1
<1>30. CASE UNCHANGED vars
  <2>1. UNCHANGED <<sent, sid, st, hpc, message, wpc, wf>>
    BY <1>30 DEF vars, readVars, workVars, queueVars, writeVars, objectVars
  <2> QED
    BY <1>c, <2>1
<1> QED
  BY <1>1, <1>2, <1>3, <1>4, <1>5, <1>6, <1>7, <1>8, <1>9, <1>10, <1>11, <1>12, <1>13, <1>14,
     <1>15, <1>16, <1>17, <1>18, <1>19, <1>20, <1>21, <1>22, <1>23, <1>24, <1>25, <1>26, <1>27,
     <1>28, <1>29, <1>30
     DEF Next, Reading, Handling, Timing, Writing

\* The streams of a new connection.
LEMMA InitStreams == Init => StreamInv
<1> SUFFICES ASSUME Init PROVE StreamInv
  OBVIOUS
<1>1. Owned /\ Announced /\ ResetsOut /\ Leaving
  BY DEF Init, Owned, Busy, Announced, ResetsOut, Leaving
<1>2. ASSUME NEW r \in Reqs PROVE OrderOf(r)
  <2>1. TypesOf(wire[r]) = None
    BY DEF Init, TypesOf, None
  <2>2. message = << >> /\ ~ InHand(r) /\ wire[r] = << >> /\ map[r] = 0 /\ hpc[r] = "none" /\ wpc = "take"
    BY DEF Init, InHand
  <2>3. MessagesOf(r) /\ ~ Waits(r, "fields") /\ ~ Waits(r, "last")
    BY <2>2 DEF MessagesOf, Waits
  <2>4. FramesOf(r) /\ ResetsOf(r)
    BY <2>1, <2>2, ShapesDiffer DEF FramesOf, ResetsOf, Cut, Uncut
  <2>5. StagesOf(r)
    BY <2>1, <2>2, <2>3, ShapesDiffer DEF StagesOf, Holds
  <2> QED
    BY <2>3, <2>4, <2>5 DEF OrderOf
<1> QED
  BY <1>1, <1>2 DEF StreamInv, Ordered

\* The second inductive invariant, with the first.
LEMMA NextStreams == ServerInv /\ StreamInv /\ [Next]_vars => StreamInv'
BY StepOwned, StepAnnounced, StepOrdered, StepResetsOut, StepLeaving DEF ServerInv, StreamInv

\* For every number of requests, every limit and every interleaving of the read
\* thread, the handlers, the timers and the write thread, with resets and time-
\* outs: a client receives the beginning of its response, in order, once and
\* from its own handler; unless the stream's object was shared or a status lost.
THEOREM ResponsesKeepOrder == Spec => []ResponseInOrder
<1>1. StreamInv => ResponseInOrder
  BY DEF StreamInv, Ordered, OrderOf, FramesOf, ResponseInOrder, Clean, TypesOf, Cut, Uncut,
     None, Part, Whole, NoneCut, PartCut, WholeCut
<1> QED
  BY <1>1, InitServer, NextServer, InitStreams, NextStreams, PTL DEF Spec

\* A stream whose handler is done leaves the map, even if a status was lost;
\* only a shared object keeps it there.
THEOREM HandledStreamsLeave == Spec => []HandledIsPurged
<1>1. ServerInv /\ StreamInv => HandledIsPurged
  <2> SUFFICES ASSUME ServerInv, StreamInv, rpc = "read", wpc = "take", NEW r \in Reqs, r \notin stolen,
                      hpc[r] = "done", r \notin due, \A i \in DOMAIN control : control[i] # r,
                      \A i \in DOMAIN message : message[i].id # r
               PROVE  map[r] = 0
    BY DEF HandledIsPurged
  <2>1. sent[r] # "nothing"
    BY DEF ServerInv, Sound, Arrived
  <2>2. Doomed(r) \/ Ending(r)
    BY <2>1 DEF StreamInv, Leaving, LeavesOf
  <2> QED
    BY <2>2 DEF Doomed, Ending, Waits, Holds, InHand
<1> QED
  BY <1>1, InitServer, NextServer, InitStreams, NextStreams, PTL DEF Spec

=============================================================================
