--------------------------- MODULE H2ClientProofs ---------------------------
(* One HTTP/2 connection of the client, for every number of requests and     *)
(* every limit on concurrent streams.                                        *)
EXTENDS H2Client, QueueLemmas, FiniteSetTheorems

-----------------------------------------------------------------------------
(* What holds however the requests begin.                                    *)

\* control has the resets, the rest goes to message and, early, to the cache
\* of its stream; the threads have a frame and its request between take or
\* read and the end of its treatment.
Contents ==
  /\ \A f \in Range(control) : f.type = "rst"
  /\ \A f \in Range(message) : f.type # "rst"
  /\ \A id \in Ids : \A f \in Range(cacheMap[id]) : f.id = id /\ f.type # "rst"
  /\ \A r \in Reqs : \A f \in Range(todo[r]) : f.id = sid[r] /\ f.type # "rst"

Threads ==
  /\ wpc \in {"match", "update"} => wframe \in Frames /\ wreq \in Reqs
  /\ rpc \in {"match", "update"} => rframe \in Frames /\ rreq \in Reqs
  /\ Contents

\* The requests that have an id, or will load the first one.
Numbered == {r \in Reqs : upc[r] = "load" \/ sid[r] # 0}

Numbers ==
  /\ lastStreamId = IF Numbered = {} THEN 0 ELSE 2 * Cardinality(Numbered) - 1
  /\ \A r \in Reqs : /\ upc[r] = "next" => lastStreamId # 0
                     /\ upc[r] \in {"new", "refuse", "cas", "load", "next"} => sid[r] = 0
                     /\ upc[r] \in {"map", "open", "write", "wait", "done"} => sid[r] # 0

\* The counter counts the requests that were refused and have not counted
\* themselves off, those on their way to the map, and the streams in it.
Refused == {r \in Reqs : upc[r] = "refuse"}
Arriving == {r \in Reqs : upc[r] \in {"cas", "load", "next", "map"}}
Begun == {r \in Reqs : upc[r] # "new" /\ ~ (upc[r] = "failed" /\ sid[r] = 0)}

Counts ==
  /\ Cardinality(Arriving) + Cardinality(Mapped) <= MaxStreams + 1
  /\ Cardinality(Refused) + Cardinality(Arriving) + Cardinality(Mapped) <= active
  /\ active <= Cardinality(Begun)

CountInv == TypeOK /\ Threads /\ Numbers /\ Counts

-----------------------------------------------------------------------------
(* What holds when the first request of the connection begins alone.         *)

\* Nobody else is about to take an id while the first id is being taken.
Alone ==
  /\ \A r, q \in Reqs : lastStreamId = 0 /\ upc[r] = "cas" /\ upc[q] = "cas" => r = q
  /\ \A r, q \in Reqs : upc[r] = "load" /\ q # r => sid[q] = 0 /\ upc[q] \notin {"cas", "load", "next"}
  /\ \A r \in Reqs : upc[r] = "load" => lastStreamId = 1
  /\ \A r \in Reqs : sid[r] <= lastStreamId

\* No two requests have the same id.
Unique == \A r, q \in Reqs : sid[r] = sid[q] /\ sid[r] # 0 => r = q

Started == {"write", "wait", "done", "failed"}

\* Id x is that of a request that has started to write.
Known(x) == \E r \in Reqs : sid[r] = x /\ upc[r] \in Started

\* The map has a stream from add until it is purged.
Placed ==
  /\ \A id \in Ids : \A r \in Reqs : streams[id] = r => sid[r] = id /\ upc[r] \in {"open"} \cup Started
  /\ \A r \in Reqs : upc[r] = "open" => streams[sid[r]] = r

\* Nothing happens to a request's stream before the request starts to write.
Fresh ==
  \A r \in Reqs :
    /\ upc[r] \in Started /\ sid[r] # 0 => input[r] # "none"
    /\ upc[r] \notin Started => input[r] = "none"
    /\ upc[r] \notin Started /\ down < 4 => status[r] = "Idle"

\* Every frame is about such a request, and the threads have its own.
AllKnown ==
  /\ \A id \in Ids : srv[id] # "idle" => Known(id)
  /\ \A id \in Range(opened) : Known(id)
  /\ \A f \in Range(control) : Known(f.id)
  /\ \A f \in Range(message) : Known(f.id)
  /\ \A id \in Ids : \A f \in Range(cacheMap[id]) : Known(f.id)
  /\ wpc \in {"match", "update"} => Known(wframe.id) /\ sid[wreq] = wframe.id
  /\ rpc \in {"match", "update"} => Known(rframe.id) /\ sid[rreq] = rframe.id

\* Nobody waits for a stream that is not in the map or Closed, unless the
\* stream's queue has been closed.
Over(r) == input[r] \in {"closed", "quit"}

Released ==
  /\ down >= 2 => outClosed
  /\ \A r \in Reqs :
       /\ status[r] = "HalfClosedRemote" => Over(r)
       /\ upc[r] \in {"write", "wait"} /\ down < 4 =>
            Over(r) \/ (streams[sid[r]] = r /\ status[r] # "Closed")
       /\ upc[r] = "wait" /\ down = 4 => Over(r)
  /\ wpc = "update" /\ wseen = "HalfClosedRemote" => Over(wreq)

StreamInv == CountInv /\ Alone /\ Unique /\ Placed /\ Fresh /\ AllKnown

ReleaseInv == StreamInv /\ Released

-----------------------------------------------------------------------------
(* The order of the streams on the wire, while no stream is reset early.     *)

Opened == Range(opened)

\* The headers of a stream are written when its status leaves Idle, and
\* everything about the stream comes after them.
Sent ==
  /\ \A r \in Reqs : status[r] \in {"Open", "HalfClosedLocal", "HalfClosedRemote"} => sid[r] \in Opened
  /\ \A r \in Reqs : sid[r] \in Opened => status[r] # "Idle"
  /\ \A id \in Ids : srv[id] # "idle" => id \in Opened
  /\ \A f \in Range(control) : f.id \in Opened
  /\ rpc \in {"match", "update"} => rframe.id \in Opened
  /\ wpc \in {"match", "update"} =>
       IF wframe.type = "rst" THEN wframe.id \in Opened ELSE wframe.id <= lastSendId + 2
  /\ wpc = "update" /\ wseen = "Idle" => wframe.id \notin Opened
  /\ wpc = "update" /\ wseen \in {"Open", "HalfClosedRemote"} => wframe.id \in Opened

\* Every stream up to the last one sent is open, and at most the next one.
Ranks ==
  /\ \A id \in Ids : id <= lastSendId => id \in Opened
  /\ \A id \in Opened : id <= lastSendId + 2
  /\ InOrder

OrderInv == StreamInv /\ ("reset" \notin troubles => Sent /\ Ranks)

-----------------------------------------------------------------------------
(* Frames and what the write thread takes.                                   *)

\* A frame is what it was made of.
LEMMA FrameFacts ==
  ASSUME NEW id \in Ids, NEW type \in {"fields", "data", "rst"}, NEW end \in BOOLEAN
  PROVE  /\ Frame(id, type, end) \in Frames
         /\ Frame(id, type, end).id = id /\ Frame(id, type, end).type = type
BY DEF Frame, Frames

\* All that a request writes is about its own stream, and no reset.
LEMMA WrittenFacts ==
  ASSUME NEW kind \in Kinds, NEW id \in Ids
  PROVE  /\ Written(kind, id) \in Seq(Frames)
         /\ \A f \in Range(Written(kind, id)) : f.id = id /\ f.type # "rst"
<1> DEFINE h1 == Frame(id, "fields", TRUE)  h2 == Frame(id, "fields", FALSE)
           d1 == Frame(id, "data", TRUE)  d2 == Frame(id, "data", FALSE)
           F == {h1, h2, d1, d2}
<1>1. \A f \in F : f \in Frames /\ f.id = id /\ f.type # "rst"
  <2>1. \A t \in {"fields", "data"}, e \in BOOLEAN :
          Frame(id, t, e) \in Frames /\ Frame(id, t, e).id = id /\ Frame(id, t, e).type # "rst"
    BY FrameFacts
  <2> QED
    BY <2>1
<1>2. Written(kind, id) \in {<<h1>>, <<h2, d1>>, <<h2, d2, h1>>}
  BY ClientAssumption DEF Written
<1> HIDE DEF h1, h2, d1, d2
<1>3. \A s \in {<<h1>>, <<h2, d1>>, <<h2, d2, h1>>} : s \in Seq(F) /\ Range(s) \subseteq F
  <2>1. \A x, y, z \in F : /\ <<x>> \in Seq(F) /\ <<x, y>> \in Seq(F) /\ <<x, y, z>> \in Seq(F)
    OBVIOUS
  <2>2. \A s \in Seq(F) : Range(s) \subseteq F
    BY DEF Range
  <2> QED
    BY <2>1, <2>2
<1>4. Seq(F) \subseteq Seq(Frames)
  BY <1>1
<1> QED
  BY <1>1, <1>2, <1>3, <1>4

\* takeFrame takes the head of one of the queues, or of the cached frames of
\* the next stream.
LEMMA TakenFacts ==
  ASSUME TypeOK, Take
  PROVE  /\ Taken \in Frames
         /\ control' \in Seq(Frames) /\ message' \in Seq(Frames) /\ cacheMap' \in [Ids -> Seq(Frames)]
         /\ outClosed' = outClosed
         /\ Range(control') \subseteq Range(control) /\ Range(message') \subseteq Range(message)
         /\ \A id \in Ids : Range(cacheMap'[id]) \subseteq Range(cacheMap[id])
         /\ \/ Taken \in Range(control) \cup Range(message)
            \/ Cached(lastSendId + 2) /\ Taken \in Range(cacheMap[lastSendId + 2])
<1>0. /\ control \in Seq(Frames) /\ message \in Seq(Frames) /\ cacheMap \in [Ids -> Seq(Frames)]
  BY DEF TypeOK
<1>1. CASE Cached(lastSendId + 2)
  <2> DEFINE n == lastSendId + 2  s == cacheMap[n]
  <2>1. n \in Ids /\ s \in Seq(Frames) /\ s # << >>
    BY <1>0, <1>1 DEF Cached
  <2>2. /\ cacheMap' = [cacheMap EXCEPT ![n] = Tail(s)] /\ Taken = Head(s)
        /\ UNCHANGED <<control, message, outClosed>>
    BY <1>1 DEF Take, Taken, queueVars
  <2>3. Head(s) \in Range(s) /\ Range(s) \subseteq Frames /\ Tail(s) \in Seq(Frames) /\ Range(Tail(s)) \subseteq Range(s)
    BY <2>1, TailRange
  <2> HIDE DEF n, s
  <2>4. cacheMap' \in [Ids -> Seq(Frames)] /\ \A id \in Ids : Range(cacheMap'[id]) \subseteq Range(cacheMap[id])
    <3>1. \A id \in Ids : cacheMap'[id] = IF id = n THEN Tail(s) ELSE cacheMap[id]
      BY <1>0, <2>1, <2>2
    <3>2. cacheMap[n] = s
      BY DEF s
    <3> QED
      BY <1>0, <2>1, <2>2, <2>3, <3>1, <3>2
  <2>5. Taken \in Range(cacheMap[lastSendId + 2])
    BY <2>2, <2>3 DEF s, n
  <2> QED
    BY <1>0, <1>1, <2>2, <2>3, <2>4, <2>5
<1>2. CASE ~ Cached(lastSendId + 2) /\ control # << >>
  <2>1. /\ control' = Tail(control) /\ Taken = Head(control)
        /\ UNCHANGED <<cacheMap, message, outClosed>>
    BY <1>2 DEF Take, Taken
  <2>2. /\ Head(control) \in Range(control) /\ Range(control) \subseteq Frames /\ Tail(control) \in Seq(Frames)
        /\ Range(Tail(control)) \subseteq Range(control)
    BY <1>0, <1>2, TailRange
  <2> QED
    BY <1>0, <2>1, <2>2
<1>3. CASE ~ Cached(lastSendId + 2) /\ control = << >>
  <2>1. /\ message' = Tail(message) /\ Taken = Head(message) /\ message # << >>
        /\ UNCHANGED <<cacheMap, control, outClosed>>
    BY <1>3 DEF Take, Taken
  <2>2. /\ Head(message) \in Range(message) /\ Range(message) \subseteq Frames /\ Tail(message) \in Seq(Frames)
        /\ Range(Tail(message)) \subseteq Range(message)
    BY <1>0, <2>1, TailRange
  <2> QED
    BY <1>0, <2>1, <2>2
<1> QED
  BY <1>1, <1>2, <1>3

\* The server answers a stream that it was asked on.
LEMMA ServerFrameFacts ==
  ASSUME NEW id \in Ids, NEW f \in ServerFrames(id)
  PROVE  f \in Frames /\ f.id = id /\ srv[id] # "idle"
<1>1. \A t \in {"fields", "data", "rst"}, e \in BOOLEAN : Frame(id, t, e) \in Frames /\ Frame(id, t, e).id = id
  BY FrameFacts
<1>2. CASE srv[id] = "asked"
  BY <1>1, <1>2 DEF ServerFrames
<1>3. CASE srv[id] = "headers"
  BY <1>1, <1>3 DEF ServerFrames
<1>4. CASE srv[id] \notin {"asked", "headers"}
  BY <1>4 DEF ServerFrames
<1> QED
  BY <1>2, <1>3, <1>4

\* The head of message goes to the cache of its stream.
LEMMA CacheFacts ==
  ASSUME TypeOK, WriterCache
  PROVE  /\ Taken \in Frames /\ Taken \in Range(message)
         /\ message' \in Seq(Frames) /\ Range(message') \subseteq Range(message)
         /\ cacheMap' \in [Ids -> Seq(Frames)]
         /\ \A id \in Ids : Range(cacheMap'[id]) = Range(cacheMap[id]) \cup (IF id = Taken.id THEN {Taken} ELSE {})
<1>1. /\ message \in Seq(Frames) /\ message # << >> /\ message' = Tail(message) /\ Taken = Head(message)
      /\ cacheMap \in [Ids -> Seq(Frames)]
      /\ cacheMap' = [cacheMap EXCEPT ![Taken.id] = Append(cacheMap[Taken.id], Taken)]
  BY DEF TypeOK, WriterCache, Taken
<1>2. /\ Head(message) \in Range(message) /\ Range(message) \subseteq Frames /\ Tail(message) \in Seq(Frames)
      /\ Range(Tail(message)) \subseteq Range(message)
  BY <1>1, TailRange
<1>3. Taken \in Frames /\ Taken.id \in Ids /\ cacheMap[Taken.id] \in Seq(Frames)
  BY <1>1, <1>2 DEF Frames
<1>4. /\ Append(cacheMap[Taken.id], Taken) \in Seq(Frames)
      /\ Range(Append(cacheMap[Taken.id], Taken)) = Range(cacheMap[Taken.id]) \cup {Taken}
  BY <1>3, AppendRange
<1>5. cacheMap' \in [Ids -> Seq(Frames)]
  BY <1>1, <1>3, <1>4
<1>6. \A id \in Ids : Range(cacheMap'[id]) = Range(cacheMap[id]) \cup (IF id = Taken.id THEN {Taken} ELSE {})
  BY <1>1, <1>3, <1>4
<1> QED
  BY <1>1, <1>2, <1>3, <1>5, <1>6


-----------------------------------------------------------------------------
(* Types.                                                                    *)

QueueTypes ==
  /\ control \in Seq(Frames) /\ message \in Seq(Frames) /\ outClosed \in BOOLEAN
  /\ todo \in [Reqs -> Seq(Frames)] /\ cacheMap \in [Ids -> Seq(Frames)]

UserTypes ==
  /\ upc \in [Reqs -> {"new", "refuse", "cas", "load", "next", "map", "open", "write", "wait",
                       "done", "failed"}]
  /\ sid \in [Reqs -> Ids \cup {0}]
  /\ streams \in [Ids -> Reqs \cup {NoReq}] /\ active \in Int

StreamTypes ==
  /\ overwritten \subseteq Reqs
  /\ status \in [Reqs -> Statuses] /\ input \in [Reqs -> {"none", "open", "closed", "quit"}]
  /\ inq \in [Reqs -> Seq({"fields", "data"})]

WriterTypes ==
  /\ wpc \in {"take", "match", "update", "dead"} /\ wframe \in Frames \cup {NoFrame}
  /\ wreq \in Reqs \cup {NoReq} /\ wseen \in Statuses /\ lastSendId \in Ids \cup {0}
  /\ wire \in [Ids -> Seq({"fields", "data", "rst"})] /\ opened \in Seq(Ids)
  /\ wpc \in {"match", "update"} => wframe \in Frames /\ wreq \in Reqs

ReaderTypes ==
  /\ rpc \in {"read", "match", "update", "dead"} /\ rframe \in Frames \cup {NoFrame}
  /\ rreq \in Reqs \cup {NoReq} /\ rseen \in Statuses
  /\ srv \in [Ids -> {"idle", "asked", "headers", "done", "reset"}]
  /\ cause \in {"none", "peer", "reader", "writer"} /\ down \in 0 .. 4 /\ troubles \in Troubles
  /\ rpc \in {"match", "update"} => rframe \in Frames /\ rreq \in Reqs

\* The requests are finite in number, and every number up to theirs has an id.
LEMMA IdFacts ==
  /\ Cardinality(Reqs) \in Nat /\ Ids \subseteq Nat
  /\ \A k \in 1 .. Cardinality(Reqs) : 2 * k - 1 \in Ids
  /\ \A id \in Ids : \E k \in 1 .. Cardinality(Reqs) : id = 2 * k - 1
<1>1. Cardinality(Reqs) \in Nat
  BY ClientAssumption, FS_CardinalityType
<1> QED
  BY <1>1 DEF Ids

\* There is always an id for the next request.
LEMMA NumberedFacts ==
  /\ IsFiniteSet(Numbered) /\ Cardinality(Numbered) \in Nat
  /\ \A r \in Reqs \ Numbered : Cardinality(Numbered) + 1 <= Cardinality(Reqs)
<1>1. IsFiniteSet(Numbered) /\ Cardinality(Numbered) \in Nat
  BY ClientAssumption, FS_Subset, FS_CardinalityType DEF Numbered
<1>2. ASSUME NEW r \in Reqs \ Numbered PROVE Cardinality(Numbered) + 1 <= Cardinality(Reqs)
  <2>1. Cardinality(Numbered \cup {r}) = Cardinality(Numbered) + 1
    BY <1>1, FS_AddElement
  <2>2. Numbered \cup {r} \subseteq Reqs
    BY DEF Numbered
  <2> QED
    BY <2>1, <2>2, ClientAssumption, FS_Subset
<1> QED
  BY <1>1, <1>2

\* Before an id is handed out one is left, and the last is twice the number of those handed out,
\* less one.
LEMMA NextIdFacts ==
  ASSUME TypeOK, Numbers, NEW r \in Reqs, upc[r] = "next"
  PROVE  /\ lastStreamId + 2 \in Ids /\ r \notin Numbered /\ Numbered # {}
         /\ lastStreamId = 2 * Cardinality(Numbered) - 1
<1>1. r \notin Numbered /\ lastStreamId # 0
  BY DEF Numbers, Numbered
<1>2. lastStreamId = 2 * Cardinality(Numbered) - 1 /\ Numbered # {}
  BY <1>1 DEF Numbers
<1>3. Cardinality(Numbered) + 1 \in 1 .. Cardinality(Reqs) /\ Cardinality(Numbered) \in Nat
  BY <1>1, NumberedFacts, IdFacts
<1>4. lastStreamId + 2 = 2 * (Cardinality(Numbered) + 1) - 1
  BY <1>2, <1>3
<1> QED
  BY <1>1, <1>2, <1>3, <1>4, IdFacts

\* The queues and the cache keep their types,
LEMMA NextQueues == TypeOK /\ Threads /\ Numbers /\ [Next]_vars => QueueTypes'
<1> SUFFICES ASSUME TypeOK /\ Threads /\ Numbers, [Next]_vars PROVE QueueTypes'
  OBVIOUS
<1>0. QueueTypes
  BY DEF TypeOK, QueueTypes
<1>1. ASSUME NEW r \in Reqs, Count(r) PROVE QueueTypes'
  BY <1>0, <1>1 DEF QueueTypes, Count, User, statusVars, queueVars, writeVars, readVars, wireVars,
       downVars
<1>2. ASSUME NEW r \in Reqs, Refuse(r) PROVE QueueTypes'
  BY <1>0, <1>2 DEF QueueTypes, Refuse, User, statusVars, queueVars, writeVars, readVars, wireVars,
       downVars
<1>3. ASSUME NEW r \in Reqs, FirstId(r) PROVE QueueTypes'
  BY <1>0, <1>3 DEF QueueTypes, FirstId, User, statusVars, queueVars, writeVars, readVars, wireVars,
       downVars
<1>4. ASSUME NEW r \in Reqs, LoadId(r) PROVE QueueTypes'
  BY <1>0, <1>4 DEF QueueTypes, LoadId, User, engineVars, statusVars, queueVars, writeVars,
       readVars, wireVars, downVars
<1>5. ASSUME NEW r \in Reqs, NextId(r) PROVE QueueTypes'
  BY <1>0, <1>5 DEF QueueTypes, NextId, User, statusVars, queueVars, writeVars, readVars, wireVars,
       downVars
<1>6. ASSUME NEW r \in Reqs, MapStream(r) PROVE QueueTypes'
  BY <1>0, <1>6 DEF QueueTypes, MapStream, User, statusVars, queueVars, writeVars, readVars,
       wireVars, downVars
<1>7. ASSUME NEW r \in Reqs, OpenConn(r) PROVE QueueTypes'
  <2>1. PICK kind \in Kinds : todo' = [todo EXCEPT ![r] = Written(kind, sid[r])]
    BY <1>7 DEF OpenConn
  <2>2. sid[r] \in Ids
    BY <1>7 DEF OpenConn, User, TypeOK, Numbers
  <2>3. Written(kind, sid[r]) \in Seq(Frames)
    BY <2>2, WrittenFacts
  <2> QED
    BY <1>0, <1>7, <2>1, <2>3 DEF QueueTypes, OpenConn, queueVars, writeVars
<1>8. ASSUME NEW r \in Reqs, Write(r) PROVE QueueTypes'
  <2>1. todo[r] \in Seq(Frames) /\ todo[r] # << >>
    BY <1>0, <1>8 DEF QueueTypes, Write
  <2>2. Head(todo[r]) \in Frames /\ Tail(todo[r]) \in Seq(Frames)
    BY <2>1, TailRange
  <2>3. Append(message, Head(todo[r])) \in Seq(Frames)
    BY <1>0, <2>2, AppendRange DEF QueueTypes
  <2>4. todo' \in [Reqs -> Seq(Frames)] /\ message' \in Seq(Frames)
    BY <1>0, <1>8, <2>2, <2>3 DEF QueueTypes, Write
  <2> QED
    BY <1>0, <1>8, <2>4 DEF QueueTypes, Write, writeVars
<1>9. ASSUME NEW r \in Reqs, WriteFails(r) PROVE QueueTypes'
  BY <1>0, <1>9 DEF QueueTypes, WriteFails, User, engineVars, statusVars, queueVars, writeVars,
       readVars, wireVars, downVars
<1>10. ASSUME NEW r \in Reqs, Response(r) PROVE QueueTypes'
  BY <1>0, <1>10 DEF QueueTypes, Response, User, engineVars, statusVars, queueVars, writeVars,
       readVars, wireVars, downVars
<1>11. ASSUME NEW r \in Reqs, NoResponse(r) PROVE QueueTypes'
  BY <1>0, <1>11 DEF QueueTypes, NoResponse, User, engineVars, statusVars, queueVars, writeVars,
       readVars, wireVars, downVars
<1>12. ASSUME NEW r \in Reqs, Reset(r) PROVE QueueTypes'
  <2>1. sid[r] \in Ids
    BY <1>12 DEF Reset, TypeOK, Numbers
  <2>2. Append(control, Frame(sid[r], "rst", FALSE)) \in Seq(Frames)
    BY <1>0, <2>1, FrameFacts, AppendRange DEF QueueTypes
  <2> QED
    BY <1>0, <1>12, <2>2 DEF QueueTypes, Reset, userVars, writeVars
<1>13. CASE PeerClose
  BY <1>0, <1>13 DEF QueueTypes, PeerClose, Fatal, engineVars, userVars, statusVars, queueVars,
       writeVars, readVars, wireVars
<1>14. CASE ShutdownStep
  <2>1. << >> \in Seq(Frames)
    OBVIOUS
  <2> QED
    BY <1>0, <1>14, <2>1 DEF QueueTypes, ShutdownStep, userVars, queueVars, writeVars
<1>15. CASE ShutdownStreams
  BY <1>0, <1>15 DEF QueueTypes, ShutdownStreams, engineVars, userVars, queueVars, writeVars,
       readVars, wireVars
<1>16. CASE WriterDrop
  <2>1. control' \in Seq(Frames) /\ message' \in Seq(Frames) /\ cacheMap' \in [Ids -> Seq(Frames)] /\ outClosed' = outClosed
    BY <1>16, TakenFacts DEF WriterDrop
  <2> QED
    BY <1>0, <1>16, <2>1 DEF QueueTypes, WriterDrop, userVars
<1>17. CASE WriterCache
  <2>1. /\ Taken \in Frames /\ message' \in Seq(Frames) /\ cacheMap' \in [Ids -> Seq(Frames)]
    BY <1>17, CacheFacts
  <2> QED
    BY <1>0, <1>17, <2>1 DEF QueueTypes, WriterCache, userVars
<1>18. CASE WriterTake
  <2>1. control' \in Seq(Frames) /\ message' \in Seq(Frames) /\ cacheMap' \in [Ids -> Seq(Frames)] /\ outClosed' = outClosed
    BY <1>18, TakenFacts DEF WriterTake
  <2> QED
    BY <1>0, <1>18, <2>1 DEF QueueTypes, WriterTake, userVars
<1>19. CASE WriterMatch
  BY <1>0, <1>19 DEF QueueTypes, WriterMatch, engineVars, userVars, statusVars, queueVars, readVars,
       wireVars, downVars
<1>20. CASE WriterSend
  BY <1>0, <1>20 DEF QueueTypes, WriterSend, Assign, Purge, WriterDone, userVars, queueVars,
       readVars, downVars
<1>21. CASE WriterRefuse
  BY <1>0, <1>21 DEF QueueTypes, WriterRefuse, Fatal, WriterDone, engineVars, userVars, statusVars,
       queueVars, readVars, wireVars
<1>22. CASE WriterReset
  BY <1>0, <1>22 DEF QueueTypes, WriterReset, Purge, WriterDone, userVars, queueVars, readVars,
       downVars
<1>23. CASE ReadFrame
  BY <1>0, <1>23 DEF QueueTypes, ReadFrame, engineVars, userVars, statusVars, queueVars, writeVars,
       downVars
<1>24. CASE ReadMatch
  BY <1>0, <1>24 DEF QueueTypes, ReadMatch, engineVars, userVars, statusVars, queueVars, writeVars,
       wireVars, downVars
<1>25. CASE ReadResponse
  BY <1>0, <1>25 DEF QueueTypes, ReadResponse, Assign, Purge, ReaderDone, Deliver, queueVars,
       writeVars, wireVars, downVars
<1>26. CASE ReadRefuse
  <2>1. rframe.id \in Ids
    BY <1>26 DEF Threads, ReadRefuse, Frames
  <2>2. Append(control, Frame(rframe.id, "rst", FALSE)) \in Seq(Frames)
    BY <1>0, <2>1, FrameFacts, AppendRange DEF QueueTypes
  <2> QED
    BY <1>0, <1>26, <2>2 DEF QueueTypes, ReadRefuse, userVars, writeVars
<1>27. CASE ReadReset
  BY <1>0, <1>27 DEF QueueTypes, ReadReset, Purge, ReaderDone, userVars, queueVars, writeVars,
       wireVars, downVars
<1>28. CASE UNCHANGED vars
  BY <1>0, <1>28 DEF QueueTypes, vars, engineVars, userVars, statusVars, queueVars, writeVars,
       readVars, wireVars, downVars
<1> QED
  BY <1>1, <1>2, <1>3, <1>4, <1>5, <1>6, <1>7, <1>8, <1>9, <1>10, <1>11, <1>12, <1>13,
        <1>14, <1>15, <1>16, <1>17, <1>18, <1>19, <1>20, <1>21, <1>22, <1>23, <1>24, <1>25, <1>26,
        <1>27, <1>28
     DEF Next, Requesting, Writing, Reading, Shutting

\* as do the requests,
LEMMA NextUsers == TypeOK /\ Threads /\ Numbers /\ [Next]_vars => UserTypes'
<1> SUFFICES ASSUME TypeOK /\ Threads /\ Numbers, [Next]_vars PROVE UserTypes'
  OBVIOUS
<1>0. UserTypes /\ NoReq \notin Reqs
  BY ClientAssumption DEF TypeOK, UserTypes
<1>1. ASSUME NEW r \in Reqs, Count(r) PROVE UserTypes'
  BY <1>0, <1>1 DEF UserTypes, Count, User, statusVars, queueVars, writeVars, readVars, wireVars,
       downVars
<1>2. ASSUME NEW r \in Reqs, Refuse(r) PROVE UserTypes'
  BY <1>0, <1>2 DEF UserTypes, Refuse, User, statusVars, queueVars, writeVars, readVars, wireVars,
       downVars
<1>3. ASSUME NEW r \in Reqs, FirstId(r) PROVE UserTypes'
  BY <1>0, <1>3 DEF UserTypes, FirstId, User, statusVars, queueVars, writeVars, readVars, wireVars,
       downVars
<1>4. ASSUME NEW r \in Reqs, LoadId(r) PROVE UserTypes'
  <2>1. lastStreamId \in Ids \cup {0}
    BY DEF TypeOK
  <2> QED
    BY <1>0, <1>4, <2>1 DEF UserTypes, LoadId, User, engineVars
<1>5. ASSUME NEW r \in Reqs, NextId(r) PROVE UserTypes'
  <2>1. lastStreamId + 2 \in Ids
    BY <1>5, NextIdFacts DEF NextId, User
  <2> QED
    BY <1>0, <1>5, <2>1 DEF UserTypes, NextId, User
<1>6. ASSUME NEW r \in Reqs, MapStream(r) PROVE UserTypes'
  BY <1>0, <1>6 DEF UserTypes, MapStream, User, statusVars, queueVars, writeVars, readVars,
       wireVars, downVars
<1>7. ASSUME NEW r \in Reqs, OpenConn(r) PROVE UserTypes'
  BY <1>0, <1>7 DEF UserTypes, OpenConn, User, engineVars, statusVars, queueVars, writeVars,
       readVars, wireVars, downVars
<1>8. ASSUME NEW r \in Reqs, Write(r) PROVE UserTypes'
  BY <1>0, <1>8 DEF UserTypes, Write, User, engineVars, statusVars, writeVars, readVars, wireVars,
       downVars
<1>9. ASSUME NEW r \in Reqs, WriteFails(r) PROVE UserTypes'
  BY <1>0, <1>9 DEF UserTypes, WriteFails, User, engineVars, statusVars, queueVars, writeVars,
       readVars, wireVars, downVars
<1>10. ASSUME NEW r \in Reqs, Response(r) PROVE UserTypes'
  BY <1>0, <1>10 DEF UserTypes, Response, User, engineVars, statusVars, queueVars, writeVars,
       readVars, wireVars, downVars
<1>11. ASSUME NEW r \in Reqs, NoResponse(r) PROVE UserTypes'
  BY <1>0, <1>11 DEF UserTypes, NoResponse, User, engineVars, statusVars, queueVars, writeVars,
       readVars, wireVars, downVars
<1>12. ASSUME NEW r \in Reqs, Reset(r) PROVE UserTypes'
  BY <1>0, <1>12 DEF UserTypes, Reset, engineVars, userVars, statusVars, writeVars, readVars,
       wireVars, downVars
<1>13. CASE PeerClose
  BY <1>0, <1>13 DEF UserTypes, PeerClose, Fatal, engineVars, userVars, statusVars, queueVars,
       writeVars, readVars, wireVars
<1>14. CASE ShutdownStep
  BY <1>0, <1>14 DEF UserTypes, ShutdownStep, engineVars, userVars, statusVars, queueVars,
       writeVars, readVars, wireVars
<1>15. CASE ShutdownStreams
  BY <1>0, <1>15 DEF UserTypes, ShutdownStreams, engineVars, userVars, queueVars, writeVars,
       readVars, wireVars
<1>16. CASE WriterDrop
  BY <1>0, <1>16 DEF UserTypes, WriterDrop, Take, engineVars, userVars, statusVars, readVars,
       wireVars, downVars
<1>17. CASE WriterCache
  BY <1>0, <1>17 DEF UserTypes, WriterCache, engineVars, userVars, statusVars, readVars, wireVars,
       downVars
<1>18. CASE WriterTake
  BY <1>0, <1>18 DEF UserTypes, WriterTake, Take, engineVars, userVars, statusVars, readVars,
       wireVars, downVars
<1>19. CASE WriterMatch
  BY <1>0, <1>19 DEF UserTypes, WriterMatch, engineVars, userVars, statusVars, queueVars, readVars,
       wireVars, downVars
<1>20. CASE WriterSend
  BY <1>0, <1>20 DEF UserTypes, WriterSend, Assign, Purge, WriterDone, userVars, queueVars,
       readVars, downVars
<1>21. CASE WriterRefuse
  BY <1>0, <1>21 DEF UserTypes, WriterRefuse, Fatal, WriterDone, engineVars, userVars, statusVars,
       queueVars, readVars, wireVars
<1>22. CASE WriterReset
  BY <1>0, <1>22 DEF UserTypes, WriterReset, Purge, WriterDone, userVars, queueVars, readVars,
       downVars
<1>23. CASE ReadFrame
  BY <1>0, <1>23 DEF UserTypes, ReadFrame, engineVars, userVars, statusVars, queueVars, writeVars,
       downVars
<1>24. CASE ReadMatch
  BY <1>0, <1>24 DEF UserTypes, ReadMatch, engineVars, userVars, statusVars, queueVars, writeVars,
       wireVars, downVars
<1>25. CASE ReadResponse
  BY <1>0, <1>25 DEF UserTypes, ReadResponse, Assign, Purge, ReaderDone, Deliver, queueVars,
       writeVars, wireVars, downVars
<1>26. CASE ReadRefuse
  BY <1>0, <1>26 DEF UserTypes, ReadRefuse, Fatal, ReaderDone, engineVars, userVars, statusVars,
       writeVars, wireVars
<1>27. CASE ReadReset
  BY <1>0, <1>27 DEF UserTypes, ReadReset, Purge, ReaderDone, userVars, queueVars, writeVars,
       wireVars, downVars
<1>28. CASE UNCHANGED vars
  BY <1>0, <1>28 DEF UserTypes, vars, engineVars, userVars, statusVars, queueVars, writeVars,
       readVars, wireVars, downVars
<1> QED
  BY <1>1, <1>2, <1>3, <1>4, <1>5, <1>6, <1>7, <1>8, <1>9, <1>10, <1>11, <1>12, <1>13,
        <1>14, <1>15, <1>16, <1>17, <1>18, <1>19, <1>20, <1>21, <1>22, <1>23, <1>24, <1>25, <1>26,
        <1>27, <1>28
     DEF Next, Requesting, Writing, Reading, Shutting

\* the streams,
LEMMA NextStreamTypes == TypeOK /\ Threads /\ Numbers /\ [Next]_vars => StreamTypes'
<1> SUFFICES ASSUME TypeOK /\ Threads /\ Numbers, [Next]_vars PROVE StreamTypes'
  OBVIOUS
<1>0. StreamTypes /\ TypeOK /\ Threads
  BY DEF TypeOK, StreamTypes
<1>1. ASSUME NEW r \in Reqs, Count(r) PROVE StreamTypes'
  BY <1>0, <1>1 DEF StreamTypes, Statuses, Count, User, statusVars, queueVars, writeVars, readVars,
       wireVars, downVars
<1>2. ASSUME NEW r \in Reqs, Refuse(r) PROVE StreamTypes'
  BY <1>0, <1>2 DEF StreamTypes, Statuses, Refuse, User, statusVars, queueVars, writeVars, readVars,
       wireVars, downVars
<1>3. ASSUME NEW r \in Reqs, FirstId(r) PROVE StreamTypes'
  BY <1>0, <1>3 DEF StreamTypes, Statuses, FirstId, User, statusVars, queueVars, writeVars,
       readVars, wireVars, downVars
<1>4. ASSUME NEW r \in Reqs, LoadId(r) PROVE StreamTypes'
  BY <1>0, <1>4 DEF StreamTypes, Statuses, LoadId, User, engineVars, statusVars, queueVars,
       writeVars, readVars, wireVars, downVars
<1>5. ASSUME NEW r \in Reqs, NextId(r) PROVE StreamTypes'
  BY <1>0, <1>5 DEF StreamTypes, Statuses, NextId, User, statusVars, queueVars, writeVars, readVars,
       wireVars, downVars
<1>6. ASSUME NEW r \in Reqs, MapStream(r) PROVE StreamTypes'
  BY <1>0, <1>6 DEF StreamTypes, Statuses, MapStream, User, statusVars, queueVars, writeVars,
       readVars, wireVars, downVars
<1>7. ASSUME NEW r \in Reqs, OpenConn(r) PROVE StreamTypes'
  BY <1>0, <1>7 DEF StreamTypes, Statuses, OpenConn, User, engineVars, statusVars, queueVars,
       writeVars, readVars, wireVars, downVars
<1>8. ASSUME NEW r \in Reqs, Write(r) PROVE StreamTypes'
  BY <1>0, <1>8 DEF StreamTypes, Statuses, Write, User, engineVars, statusVars, writeVars, readVars,
       wireVars, downVars
<1>9. ASSUME NEW r \in Reqs, WriteFails(r) PROVE StreamTypes'
  BY <1>0, <1>9 DEF StreamTypes, Statuses, WriteFails, User, engineVars, statusVars, queueVars,
       writeVars, readVars, wireVars, downVars
<1>10. ASSUME NEW r \in Reqs, Response(r) PROVE StreamTypes'
  BY <1>0, <1>10 DEF StreamTypes, Statuses, Response, User, engineVars, statusVars, queueVars,
       writeVars, readVars, wireVars, downVars
<1>11. ASSUME NEW r \in Reqs, NoResponse(r) PROVE StreamTypes'
  BY <1>0, <1>11 DEF StreamTypes, Statuses, NoResponse, User, engineVars, statusVars, queueVars,
       writeVars, readVars, wireVars, downVars
<1>12. ASSUME NEW r \in Reqs, Reset(r) PROVE StreamTypes'
  BY <1>0, <1>12 DEF StreamTypes, Statuses, Reset, engineVars, userVars, statusVars, writeVars,
       readVars, wireVars, downVars
<1>13. CASE PeerClose
  BY <1>0, <1>13 DEF StreamTypes, Statuses, PeerClose, Fatal, engineVars, userVars, statusVars,
       queueVars, writeVars, readVars, wireVars
<1>14. CASE ShutdownStep
  BY <1>0, <1>14 DEF StreamTypes, Statuses, ShutdownStep, engineVars, userVars, statusVars,
       queueVars, writeVars, readVars, wireVars
<1>15. CASE ShutdownStreams
  BY <1>0, <1>15 DEF StreamTypes, Statuses, ShutdownStreams, engineVars, userVars, queueVars,
       writeVars, readVars, wireVars
<1>16. CASE WriterDrop
  BY <1>0, <1>16 DEF StreamTypes, Statuses, WriterDrop, Take, engineVars, userVars, statusVars,
       readVars, wireVars, downVars
<1>17. CASE WriterCache
  BY <1>0, <1>17 DEF StreamTypes, Statuses, WriterCache, engineVars, userVars, statusVars, readVars,
       wireVars, downVars
<1>18. CASE WriterTake
  BY <1>0, <1>18 DEF StreamTypes, Statuses, WriterTake, Take, engineVars, userVars, statusVars,
       readVars, wireVars, downVars
<1>19. CASE WriterMatch
  BY <1>0, <1>19 DEF StreamTypes, Statuses, WriterMatch, engineVars, userVars, statusVars,
       queueVars, readVars, wireVars, downVars
<1>20. CASE WriterSend
  <2>1. AfterWrite(wseen, wframe) \in Statuses
    BY DEF AfterWrite, Statuses
  <2>2. wreq \in Reqs
    BY <1>20 DEF Threads, WriterSend
  <2> DEFINE to == AfterWrite(wseen, wframe)
  <2>3. Assign(wreq, wseen, to)
    BY <1>20 DEF WriterSend
  <2> HIDE DEF to
  <2>4. status' \in [Reqs -> Statuses] /\ overwritten' \subseteq Reqs
    BY <1>0, <2>1, <2>2, <2>3 DEF StreamTypes, Assign, statusVars, to
  <2> QED
    BY <1>0, <1>20, <2>4 DEF StreamTypes, WriterSend, userVars
<1>21. CASE WriterRefuse
  BY <1>0, <1>21 DEF StreamTypes, Statuses, WriterRefuse, Fatal, WriterDone, engineVars, userVars,
       statusVars, queueVars, readVars, wireVars
<1>22. CASE WriterReset
  BY <1>0, <1>22 DEF StreamTypes, Statuses, WriterReset, Purge, WriterDone, userVars, queueVars,
       readVars, downVars
<1>23. CASE ReadFrame
  BY <1>0, <1>23 DEF StreamTypes, Statuses, ReadFrame, engineVars, userVars, statusVars, queueVars,
       writeVars, downVars
<1>24. CASE ReadMatch
  BY <1>0, <1>24 DEF StreamTypes, Statuses, ReadMatch, engineVars, userVars, statusVars, queueVars,
       writeVars, wireVars, downVars
<1>25. CASE ReadResponse
  <2>1. rreq \in Reqs /\ rframe.type \in {"fields", "data"}
    BY <1>25 DEF Threads, ReadResponse, Frames
  <2> DEFINE to == AfterRead(rseen, rframe)
  <2>2. Assign(rreq, rseen, to) /\ Deliver(to) /\ to \in Statuses
    BY <1>25 DEF ReadResponse, AfterRead, Statuses
  <2> HIDE DEF to
  <2>3. status' \in [Reqs -> Statuses] /\ overwritten' \subseteq Reqs
    BY <1>0, <2>1, <2>2 DEF StreamTypes, Assign, statusVars
  <2>4. inq[rreq] \in Seq({"fields", "data"})
    BY <1>0, <2>1 DEF StreamTypes
  <2>5. Append(inq[rreq], rframe.type) \in Seq({"fields", "data"})
    BY <2>1, <2>4
  <2>6. inq' \in [Reqs -> Seq({"fields", "data"})] /\ input' \in [Reqs -> {"none", "open", "closed", "quit"}]
    BY <1>0, <2>1, <2>2, <2>5 DEF StreamTypes, Deliver
  <2> QED
    BY <2>3, <2>6 DEF StreamTypes
<1>26. CASE ReadRefuse
  BY <1>0, <1>26 DEF StreamTypes, Statuses, ReadRefuse, Fatal, ReaderDone, engineVars, userVars,
       statusVars, writeVars, wireVars
<1>27. CASE ReadReset
  BY <1>0, <1>27 DEF StreamTypes, Statuses, ReadReset, Purge, ReaderDone, userVars, queueVars,
       writeVars, wireVars, downVars
<1>28. CASE UNCHANGED vars
  BY <1>0, <1>28 DEF StreamTypes, Statuses, vars, engineVars, userVars, statusVars, queueVars,
       writeVars, readVars, wireVars, downVars
<1> QED
  BY <1>1, <1>2, <1>3, <1>4, <1>5, <1>6, <1>7, <1>8, <1>9, <1>10, <1>11, <1>12, <1>13,
        <1>14, <1>15, <1>16, <1>17, <1>18, <1>19, <1>20, <1>21, <1>22, <1>23, <1>24, <1>25, <1>26,
        <1>27, <1>28
     DEF Next, Requesting, Writing, Reading, Shutting

\* the write thread
LEMMA NextWriter == TypeOK /\ Threads /\ Numbers /\ [Next]_vars => WriterTypes'
<1> SUFFICES ASSUME TypeOK /\ Threads /\ Numbers, [Next]_vars PROVE WriterTypes'
  OBVIOUS
<1>0. WriterTypes /\ TypeOK /\ Threads
  BY DEF TypeOK, Threads, WriterTypes
<1>1. ASSUME NEW r \in Reqs, Count(r) PROVE WriterTypes'
  BY <1>0, <1>1 DEF WriterTypes, Count, User, statusVars, queueVars, writeVars, readVars, wireVars,
       downVars
<1>2. ASSUME NEW r \in Reqs, Refuse(r) PROVE WriterTypes'
  BY <1>0, <1>2 DEF WriterTypes, Refuse, User, statusVars, queueVars, writeVars, readVars, wireVars,
       downVars
<1>3. ASSUME NEW r \in Reqs, FirstId(r) PROVE WriterTypes'
  BY <1>0, <1>3 DEF WriterTypes, FirstId, User, statusVars, queueVars, writeVars, readVars,
       wireVars, downVars
<1>4. ASSUME NEW r \in Reqs, LoadId(r) PROVE WriterTypes'
  BY <1>0, <1>4 DEF WriterTypes, LoadId, User, engineVars, statusVars, queueVars, writeVars,
       readVars, wireVars, downVars
<1>5. ASSUME NEW r \in Reqs, NextId(r) PROVE WriterTypes'
  BY <1>0, <1>5 DEF WriterTypes, NextId, User, statusVars, queueVars, writeVars, readVars, wireVars,
       downVars
<1>6. ASSUME NEW r \in Reqs, MapStream(r) PROVE WriterTypes'
  BY <1>0, <1>6 DEF WriterTypes, MapStream, User, statusVars, queueVars, writeVars, readVars,
       wireVars, downVars
<1>7. ASSUME NEW r \in Reqs, OpenConn(r) PROVE WriterTypes'
  BY <1>0, <1>7 DEF WriterTypes, OpenConn, User, engineVars, statusVars, queueVars, writeVars,
       readVars, wireVars, downVars
<1>8. ASSUME NEW r \in Reqs, Write(r) PROVE WriterTypes'
  BY <1>0, <1>8 DEF WriterTypes, Write, User, engineVars, statusVars, writeVars, readVars, wireVars,
       downVars
<1>9. ASSUME NEW r \in Reqs, WriteFails(r) PROVE WriterTypes'
  BY <1>0, <1>9 DEF WriterTypes, WriteFails, User, engineVars, statusVars, queueVars, writeVars,
       readVars, wireVars, downVars
<1>10. ASSUME NEW r \in Reqs, Response(r) PROVE WriterTypes'
  BY <1>0, <1>10 DEF WriterTypes, Response, User, engineVars, statusVars, queueVars, writeVars,
       readVars, wireVars, downVars
<1>11. ASSUME NEW r \in Reqs, NoResponse(r) PROVE WriterTypes'
  BY <1>0, <1>11 DEF WriterTypes, NoResponse, User, engineVars, statusVars, queueVars, writeVars,
       readVars, wireVars, downVars
<1>12. ASSUME NEW r \in Reqs, Reset(r) PROVE WriterTypes'
  BY <1>0, <1>12 DEF WriterTypes, Reset, engineVars, userVars, statusVars, writeVars, readVars,
       wireVars, downVars
<1>13. CASE PeerClose
  BY <1>0, <1>13 DEF WriterTypes, PeerClose, Fatal, engineVars, userVars, statusVars, queueVars,
       writeVars, readVars, wireVars
<1>14. CASE ShutdownStep
  BY <1>0, <1>14 DEF WriterTypes, ShutdownStep, engineVars, userVars, statusVars, queueVars,
       writeVars, readVars, wireVars
<1>15. CASE ShutdownStreams
  BY <1>0, <1>15 DEF WriterTypes, ShutdownStreams, engineVars, userVars, queueVars, writeVars,
       readVars, wireVars
<1>16. CASE WriterDrop
  BY <1>0, <1>16 DEF WriterTypes, WriterDrop, Take, engineVars, userVars, statusVars, readVars,
       wireVars, downVars
<1>17. CASE WriterCache
  BY <1>0, <1>17 DEF WriterTypes, WriterCache, engineVars, userVars, statusVars, readVars, wireVars,
       downVars
<1>18. CASE WriterTake
  <2>1. Taken \in Frames
    BY <1>18, TakenFacts DEF WriterTake
  <2>2. Taken.id \in Ids
    BY <2>1 DEF Frames
  <2>3. wreq' \in Reqs
    BY <1>18, <2>2 DEF TypeOK, WriterTake
  <2> QED
    BY <1>0, <1>18, <2>1, <2>3 DEF WriterTypes, WriterTake, wireVars
<1>19. CASE WriterMatch
  <2>1. wseen' \in Statuses
    BY <1>19 DEF TypeOK, Threads, WriterMatch
  <2> QED
    BY <1>0, <1>19, <2>1 DEF WriterTypes, WriterMatch, wireVars
<1>20. CASE WriterSend
  <2>1. wframe \in Frames /\ wframe.id \in Ids /\ wframe.type \in {"fields", "data", "rst"}
    BY <1>20 DEF Threads, WriterSend, Frames
  <2>2. lastSendId' \in Ids \cup {0}
    BY <1>0, <1>20, <2>1 DEF WriterTypes, WriterSend, SentId
  <2>3. wire' \in [Ids -> Seq({"fields", "data", "rst"})]
    <3>1. Append(wire[wframe.id], wframe.type) \in Seq({"fields", "data", "rst"})
      BY <1>0, <2>1 DEF WriterTypes
    <3> QED
      BY <1>0, <1>20, <2>1, <3>1 DEF WriterTypes, WriterSend
  <2>4. opened' \in Seq(Ids)
    BY <1>0, <1>20, <2>1, AppendAt DEF WriterTypes, WriterSend
  <2>5. wpc' = "take" /\ wframe' = NoFrame /\ wreq' = NoReq /\ wseen' = "Idle"
    BY <1>20 DEF WriterSend, WriterDone
  <2> QED
    BY <2>2, <2>3, <2>4, <2>5 DEF WriterTypes, Statuses
<1>21. CASE WriterRefuse
  <2>1. wpc' \in {"take", "dead"} /\ wframe' = NoFrame /\ wreq' = NoReq /\ wseen' = "Idle"
    BY <1>21 DEF WriterRefuse, WriterDone
  <2> QED
    BY <1>0, <1>21, <2>1 DEF WriterTypes, WriterRefuse, wireVars, Statuses
<1>22. CASE WriterReset
  <2>1. wframe \in Frames /\ wframe.id \in Ids
    BY <1>22 DEF Threads, WriterReset, Frames
  <2>2. lastSendId' \in Ids \cup {0}
    BY <1>0, <1>22, <2>1 DEF WriterTypes, WriterReset, SentId
  <2>3. wire' \in [Ids -> Seq({"fields", "data", "rst"})]
    <3>1. Append(wire[wframe.id], "rst") \in Seq({"fields", "data", "rst"})
      BY <1>0, <2>1 DEF WriterTypes
    <3> QED
      BY <1>0, <1>22, <2>1, <3>1 DEF WriterTypes, WriterReset
  <2>4. wpc' = "take" /\ wframe' = NoFrame /\ wreq' = NoReq /\ wseen' = "Idle" /\ opened' = opened
    BY <1>22 DEF WriterReset, WriterDone
  <2> QED
    BY <1>0, <2>2, <2>3, <2>4 DEF WriterTypes, Statuses
<1>23. CASE ReadFrame
  BY <1>0, <1>23 DEF WriterTypes, ReadFrame, engineVars, userVars, statusVars, queueVars, writeVars,
       downVars
<1>24. CASE ReadMatch
  BY <1>0, <1>24 DEF WriterTypes, ReadMatch, engineVars, userVars, statusVars, queueVars, writeVars,
       wireVars, downVars
<1>25. CASE ReadResponse
  BY <1>0, <1>25 DEF WriterTypes, ReadResponse, Assign, Purge, ReaderDone, Deliver, queueVars,
       writeVars, wireVars, downVars
<1>26. CASE ReadRefuse
  BY <1>0, <1>26 DEF WriterTypes, ReadRefuse, Fatal, ReaderDone, engineVars, userVars, statusVars,
       writeVars, wireVars
<1>27. CASE ReadReset
  BY <1>0, <1>27 DEF WriterTypes, ReadReset, Purge, ReaderDone, userVars, queueVars, writeVars,
       wireVars, downVars
<1>28. CASE UNCHANGED vars
  BY <1>0, <1>28 DEF WriterTypes, vars, engineVars, userVars, statusVars, queueVars, writeVars,
       readVars, wireVars, downVars
<1> QED
  BY <1>1, <1>2, <1>3, <1>4, <1>5, <1>6, <1>7, <1>8, <1>9, <1>10, <1>11, <1>12, <1>13,
        <1>14, <1>15, <1>16, <1>17, <1>18, <1>19, <1>20, <1>21, <1>22, <1>23, <1>24, <1>25, <1>26,
        <1>27, <1>28
     DEF Next, Requesting, Writing, Reading, Shutting

\* and the read thread.
LEMMA NextReader == TypeOK /\ Threads /\ Numbers /\ [Next]_vars => ReaderTypes'
<1> SUFFICES ASSUME TypeOK /\ Threads /\ Numbers, [Next]_vars PROVE ReaderTypes'
  OBVIOUS
<1>0. ReaderTypes /\ TypeOK /\ Threads
  BY DEF TypeOK, Threads, ReaderTypes
<1>1. ASSUME NEW r \in Reqs, Count(r) PROVE ReaderTypes'
  BY <1>0, <1>1 DEF ReaderTypes, Count, User, statusVars, queueVars, writeVars, readVars, wireVars,
       downVars
<1>2. ASSUME NEW r \in Reqs, Refuse(r) PROVE ReaderTypes'
  BY <1>0, <1>2 DEF ReaderTypes, Refuse, User, statusVars, queueVars, writeVars, readVars, wireVars,
       downVars
<1>3. ASSUME NEW r \in Reqs, FirstId(r) PROVE ReaderTypes'
  BY <1>0, <1>3 DEF ReaderTypes, FirstId, User, statusVars, queueVars, writeVars, readVars,
       wireVars, downVars
<1>4. ASSUME NEW r \in Reqs, LoadId(r) PROVE ReaderTypes'
  BY <1>0, <1>4 DEF ReaderTypes, LoadId, User, engineVars, statusVars, queueVars, writeVars,
       readVars, wireVars, downVars
<1>5. ASSUME NEW r \in Reqs, NextId(r) PROVE ReaderTypes'
  BY <1>0, <1>5 DEF ReaderTypes, NextId, User, statusVars, queueVars, writeVars, readVars, wireVars,
       downVars
<1>6. ASSUME NEW r \in Reqs, MapStream(r) PROVE ReaderTypes'
  BY <1>0, <1>6 DEF ReaderTypes, MapStream, User, statusVars, queueVars, writeVars, readVars,
       wireVars, downVars
<1>7. ASSUME NEW r \in Reqs, OpenConn(r) PROVE ReaderTypes'
  BY <1>0, <1>7 DEF ReaderTypes, OpenConn, User, engineVars, statusVars, queueVars, writeVars,
       readVars, wireVars, downVars
<1>8. ASSUME NEW r \in Reqs, Write(r) PROVE ReaderTypes'
  BY <1>0, <1>8 DEF ReaderTypes, Write, User, engineVars, statusVars, writeVars, readVars, wireVars,
       downVars
<1>9. ASSUME NEW r \in Reqs, WriteFails(r) PROVE ReaderTypes'
  BY <1>0, <1>9 DEF ReaderTypes, WriteFails, User, engineVars, statusVars, queueVars, writeVars,
       readVars, wireVars, downVars
<1>10. ASSUME NEW r \in Reqs, Response(r) PROVE ReaderTypes'
  BY <1>0, <1>10 DEF ReaderTypes, Response, User, engineVars, statusVars, queueVars, writeVars,
       readVars, wireVars, downVars
<1>11. ASSUME NEW r \in Reqs, NoResponse(r) PROVE ReaderTypes'
  BY <1>0, <1>11 DEF ReaderTypes, NoResponse, User, engineVars, statusVars, queueVars, writeVars,
       readVars, wireVars, downVars
<1>12. ASSUME NEW r \in Reqs, Reset(r) PROVE ReaderTypes'
  BY <1>0, <1>12 DEF ReaderTypes, Reset, engineVars, userVars, statusVars, writeVars, readVars,
       wireVars, downVars
<1>13. CASE PeerClose
  BY <1>0, <1>13 DEF ReaderTypes, PeerClose, Fatal, engineVars, userVars, statusVars, queueVars,
       writeVars, readVars, wireVars
<1>14. CASE ShutdownStep
  BY <1>0, <1>14 DEF ReaderTypes, ShutdownStep, engineVars, userVars, statusVars, queueVars,
       writeVars, readVars, wireVars
<1>15. CASE ShutdownStreams
  BY <1>0, <1>15 DEF ReaderTypes, ShutdownStreams, engineVars, userVars, queueVars, writeVars,
       readVars, wireVars
<1>16. CASE WriterDrop
  BY <1>0, <1>16 DEF ReaderTypes, WriterDrop, Take, engineVars, userVars, statusVars, readVars,
       wireVars, downVars
<1>17. CASE WriterCache
  BY <1>0, <1>17 DEF ReaderTypes, WriterCache, engineVars, userVars, statusVars, readVars, wireVars,
       downVars
<1>18. CASE WriterTake
  BY <1>0, <1>18 DEF ReaderTypes, WriterTake, Take, engineVars, userVars, statusVars, readVars,
       wireVars, downVars
<1>19. CASE WriterMatch
  BY <1>0, <1>19 DEF ReaderTypes, WriterMatch, engineVars, userVars, statusVars, queueVars,
       readVars, wireVars, downVars
<1>20. CASE WriterSend
  BY <1>0, <1>20 DEF ReaderTypes, WriterSend, Assign, Purge, WriterDone, userVars, queueVars,
       readVars, downVars
<1>21. CASE WriterRefuse
  BY <1>0, <1>21 DEF ReaderTypes, WriterRefuse, Fatal, WriterDone, engineVars, userVars, statusVars,
       queueVars, readVars, wireVars
<1>22. CASE WriterReset
  BY <1>0, <1>22 DEF ReaderTypes, WriterReset, Purge, WriterDone, userVars, queueVars, readVars,
       downVars
<1>23. CASE ReadFrame
  <2>1. PICK id \in Ids : \E f \in ServerFrames(id) :
          /\ srv' = [srv EXCEPT ![id] = IF f.type = "rst" THEN "reset" ELSE IF f.end THEN "done" ELSE "headers"]
          /\ IF streams[id] = NoReq THEN UNCHANGED <<rpc, rframe, rreq>>
             ELSE rpc' = "match" /\ rframe' = f /\ rreq' = streams[id]
    BY <1>23 DEF ReadFrame
  <2>2. \A f \in ServerFrames(id) : f \in Frames
    BY ServerFrameFacts
  <2>3. streams[id] \in Reqs \cup {NoReq}
    BY DEF TypeOK
  <2> QED
    BY <1>0, <1>23, <2>1, <2>2, <2>3 DEF ReaderTypes, ReadFrame, downVars
<1>24. CASE ReadMatch
  <2>1. rseen' \in Statuses
    BY <1>24 DEF TypeOK, Threads, ReadMatch
  <2> QED
    BY <1>0, <1>24, <2>1 DEF ReaderTypes, ReadMatch, wireVars, downVars
<1>25. CASE ReadResponse
  <2>1. rpc' \in {"read", "dead"} /\ rframe' = NoFrame /\ rreq' = NoReq /\ rseen' = "Idle"
    BY <1>25 DEF ReadResponse, ReaderDone
  <2> QED
    BY <1>0, <1>25, <2>1 DEF ReaderTypes, ReadResponse, wireVars, downVars, Statuses
<1>26. CASE ReadRefuse
  <2>1. rpc' \in {"read", "dead"} /\ rframe' = NoFrame /\ rreq' = NoReq /\ rseen' = "Idle"
    BY <1>26 DEF ReadRefuse, ReaderDone
  <2> QED
    BY <1>0, <1>26, <2>1 DEF ReaderTypes, ReadRefuse, wireVars, Fatal, Statuses
<1>27. CASE ReadReset
  <2>1. rpc' \in {"read", "dead"} /\ rframe' = NoFrame /\ rreq' = NoReq /\ rseen' = "Idle"
    BY <1>27 DEF ReadReset, ReaderDone
  <2> QED
    BY <1>0, <1>27, <2>1 DEF ReaderTypes, ReadReset, wireVars, downVars, Statuses
<1>28. CASE UNCHANGED vars
  BY <1>0, <1>28 DEF ReaderTypes, vars, engineVars, userVars, statusVars, queueVars, writeVars,
       readVars, wireVars, downVars
<1> QED
  BY <1>1, <1>2, <1>3, <1>4, <1>5, <1>6, <1>7, <1>8, <1>9, <1>10, <1>11, <1>12, <1>13,
        <1>14, <1>15, <1>16, <1>17, <1>18, <1>19, <1>20, <1>21, <1>22, <1>23, <1>24, <1>25, <1>26,
        <1>27, <1>28
     DEF Next, Requesting, Writing, Reading, Shutting

\* What writeRequest, a timer and the read thread add to the queues.
Writes(r) ==
  \E f \in Range(todo[r]) :
    /\ f \in Frames /\ \A q \in Reqs : Range(todo'[q]) \subseteq Range(todo[q])
    /\ Range(message') \subseteq Range(message) \cup {f}

\* A request writes its next frame to the queue, or gives up.
LEMMA WriteFacts ==
  ASSUME TypeOK, NEW r \in Reqs, Write(r)
  PROVE  (message' = message /\ todo' = todo) \/ Writes(r)
<1>1. CASE outClosed /\ input[r] # "quit"
  BY <1>1 DEF Write
<1>2. CASE ~ (outClosed /\ input[r] # "quit")
  <2>1. todo[r] \in Seq(Frames) /\ todo[r] # << >> /\ message \in Seq(Frames) /\ todo \in [Reqs -> Seq(Frames)]
    BY DEF TypeOK, Write
  <2>2. /\ todo' = [todo EXCEPT ![r] = Tail(todo[r])]
        /\ message' = message \/ message' = Append(message, Head(todo[r]))
    BY <1>2 DEF Write
  <2>3. /\ Head(todo[r]) \in Range(todo[r]) /\ Head(todo[r]) \in Frames
        /\ Range(Tail(todo[r])) \subseteq Range(todo[r])
    BY <2>1, TailRange
  <2>4. Range(Append(message, Head(todo[r]))) = Range(message) \cup {Head(todo[r])}
    BY <2>1, <2>3, AppendRange
  <2>5. \A q \in Reqs : Range(todo'[q]) \subseteq Range(todo[q])
    BY <2>1, <2>2, <2>3
  <2> QED
    BY <2>2, <2>3, <2>4, <2>5 DEF Writes
<1> QED
  BY <1>1, <1>2

\* A reset by a request is about its own stream.
LEMMA ResetFacts ==
  ASSUME TypeOK, Numbers, NEW r \in Reqs, Reset(r)
  PROVE  sid[r] \in Ids /\ Range(control') \subseteq Range(control) \cup {Frame(sid[r], "rst", FALSE)}
<1>1. sid[r] \in Ids /\ control \in Seq(Frames)
  BY DEF Reset, TypeOK, Numbers
<1>2. Range(Append(control, Frame(sid[r], "rst", FALSE))) = Range(control) \cup {Frame(sid[r], "rst", FALSE)}
  <2>1. Frame(sid[r], "rst", FALSE) \in Frames
    BY <1>1, FrameFacts
  <2>2. \A f \in Frames : Range(Append(control, f)) = Range(control) \cup {f}
    BY <1>1, AppendRange
  <2> QED
    BY <2>1, <2>2
<1> QED
  BY <1>1, <1>2 DEF Reset

\* A refusal by the read thread resets the stream it has read from.
LEMMA RefuseFacts ==
  ASSUME TypeOK, Threads, ReadRefuse
  PROVE  rframe.id \in Ids /\ Range(control') \subseteq Range(control) \cup {Frame(rframe.id, "rst", FALSE)}
<1>1. rframe.id \in Ids /\ control \in Seq(Frames)
  BY DEF ReadRefuse, TypeOK, Threads, Frames
<1>2. Range(Append(control, Frame(rframe.id, "rst", FALSE))) = Range(control) \cup {Frame(rframe.id, "rst", FALSE)}
  <2>1. Frame(rframe.id, "rst", FALSE) \in Frames
    BY <1>1, FrameFacts
  <2>2. \A f \in Frames : Range(Append(control, f)) = Range(control) \cup {f}
    BY <1>1, AppendRange
  <2> QED
    BY <2>1, <2>2
<1> QED
  BY <1>1, <1>2 DEF ReadRefuse

\* The queues, the cache and the requests hold the kinds of frames they are for.
LEMMA NextThreads == TypeOK /\ Threads /\ Numbers /\ [Next]_vars => Contents'
<1> SUFFICES ASSUME TypeOK /\ Threads /\ Numbers, [Next]_vars PROVE Contents'
  OBVIOUS
<1>0. TypeOK /\ Contents
  BY DEF Threads, Contents
<1>1. ASSUME NEW r \in Reqs, Count(r) PROVE Contents'
  BY <1>0, <1>1 DEF Contents, Count, User, statusVars, queueVars, writeVars, readVars, wireVars,
       downVars
<1>2. ASSUME NEW r \in Reqs, Refuse(r) PROVE Contents'
  BY <1>0, <1>2 DEF Contents, Refuse, User, statusVars, queueVars, writeVars, readVars, wireVars,
       downVars
<1>3. ASSUME NEW r \in Reqs, FirstId(r) PROVE Contents'
  BY <1>0, <1>3 DEF Contents, FirstId, User, statusVars, queueVars, writeVars, readVars, wireVars,
       downVars
<1>4. ASSUME NEW r \in Reqs, LoadId(r) PROVE Contents'
  <2>1. sid[r] = 0
    BY <1>4 DEF LoadId, User, Numbers
  <2>2. todo[r] \in Seq(Frames) /\ 0 \notin Ids
    BY IdFacts DEF TypeOK
  <2>3. Range(todo[r]) \subseteq Frames
    BY <2>2 DEF Range
  <2>4. Range(todo[r]) = {}
    BY <1>0, <2>1, <2>2, <2>3 DEF Contents, Frames
  <2>5. \A q \in Reqs : q # r => sid'[q] = sid[q]
    BY <1>4 DEF LoadId, TypeOK
  <2> QED
    BY <1>0, <1>4, <2>4, <2>5 DEF Contents, LoadId, queueVars, writeVars
<1>5. ASSUME NEW r \in Reqs, NextId(r) PROVE Contents'
  <2>1. sid[r] = 0
    BY <1>5 DEF NextId, User, Numbers
  <2>2. todo[r] \in Seq(Frames) /\ 0 \notin Ids
    BY IdFacts DEF TypeOK
  <2>3. Range(todo[r]) \subseteq Frames
    BY <2>2 DEF Range
  <2>4. Range(todo[r]) = {}
    BY <1>0, <2>1, <2>2, <2>3 DEF Contents, Frames
  <2>5. \A q \in Reqs : q # r => sid'[q] = sid[q]
    BY <1>5 DEF NextId, TypeOK
  <2> QED
    BY <1>0, <1>5, <2>4, <2>5 DEF Contents, NextId, queueVars, writeVars
<1>6. ASSUME NEW r \in Reqs, MapStream(r) PROVE Contents'
  BY <1>0, <1>6 DEF Contents, MapStream, User, statusVars, queueVars, writeVars, readVars, wireVars,
       downVars
<1>7. ASSUME NEW r \in Reqs, OpenConn(r) PROVE Contents'
  <2>1. PICK kind \in Kinds : todo' = [todo EXCEPT ![r] = Written(kind, sid[r])]
    BY <1>7 DEF OpenConn
  <2>2. sid[r] \in Ids
    BY <1>7 DEF OpenConn, User, TypeOK, Numbers
  <2>3. \A f \in Range(Written(kind, sid[r])) : f.id = sid[r] /\ f.type # "rst"
    BY <2>2, WrittenFacts
  <2>4. todo'[r] = Written(kind, sid[r]) /\ \A q \in Reqs : q # r => todo'[q] = todo[q]
    BY <2>1 DEF TypeOK
  <2> QED
    BY <1>0, <1>7, <2>3, <2>4 DEF Contents, OpenConn, queueVars, writeVars
<1>8. ASSUME NEW r \in Reqs, Write(r) PROVE Contents'
  <2>1. (message' = message /\ todo' = todo) \/ Writes(r)
    BY <1>8, WriteFacts
  <2>2. CASE Writes(r)
    <3>1. PICK f \in Range(todo[r]) : /\ \A q \in Reqs : Range(todo'[q]) \subseteq Range(todo[q])
                                       /\ Range(message') \subseteq Range(message) \cup {f}
      BY <2>2 DEF Writes
    <3>2. UNCHANGED <<control, cacheMap, sid>> /\ f.type # "rst"
      BY <1>0, <1>8 DEF Contents, Write, writeVars
    <3> QED
      BY <1>0, <3>1, <3>2 DEF Contents
  <2>3. CASE message' = message /\ todo' = todo
    BY <1>0, <1>8, <2>3 DEF Contents, Write, writeVars
  <2> QED
    BY <2>1, <2>2, <2>3
<1>9. ASSUME NEW r \in Reqs, WriteFails(r) PROVE Contents'
  BY <1>0, <1>9 DEF Contents, WriteFails, User, engineVars, statusVars, queueVars, writeVars,
       readVars, wireVars, downVars
<1>10. ASSUME NEW r \in Reqs, Response(r) PROVE Contents'
  BY <1>0, <1>10 DEF Contents, Response, User, engineVars, statusVars, queueVars, writeVars,
       readVars, wireVars, downVars
<1>11. ASSUME NEW r \in Reqs, NoResponse(r) PROVE Contents'
  BY <1>0, <1>11 DEF Contents, NoResponse, User, engineVars, statusVars, queueVars, writeVars,
       readVars, wireVars, downVars
<1>12. ASSUME NEW r \in Reqs, Reset(r) PROVE Contents'
  <2>1. Range(control') \subseteq Range(control) \cup {Frame(sid[r], "rst", FALSE)}
    BY <1>12, ResetFacts
  <2>2. Frame(sid[r], "rst", FALSE).type = "rst"
    BY DEF Frame
  <2> QED
    BY <1>0, <1>12, <2>1, <2>2 DEF Contents, Reset, userVars, writeVars
<1>13. CASE PeerClose
  BY <1>0, <1>13 DEF Contents, PeerClose, Fatal, engineVars, userVars, statusVars, queueVars,
       writeVars, readVars, wireVars
<1>14. CASE ShutdownStep
  <2>1. /\ Range(control') \subseteq Range(control) /\ Range(message') \subseteq Range(message)
    BY <1>14, EmptyRange DEF ShutdownStep, queueVars
  <2> QED
    BY <1>0, <1>14, <2>1 DEF Contents, ShutdownStep, userVars, writeVars
<1>15. CASE ShutdownStreams
  BY <1>0, <1>15 DEF Contents, ShutdownStreams, engineVars, userVars, queueVars, writeVars,
       readVars, wireVars
<1>16. CASE WriterDrop
  <2>1. /\ Range(control') \subseteq Range(control) /\ Range(message') \subseteq Range(message)
        /\ \A id \in Ids : Range(cacheMap'[id]) \subseteq Range(cacheMap[id])
    BY <1>16, TakenFacts DEF WriterDrop
  <2> QED
    BY <1>0, <1>16, <2>1 DEF Contents, WriterDrop, userVars
<1>17. CASE WriterCache
  <2>1. /\ Range(message') \subseteq Range(message) /\ Taken \in Range(message)
        /\ \A id \in Ids : Range(cacheMap'[id]) = Range(cacheMap[id]) \cup (IF id = Taken.id THEN {Taken} ELSE {})
    BY <1>17, CacheFacts
  <2>2. Taken.type # "rst" /\ UNCHANGED <<control, sid, todo>>
    BY <1>0, <1>17, <2>1 DEF Contents, WriterCache, userVars
  <2>3. \A id \in Ids : \A f \in Range(cacheMap'[id]) : f.id = id /\ f.type # "rst"
    BY <1>0, <2>1, <2>2 DEF Contents
  <2> QED
    BY <1>0, <2>1, <2>2, <2>3 DEF Contents
<1>18. CASE WriterTake
  <2>1. /\ Range(control') \subseteq Range(control) /\ Range(message') \subseteq Range(message)
        /\ \A id \in Ids : Range(cacheMap'[id]) \subseteq Range(cacheMap[id])
    BY <1>18, TakenFacts DEF WriterTake
  <2> QED
    BY <1>0, <1>18, <2>1 DEF Contents, WriterTake, userVars
<1>19. CASE WriterMatch
  BY <1>0, <1>19 DEF Contents, WriterMatch, engineVars, userVars, statusVars, queueVars, readVars,
       wireVars, downVars
<1>20. CASE WriterSend
  BY <1>0, <1>20 DEF Contents, WriterSend, Assign, Purge, WriterDone, userVars, queueVars, readVars,
       downVars
<1>21. CASE WriterRefuse
  BY <1>0, <1>21 DEF Contents, WriterRefuse, Fatal, WriterDone, engineVars, userVars, statusVars,
       queueVars, readVars, wireVars
<1>22. CASE WriterReset
  BY <1>0, <1>22 DEF Contents, WriterReset, Purge, WriterDone, userVars, queueVars, readVars,
       downVars
<1>23. CASE ReadFrame
  BY <1>0, <1>23 DEF Contents, ReadFrame, engineVars, userVars, statusVars, queueVars, writeVars,
       downVars
<1>24. CASE ReadMatch
  BY <1>0, <1>24 DEF Contents, ReadMatch, engineVars, userVars, statusVars, queueVars, writeVars,
       wireVars, downVars
<1>25. CASE ReadResponse
  BY <1>0, <1>25 DEF Contents, ReadResponse, Assign, Purge, ReaderDone, Deliver, queueVars,
       writeVars, wireVars, downVars
<1>26. CASE ReadRefuse
  <2>1. Range(control') \subseteq Range(control) \cup {Frame(rframe.id, "rst", FALSE)}
    BY <1>26, RefuseFacts
  <2>2. Frame(rframe.id, "rst", FALSE).type = "rst"
    BY DEF Frame
  <2> QED
    BY <1>0, <1>26, <2>1, <2>2 DEF Contents, ReadRefuse, userVars, writeVars
<1>27. CASE ReadReset
  BY <1>0, <1>27 DEF Contents, ReadReset, Purge, ReaderDone, userVars, queueVars, writeVars,
       wireVars, downVars
<1>28. CASE UNCHANGED vars
  BY <1>0, <1>28 DEF Contents, vars, engineVars, userVars, statusVars, queueVars, writeVars,
       readVars, wireVars, downVars
<1> QED
  BY <1>1, <1>2, <1>3, <1>4, <1>5, <1>6, <1>7, <1>8, <1>9, <1>10, <1>11, <1>12, <1>13,
        <1>14, <1>15, <1>16, <1>17, <1>18, <1>19, <1>20, <1>21, <1>22, <1>23, <1>24, <1>25, <1>26,
        <1>27, <1>28
     DEF Next, Requesting, Writing, Reading, Shutting


-----------------------------------------------------------------------------
(* Ids and counters.                                                         *)

\* The last id is twice the number of requests that have one, less one.
LEMMA NextNumbers == TypeOK /\ Threads /\ Numbers /\ [Next]_vars => Numbers'
<1> SUFFICES ASSUME TypeOK /\ Threads /\ Numbers, [Next]_vars PROVE Numbers'
  OBVIOUS
<1>1. ASSUME NEW r \in Reqs, Count(r) PROVE Numbers'
  BY <1>1 DEF Numbers, Numbered, Count, User, statusVars, queueVars, writeVars, readVars, wireVars,
       downVars
<1>2. ASSUME NEW r \in Reqs, Refuse(r) PROVE Numbers'
  <2>1. UNCHANGED <<lastStreamId, sid>>
    BY <1>2 DEF Refuse, engineVars
  <2>2. upc[r] \in {"refuse", "write", "wait"} /\ upc'[r] \in {"failed", "write", "wait", "done"}
    BY <1>2 DEF Refuse, User, TypeOK
  <2>3. /\ \A q \in Reqs : q # r => upc'[q] = upc[q]
        /\ upc[r] = "refuse" => upc'[r] = "failed"
    BY <1>2 DEF Refuse, User, TypeOK
  <2>4. Numbered' = Numbered
    BY <2>1, <2>2, <2>3 DEF Numbered
  <2> QED
    BY <2>1, <2>2, <2>3, <2>4 DEF Numbers
<1>3. ASSUME NEW r \in Reqs, FirstId(r) PROVE Numbers'
  <2>1. r \notin Numbered /\ upc[r] = "cas" /\ sid' = sid /\ \A q \in Reqs : q # r => upc'[q] = upc[q]
    BY <1>3 DEF FirstId, User, TypeOK, Numbers, Numbered
  <2>2. CASE lastStreamId = 0
    <3>1. Numbered = {}
      <4>1. Cardinality(Numbered) \in Nat /\ 2 * Cardinality(Numbered) - 1 # 0
        BY NumberedFacts
      <4> QED
        BY <2>2, <4>1 DEF Numbers
    <3>2. upc'[r] = "load" /\ lastStreamId' = 1
      BY <1>3, <2>2 DEF FirstId, User, TypeOK
    <3>3. Numbered' = {r}
      BY <2>1, <3>1, <3>2 DEF Numbered
    <3>4. Cardinality({r}) = 1
      BY FS_Singleton
    <3>5. lastStreamId' = 2 * Cardinality(Numbered') - 1 /\ Numbered' # {}
      BY <3>2, <3>3, <3>4
    <3>6. \A q \in Reqs : upc[q] # "next"
      BY <2>2 DEF Numbers
    <3>7. sid[r] = 0
      BY <2>1 DEF Numbered
    <3> QED
      BY <2>1, <3>2, <3>5, <3>6, <3>7 DEF Numbers
  <2>3. CASE lastStreamId # 0
    <3>1. upc'[r] = "next" /\ lastStreamId' = lastStreamId
      BY <1>3, <2>3 DEF FirstId, User, TypeOK
    <3>2. Numbered' = Numbered
      BY <2>1, <3>1 DEF Numbered
    <3> QED
      BY <2>1, <2>3, <3>1, <3>2 DEF Numbers
  <2> QED
    BY <2>2, <2>3
<1>4. ASSUME NEW r \in Reqs, LoadId(r) PROVE Numbers'
  <2>1. upc[r] = "load" /\ upc'[r] = "map" /\ lastStreamId' = lastStreamId /\ sid'[r] = lastStreamId
    BY <1>4 DEF LoadId, User, TypeOK, engineVars
  <2>2. \A q \in Reqs : q # r => upc'[q] = upc[q] /\ sid'[q] = sid[q]
    BY <1>4 DEF LoadId, User, TypeOK
  <2>3. r \in Numbered
    BY <2>1 DEF Numbered
  <2>4. lastStreamId # 0
    <3>1. lastStreamId = 2 * Cardinality(Numbered) - 1 /\ Cardinality(Numbered) \in Nat
      BY <2>3, NumberedFacts DEF Numbers
    <3> QED
      BY <3>1
  <2>5. Numbered' = Numbered
    BY <2>1, <2>2, <2>4 DEF Numbered
  <2> QED
    BY <2>1, <2>2, <2>4, <2>5 DEF Numbers
<1>5. ASSUME NEW r \in Reqs, NextId(r) PROVE Numbers'
  <2>1. upc[r] = "next" /\ upc'[r] = "map" /\ lastStreamId' = lastStreamId + 2 /\ sid'[r] = lastStreamId + 2
    BY <1>5 DEF NextId, User, TypeOK
  <2>2. \A q \in Reqs : q # r => upc'[q] = upc[q] /\ sid'[q] = sid[q]
    BY <1>5 DEF NextId, User, TypeOK
  <2>3. lastStreamId + 2 \in Ids /\ r \notin Numbered /\ lastStreamId = 2 * Cardinality(Numbered) - 1
    BY <2>1, NextIdFacts
  <2>4. lastStreamId + 2 # 0 /\ lastStreamId + 2 # 1
    <3>1. Cardinality(Numbered) \in Nat
      BY NumberedFacts
    <3>2. Numbered # {}
      BY <2>1, NextIdFacts
    <3>3. Cardinality(Numbered) # 0
      BY <3>2, NumberedFacts, FS_EmptySet
    <3> QED
      BY <2>3, <3>1, <3>3
  <2>5. Numbered' = Numbered \cup {r}
    BY <2>1, <2>2, <2>4 DEF Numbered
  <2>6. Cardinality(Numbered') = Cardinality(Numbered) + 1 /\ Cardinality(Numbered) \in Nat
    BY <2>3, <2>5, NumberedFacts, FS_AddElement
  <2>7. lastStreamId' = 2 * Cardinality(Numbered') - 1 /\ Numbered' # {}
    BY <2>1, <2>3, <2>5, <2>6
  <2>8. lastStreamId' # 0 /\ \A q \in Reqs : q # r /\ upc[q] = "next" => lastStreamId # 0
    BY <2>1, <2>4 DEF Numbers
  <2> QED
    BY <2>1, <2>2, <2>4, <2>7, <2>8 DEF Numbers
<1>6. ASSUME NEW r \in Reqs, MapStream(r) PROVE Numbers'
  BY <1>6 DEF Numbers, Numbered, MapStream, User, statusVars, queueVars, writeVars, readVars,
       wireVars, downVars
<1>7. ASSUME NEW r \in Reqs, OpenConn(r) PROVE Numbers'
  BY <1>7 DEF Numbers, Numbered, OpenConn, User, engineVars, statusVars, queueVars, writeVars,
       readVars, wireVars, downVars
<1>8. ASSUME NEW r \in Reqs, Write(r) PROVE Numbers'
  <2>1. UNCHANGED <<lastStreamId, sid>>
    BY <1>8 DEF Write, engineVars
  <2>2. upc[r] \in {"refuse", "write", "wait"} /\ upc'[r] \in {"failed", "write", "wait", "done"}
    BY <1>8 DEF Write, User, TypeOK
  <2>3. /\ \A q \in Reqs : q # r => upc'[q] = upc[q]
        /\ upc[r] = "refuse" => upc'[r] = "failed"
    BY <1>8 DEF Write, User, TypeOK
  <2>4. Numbered' = Numbered
    BY <2>1, <2>2, <2>3 DEF Numbered
  <2> QED
    BY <2>1, <2>2, <2>3, <2>4 DEF Numbers
<1>9. ASSUME NEW r \in Reqs, WriteFails(r) PROVE Numbers'
  BY <1>9 DEF Numbers, Numbered, WriteFails, User, engineVars, statusVars, queueVars, writeVars,
       readVars, wireVars, downVars
<1>10. ASSUME NEW r \in Reqs, Response(r) PROVE Numbers'
  <2>1. UNCHANGED <<lastStreamId, sid>>
    BY <1>10 DEF Response, engineVars
  <2>2. upc[r] \in {"refuse", "write", "wait"} /\ upc'[r] \in {"failed", "write", "wait", "done"}
    BY <1>10 DEF Response, User, TypeOK
  <2>3. /\ \A q \in Reqs : q # r => upc'[q] = upc[q]
        /\ upc[r] = "refuse" => upc'[r] = "failed"
    BY <1>10 DEF Response, User, TypeOK
  <2>4. Numbered' = Numbered
    BY <2>1, <2>2, <2>3 DEF Numbered
  <2> QED
    BY <2>1, <2>2, <2>3, <2>4 DEF Numbers
<1>11. ASSUME NEW r \in Reqs, NoResponse(r) PROVE Numbers'
  <2>1. UNCHANGED <<lastStreamId, sid>>
    BY <1>11 DEF NoResponse, engineVars
  <2>2. upc[r] \in {"refuse", "write", "wait"} /\ upc'[r] \in {"failed", "write", "wait", "done"}
    BY <1>11 DEF NoResponse, User, TypeOK
  <2>3. /\ \A q \in Reqs : q # r => upc'[q] = upc[q]
        /\ upc[r] = "refuse" => upc'[r] = "failed"
    BY <1>11 DEF NoResponse, User, TypeOK
  <2>4. Numbered' = Numbered
    BY <2>1, <2>2, <2>3 DEF Numbered
  <2> QED
    BY <2>1, <2>2, <2>3, <2>4 DEF Numbers
<1>12. ASSUME NEW r \in Reqs, Reset(r) PROVE Numbers'
  BY <1>12 DEF Numbers, Numbered, Reset, engineVars, userVars, statusVars, writeVars, readVars,
       wireVars, downVars
<1>13. CASE PeerClose
  BY <1>13 DEF Numbers, Numbered, PeerClose, Fatal, engineVars, userVars, statusVars, queueVars,
       writeVars, readVars, wireVars
<1>14. CASE ShutdownStep
  BY <1>14 DEF Numbers, Numbered, ShutdownStep, engineVars, userVars, statusVars, queueVars,
       writeVars, readVars, wireVars
<1>15. CASE ShutdownStreams
  BY <1>15 DEF Numbers, Numbered, ShutdownStreams, engineVars, userVars, queueVars, writeVars,
       readVars, wireVars
<1>16. CASE WriterDrop
  BY <1>16 DEF Numbers, Numbered, WriterDrop, Take, engineVars, userVars, statusVars, readVars,
       wireVars, downVars
<1>17. CASE WriterCache
  BY <1>17 DEF Numbers, Numbered, WriterCache, engineVars, userVars, statusVars, readVars, wireVars,
       downVars
<1>18. CASE WriterTake
  BY <1>18 DEF Numbers, Numbered, WriterTake, Take, engineVars, userVars, statusVars, readVars,
       wireVars, downVars
<1>19. CASE WriterMatch
  BY <1>19 DEF Numbers, Numbered, WriterMatch, engineVars, userVars, statusVars, queueVars,
       readVars, wireVars, downVars
<1>20. CASE WriterSend
  BY <1>20 DEF Numbers, Numbered, WriterSend, Assign, Purge, WriterDone, userVars, queueVars,
       readVars, downVars
<1>21. CASE WriterRefuse
  BY <1>21 DEF Numbers, Numbered, WriterRefuse, Fatal, WriterDone, engineVars, userVars, statusVars,
       queueVars, readVars, wireVars
<1>22. CASE WriterReset
  BY <1>22 DEF Numbers, Numbered, WriterReset, Purge, WriterDone, userVars, queueVars, readVars,
       downVars
<1>23. CASE ReadFrame
  BY <1>23 DEF Numbers, Numbered, ReadFrame, engineVars, userVars, statusVars, queueVars, writeVars,
       downVars
<1>24. CASE ReadMatch
  BY <1>24 DEF Numbers, Numbered, ReadMatch, engineVars, userVars, statusVars, queueVars, writeVars,
       wireVars, downVars
<1>25. CASE ReadResponse
  BY <1>25 DEF Numbers, Numbered, ReadResponse, Assign, Purge, ReaderDone, Deliver, queueVars,
       writeVars, wireVars, downVars
<1>26. CASE ReadRefuse
  BY <1>26 DEF Numbers, Numbered, ReadRefuse, Fatal, ReaderDone, engineVars, userVars, statusVars,
       writeVars, wireVars
<1>27. CASE ReadReset
  BY <1>27 DEF Numbers, Numbered, ReadReset, Purge, ReaderDone, userVars, queueVars, writeVars,
       wireVars, downVars
<1>28. CASE UNCHANGED vars
  BY <1>28 DEF Numbers, Numbered, vars, engineVars, userVars, statusVars, queueVars, writeVars,
       readVars, wireVars, downVars
<1> QED
  BY <1>1, <1>2, <1>3, <1>4, <1>5, <1>6, <1>7, <1>8, <1>9, <1>10, <1>11, <1>12, <1>13,
        <1>14, <1>15, <1>16, <1>17, <1>18, <1>19, <1>20, <1>21, <1>22, <1>23, <1>24, <1>25, <1>26,
        <1>27, <1>28
     DEF Next, Requesting, Writing, Reading, Shutting


\* What is counted is finite, and within the number of requests.
LEMMA CountsFinite ==
  /\ \A T \in SUBSET Reqs : IsFiniteSet(T) /\ Cardinality(T) \in Nat /\ Cardinality(T) <= Cardinality(Reqs)
  /\ IsFiniteSet(Refused) /\ Cardinality(Refused) \in Nat
  /\ IsFiniteSet(Arriving) /\ Cardinality(Arriving) \in Nat
  /\ IsFiniteSet(Begun) /\ Cardinality(Begun) \in Nat
  /\ IsFiniteSet(Mapped) /\ Cardinality(Mapped) \in Nat
  /\ \A T \in SUBSET Ids : Cardinality(T) \in Nat
<1>1. ASSUME NEW T \in SUBSET Reqs
      PROVE  IsFiniteSet(T) /\ Cardinality(T) \in Nat /\ Cardinality(T) <= Cardinality(Reqs)
  BY ClientAssumption, FS_Subset, FS_CardinalityType
<1>2. Refused \in SUBSET Reqs /\ Arriving \in SUBSET Reqs /\ Begun \in SUBSET Reqs
  BY DEF Refused, Arriving, Begun
<1>3. IsFiniteSet(Ids)
  <2>1. IsFiniteSet(1 .. 2 * Cardinality(Reqs))
    BY IdFacts, FS_Interval
  <2>2. Ids \subseteq 1 .. 2 * Cardinality(Reqs)
    BY IdFacts
  <2> QED
    BY <2>1, <2>2, FS_Subset
<1>4. IsFiniteSet(Mapped) /\ Cardinality(Mapped) \in Nat
  BY <1>3, FS_Subset, FS_CardinalityType DEF Mapped
<1>5. ASSUME NEW T \in SUBSET Ids PROVE Cardinality(T) \in Nat
  BY <1>3, FS_Subset, FS_CardinalityType
<1> QED
  BY <1>1, <1>2, <1>4, <1>5

\* A step of a request that stays on its way to the map, or beyond.
LEMMA CountsStay ==
  ASSUME Counts, NEW r \in Reqs, UNCHANGED <<active, streams>>,
         \A q \in Reqs : q # r => upc'[q] = upc[q] /\ sid'[q] = sid[q],
         \/ {upc[r], upc'[r]} \subseteq {"cas", "load", "next", "map"}
         \/ /\ {upc[r], upc'[r]} \subseteq {"open", "write", "wait", "done", "failed"}
            /\ sid[r] # 0 /\ sid'[r] # 0
  PROVE  Counts'
<1>1. Refused' = Refused /\ Arriving' = Arriving /\ Begun' = Begun /\ Mapped' = Mapped
  BY DEF Refused, Arriving, Begun, Mapped
<1> QED
  BY <1>1 DEF Counts

\* The counter follows the map when a stream is purged.
LEMMA PurgeCounts ==
  ASSUME TypeOK, Counts, NEW id \in Ids, NEW purged, Purge(purged, id), UNCHANGED <<upc, sid>>
  PROVE  Counts'
<1>0. Refused' = Refused /\ Arriving' = Arriving /\ Begun' = Begun
  BY DEF Refused, Arriving, Begun
<1>1. CASE purged /\ streams[id] # NoReq
  <2>1. streams' = [streams EXCEPT ![id] = NoReq] /\ active' = active - 1 /\ active \in Nat
    BY <1>1 DEF Purge, TypeOK
  <2>2. Mapped' = Mapped \ {id} /\ id \in Mapped
    BY <1>1, <2>1 DEF Mapped, TypeOK
  <2>3. Cardinality(Mapped') = Cardinality(Mapped) - 1
    BY <2>2, CountsFinite, FS_RemoveElement
  <2> QED
    BY <1>0, <2>1, <2>3, CountsFinite, ClientAssumption DEF Counts
<1>2. CASE ~ (purged /\ streams[id] # NoReq)
  <2>1. UNCHANGED <<streams, active>>
    BY <1>2 DEF Purge
  <2> QED
    BY <1>0, <2>1 DEF Counts, Mapped
<1> QED
  BY <1>1, <1>2

\* Each step moves at most one request into or out of what the counter counts.
LEMMA NextCounts == TypeOK /\ Threads /\ Numbers /\ Counts /\ [Next]_vars => Counts'
<1> SUFFICES ASSUME TypeOK /\ Threads /\ Numbers /\ Counts, [Next]_vars PROVE Counts'
  OBVIOUS
<1>0. Counts /\ TypeOK /\ active \in Nat
  BY DEF TypeOK
<1>1. ASSUME NEW r \in Reqs, Count(r) PROVE Counts'
  <2>1. UNCHANGED <<streams, sid>> /\ active' = active + 1 /\ \A q \in Reqs : q # r => upc'[q] = upc[q]
    BY <1>1 DEF Count, User, TypeOK
  <2>2. upc[r] = "new" /\ upc'[r] = IF active > MaxStreams THEN "refuse" ELSE "cas"
    BY <1>1 DEF Count, User, TypeOK
  <2>3. Begun' = Begun \cup {r} /\ r \notin Begun /\ Mapped' = Mapped
    BY <2>1, <2>2 DEF Begun, Mapped
  <2>4. Cardinality(Begun') = Cardinality(Begun) + 1
    BY <2>3, CountsFinite, FS_AddElement
  <2>5. CASE active > MaxStreams
    <3>1. Refused' = Refused \cup {r} /\ r \notin Refused /\ Arriving' = Arriving
      BY <2>1, <2>2, <2>5 DEF Refused, Arriving
    <3>2. Cardinality(Refused') = Cardinality(Refused) + 1
      BY <3>1, CountsFinite, FS_AddElement
    <3> QED
      BY <1>0, <2>1, <2>3, <2>4, <3>1, <3>2, CountsFinite DEF Counts
  <2>6. CASE ~ (active > MaxStreams)
    <3>1. Arriving' = Arriving \cup {r} /\ r \notin Arriving /\ Refused' = Refused
      BY <2>1, <2>2, <2>6 DEF Refused, Arriving
    <3>2. Cardinality(Arriving') = Cardinality(Arriving) + 1
      BY <3>1, CountsFinite, FS_AddElement
    <3>3. active <= MaxStreams /\ MaxStreams \in Nat
      BY <1>0, <2>6, ClientAssumption
    <3> QED
      BY <1>0, <2>1, <2>3, <2>4, <3>1, <3>2, <3>3, CountsFinite DEF Counts
  <2> QED
    BY <2>5, <2>6
<1>2. ASSUME NEW r \in Reqs, Refuse(r) PROVE Counts'
  <2>1. UNCHANGED <<streams, sid>> /\ active' = active - 1 /\ \A q \in Reqs : q # r => upc'[q] = upc[q]
    BY <1>2 DEF Refuse, User, TypeOK
  <2>2. upc[r] = "refuse" /\ upc'[r] = "failed" /\ sid[r] = 0
    BY <1>2 DEF Refuse, User, TypeOK, Numbers
  <2>3. /\ Begun' = Begun \ {r} /\ r \in Begun /\ Mapped' = Mapped /\ Arriving' = Arriving
        /\ Refused' = Refused \ {r} /\ r \in Refused
    BY <2>1, <2>2 DEF Begun, Mapped, Arriving, Refused
  <2>4. Cardinality(Begun') = Cardinality(Begun) - 1 /\ Cardinality(Refused') = Cardinality(Refused) - 1
    BY <2>3, CountsFinite, FS_RemoveElement
  <2> QED
    BY <1>0, <2>1, <2>3, <2>4, CountsFinite DEF Counts
<1>3. ASSUME NEW r \in Reqs, FirstId(r) PROVE Counts'
  <2>1. UNCHANGED <<active, streams>> /\ \A q \in Reqs : q # r => upc'[q] = upc[q] /\ sid'[q] = sid[q]
    BY <1>3 DEF FirstId, User, TypeOK, engineVars
  <2>2. upc[r] = "cas" /\ upc'[r] \in {"load", "next"}
    BY <1>3 DEF FirstId, User, TypeOK
  <2> QED
    BY <1>0, <2>1, <2>2, CountsStay
<1>4. ASSUME NEW r \in Reqs, LoadId(r) PROVE Counts'
  <2>1. UNCHANGED <<active, streams>> /\ \A q \in Reqs : q # r => upc'[q] = upc[q] /\ sid'[q] = sid[q]
    BY <1>4 DEF LoadId, User, TypeOK, engineVars
  <2>2. upc[r] = "load" /\ upc'[r] \in {"map"}
    BY <1>4 DEF LoadId, User, TypeOK
  <2> QED
    BY <1>0, <2>1, <2>2, CountsStay
<1>5. ASSUME NEW r \in Reqs, NextId(r) PROVE Counts'
  <2>1. UNCHANGED <<active, streams>> /\ \A q \in Reqs : q # r => upc'[q] = upc[q] /\ sid'[q] = sid[q]
    BY <1>5 DEF NextId, User, TypeOK, engineVars
  <2>2. upc[r] = "next" /\ upc'[r] \in {"map"}
    BY <1>5 DEF NextId, User, TypeOK
  <2> QED
    BY <1>0, <2>1, <2>2, CountsStay
<1>6. ASSUME NEW r \in Reqs, MapStream(r) PROVE Counts'
  <2>1. /\ UNCHANGED <<active, sid>> /\ streams' = [streams EXCEPT ![sid[r]] = r]
        /\ \A q \in Reqs : q # r => upc'[q] = upc[q]
    BY <1>6 DEF MapStream, User, TypeOK
  <2>2. upc[r] = "map" /\ upc'[r] = "open"
    BY <1>6 DEF MapStream, User, TypeOK
  <2>3. /\ Begun' = Begun /\ Refused' = Refused /\ Arriving' = Arriving \ {r} /\ r \in Arriving
    BY <2>1, <2>2 DEF Begun, Arriving, Refused
  <2>4. Cardinality(Arriving') = Cardinality(Arriving) - 1
    BY <2>3, CountsFinite, FS_RemoveElement
  <2>5. sid[r] \in Ids
    BY <2>2 DEF TypeOK, Numbers
  <2>6. Mapped' = Mapped \cup {sid[r]}
    BY <2>1, <2>5, ClientAssumption DEF Mapped, TypeOK
  <2>7. Cardinality(Mapped') \in Nat /\ Cardinality(Mapped') <= Cardinality(Mapped) + 1
    <3>1. IsFiniteSet(Mapped) /\ Cardinality(Mapped) \in Nat
      BY CountsFinite
    <3>2. \/ Cardinality(Mapped \cup {sid[r]}) = Cardinality(Mapped)
          \/ Cardinality(Mapped \cup {sid[r]}) = Cardinality(Mapped) + 1
      BY <3>1, FS_AddElement
    <3> QED
      BY <2>6, <3>1, <3>2
  <2>8. MaxStreams \in Nat /\ Cardinality(Mapped) \in Nat /\ Cardinality(Arriving) \in Nat /\ Cardinality(Refused) \in Nat
    BY ClientAssumption, CountsFinite
  <2>9. Cardinality(Begun) \in Nat
    BY CountsFinite
  <2> QED
    BY <1>0, <2>1, <2>3, <2>4, <2>7, <2>8, <2>9 DEF Counts
<1>7. ASSUME NEW r \in Reqs, OpenConn(r) PROVE Counts'
  <2>1. UNCHANGED <<active, streams, sid>> /\ \A q \in Reqs : q # r => upc'[q] = upc[q]
    BY <1>7 DEF OpenConn, User, TypeOK, engineVars
  <2>2. upc[r] \in {"open", "write", "wait"} /\ upc'[r] \in {"write", "wait", "done", "failed"}
    BY <1>7 DEF OpenConn, User, TypeOK
  <2>3. sid[r] # 0
    BY <2>2 DEF Numbers
  <2> QED
    BY <1>0, <2>1, <2>2, <2>3, CountsStay
<1>8. ASSUME NEW r \in Reqs, Write(r) PROVE Counts'
  <2>1. UNCHANGED <<active, streams, sid>> /\ \A q \in Reqs : q # r => upc'[q] = upc[q]
    BY <1>8 DEF Write, User, TypeOK, engineVars
  <2>2. upc[r] \in {"open", "write", "wait"} /\ upc'[r] \in {"write", "wait", "done", "failed"}
    BY <1>8 DEF Write, User, TypeOK
  <2>3. sid[r] # 0
    BY <2>2 DEF Numbers
  <2> QED
    BY <1>0, <2>1, <2>2, <2>3, CountsStay
<1>9. ASSUME NEW r \in Reqs, WriteFails(r) PROVE Counts'
  <2>1. UNCHANGED <<active, streams, sid>> /\ \A q \in Reqs : q # r => upc'[q] = upc[q]
    BY <1>9 DEF WriteFails, User, TypeOK, engineVars
  <2>2. upc[r] \in {"open", "write", "wait"} /\ upc'[r] \in {"write", "wait", "done", "failed"}
    BY <1>9 DEF WriteFails, User, TypeOK
  <2>3. sid[r] # 0
    BY <2>2 DEF Numbers
  <2> QED
    BY <1>0, <2>1, <2>2, <2>3, CountsStay
<1>10. ASSUME NEW r \in Reqs, Response(r) PROVE Counts'
  <2>1. UNCHANGED <<active, streams, sid>> /\ \A q \in Reqs : q # r => upc'[q] = upc[q]
    BY <1>10 DEF Response, User, TypeOK, engineVars
  <2>2. upc[r] \in {"open", "write", "wait"} /\ upc'[r] \in {"write", "wait", "done", "failed"}
    BY <1>10 DEF Response, User, TypeOK
  <2>3. sid[r] # 0
    BY <2>2 DEF Numbers
  <2> QED
    BY <1>0, <2>1, <2>2, <2>3, CountsStay
<1>11. ASSUME NEW r \in Reqs, NoResponse(r) PROVE Counts'
  <2>1. UNCHANGED <<active, streams, sid>> /\ \A q \in Reqs : q # r => upc'[q] = upc[q]
    BY <1>11 DEF NoResponse, User, TypeOK, engineVars
  <2>2. upc[r] \in {"open", "write", "wait"} /\ upc'[r] \in {"write", "wait", "done", "failed"}
    BY <1>11 DEF NoResponse, User, TypeOK
  <2>3. sid[r] # 0
    BY <2>2 DEF Numbers
  <2> QED
    BY <1>0, <2>1, <2>2, <2>3, CountsStay
<1>12. ASSUME NEW r \in Reqs, Reset(r) PROVE Counts'
  BY <1>0, <1>12 DEF Counts, Refused, Arriving, Mapped, Begun, Reset, engineVars, userVars,
       statusVars, writeVars, readVars, wireVars, downVars
<1>13. CASE PeerClose
  BY <1>0, <1>13 DEF Counts, Refused, Arriving, Mapped, Begun, PeerClose, Fatal, engineVars,
       userVars, statusVars, queueVars, writeVars, readVars, wireVars
<1>14. CASE ShutdownStep
  BY <1>0, <1>14 DEF Counts, Refused, Arriving, Mapped, Begun, ShutdownStep, engineVars, userVars,
       statusVars, queueVars, writeVars, readVars, wireVars
<1>15. CASE ShutdownStreams
  BY <1>0, <1>15 DEF Counts, Refused, Arriving, Mapped, Begun, ShutdownStreams, engineVars,
       userVars, queueVars, writeVars, readVars, wireVars
<1>16. CASE WriterDrop
  BY <1>0, <1>16 DEF Counts, Refused, Arriving, Mapped, Begun, WriterDrop, Take, engineVars,
       userVars, statusVars, readVars, wireVars, downVars
<1>17. CASE WriterCache
  BY <1>0, <1>17 DEF Counts, Refused, Arriving, Mapped, Begun, WriterCache, engineVars, userVars,
       statusVars, readVars, wireVars, downVars
<1>18. CASE WriterTake
  BY <1>0, <1>18 DEF Counts, Refused, Arriving, Mapped, Begun, WriterTake, Take, engineVars,
       userVars, statusVars, readVars, wireVars, downVars
<1>19. CASE WriterMatch
  BY <1>0, <1>19 DEF Counts, Refused, Arriving, Mapped, Begun, WriterMatch, engineVars, userVars,
       statusVars, queueVars, readVars, wireVars, downVars
<1>20. CASE WriterSend
  <2>1. wframe.id \in Ids /\ Purge(AfterWrite(wseen, wframe) = "Closed", wframe.id) /\ UNCHANGED <<upc, sid>>
    BY <1>20 DEF WriterSend, Threads, Frames, userVars
  <2> QED
    BY <1>0, <2>1, PurgeCounts
<1>21. CASE WriterRefuse
  BY <1>0, <1>21 DEF Counts, Refused, Arriving, Mapped, Begun, WriterRefuse, Fatal, WriterDone,
       engineVars, userVars, statusVars, queueVars, readVars, wireVars
<1>22. CASE WriterReset
  <2>1. wframe.id \in Ids /\ Purge(TRUE, wframe.id) /\ UNCHANGED <<upc, sid>>
    BY <1>22 DEF WriterReset, Threads, Frames, userVars
  <2> QED
    BY <1>0, <2>1, PurgeCounts
<1>23. CASE ReadFrame
  BY <1>0, <1>23 DEF Counts, Refused, Arriving, Mapped, Begun, ReadFrame, engineVars, userVars,
       statusVars, queueVars, writeVars, downVars
<1>24. CASE ReadMatch
  BY <1>0, <1>24 DEF Counts, Refused, Arriving, Mapped, Begun, ReadMatch, engineVars, userVars,
       statusVars, queueVars, writeVars, wireVars, downVars
<1>25. CASE ReadResponse
  <2>1. rframe.id \in Ids /\ Purge(AfterRead(rseen, rframe) = "Closed", rframe.id) /\ UNCHANGED <<upc, sid>>
    BY <1>25 DEF ReadResponse, Threads, Frames, userVars
  <2> QED
    BY <1>0, <2>1, PurgeCounts
<1>26. CASE ReadRefuse
  BY <1>0, <1>26 DEF Counts, Refused, Arriving, Mapped, Begun, ReadRefuse, Fatal, ReaderDone,
       engineVars, userVars, statusVars, writeVars, wireVars
<1>27. CASE ReadReset
  <2>1. rframe.id \in Ids /\ Purge(TRUE, rframe.id) /\ UNCHANGED <<upc, sid>>
    BY <1>27 DEF ReadReset, Threads, Frames, userVars
  <2> QED
    BY <1>0, <2>1, PurgeCounts
<1>28. CASE UNCHANGED vars
  BY <1>0, <1>28 DEF Counts, Refused, Arriving, Mapped, Begun, vars, engineVars, userVars,
       statusVars, queueVars, writeVars, readVars, wireVars, downVars
<1> QED
  BY <1>1, <1>2, <1>3, <1>4, <1>5, <1>6, <1>7, <1>8, <1>9, <1>10, <1>11, <1>12, <1>13,
        <1>14, <1>15, <1>16, <1>17, <1>18, <1>19, <1>20, <1>21, <1>22, <1>23, <1>24, <1>25, <1>26,
        <1>27, <1>28
     DEF Next, Requesting, Writing, Reading, Shutting

\* Every step keeps types, numbers and counts,
LEMMA NextTypes == CountInv /\ [Next]_vars => CountInv'
<1> SUFFICES ASSUME CountInv, [Next]_vars PROVE CountInv'
  OBVIOUS
<1>1. TypeOK /\ Threads /\ Numbers /\ Counts
  BY DEF CountInv
<1>2. QueueTypes' /\ UserTypes' /\ StreamTypes' /\ WriterTypes' /\ ReaderTypes'
  BY <1>1, NextQueues, NextUsers, NextStreamTypes, NextWriter, NextReader
<1>3. Contents' /\ Numbers' /\ Counts'
  BY <1>1, NextThreads, NextNumbers, NextCounts
<1>4. active' \in 0 .. Cardinality(Reqs)
  <2>1. /\ {Refused', Arriving', Begun'} \subseteq SUBSET Reqs
        /\ Mapped' \in SUBSET Ids
    BY DEF Refused, Arriving, Begun, Mapped
  <2>2. Cardinality(Mapped') \in Nat
    BY <2>1, CountsFinite
  <2>3. active' \in Int
    BY <1>2 DEF UserTypes
  <2> QED
    BY <1>3, <2>1, <2>2, <2>3, CountsFinite, IdFacts DEF Counts
<1>5. lastStreamId' \in Ids \cup {0}
  <2>1. CASE Numbered' = {}
    BY <1>3, <2>1 DEF Numbers
  <2>2. CASE Numbered' # {}
    <3>1. Numbered' \in SUBSET Reqs
      BY DEF Numbered
    <3>2. Cardinality(Numbered') \in Nat /\ Cardinality(Numbered') <= Cardinality(Reqs) /\ IsFiniteSet(Numbered')
      BY <3>1, CountsFinite
    <3>3. Cardinality(Numbered') # 0
      BY <2>2, <3>2, FS_EmptySet
    <3>4. lastStreamId' = 2 * Cardinality(Numbered') - 1
      BY <1>3, <2>2 DEF Numbers
    <3> QED
      BY <3>2, <3>3, <3>4, IdFacts
  <2> QED
    BY <2>1, <2>2
<1>6. TypeOK'
  BY <1>2, <1>4, <1>5 DEF TypeOK, QueueTypes, UserTypes, StreamTypes, WriterTypes, ReaderTypes
<1>7. Threads'
  BY <1>2, <1>3 DEF Threads, WriterTypes, ReaderTypes
<1> QED
  BY <1>3, <1>6, <1>7 DEF CountInv

\* which hold initially.
LEMMA InitTypes == Init => CountInv
<1> SUFFICES ASSUME Init PROVE CountInv
  OBVIOUS
<1>1. /\ \A id \in Ids : cacheMap[id] = << >> /\ wire[id] = << >> /\ streams[id] = NoReq /\ srv[id] = "idle"
      /\ \A r \in Reqs : /\ upc[r] = "new" /\ sid[r] = 0 /\ todo[r] = << >>
                         /\ status[r] = "Idle" /\ input[r] = "none" /\ inq[r] = << >>
      /\ control = << >> /\ message = << >> /\ opened = << >> /\ lastStreamId = 0 /\ active = 0
      /\ wpc = "take" /\ rpc = "read"
  BY DEF Init
<1>2. TypeOK
  <2>1. QueueTypes
    <3>1. << >> \in Seq(Frames)
      OBVIOUS
    <3>2. todo = [r \in Reqs |-> << >>] /\ cacheMap = [id \in Ids |-> << >>] /\ outClosed = FALSE
      BY DEF Init
    <3> QED
      BY <1>1, <3>1, <3>2 DEF QueueTypes
  <2>2. UserTypes
    BY <1>1 DEF Init, UserTypes
  <2>3. StreamTypes
    BY <1>1 DEF Init, StreamTypes, Statuses
  <2>4. WriterTypes /\ ReaderTypes
    BY <1>1 DEF Init, WriterTypes, ReaderTypes, Statuses
  <2>5. active \in 0 .. Cardinality(Reqs)
    BY <1>1, IdFacts
  <2> QED
    BY <1>1, <2>1, <2>2, <2>3, <2>4, <2>5
       DEF Init, TypeOK, QueueTypes, UserTypes, StreamTypes, WriterTypes, ReaderTypes
<1>3. Threads
  BY <1>1, EmptyRange DEF Threads, Contents
<1>4. Numbers
  <2>1. Numbered = {}
    BY <1>1 DEF Numbered
  <2> QED
    BY <1>1, <2>1 DEF Numbers
<1>5. Counts
  <2>1. Refused = {} /\ Arriving = {} /\ Begun = {} /\ Mapped = {}
    BY <1>1 DEF Refused, Arriving, Begun, Mapped
  <2>2. Cardinality({}) = 0 /\ MaxStreams \in Nat
    BY FS_EmptySet, ClientAssumption
  <2> QED
    BY <1>1, <2>1, <2>2 DEF Counts
<1> QED
  BY <1>2, <1>3, <1>4, <1>5 DEF CountInv

\* Every behaviour has the counting invariant, however the requests begin.
THEOREM StreamsAreCounted == Spec => []CountInv
<1>1. Init => CountInv
  BY InitTypes
<1>2. CountInv /\ [Next]_vars => CountInv'
  BY NextTypes
<1> QED
  BY <1>1, <1>2, PTL DEF Spec

\* The client's connection keeps its types.
THEOREM ClientTypes == Spec => []TypeOK
<1>1. CountInv => TypeOK
  BY DEF CountInv
<1> QED
  BY <1>1, StreamsAreCounted, PTL

\* However many users test activeClientStreamNum at once, the map has at most
\* one stream more than the server's SETTINGS_MAX_CONCURRENT_STREAMS.
THEOREM MapIsBounded == Spec => []StreamsBounded
<1>1. CountInv => StreamsBounded
  <2> SUFFICES ASSUME CountInv PROVE Cardinality(Mapped) <= MaxStreams + 1
    BY DEF StreamsBounded
  <2>1. Cardinality(Arriving) + Cardinality(Mapped) <= MaxStreams + 1
    BY DEF CountInv, Counts
  <2> QED
    BY <2>1, CountsFinite, ClientAssumption
<1> QED
  BY <1>1, StreamsAreCounted, PTL


-----------------------------------------------------------------------------
(* The ids, when the first request begins alone.                             *)

\* Ids are numbers.
LEMMA IdNumbers ==
  ASSUME TypeOK
  PROVE  lastStreamId \in Nat /\ lastSendId \in Nat /\ \A q \in Reqs : sid[q] \in Nat
<1>1. Ids \cup {0} \subseteq Nat
  BY IdFacts
<1>2. lastStreamId \in Ids \cup {0} /\ lastSendId \in Ids \cup {0} /\ \A q \in Reqs : sid[q] \in Ids \cup {0}
  BY DEF TypeOK
<1> QED
  BY <1>1, <1>2

\* Nobody else is about to take an id while the first request does.
LEMMA NextAlone == FirstAlone /\ TypeOK /\ Threads /\ Numbers /\ Alone /\ [Next]_vars => Alone'
<1> SUFFICES ASSUME FirstAlone /\ TypeOK /\ Threads /\ Numbers /\ Alone, [Next]_vars PROVE Alone'
  OBVIOUS
<1>0. FirstAlone /\ Alone /\ UserTypes
  BY DEF TypeOK, UserTypes
<1>1. ASSUME NEW r \in Reqs, Count(r) PROVE Alone'
  <2>1. UNCHANGED <<lastStreamId, sid>> /\ \A q \in Reqs : q # r => upc'[q] = upc[q]
    BY <1>1 DEF Count, User, TypeOK
  <2>2. upc'[r] \in {"refuse", "cas"} /\ \A q \in Reqs : upc[q] # "load" /\ (lastStreamId = 0 => upc[q] # "cas")
    BY <1>0, <1>1 DEF Count, User, TypeOK, MayBegin
  <2> QED
    BY <1>0, <2>1, <2>2 DEF Alone
<1>2. ASSUME NEW r \in Reqs, Refuse(r) PROVE Alone'
  BY <1>0, <1>2 DEF Alone, UserTypes, Refuse, User, statusVars, queueVars, writeVars, readVars, wireVars,
       downVars
<1>3. ASSUME NEW r \in Reqs, FirstId(r) PROVE Alone'
  <2>1. UNCHANGED sid /\ upc[r] = "cas" /\ \A q \in Reqs : q # r => upc'[q] = upc[q]
    BY <1>3 DEF FirstId, User, TypeOK
  <2>2. CASE lastStreamId = 0
    <3>1. Numbered = {}
      <4>1. Cardinality(Numbered) \in Nat /\ 2 * Cardinality(Numbered) - 1 # 0
        BY NumberedFacts
      <4> QED
        BY <2>2, <4>1 DEF Numbers
    <3>2. lastStreamId' = 1 /\ upc'[r] = "load"
      BY <1>3, <2>2 DEF FirstId, User, TypeOK
    <3>3. \A q \in Reqs : sid[q] = 0 /\ upc[q] \notin {"load", "next"}
      BY <2>2, <3>1 DEF Numbered, Numbers
    <3>4. \A q \in Reqs : q # r => upc[q] # "cas"
      BY <1>0, <2>1, <2>2 DEF Alone
    <3> QED
      BY <2>1, <3>2, <3>3, <3>4 DEF Alone
  <2>3. CASE lastStreamId # 0
    <3>1. lastStreamId' = lastStreamId /\ upc'[r] = "next"
      BY <1>3, <2>3 DEF FirstId, User, TypeOK
    <3> QED
      BY <1>0, <2>1, <2>3, <3>1 DEF Alone
  <2> QED
    BY <2>2, <2>3
<1>4. ASSUME NEW r \in Reqs, LoadId(r) PROVE Alone'
  <2>1. /\ lastStreamId' = lastStreamId /\ upc[r] = "load" /\ upc'[r] = "map" /\ sid'[r] = lastStreamId
        /\ \A q \in Reqs : q # r => upc'[q] = upc[q] /\ sid'[q] = sid[q]
    BY <1>4 DEF LoadId, User, TypeOK, engineVars
  <2>2. lastStreamId = 1 /\ \A q \in Reqs : q # r => upc[q] # "load"
    BY <1>0, <2>1 DEF Alone
  <2> QED
    BY <1>0, <2>1, <2>2 DEF Alone
<1>5. ASSUME NEW r \in Reqs, NextId(r) PROVE Alone'
  <2>1. /\ lastStreamId' = lastStreamId + 2 /\ upc[r] = "next" /\ upc'[r] = "map" /\ sid'[r] = lastStreamId + 2
        /\ \A q \in Reqs : q # r => upc'[q] = upc[q] /\ sid'[q] = sid[q]
    BY <1>5 DEF NextId, User, TypeOK
  <2>2. \A q \in Reqs : upc[q] # "load"
    BY <1>0, <2>1 DEF Alone
  <2>3. lastStreamId \in Nat /\ \A q \in Reqs : sid[q] \in Nat
    BY IdNumbers
  <2>4. \A q \in Reqs : sid'[q] <= lastStreamId'
    BY <1>0, <2>1, <2>3 DEF Alone
  <2>5. lastStreamId' # 0
    BY <2>1, <2>3
  <2> QED
    BY <2>1, <2>2, <2>4, <2>5 DEF Alone
<1>6. ASSUME NEW r \in Reqs, MapStream(r) PROVE Alone'
  BY <1>0, <1>6 DEF Alone, UserTypes, MapStream, User, statusVars, queueVars, writeVars, readVars, wireVars,
       downVars
<1>7. ASSUME NEW r \in Reqs, OpenConn(r) PROVE Alone'
  BY <1>0, <1>7 DEF Alone, UserTypes, OpenConn, User, engineVars, statusVars, queueVars, writeVars, readVars,
       wireVars, downVars
<1>8. ASSUME NEW r \in Reqs, Write(r) PROVE Alone'
  BY <1>0, <1>8 DEF Alone, UserTypes, Write, User, engineVars, statusVars, writeVars, readVars, wireVars,
       downVars
<1>9. ASSUME NEW r \in Reqs, WriteFails(r) PROVE Alone'
  BY <1>0, <1>9 DEF Alone, UserTypes, WriteFails, User, engineVars, statusVars, queueVars, writeVars, readVars,
       wireVars, downVars
<1>10. ASSUME NEW r \in Reqs, Response(r) PROVE Alone'
  BY <1>0, <1>10 DEF Alone, UserTypes, Response, User, engineVars, statusVars, queueVars, writeVars, readVars,
       wireVars, downVars
<1>11. ASSUME NEW r \in Reqs, NoResponse(r) PROVE Alone'
  BY <1>0, <1>11 DEF Alone, UserTypes, NoResponse, User, engineVars, statusVars, queueVars, writeVars,
       readVars, wireVars, downVars
<1>12. ASSUME NEW r \in Reqs, Reset(r) PROVE Alone'
  BY <1>0, <1>12 DEF Alone, UserTypes, Reset, engineVars, userVars, statusVars, writeVars, readVars, wireVars,
       downVars
<1>13. CASE PeerClose
  BY <1>0, <1>13 DEF Alone, UserTypes, PeerClose, Fatal, engineVars, userVars, statusVars, queueVars,
       writeVars, readVars, wireVars
<1>14. CASE ShutdownStep
  BY <1>0, <1>14 DEF Alone, UserTypes, ShutdownStep, engineVars, userVars, statusVars, queueVars, writeVars,
       readVars, wireVars
<1>15. CASE ShutdownStreams
  BY <1>0, <1>15 DEF Alone, UserTypes, ShutdownStreams, engineVars, userVars, queueVars, writeVars, readVars,
       wireVars
<1>16. CASE WriterDrop
  BY <1>0, <1>16 DEF Alone, UserTypes, WriterDrop, Take, engineVars, userVars, statusVars, readVars, wireVars,
       downVars
<1>17. CASE WriterCache
  BY <1>0, <1>17 DEF Alone, UserTypes, WriterCache, engineVars, userVars, statusVars, readVars, wireVars,
       downVars
<1>18. CASE WriterTake
  BY <1>0, <1>18 DEF Alone, UserTypes, WriterTake, Take, engineVars, userVars, statusVars, readVars, wireVars,
       downVars
<1>19. CASE WriterMatch
  BY <1>0, <1>19 DEF Alone, UserTypes, WriterMatch, engineVars, userVars, statusVars, queueVars, readVars,
       wireVars, downVars
<1>20. CASE WriterSend
  BY <1>0, <1>20 DEF Alone, UserTypes, WriterSend, Assign, Purge, WriterDone, userVars, queueVars, readVars,
       downVars
<1>21. CASE WriterRefuse
  BY <1>0, <1>21 DEF Alone, UserTypes, WriterRefuse, Fatal, WriterDone, engineVars, userVars, statusVars,
       queueVars, readVars, wireVars
<1>22. CASE WriterReset
  BY <1>0, <1>22 DEF Alone, UserTypes, WriterReset, Purge, WriterDone, userVars, queueVars, readVars, downVars
<1>23. CASE ReadFrame
  BY <1>0, <1>23 DEF Alone, UserTypes, ReadFrame, engineVars, userVars, statusVars, queueVars, writeVars,
       downVars
<1>24. CASE ReadMatch
  BY <1>0, <1>24 DEF Alone, UserTypes, ReadMatch, engineVars, userVars, statusVars, queueVars, writeVars,
       wireVars, downVars
<1>25. CASE ReadResponse
  BY <1>0, <1>25 DEF Alone, UserTypes, ReadResponse, Assign, Purge, ReaderDone, Deliver, queueVars, writeVars,
       wireVars, downVars
<1>26. CASE ReadRefuse
  BY <1>0, <1>26 DEF Alone, UserTypes, ReadRefuse, Fatal, ReaderDone, engineVars, userVars, statusVars,
       writeVars, wireVars
<1>27. CASE ReadReset
  BY <1>0, <1>27 DEF Alone, UserTypes, ReadReset, Purge, ReaderDone, userVars, queueVars, writeVars, wireVars,
       downVars
<1>28. CASE UNCHANGED vars
  BY <1>0, <1>28 DEF Alone, UserTypes, vars, engineVars, userVars, statusVars, queueVars, writeVars, readVars,
       wireVars, downVars
<1> QED
  BY <1>1, <1>2, <1>3, <1>4, <1>5, <1>6, <1>7, <1>8, <1>9, <1>10, <1>11, <1>12, <1>13,
        <1>14, <1>15, <1>16, <1>17, <1>18, <1>19, <1>20, <1>21, <1>22, <1>23, <1>24, <1>25, <1>26,
        <1>27, <1>28
     DEF Next, Requesting, Writing, Reading, Shutting

\* A new id is above all others, so no two requests have the same.
LEMMA NextUnique == TypeOK /\ Threads /\ Numbers /\ Alone /\ Unique /\ [Next]_vars => Unique'
<1> SUFFICES ASSUME TypeOK /\ Threads /\ Numbers /\ Alone /\ Unique, [Next]_vars PROVE Unique'
  OBVIOUS
<1>0. Alone /\ Unique
  OBVIOUS
<1>1. ASSUME NEW r \in Reqs, Count(r) PROVE Unique'
  BY <1>0, <1>1 DEF Unique, Count, User, statusVars, queueVars, writeVars, readVars, wireVars,
       downVars
<1>2. ASSUME NEW r \in Reqs, Refuse(r) PROVE Unique'
  BY <1>0, <1>2 DEF Unique, Refuse, User, statusVars, queueVars, writeVars, readVars, wireVars,
       downVars
<1>3. ASSUME NEW r \in Reqs, FirstId(r) PROVE Unique'
  BY <1>0, <1>3 DEF Unique, FirstId, User, statusVars, queueVars, writeVars, readVars, wireVars,
       downVars
<1>4. ASSUME NEW r \in Reqs, LoadId(r) PROVE Unique'
  <2>1. /\ upc[r] = "load" /\ \A q \in Reqs : q # r => sid'[q] = sid[q]
    BY <1>4 DEF LoadId, User, TypeOK
  <2>2. \A q \in Reqs : q # r => sid[q] = 0
    BY <1>0, <2>1 DEF Alone
  <2> QED
    BY <2>1, <2>2 DEF Unique
<1>5. ASSUME NEW r \in Reqs, NextId(r) PROVE Unique'
  <2>1. /\ sid'[r] = lastStreamId + 2 /\ \A q \in Reqs : q # r => sid'[q] = sid[q]
    BY <1>5 DEF NextId, User, TypeOK
  <2>2. lastStreamId \in Nat /\ \A q \in Reqs : sid[q] \in Nat /\ sid[q] <= lastStreamId
    BY <1>0, IdNumbers DEF Alone
  <2>3. \A q \in Reqs : q # r => sid'[q] # sid'[r]
    BY <2>1, <2>2
  <2> QED
    BY <1>0, <2>1, <2>3 DEF Unique
<1>6. ASSUME NEW r \in Reqs, MapStream(r) PROVE Unique'
  BY <1>0, <1>6 DEF Unique, MapStream, User, statusVars, queueVars, writeVars, readVars, wireVars,
       downVars
<1>7. ASSUME NEW r \in Reqs, OpenConn(r) PROVE Unique'
  BY <1>0, <1>7 DEF Unique, OpenConn, User, engineVars, statusVars, queueVars, writeVars, readVars,
       wireVars, downVars
<1>8. ASSUME NEW r \in Reqs, Write(r) PROVE Unique'
  BY <1>0, <1>8 DEF Unique, Write, User, engineVars, statusVars, writeVars, readVars, wireVars,
       downVars
<1>9. ASSUME NEW r \in Reqs, WriteFails(r) PROVE Unique'
  BY <1>0, <1>9 DEF Unique, WriteFails, User, engineVars, statusVars, queueVars, writeVars,
       readVars, wireVars, downVars
<1>10. ASSUME NEW r \in Reqs, Response(r) PROVE Unique'
  BY <1>0, <1>10 DEF Unique, Response, User, engineVars, statusVars, queueVars, writeVars, readVars,
       wireVars, downVars
<1>11. ASSUME NEW r \in Reqs, NoResponse(r) PROVE Unique'
  BY <1>0, <1>11 DEF Unique, NoResponse, User, engineVars, statusVars, queueVars, writeVars,
       readVars, wireVars, downVars
<1>12. ASSUME NEW r \in Reqs, Reset(r) PROVE Unique'
  BY <1>0, <1>12 DEF Unique, Reset, engineVars, userVars, statusVars, writeVars, readVars, wireVars,
       downVars
<1>13. CASE PeerClose
  BY <1>0, <1>13 DEF Unique, PeerClose, Fatal, engineVars, userVars, statusVars, queueVars,
       writeVars, readVars, wireVars
<1>14. CASE ShutdownStep
  BY <1>0, <1>14 DEF Unique, ShutdownStep, engineVars, userVars, statusVars, queueVars, writeVars,
       readVars, wireVars
<1>15. CASE ShutdownStreams
  BY <1>0, <1>15 DEF Unique, ShutdownStreams, engineVars, userVars, queueVars, writeVars, readVars,
       wireVars
<1>16. CASE WriterDrop
  BY <1>0, <1>16 DEF Unique, WriterDrop, Take, engineVars, userVars, statusVars, readVars, wireVars,
       downVars
<1>17. CASE WriterCache
  BY <1>0, <1>17 DEF Unique, WriterCache, engineVars, userVars, statusVars, readVars, wireVars,
       downVars
<1>18. CASE WriterTake
  BY <1>0, <1>18 DEF Unique, WriterTake, Take, engineVars, userVars, statusVars, readVars, wireVars,
       downVars
<1>19. CASE WriterMatch
  BY <1>0, <1>19 DEF Unique, WriterMatch, engineVars, userVars, statusVars, queueVars, readVars,
       wireVars, downVars
<1>20. CASE WriterSend
  BY <1>0, <1>20 DEF Unique, WriterSend, Assign, Purge, WriterDone, userVars, queueVars, readVars,
       downVars
<1>21. CASE WriterRefuse
  BY <1>0, <1>21 DEF Unique, WriterRefuse, Fatal, WriterDone, engineVars, userVars, statusVars,
       queueVars, readVars, wireVars
<1>22. CASE WriterReset
  BY <1>0, <1>22 DEF Unique, WriterReset, Purge, WriterDone, userVars, queueVars, readVars, downVars
<1>23. CASE ReadFrame
  BY <1>0, <1>23 DEF Unique, ReadFrame, engineVars, userVars, statusVars, queueVars, writeVars,
       downVars
<1>24. CASE ReadMatch
  BY <1>0, <1>24 DEF Unique, ReadMatch, engineVars, userVars, statusVars, queueVars, writeVars,
       wireVars, downVars
<1>25. CASE ReadResponse
  BY <1>0, <1>25 DEF Unique, ReadResponse, Assign, Purge, ReaderDone, Deliver, queueVars, writeVars,
       wireVars, downVars
<1>26. CASE ReadRefuse
  BY <1>0, <1>26 DEF Unique, ReadRefuse, Fatal, ReaderDone, engineVars, userVars, statusVars,
       writeVars, wireVars
<1>27. CASE ReadReset
  BY <1>0, <1>27 DEF Unique, ReadReset, Purge, ReaderDone, userVars, queueVars, writeVars, wireVars,
       downVars
<1>28. CASE UNCHANGED vars
  BY <1>0, <1>28 DEF Unique, vars, engineVars, userVars, statusVars, queueVars, writeVars, readVars,
       wireVars, downVars
<1> QED
  BY <1>1, <1>2, <1>3, <1>4, <1>5, <1>6, <1>7, <1>8, <1>9, <1>10, <1>11, <1>12, <1>13,
        <1>14, <1>15, <1>16, <1>17, <1>18, <1>19, <1>20, <1>21, <1>22, <1>23, <1>24, <1>25, <1>26,
        <1>27, <1>28
     DEF Next, Requesting, Writing, Reading, Shutting


-----------------------------------------------------------------------------
(* Which stream is whose.                                                    *)

\* What is known of a stream stays known.
LEMMA KnownStays ==
  ASSUME \A r \in Reqs : upc[r] \in Started => upc'[r] \in Started /\ sid'[r] = sid[r]
  PROVE  \A x : Known(x) => Known(x)'
BY DEF Known

\* The threads work for requests that have started.
LEMMA ThreadsKnow ==
  ASSUME Threads, AllKnown, Unique
  PROVE  /\ wpc \in {"match", "update"} => wreq \in Reqs /\ upc[wreq] \in Started
         /\ rpc \in {"match", "update"} => rreq \in Reqs /\ upc[rreq] \in Started
<1>0. 0 \notin Ids
  BY IdFacts
<1>1. ASSUME wpc \in {"match", "update"} PROVE wreq \in Reqs /\ upc[wreq] \in Started
  <2>1. wreq \in Reqs /\ sid[wreq] = wframe.id /\ wframe.id \in Ids /\ Known(wframe.id)
    BY <1>1 DEF Threads, Frames, AllKnown
  <2> QED
    BY <1>0, <2>1 DEF Known, Unique
<1>2. ASSUME rpc \in {"match", "update"} PROVE rreq \in Reqs /\ upc[rreq] \in Started
  <2>1. rreq \in Reqs /\ sid[rreq] = rframe.id /\ rframe.id \in Ids /\ Known(rframe.id)
    BY <1>2 DEF Threads, Frames, AllKnown
  <2> QED
    BY <1>0, <2>1 DEF Known, Unique
<1> QED
  BY <1>1, <1>2

\* A purge takes a started stream out of the map.
LEMMA PurgeKeeps ==
  ASSUME TypeOK, Numbers, Unique, Placed, NEW id \in Ids, Known(id), UNCHANGED <<upc, sid>>,
         UNCHANGED streams \/ streams' = [streams EXCEPT ![id] = NoReq]
  PROVE  Placed'
<1>0. 0 \notin Ids /\ NoReq \notin Reqs
  BY IdFacts, ClientAssumption
<1>1. \A r \in Reqs : upc[r] = "open" => sid[r] \in Ids /\ sid[r] # id
  BY <1>0 DEF Known, Unique, TypeOK, Numbers, Started
<1>2. CASE UNCHANGED streams
  BY <1>2 DEF Placed
<1>3. CASE streams' = [streams EXCEPT ![id] = NoReq]
  <2>1. \A x \in Ids : streams'[x] = IF x = id THEN NoReq ELSE streams[x]
    BY <1>3 DEF TypeOK
  <2> QED
    BY <1>0, <1>1, <2>1 DEF Placed
<1> QED
  BY <1>2, <1>3

\* A request that has started to write has done so for good, and keeps its id.
LEMMA NextStarted == TypeOK /\ Threads /\ Numbers /\ [Next]_vars => \A q \in Reqs : upc[q] \in Started => upc'[q] \in Started /\ sid'[q] = sid[q]
<1> SUFFICES ASSUME TypeOK /\ Threads /\ Numbers, [Next]_vars PROVE \A q \in Reqs : upc[q] \in Started => upc'[q] \in Started /\ sid'[q] = sid[q]
  OBVIOUS
<1>0. UserTypes
  BY DEF TypeOK, UserTypes
<1>1. ASSUME NEW r \in Reqs, Count(r) PROVE \A q \in Reqs : upc[q] \in Started => upc'[q] \in Started /\ sid'[q] = sid[q]
  BY <1>0, <1>1 DEF Started, UserTypes, Count, User, statusVars, queueVars, writeVars, readVars,
       wireVars, downVars
<1>2. ASSUME NEW r \in Reqs, Refuse(r) PROVE \A q \in Reqs : upc[q] \in Started => upc'[q] \in Started /\ sid'[q] = sid[q]
  BY <1>0, <1>2 DEF Started, UserTypes, Refuse, User, statusVars, queueVars, writeVars, readVars,
       wireVars, downVars
<1>3. ASSUME NEW r \in Reqs, FirstId(r) PROVE \A q \in Reqs : upc[q] \in Started => upc'[q] \in Started /\ sid'[q] = sid[q]
  BY <1>0, <1>3 DEF Started, UserTypes, FirstId, User, statusVars, queueVars, writeVars, readVars,
       wireVars, downVars
<1>4. ASSUME NEW r \in Reqs, LoadId(r) PROVE \A q \in Reqs : upc[q] \in Started => upc'[q] \in Started /\ sid'[q] = sid[q]
  BY <1>0, <1>4 DEF Started, UserTypes, LoadId, User, engineVars, statusVars, queueVars, writeVars,
       readVars, wireVars, downVars
<1>5. ASSUME NEW r \in Reqs, NextId(r) PROVE \A q \in Reqs : upc[q] \in Started => upc'[q] \in Started /\ sid'[q] = sid[q]
  BY <1>0, <1>5 DEF Started, UserTypes, NextId, User, statusVars, queueVars, writeVars, readVars,
       wireVars, downVars
<1>6. ASSUME NEW r \in Reqs, MapStream(r) PROVE \A q \in Reqs : upc[q] \in Started => upc'[q] \in Started /\ sid'[q] = sid[q]
  BY <1>0, <1>6 DEF Started, UserTypes, MapStream, User, statusVars, queueVars, writeVars, readVars,
       wireVars, downVars
<1>7. ASSUME NEW r \in Reqs, OpenConn(r) PROVE \A q \in Reqs : upc[q] \in Started => upc'[q] \in Started /\ sid'[q] = sid[q]
  BY <1>0, <1>7 DEF Started, UserTypes, OpenConn, User, engineVars, statusVars, queueVars,
       writeVars, readVars, wireVars, downVars
<1>8. ASSUME NEW r \in Reqs, Write(r) PROVE \A q \in Reqs : upc[q] \in Started => upc'[q] \in Started /\ sid'[q] = sid[q]
  BY <1>0, <1>8 DEF Started, UserTypes, Write, User, engineVars, statusVars, writeVars, readVars,
       wireVars, downVars
<1>9. ASSUME NEW r \in Reqs, WriteFails(r) PROVE \A q \in Reqs : upc[q] \in Started => upc'[q] \in Started /\ sid'[q] = sid[q]
  BY <1>0, <1>9 DEF Started, UserTypes, WriteFails, User, engineVars, statusVars, queueVars,
       writeVars, readVars, wireVars, downVars
<1>10. ASSUME NEW r \in Reqs, Response(r) PROVE \A q \in Reqs : upc[q] \in Started => upc'[q] \in Started /\ sid'[q] = sid[q]
  BY <1>0, <1>10 DEF Started, UserTypes, Response, User, engineVars, statusVars, queueVars,
       writeVars, readVars, wireVars, downVars
<1>11. ASSUME NEW r \in Reqs, NoResponse(r) PROVE \A q \in Reqs : upc[q] \in Started => upc'[q] \in Started /\ sid'[q] = sid[q]
  BY <1>0, <1>11 DEF Started, UserTypes, NoResponse, User, engineVars, statusVars, queueVars,
       writeVars, readVars, wireVars, downVars
<1>12. ASSUME NEW r \in Reqs, Reset(r) PROVE \A q \in Reqs : upc[q] \in Started => upc'[q] \in Started /\ sid'[q] = sid[q]
  BY <1>0, <1>12 DEF Started, UserTypes, Reset, engineVars, userVars, statusVars, writeVars,
       readVars, wireVars, downVars
<1>13. CASE PeerClose
  BY <1>0, <1>13 DEF Started, UserTypes, PeerClose, Fatal, engineVars, userVars, statusVars,
       queueVars, writeVars, readVars, wireVars
<1>14. CASE ShutdownStep
  BY <1>0, <1>14 DEF Started, UserTypes, ShutdownStep, engineVars, userVars, statusVars, queueVars,
       writeVars, readVars, wireVars
<1>15. CASE ShutdownStreams
  BY <1>0, <1>15 DEF Started, UserTypes, ShutdownStreams, engineVars, userVars, queueVars,
       writeVars, readVars, wireVars
<1>16. CASE WriterDrop
  BY <1>0, <1>16 DEF Started, UserTypes, WriterDrop, Take, engineVars, userVars, statusVars,
       readVars, wireVars, downVars
<1>17. CASE WriterCache
  BY <1>0, <1>17 DEF Started, UserTypes, WriterCache, engineVars, userVars, statusVars, readVars,
       wireVars, downVars
<1>18. CASE WriterTake
  BY <1>0, <1>18 DEF Started, UserTypes, WriterTake, Take, engineVars, userVars, statusVars,
       readVars, wireVars, downVars
<1>19. CASE WriterMatch
  BY <1>0, <1>19 DEF Started, UserTypes, WriterMatch, engineVars, userVars, statusVars, queueVars,
       readVars, wireVars, downVars
<1>20. CASE WriterSend
  BY <1>0, <1>20 DEF Started, UserTypes, WriterSend, Assign, Purge, WriterDone, userVars, queueVars,
       readVars, downVars
<1>21. CASE WriterRefuse
  BY <1>0, <1>21 DEF Started, UserTypes, WriterRefuse, Fatal, WriterDone, engineVars, userVars,
       statusVars, queueVars, readVars, wireVars
<1>22. CASE WriterReset
  BY <1>0, <1>22 DEF Started, UserTypes, WriterReset, Purge, WriterDone, userVars, queueVars,
       readVars, downVars
<1>23. CASE ReadFrame
  BY <1>0, <1>23 DEF Started, UserTypes, ReadFrame, engineVars, userVars, statusVars, queueVars,
       writeVars, downVars
<1>24. CASE ReadMatch
  BY <1>0, <1>24 DEF Started, UserTypes, ReadMatch, engineVars, userVars, statusVars, queueVars,
       writeVars, wireVars, downVars
<1>25. CASE ReadResponse
  BY <1>0, <1>25 DEF Started, UserTypes, ReadResponse, Assign, Purge, ReaderDone, Deliver,
       queueVars, writeVars, wireVars, downVars
<1>26. CASE ReadRefuse
  BY <1>0, <1>26 DEF Started, UserTypes, ReadRefuse, Fatal, ReaderDone, engineVars, userVars,
       statusVars, writeVars, wireVars
<1>27. CASE ReadReset
  BY <1>0, <1>27 DEF Started, UserTypes, ReadReset, Purge, ReaderDone, userVars, queueVars,
       writeVars, wireVars, downVars
<1>28. CASE UNCHANGED vars
  BY <1>0, <1>28 DEF Started, UserTypes, vars, engineVars, userVars, statusVars, queueVars,
       writeVars, readVars, wireVars, downVars
<1> QED
  BY <1>1, <1>2, <1>3, <1>4, <1>5, <1>6, <1>7, <1>8, <1>9, <1>10, <1>11, <1>12, <1>13,
        <1>14, <1>15, <1>16, <1>17, <1>18, <1>19, <1>20, <1>21, <1>22, <1>23, <1>24, <1>25, <1>26,
        <1>27, <1>28
     DEF Next, Requesting, Writing, Reading, Shutting

\* A stream is in the map under its own id only.
LEMMA NextPlaced == TypeOK /\ Threads /\ Numbers /\ Unique /\ Placed /\ AllKnown /\ [Next]_vars => Placed'
<1> SUFFICES ASSUME TypeOK /\ Threads /\ Numbers /\ Unique /\ Placed /\ AllKnown, [Next]_vars PROVE Placed'
  OBVIOUS
<1>0. Unique /\ Placed /\ AllKnown /\ UserTypes
  BY DEF TypeOK, UserTypes
<1>1. ASSUME NEW r \in Reqs, Count(r) PROVE Placed'
  BY <1>0, <1>1 DEF Placed, Started, UserTypes, Count, User, statusVars, queueVars, writeVars,
       readVars, wireVars, downVars
<1>2. ASSUME NEW r \in Reqs, Refuse(r) PROVE Placed'
  BY <1>0, <1>2 DEF Placed, Started, UserTypes, Refuse, User, statusVars, queueVars, writeVars,
       readVars, wireVars, downVars
<1>3. ASSUME NEW r \in Reqs, FirstId(r) PROVE Placed'
  BY <1>0, <1>3 DEF Placed, Started, UserTypes, FirstId, User, statusVars, queueVars, writeVars,
       readVars, wireVars, downVars
<1>4. ASSUME NEW r \in Reqs, LoadId(r) PROVE Placed'
  <2>1. upc[r] \in {"load", "next"} /\ upc'[r] = "map" /\ UNCHANGED streams
        /\ \A q \in Reqs : q # r => upc'[q] = upc[q] /\ sid'[q] = sid[q]
    BY <1>4 DEF LoadId, User, TypeOK, engineVars
  <2> QED
    BY <1>0, <2>1 DEF Placed, Started
<1>5. ASSUME NEW r \in Reqs, NextId(r) PROVE Placed'
  <2>1. upc[r] \in {"load", "next"} /\ upc'[r] = "map" /\ UNCHANGED streams
        /\ \A q \in Reqs : q # r => upc'[q] = upc[q] /\ sid'[q] = sid[q]
    BY <1>5 DEF NextId, User, TypeOK, engineVars
  <2> QED
    BY <1>0, <2>1 DEF Placed, Started
<1>6. ASSUME NEW r \in Reqs, MapStream(r) PROVE Placed'
  <2>1. /\ upc[r] = "map" /\ upc'[r] = "open" /\ UNCHANGED sid /\ streams' = [streams EXCEPT ![sid[r]] = r]
        /\ \A q \in Reqs : q # r => upc'[q] = upc[q]
    BY <1>6 DEF MapStream, User, TypeOK
  <2>2. sid[r] \in Ids /\ sid[r] # 0
    BY <2>1 DEF TypeOK, Numbers
  <2>3. streams'[sid[r]] = r /\ \A id \in Ids : id # sid[r] => streams'[id] = streams[id]
    BY <2>1, <2>2 DEF TypeOK
  <2>4. \A q \in Reqs : q # r /\ upc[q] = "open" => sid[q] \in Ids /\ sid[q] # sid[r]
    BY <1>0, <2>2 DEF Unique, TypeOK, Numbers
  <2> QED
    BY <1>0, <2>1, <2>2, <2>3, <2>4 DEF Placed
<1>7. ASSUME NEW r \in Reqs, OpenConn(r) PROVE Placed'
  BY <1>0, <1>7 DEF Placed, Started, UserTypes, OpenConn, User, engineVars, statusVars, queueVars,
       writeVars, readVars, wireVars, downVars
<1>8. ASSUME NEW r \in Reqs, Write(r) PROVE Placed'
  BY <1>0, <1>8 DEF Placed, Started, UserTypes, Write, User, engineVars, statusVars, writeVars,
       readVars, wireVars, downVars
<1>9. ASSUME NEW r \in Reqs, WriteFails(r) PROVE Placed'
  BY <1>0, <1>9 DEF Placed, Started, UserTypes, WriteFails, User, engineVars, statusVars, queueVars,
       writeVars, readVars, wireVars, downVars
<1>10. ASSUME NEW r \in Reqs, Response(r) PROVE Placed'
  BY <1>0, <1>10 DEF Placed, Started, UserTypes, Response, User, engineVars, statusVars, queueVars,
       writeVars, readVars, wireVars, downVars
<1>11. ASSUME NEW r \in Reqs, NoResponse(r) PROVE Placed'
  BY <1>0, <1>11 DEF Placed, Started, UserTypes, NoResponse, User, engineVars, statusVars,
       queueVars, writeVars, readVars, wireVars, downVars
<1>12. ASSUME NEW r \in Reqs, Reset(r) PROVE Placed'
  BY <1>0, <1>12 DEF Placed, Started, UserTypes, Reset, engineVars, userVars, statusVars, writeVars,
       readVars, wireVars, downVars
<1>13. CASE PeerClose
  BY <1>0, <1>13 DEF Placed, Started, UserTypes, PeerClose, Fatal, engineVars, userVars, statusVars,
       queueVars, writeVars, readVars, wireVars
<1>14. CASE ShutdownStep
  BY <1>0, <1>14 DEF Placed, Started, UserTypes, ShutdownStep, engineVars, userVars, statusVars,
       queueVars, writeVars, readVars, wireVars
<1>15. CASE ShutdownStreams
  BY <1>0, <1>15 DEF Placed, Started, UserTypes, ShutdownStreams, engineVars, userVars, queueVars,
       writeVars, readVars, wireVars
<1>16. CASE WriterDrop
  BY <1>0, <1>16 DEF Placed, Started, UserTypes, WriterDrop, Take, engineVars, userVars, statusVars,
       readVars, wireVars, downVars
<1>17. CASE WriterCache
  BY <1>0, <1>17 DEF Placed, Started, UserTypes, WriterCache, engineVars, userVars, statusVars,
       readVars, wireVars, downVars
<1>18. CASE WriterTake
  BY <1>0, <1>18 DEF Placed, Started, UserTypes, WriterTake, Take, engineVars, userVars, statusVars,
       readVars, wireVars, downVars
<1>19. CASE WriterMatch
  BY <1>0, <1>19 DEF Placed, Started, UserTypes, WriterMatch, engineVars, userVars, statusVars,
       queueVars, readVars, wireVars, downVars
<1>20. CASE WriterSend
  <2>1. wframe.id \in Ids /\ Known(wframe.id) /\ UNCHANGED <<upc, sid>>
    BY <1>0, <1>20 DEF WriterSend, Threads, Frames, AllKnown, userVars
  <2>2. \/ UNCHANGED streams
        \/ streams' = [streams EXCEPT ![wframe.id] = NoReq]
    BY <1>20 DEF WriterSend, Purge
  <2> QED
    BY <1>0, <2>1, <2>2, PurgeKeeps
<1>21. CASE WriterRefuse
  BY <1>0, <1>21 DEF Placed, Started, UserTypes, WriterRefuse, Fatal, WriterDone, engineVars,
       userVars, statusVars, queueVars, readVars, wireVars
<1>22. CASE WriterReset
  <2>1. wframe.id \in Ids /\ Known(wframe.id) /\ UNCHANGED <<upc, sid>>
    BY <1>0, <1>22 DEF WriterReset, Threads, Frames, AllKnown, userVars
  <2>2. \/ UNCHANGED streams
        \/ streams' = [streams EXCEPT ![wframe.id] = NoReq]
    BY <1>22 DEF WriterReset, Purge
  <2> QED
    BY <1>0, <2>1, <2>2, PurgeKeeps
<1>23. CASE ReadFrame
  BY <1>0, <1>23 DEF Placed, Started, UserTypes, ReadFrame, engineVars, userVars, statusVars,
       queueVars, writeVars, downVars
<1>24. CASE ReadMatch
  BY <1>0, <1>24 DEF Placed, Started, UserTypes, ReadMatch, engineVars, userVars, statusVars,
       queueVars, writeVars, wireVars, downVars
<1>25. CASE ReadResponse
  <2>1. rframe.id \in Ids /\ Known(rframe.id) /\ UNCHANGED <<upc, sid>>
    BY <1>0, <1>25 DEF ReadResponse, Threads, Frames, AllKnown, userVars
  <2>2. \/ UNCHANGED streams
        \/ streams' = [streams EXCEPT ![rframe.id] = NoReq]
    BY <1>25 DEF ReadResponse, Purge
  <2> QED
    BY <1>0, <2>1, <2>2, PurgeKeeps
<1>26. CASE ReadRefuse
  BY <1>0, <1>26 DEF Placed, Started, UserTypes, ReadRefuse, Fatal, ReaderDone, engineVars,
       userVars, statusVars, writeVars, wireVars
<1>27. CASE ReadReset
  <2>1. rframe.id \in Ids /\ Known(rframe.id) /\ UNCHANGED <<upc, sid>>
    BY <1>0, <1>27 DEF ReadReset, Threads, Frames, AllKnown, userVars
  <2>2. \/ UNCHANGED streams
        \/ streams' = [streams EXCEPT ![rframe.id] = NoReq]
    BY <1>27 DEF ReadReset, Purge
  <2> QED
    BY <1>0, <2>1, <2>2, PurgeKeeps
<1>28. CASE UNCHANGED vars
  BY <1>0, <1>28 DEF Placed, Started, UserTypes, vars, engineVars, userVars, statusVars, queueVars,
       writeVars, readVars, wireVars, downVars
<1> QED
  BY <1>1, <1>2, <1>3, <1>4, <1>5, <1>6, <1>7, <1>8, <1>9, <1>10, <1>11, <1>12, <1>13,
        <1>14, <1>15, <1>16, <1>17, <1>18, <1>19, <1>20, <1>21, <1>22, <1>23, <1>24, <1>25, <1>26,
        <1>27, <1>28
     DEF Next, Requesting, Writing, Reading, Shutting

\* Nothing happens to a stream before its request starts to write.
LEMMA NextFresh == TypeOK /\ Threads /\ Numbers /\ Unique /\ Fresh /\ AllKnown /\ [Next]_vars => Fresh'
<1> SUFFICES ASSUME TypeOK /\ Threads /\ Numbers /\ Unique /\ Fresh /\ AllKnown, [Next]_vars PROVE Fresh'
  OBVIOUS
<1>0. Unique /\ Threads /\ AllKnown /\ Fresh /\ UserTypes /\ StreamTypes /\ Numbers
  BY DEF TypeOK, UserTypes, StreamTypes
<1>1. ASSUME NEW r \in Reqs, Count(r) PROVE Fresh'
  BY <1>0, <1>1 DEF Fresh, Started, UserTypes, StreamTypes, Count, User, statusVars, queueVars,
       writeVars, readVars, wireVars, downVars
<1>2. ASSUME NEW r \in Reqs, Refuse(r) PROVE Fresh'
  <2>1. upc[r] = "refuse" /\ sid[r] = 0 /\ upc'[r] = "failed" /\ UNCHANGED <<sid, input, status, down>>
        /\ \A q \in Reqs : q # r => upc'[q] = upc[q]
    BY <1>0, <1>2 DEF Refuse, User, UserTypes, statusVars, downVars, Numbers
  <2> QED
    BY <1>0, <2>1 DEF Fresh, Started
<1>3. ASSUME NEW r \in Reqs, FirstId(r) PROVE Fresh'
  BY <1>0, <1>3 DEF Fresh, Started, UserTypes, StreamTypes, FirstId, User, statusVars, queueVars,
       writeVars, readVars, wireVars, downVars
<1>4. ASSUME NEW r \in Reqs, LoadId(r) PROVE Fresh'
  BY <1>0, <1>4 DEF Fresh, Started, UserTypes, StreamTypes, LoadId, User, engineVars, statusVars,
       queueVars, writeVars, readVars, wireVars, downVars
<1>5. ASSUME NEW r \in Reqs, NextId(r) PROVE Fresh'
  BY <1>0, <1>5 DEF Fresh, Started, UserTypes, StreamTypes, NextId, User, statusVars, queueVars,
       writeVars, readVars, wireVars, downVars
<1>6. ASSUME NEW r \in Reqs, MapStream(r) PROVE Fresh'
  BY <1>0, <1>6 DEF Fresh, Started, UserTypes, StreamTypes, MapStream, User, statusVars, queueVars,
       writeVars, readVars, wireVars, downVars
<1>7. ASSUME NEW r \in Reqs, OpenConn(r) PROVE Fresh'
  BY <1>0, <1>7 DEF Fresh, Started, UserTypes, StreamTypes, OpenConn, User, engineVars, statusVars,
       queueVars, writeVars, readVars, wireVars, downVars
<1>8. ASSUME NEW r \in Reqs, Write(r) PROVE Fresh'
  BY <1>0, <1>8 DEF Fresh, Started, UserTypes, StreamTypes, Write, User, engineVars, statusVars,
       writeVars, readVars, wireVars, downVars
<1>9. ASSUME NEW r \in Reqs, WriteFails(r) PROVE Fresh'
  BY <1>0, <1>9 DEF Fresh, Started, UserTypes, StreamTypes, WriteFails, User, engineVars,
       statusVars, queueVars, writeVars, readVars, wireVars, downVars
<1>10. ASSUME NEW r \in Reqs, Response(r) PROVE Fresh'
  BY <1>0, <1>10 DEF Fresh, Started, UserTypes, StreamTypes, Response, User, engineVars, statusVars,
       queueVars, writeVars, readVars, wireVars, downVars
<1>11. ASSUME NEW r \in Reqs, NoResponse(r) PROVE Fresh'
  BY <1>0, <1>11 DEF Fresh, Started, UserTypes, StreamTypes, NoResponse, User, engineVars,
       statusVars, queueVars, writeVars, readVars, wireVars, downVars
<1>12. ASSUME NEW r \in Reqs, Reset(r) PROVE Fresh'
  BY <1>0, <1>12 DEF Fresh, Started, UserTypes, StreamTypes, Reset, engineVars, userVars,
       statusVars, writeVars, readVars, wireVars, downVars
<1>13. CASE PeerClose
  BY <1>0, <1>13 DEF Fresh, Started, UserTypes, StreamTypes, PeerClose, Fatal, engineVars, userVars,
       statusVars, queueVars, writeVars, readVars, wireVars
<1>14. CASE ShutdownStep
  <2>1. down < 4 /\ UNCHANGED <<upc, sid, input, status>>
    BY <1>14 DEF ShutdownStep, statusVars, userVars, TypeOK
  <2> QED
    BY <1>0, <2>1 DEF Fresh
<1>15. CASE ShutdownStreams
  <2>1. down' = 4 /\ UNCHANGED <<upc, sid>> /\ \A r \in Reqs : input'[r] = input[r] \/ (input[r] # "none" /\ input'[r] = "quit")
    BY <1>15 DEF ShutdownStreams, userVars
  <2> QED
    BY <1>0, <2>1 DEF Fresh, StreamTypes
<1>16. CASE WriterDrop
  BY <1>0, <1>16 DEF Fresh, Started, UserTypes, StreamTypes, WriterDrop, Take, engineVars, userVars,
       statusVars, readVars, wireVars, downVars
<1>17. CASE WriterCache
  BY <1>0, <1>17 DEF Fresh, Started, UserTypes, StreamTypes, WriterCache, engineVars, userVars,
       statusVars, readVars, wireVars, downVars
<1>18. CASE WriterTake
  BY <1>0, <1>18 DEF Fresh, Started, UserTypes, StreamTypes, WriterTake, Take, engineVars, userVars,
       statusVars, readVars, wireVars, downVars
<1>19. CASE WriterMatch
  BY <1>0, <1>19 DEF Fresh, Started, UserTypes, StreamTypes, WriterMatch, engineVars, userVars,
       statusVars, queueVars, readVars, wireVars, downVars
<1>20. CASE WriterSend
  <2>1. wreq \in Reqs /\ upc[wreq] \in Started
    BY <1>0, <1>20, ThreadsKnow DEF WriterSend
  <2> QED
    BY <1>0, <1>20, <2>1 DEF Fresh, UserTypes, StreamTypes, WriterSend, Assign, userVars, downVars, statusVars
<1>21. CASE WriterRefuse
  BY <1>0, <1>21 DEF Fresh, Started, UserTypes, StreamTypes, WriterRefuse, Fatal, WriterDone,
       engineVars, userVars, statusVars, queueVars, readVars, wireVars
<1>22. CASE WriterReset
  <2>1. wreq \in Reqs /\ upc[wreq] \in Started
    BY <1>0, <1>22, ThreadsKnow DEF WriterReset
  <2> QED
    BY <1>0, <1>22, <2>1 DEF Fresh, UserTypes, StreamTypes, WriterReset, userVars, downVars, statusVars
<1>23. CASE ReadFrame
  BY <1>0, <1>23 DEF Fresh, Started, UserTypes, StreamTypes, ReadFrame, engineVars, userVars,
       statusVars, queueVars, writeVars, downVars
<1>24. CASE ReadMatch
  BY <1>0, <1>24 DEF Fresh, Started, UserTypes, StreamTypes, ReadMatch, engineVars, userVars,
       statusVars, queueVars, writeVars, wireVars, downVars
<1>25. CASE ReadResponse
  <2>1. rreq \in Reqs /\ upc[rreq] \in Started
    BY <1>0, <1>25, ThreadsKnow DEF ReadResponse
  <2> QED
    BY <1>0, <1>25, <2>1 DEF Fresh, UserTypes, StreamTypes, ReadResponse, Assign, Deliver, downVars, statusVars
<1>26. CASE ReadRefuse
  <2>1. rreq \in Reqs /\ upc[rreq] \in Started
    BY <1>0, <1>26, ThreadsKnow DEF ReadRefuse
  <2> QED
    BY <1>0, <1>26, <2>1 DEF Fresh, UserTypes, StreamTypes, ReadRefuse, userVars, statusVars
<1>27. CASE ReadReset
  <2>1. rreq \in Reqs /\ upc[rreq] \in Started
    BY <1>0, <1>27, ThreadsKnow DEF ReadReset
  <2> QED
    BY <1>0, <1>27, <2>1 DEF Fresh, UserTypes, StreamTypes, ReadReset, userVars, downVars, statusVars
<1>28. CASE UNCHANGED vars
  BY <1>0, <1>28 DEF Fresh, Started, UserTypes, StreamTypes, vars, engineVars, userVars, statusVars,
       queueVars, writeVars, readVars, wireVars, downVars
<1> QED
  BY <1>1, <1>2, <1>3, <1>4, <1>5, <1>6, <1>7, <1>8, <1>9, <1>10, <1>11, <1>12, <1>13,
        <1>14, <1>15, <1>16, <1>17, <1>18, <1>19, <1>20, <1>21, <1>22, <1>23, <1>24, <1>25, <1>26,
        <1>27, <1>28
     DEF Next, Requesting, Writing, Reading, Shutting

\* Every frame is about a request that has started to write.
LEMMA NextKnown == TypeOK /\ Threads /\ Numbers /\ Placed /\ AllKnown /\ [Next]_vars => AllKnown'
<1> SUFFICES ASSUME TypeOK /\ Threads /\ Numbers /\ Placed /\ AllKnown, [Next]_vars PROVE AllKnown'
  OBVIOUS
<1>0. AllKnown /\ (\A x : Known(x) => Known(x)') /\ (\A q \in Reqs : upc[q] \in Started => sid'[q] = sid[q])
  BY NextStarted, KnownStays
<1>1. ASSUME NEW r \in Reqs, Count(r) PROVE AllKnown'
  BY <1>0, <1>1 DEF AllKnown, Count, User, statusVars, queueVars, writeVars, readVars, wireVars,
       downVars
<1>2. ASSUME NEW r \in Reqs, Refuse(r) PROVE AllKnown'
  BY <1>0, <1>2 DEF AllKnown, Refuse, User, statusVars, queueVars, writeVars, readVars, wireVars,
       downVars
<1>3. ASSUME NEW r \in Reqs, FirstId(r) PROVE AllKnown'
  BY <1>0, <1>3 DEF AllKnown, FirstId, User, statusVars, queueVars, writeVars, readVars, wireVars,
       downVars
<1>4. ASSUME NEW r \in Reqs, LoadId(r) PROVE AllKnown'
  <2>1. sid[r] = 0 /\ 0 \notin Ids /\ \A q \in Reqs : q # r => sid'[q] = sid[q]
    BY <1>4, IdFacts DEF LoadId, User, Numbers, TypeOK
  <2>2. wpc \in {"match", "update"} => wreq \in Reqs /\ wreq # r
    BY <1>0, <2>1 DEF Threads, Frames, AllKnown
  <2>3. rpc \in {"match", "update"} => rreq \in Reqs /\ rreq # r
    BY <1>0, <2>1 DEF Threads, Frames, AllKnown
  <2> QED
    BY <1>0, <1>4, <2>1, <2>2, <2>3 DEF AllKnown, LoadId, queueVars, writeVars, readVars, wireVars
<1>5. ASSUME NEW r \in Reqs, NextId(r) PROVE AllKnown'
  <2>1. sid[r] = 0 /\ 0 \notin Ids /\ \A q \in Reqs : q # r => sid'[q] = sid[q]
    BY <1>5, IdFacts DEF NextId, User, Numbers, TypeOK
  <2>2. wpc \in {"match", "update"} => wreq \in Reqs /\ wreq # r
    BY <1>0, <2>1 DEF Threads, Frames, AllKnown
  <2>3. rpc \in {"match", "update"} => rreq \in Reqs /\ rreq # r
    BY <1>0, <2>1 DEF Threads, Frames, AllKnown
  <2> QED
    BY <1>0, <1>5, <2>1, <2>2, <2>3 DEF AllKnown, NextId, queueVars, writeVars, readVars, wireVars
<1>6. ASSUME NEW r \in Reqs, MapStream(r) PROVE AllKnown'
  BY <1>0, <1>6 DEF AllKnown, MapStream, User, statusVars, queueVars, writeVars, readVars, wireVars,
       downVars
<1>7. ASSUME NEW r \in Reqs, OpenConn(r) PROVE AllKnown'
  BY <1>0, <1>7 DEF AllKnown, OpenConn, User, engineVars, statusVars, queueVars, writeVars,
       readVars, wireVars, downVars
<1>8. ASSUME NEW r \in Reqs, Write(r) PROVE AllKnown'
  <2>1. (message' = message /\ todo' = todo) \/ Writes(r)
    BY <1>8, WriteFacts
  <2>2. upc[r] = "write" /\ UNCHANGED <<sid, control, writeVars, readVars, wireVars>>
    BY <1>8 DEF Write, User
  <2>3. Known(sid[r])
    BY <2>2 DEF Known, Started
  <2>4. \A f \in Range(todo[r]) : f.id = sid[r]
    BY DEF Threads, Contents
  <2>5. \A f \in Range(message') : Known(f.id)
    BY <1>0, <2>1, <2>3, <2>4 DEF Writes, AllKnown
  <2> QED
    BY <1>0, <2>2, <2>5 DEF AllKnown, writeVars, readVars, wireVars
<1>9. ASSUME NEW r \in Reqs, WriteFails(r) PROVE AllKnown'
  BY <1>0, <1>9 DEF AllKnown, WriteFails, User, engineVars, statusVars, queueVars, writeVars,
       readVars, wireVars, downVars
<1>10. ASSUME NEW r \in Reqs, Response(r) PROVE AllKnown'
  BY <1>0, <1>10 DEF AllKnown, Response, User, engineVars, statusVars, queueVars, writeVars,
       readVars, wireVars, downVars
<1>11. ASSUME NEW r \in Reqs, NoResponse(r) PROVE AllKnown'
  BY <1>0, <1>11 DEF AllKnown, NoResponse, User, engineVars, statusVars, queueVars, writeVars,
       readVars, wireVars, downVars
<1>12. ASSUME NEW r \in Reqs, Reset(r) PROVE AllKnown'
  <2>1. Range(control') \subseteq Range(control) \cup {Frame(sid[r], "rst", FALSE)}
    BY <1>12, ResetFacts
  <2>2. Frame(sid[r], "rst", FALSE).id = sid[r]
    BY DEF Frame
  <2>3. Known(sid[r])
    BY <1>12 DEF Known, Started, Reset
  <2>4. \A f \in Range(control') : Known(f.id)
    BY <1>0, <2>1, <2>2, <2>3 DEF AllKnown
  <2> QED
    BY <1>0, <1>12, <2>4 DEF AllKnown, Reset, userVars, writeVars, readVars, wireVars
<1>13. CASE PeerClose
  BY <1>0, <1>13 DEF AllKnown, PeerClose, Fatal, engineVars, userVars, statusVars, queueVars,
       writeVars, readVars, wireVars
<1>14. CASE ShutdownStep
  <2>1. Range(control') \subseteq Range(control) /\ Range(message') \subseteq Range(message)
    BY <1>14, EmptyRange DEF ShutdownStep, queueVars
  <2> QED
    BY <1>0, <1>14, <2>1 DEF AllKnown, ShutdownStep, userVars, writeVars, readVars, wireVars
<1>15. CASE ShutdownStreams
  BY <1>0, <1>15 DEF AllKnown, ShutdownStreams, engineVars, userVars, queueVars, writeVars,
       readVars, wireVars
<1>16. CASE WriterDrop
  <2>1. /\ Range(control') \subseteq Range(control) /\ Range(message') \subseteq Range(message)
        /\ \A id \in Ids : Range(cacheMap'[id]) \subseteq Range(cacheMap[id])
    BY <1>16, TakenFacts DEF WriterDrop
  <2> QED
    BY <1>0, <1>16, <2>1 DEF AllKnown, WriterDrop, userVars, readVars, wireVars
<1>17. CASE WriterCache
  <2>1. /\ Range(message') \subseteq Range(message) /\ Taken \in Range(message)
        /\ \A id \in Ids : Range(cacheMap'[id]) = Range(cacheMap[id]) \cup (IF id = Taken.id THEN {Taken} ELSE {})
    BY <1>17, CacheFacts
  <2>2. \A id \in Ids : \A f \in Range(cacheMap'[id]) : Known(f.id)
    BY <1>0, <2>1 DEF AllKnown
  <2> QED
    BY <1>0, <1>17, <2>1, <2>2 DEF AllKnown, WriterCache, userVars, readVars, wireVars
<1>18. CASE WriterTake
  <2>1. /\ Range(control') \subseteq Range(control) /\ Range(message') \subseteq Range(message)
        /\ \A id \in Ids : Range(cacheMap'[id]) \subseteq Range(cacheMap[id])
        /\ Taken \in Frames
        /\ \/ Taken \in Range(control) \cup Range(message)
           \/ Cached(lastSendId + 2) /\ Taken \in Range(cacheMap[lastSendId + 2])
    BY <1>18, TakenFacts DEF WriterTake
  <2>2. Known(Taken.id) /\ Taken.id \in Ids
    BY <1>0, <2>1 DEF AllKnown, Cached, Frames
  <2>3. wframe' = Taken /\ wreq' = streams[Taken.id] /\ wreq' \in Reqs
    BY <1>18, <2>2 DEF WriterTake, TypeOK
  <2>4. sid[wreq'] = Taken.id
    BY <2>2, <2>3 DEF Placed
  <2> QED
    BY <1>0, <1>18, <2>1, <2>2, <2>3, <2>4 DEF AllKnown, WriterTake, userVars, readVars, wireVars
<1>19. CASE WriterMatch
  BY <1>0, <1>19 DEF AllKnown, WriterMatch, engineVars, userVars, statusVars, queueVars, readVars,
       wireVars, downVars
<1>20. CASE WriterSend
  <2>1. wpc' = "take" /\ UNCHANGED <<sid, control, message, cacheMap, readVars>> /\ wframe.id \in Ids /\ Known(wframe.id)
    BY <1>0, <1>20 DEF WriterSend, userVars, queueVars, Threads, Frames, AllKnown
  <2>2. \A id \in Ids : srv'[id] # "idle" => srv[id] # "idle" \/ id = wframe.id
    BY <1>20 DEF WriterSend, TypeOK
  <2>3. \A id \in Range(opened') : id \in Range(opened) \/ id = wframe.id
    <3>1. opened \in Seq(Ids)
      BY DEF TypeOK
    <3>2. Range(Append(opened, wframe.id)) = Range(opened) \cup {wframe.id}
      BY <2>1, <3>1, AppendRange
    <3> QED
      BY <1>20, <3>2 DEF WriterSend
  <2> QED
    BY <1>0, <2>1, <2>2, <2>3 DEF AllKnown, readVars
<1>21. CASE WriterRefuse
  BY <1>0, <1>21 DEF AllKnown, WriterRefuse, Fatal, WriterDone, engineVars, userVars, statusVars,
       queueVars, readVars, wireVars
<1>22. CASE WriterReset
  BY <1>0, <1>22 DEF AllKnown, WriterReset, Purge, WriterDone, userVars, queueVars, readVars,
       downVars
<1>23. CASE ReadFrame
  <2>1. PICK id \in Ids : \E f \in ServerFrames(id) :
          /\ srv' = [srv EXCEPT ![id] = IF f.type = "rst" THEN "reset" ELSE IF f.end THEN "done" ELSE "headers"]
          /\ IF streams[id] = NoReq THEN UNCHANGED <<rpc, rframe, rreq>>
             ELSE rpc' = "match" /\ rframe' = f /\ rreq' = streams[id]
    BY <1>23 DEF ReadFrame
  <2>2. \A f \in ServerFrames(id) : f.id = id /\ srv[id] # "idle"
    BY ServerFrameFacts
  <2>3. Known(id) /\ (streams[id] # NoReq => sid[streams[id]] = id)
    BY <1>0, <2>1, <2>2 DEF AllKnown, Placed, TypeOK
  <2>4. \A x \in Ids : srv'[x] # "idle" => Known(x)
    BY <1>0, <2>1, <2>3 DEF AllKnown, TypeOK
  <2>5. rpc' \in {"match", "update"} => Known(rframe'.id) /\ sid[rreq'] = rframe'.id
    BY <1>0, <2>1, <2>2, <2>3 DEF AllKnown
  <2> QED
    BY <1>0, <1>23, <2>4, <2>5 DEF AllKnown, ReadFrame, userVars, queueVars, writeVars
<1>24. CASE ReadMatch
  BY <1>0, <1>24 DEF AllKnown, ReadMatch, engineVars, userVars, statusVars, queueVars, writeVars,
       wireVars, downVars
<1>25. CASE ReadResponse
  BY <1>0, <1>25 DEF AllKnown, ReadResponse, Assign, Purge, ReaderDone, Deliver, queueVars,
       writeVars, wireVars, downVars
<1>26. CASE ReadRefuse
  <2>1. Range(control') \subseteq Range(control) \cup {Frame(rframe.id, "rst", FALSE)}
    BY <1>26, RefuseFacts
  <2>2. Frame(rframe.id, "rst", FALSE).id = rframe.id
    BY DEF Frame
  <2>3. Known(rframe.id)
    BY <1>0, <1>26 DEF AllKnown, ReadRefuse
  <2>4. \A f \in Range(control') : Known(f.id)
    BY <1>0, <2>1, <2>2, <2>3 DEF AllKnown
  <2>5. rpc' \in {"read", "dead"}
    BY <1>26 DEF ReadRefuse
  <2> QED
    BY <1>0, <1>26, <2>4, <2>5 DEF AllKnown, ReadRefuse, userVars, writeVars, wireVars
<1>27. CASE ReadReset
  BY <1>0, <1>27 DEF AllKnown, ReadReset, Purge, ReaderDone, userVars, queueVars, writeVars,
       wireVars, downVars
<1>28. CASE UNCHANGED vars
  BY <1>0, <1>28 DEF AllKnown, vars, engineVars, userVars, statusVars, queueVars, writeVars,
       readVars, wireVars, downVars
<1> QED
  BY <1>1, <1>2, <1>3, <1>4, <1>5, <1>6, <1>7, <1>8, <1>9, <1>10, <1>11, <1>12, <1>13,
        <1>14, <1>15, <1>16, <1>17, <1>18, <1>19, <1>20, <1>21, <1>22, <1>23, <1>24, <1>25, <1>26,
        <1>27, <1>28
     DEF Next, Requesting, Writing, Reading, Shutting


-----------------------------------------------------------------------------
(* Nobody is left waiting.                                                   *)

\* The step of a thread on its request's status.
LEMMA StatusKeeps ==
  ASSUME UserTypes, StreamTypes, WriterTypes, Numbers, Unique, Released, NEW r \in Reqs, NEW id \in Ids, sid[r] = id,
         UNCHANGED <<upc, sid, outClosed, down>>, \A q \in Reqs : Over(q) => Over(q)',
         wpc' = "take" \/ UNCHANGED <<wpc, wseen, wreq>>,
         \/ UNCHANGED <<status, streams>>
         \/ UNCHANGED streams /\ \E to \in {"Open", "HalfClosedLocal"} : status' = [status EXCEPT ![r] = to]
         \/ /\ input'[r] \in {"closed", "quit"}
            /\ \E to \in {"HalfClosedRemote", "Closed"} : status' = [status EXCEPT ![r] = to]
            /\ UNCHANGED streams \/ streams' = [streams EXCEPT ![id] = NoReq]
  PROVE  Released'
<1>0. status \in [Reqs -> Statuses] /\ streams \in [Ids -> Reqs \cup {NoReq}] /\ 0 \notin Ids
  BY IdFacts DEF StreamTypes, UserTypes
<1>1. (down' >= 2 => outClosed') /\ (wpc' = "update" /\ wseen' = "HalfClosedRemote" => Over(wreq)')
  <2>1. wpc' = "update" /\ wseen' = "HalfClosedRemote" => wreq \in Reqs /\ wreq' = wreq /\ Over(wreq)
    BY DEF Released, WriterTypes
  <2> QED
    BY <2>1 DEF Released, Over
<1>2. ASSUME NEW q \in Reqs
      PROVE  /\ status'[q] = "HalfClosedRemote" => Over(q)'
             /\ upc'[q] \in {"write", "wait"} /\ down' < 4 =>
                  Over(q)' \/ (streams'[sid'[q]] = q /\ status'[q] # "Closed")
             /\ upc'[q] = "wait" /\ down' = 4 => Over(q)'
  <2>1. CASE q = r
    <3>1. CASE UNCHANGED <<status, streams>>
      BY <3>1 DEF Released
    <3>2. CASE UNCHANGED streams /\ \E to \in {"Open", "HalfClosedLocal"} : status' = [status EXCEPT ![r] = to]
      BY <1>0, <2>1, <3>2 DEF Released
    <3>3. CASE input'[r] \in {"closed", "quit"}
      BY <2>1, <3>3 DEF Over
    <3> QED
      BY <3>1, <3>2, <3>3
  <2>2. CASE q # r
    <3>1. status'[q] = status[q]
      BY <1>0, <2>2
    <3>2. upc[q] \in {"write", "wait"} => sid[q] \in Ids /\ sid[q] # id
      BY <1>0, <2>2 DEF Numbers, UserTypes, Unique
    <3>3. upc[q] \in {"write", "wait"} => streams'[sid[q]] = streams[sid[q]]
      BY <1>0, <3>2
    <3> QED
      BY <3>1, <3>3 DEF Released
  <2> QED
    BY <2>1, <2>2
<1> QED
  BY <1>1, <1>2 DEF Released

\* A queue that was closed or quit stays so.
LEMMA NextOver == StreamInv /\ [Next]_vars => \A q \in Reqs : Over(q) => Over(q)'
<1> SUFFICES ASSUME StreamInv, [Next]_vars PROVE \A q \in Reqs : Over(q) => Over(q)'
  OBVIOUS
<1>0. TypeOK /\ Threads /\ Numbers /\ Unique /\ Placed /\ Fresh /\ AllKnown /\ UserTypes /\ StreamTypes /\ WriterTypes
  BY DEF StreamInv, CountInv, TypeOK, Threads, UserTypes, StreamTypes, WriterTypes
<1>1. ASSUME NEW r \in Reqs, Count(r) PROVE \A q \in Reqs : Over(q) => Over(q)'
  BY <1>0, <1>1 DEF Over, StreamTypes, Count, User, statusVars, queueVars, writeVars, readVars,
       wireVars, downVars
<1>2. ASSUME NEW r \in Reqs, Refuse(r) PROVE \A q \in Reqs : Over(q) => Over(q)'
  BY <1>0, <1>2 DEF Over, StreamTypes, Refuse, User, statusVars, queueVars, writeVars, readVars,
       wireVars, downVars
<1>3. ASSUME NEW r \in Reqs, FirstId(r) PROVE \A q \in Reqs : Over(q) => Over(q)'
  BY <1>0, <1>3 DEF Over, StreamTypes, FirstId, User, statusVars, queueVars, writeVars, readVars,
       wireVars, downVars
<1>4. ASSUME NEW r \in Reqs, LoadId(r) PROVE \A q \in Reqs : Over(q) => Over(q)'
  BY <1>0, <1>4 DEF Over, StreamTypes, LoadId, User, engineVars, statusVars, queueVars, writeVars,
       readVars, wireVars, downVars
<1>5. ASSUME NEW r \in Reqs, NextId(r) PROVE \A q \in Reqs : Over(q) => Over(q)'
  BY <1>0, <1>5 DEF Over, StreamTypes, NextId, User, statusVars, queueVars, writeVars, readVars,
       wireVars, downVars
<1>6. ASSUME NEW r \in Reqs, MapStream(r) PROVE \A q \in Reqs : Over(q) => Over(q)'
  BY <1>0, <1>6 DEF Over, StreamTypes, MapStream, User, statusVars, queueVars, writeVars, readVars,
       wireVars, downVars
<1>7. ASSUME NEW r \in Reqs, OpenConn(r) PROVE \A q \in Reqs : Over(q) => Over(q)'
  <2>1. input[r] = "none" /\ \A q \in Reqs : q # r => input'[q] = input[q]
    BY <1>0, <1>7 DEF OpenConn, User, Fresh, Started, StreamTypes
  <2> QED
    BY <2>1 DEF Over
<1>8. ASSUME NEW r \in Reqs, Write(r) PROVE \A q \in Reqs : Over(q) => Over(q)'
  BY <1>0, <1>8 DEF Over, StreamTypes, Write, User, engineVars, statusVars, writeVars, readVars,
       wireVars, downVars
<1>9. ASSUME NEW r \in Reqs, WriteFails(r) PROVE \A q \in Reqs : Over(q) => Over(q)'
  <2>1. input[r] = "none" /\ \A q \in Reqs : q # r => input'[q] = input[q]
    BY <1>0, <1>9 DEF WriteFails, User, Fresh, Started, StreamTypes
  <2> QED
    BY <2>1 DEF Over
<1>10. ASSUME NEW r \in Reqs, Response(r) PROVE \A q \in Reqs : Over(q) => Over(q)'
  BY <1>0, <1>10 DEF Over, StreamTypes, Response, User, engineVars, statusVars, queueVars,
       writeVars, readVars, wireVars, downVars
<1>11. ASSUME NEW r \in Reqs, NoResponse(r) PROVE \A q \in Reqs : Over(q) => Over(q)'
  BY <1>0, <1>11 DEF Over, StreamTypes, NoResponse, User, engineVars, statusVars, queueVars,
       writeVars, readVars, wireVars, downVars
<1>12. ASSUME NEW r \in Reqs, Reset(r) PROVE \A q \in Reqs : Over(q) => Over(q)'
  BY <1>0, <1>12 DEF Over, StreamTypes, Reset, engineVars, userVars, statusVars, writeVars,
       readVars, wireVars, downVars
<1>13. CASE PeerClose
  BY <1>0, <1>13 DEF Over, StreamTypes, PeerClose, Fatal, engineVars, userVars, statusVars,
       queueVars, writeVars, readVars, wireVars
<1>14. CASE ShutdownStep
  BY <1>0, <1>14 DEF Over, StreamTypes, ShutdownStep, engineVars, userVars, statusVars, queueVars,
       writeVars, readVars, wireVars
<1>15. CASE ShutdownStreams
  BY <1>0, <1>15 DEF Over, StreamTypes, ShutdownStreams, engineVars, userVars, queueVars, writeVars,
       readVars, wireVars
<1>16. CASE WriterDrop
  BY <1>0, <1>16 DEF Over, StreamTypes, WriterDrop, Take, engineVars, userVars, statusVars,
       readVars, wireVars, downVars
<1>17. CASE WriterCache
  BY <1>0, <1>17 DEF Over, StreamTypes, WriterCache, engineVars, userVars, statusVars, readVars,
       wireVars, downVars
<1>18. CASE WriterTake
  BY <1>0, <1>18 DEF Over, StreamTypes, WriterTake, Take, engineVars, userVars, statusVars,
       readVars, wireVars, downVars
<1>19. CASE WriterMatch
  BY <1>0, <1>19 DEF Over, StreamTypes, WriterMatch, engineVars, userVars, statusVars, queueVars,
       readVars, wireVars, downVars
<1>20. CASE WriterSend
  BY <1>0, <1>20 DEF Over, StreamTypes, WriterSend, Assign, Purge, WriterDone, userVars, queueVars,
       readVars, downVars
<1>21. CASE WriterRefuse
  BY <1>0, <1>21 DEF Over, StreamTypes, WriterRefuse, Fatal, WriterDone, engineVars, userVars,
       statusVars, queueVars, readVars, wireVars
<1>22. CASE WriterReset
  BY <1>0, <1>22 DEF Over, StreamTypes, WriterReset, Purge, WriterDone, userVars, queueVars,
       readVars, downVars
<1>23. CASE ReadFrame
  BY <1>0, <1>23 DEF Over, StreamTypes, ReadFrame, engineVars, userVars, statusVars, queueVars,
       writeVars, downVars
<1>24. CASE ReadMatch
  BY <1>0, <1>24 DEF Over, StreamTypes, ReadMatch, engineVars, userVars, statusVars, queueVars,
       writeVars, wireVars, downVars
<1>25. CASE ReadResponse
  BY <1>0, <1>25 DEF Over, StreamTypes, ReadResponse, Assign, Purge, ReaderDone, Deliver, queueVars,
       writeVars, wireVars, downVars
<1>26. CASE ReadRefuse
  BY <1>0, <1>26 DEF Over, StreamTypes, ReadRefuse, Fatal, ReaderDone, engineVars, userVars,
       statusVars, writeVars, wireVars
<1>27. CASE ReadReset
  BY <1>0, <1>27 DEF Over, StreamTypes, ReadReset, Purge, ReaderDone, userVars, queueVars,
       writeVars, wireVars, downVars
<1>28. CASE UNCHANGED vars
  BY <1>0, <1>28 DEF Over, StreamTypes, vars, engineVars, userVars, statusVars, queueVars,
       writeVars, readVars, wireVars, downVars
<1> QED
  BY <1>1, <1>2, <1>3, <1>4, <1>5, <1>6, <1>7, <1>8, <1>9, <1>10, <1>11, <1>12, <1>13,
        <1>14, <1>15, <1>16, <1>17, <1>18, <1>19, <1>20, <1>21, <1>22, <1>23, <1>24, <1>25, <1>26,
        <1>27, <1>28
     DEF Next, Requesting, Writing, Reading, Shutting

\* A request that writes or waits has its stream in the map, not Closed, or a queue that is over.
LEMMA NextReleased == StreamInv /\ Released /\ [Next]_vars => Released'
<1> SUFFICES ASSUME StreamInv /\ Released, [Next]_vars PROVE Released'
  OBVIOUS
<1>0. Released /\ TypeOK /\ Threads /\ Numbers /\ Unique /\ Placed /\ Fresh /\ AllKnown /\ UserTypes /\ StreamTypes /\ WriterTypes /\ ReaderTypes
  BY DEF StreamInv, CountInv, TypeOK, Threads, UserTypes, StreamTypes, WriterTypes, ReaderTypes
<1>over. \A q \in Reqs : Over(q) => Over(q)'
  BY NextOver
<1>1. ASSUME NEW r \in Reqs, Count(r) PROVE Released'
  BY <1>0, <1>1 DEF Released, Over, UserTypes, StreamTypes, Count, User, statusVars, queueVars,
       writeVars, readVars, wireVars, downVars
<1>2. ASSUME NEW r \in Reqs, Refuse(r) PROVE Released'
  BY <1>0, <1>2 DEF Released, Over, UserTypes, StreamTypes, Refuse, User, statusVars, queueVars,
       writeVars, readVars, wireVars, downVars
<1>3. ASSUME NEW r \in Reqs, FirstId(r) PROVE Released'
  BY <1>0, <1>3 DEF Released, Over, UserTypes, StreamTypes, FirstId, User, statusVars, queueVars,
       writeVars, readVars, wireVars, downVars
<1>4. ASSUME NEW r \in Reqs, LoadId(r) PROVE Released'
  <2>1. /\ upc[r] \in {"load", "next"} /\ upc'[r] = "map" /\ UNCHANGED <<status, streams, down, outClosed, wpc, wseen, wreq, input>>
        /\ \A q \in Reqs : q # r => upc'[q] = upc[q] /\ sid'[q] = sid[q]
    BY <1>0, <1>4 DEF LoadId, User, UserTypes, statusVars, engineVars, downVars, queueVars, writeVars
  <2> QED
    BY <1>0, <2>1 DEF Released, Over
<1>5. ASSUME NEW r \in Reqs, NextId(r) PROVE Released'
  <2>1. /\ upc[r] \in {"load", "next"} /\ upc'[r] = "map" /\ UNCHANGED <<status, streams, down, outClosed, wpc, wseen, wreq, input>>
        /\ \A q \in Reqs : q # r => upc'[q] = upc[q] /\ sid'[q] = sid[q]
    BY <1>0, <1>5 DEF NextId, User, UserTypes, statusVars, engineVars, downVars, queueVars, writeVars
  <2> QED
    BY <1>0, <2>1 DEF Released, Over
<1>6. ASSUME NEW r \in Reqs, MapStream(r) PROVE Released'
  <2>1. /\ upc[r] = "map" /\ upc'[r] = "open" /\ streams' = [streams EXCEPT ![sid[r]] = r]
        /\ UNCHANGED <<status, sid, down, outClosed, wpc, wseen, wreq, input>>
        /\ \A q \in Reqs : q # r => upc'[q] = upc[q]
    BY <1>0, <1>6 DEF MapStream, User, UserTypes, statusVars, downVars, queueVars, writeVars
  <2>2. \A q \in Reqs : q # r /\ upc[q] \in {"write", "wait"} => sid[q] # sid[r] /\ sid[q] \in Ids
    BY <1>0, <2>1 DEF Unique, Numbers, UserTypes
  <2>3. \A q \in Reqs : q # r /\ upc[q] \in {"write", "wait"} => streams'[sid[q]] = streams[sid[q]]
    BY <1>0, <2>1, <2>2 DEF UserTypes
  <2> QED
    BY <1>0, <2>1, <2>3 DEF Released, Over
<1>7. ASSUME NEW r \in Reqs, OpenConn(r) PROVE Released'
  <2>1. /\ upc[r] = "open" /\ upc'[r] = "write" /\ UNCHANGED <<status, streams, sid, down, outClosed, wpc, wseen, wreq>>
        /\ \A q \in Reqs : q # r => upc'[q] = upc[q]
    BY <1>0, <1>7 DEF OpenConn, User, UserTypes, statusVars, engineVars, downVars, queueVars, writeVars
  <2>2. streams[sid[r]] = r /\ (down < 4 => status[r] = "Idle")
    BY <1>0, <2>1 DEF Placed, Fresh, Started
  <2> QED
    BY <1>0, <1>over, <2>1, <2>2 DEF Released, Over, Threads
<1>8. ASSUME NEW r \in Reqs, Write(r) PROVE Released'
  <2>1. /\ upc[r] = "write" /\ upc'[r] \in {"write", "wait", "failed"} /\ UNCHANGED <<status, streams, sid, down, outClosed, wpc, wseen, wreq, input>>
        /\ \A q \in Reqs : q # r => upc'[q] = upc[q]
    BY <1>0, <1>8 DEF Write, User, UserTypes, statusVars, engineVars, downVars, writeVars
  <2>2. outClosed /\ upc'[r] = "wait" => input[r] = "quit"
    BY <1>0, <1>8 DEF Write, User, UserTypes
  <2> QED
    BY <1>0, <2>1, <2>2 DEF Released, Over
<1>9. ASSUME NEW r \in Reqs, WriteFails(r) PROVE Released'
  <2>1. upc'[r] = "failed" /\ (\A q \in Reqs : q # r => upc'[q] = upc[q])
        /\ UNCHANGED <<sid, status, streams, outClosed, wpc, wseen, wreq, down>>
    BY <1>0, <1>9 DEF WriteFails, User, UserTypes, statusVars, engineVars, queueVars, writeVars, downVars
  <2> QED
    BY <1>0, <1>over, <2>1 DEF Released, Over, Threads
<1>10. ASSUME NEW r \in Reqs, Response(r) PROVE Released'
  BY <1>0, <1>10 DEF Released, Over, UserTypes, StreamTypes, Response, User, engineVars, statusVars,
       queueVars, writeVars, readVars, wireVars, downVars
<1>11. ASSUME NEW r \in Reqs, NoResponse(r) PROVE Released'
  BY <1>0, <1>11 DEF Released, Over, UserTypes, StreamTypes, NoResponse, User, engineVars,
       statusVars, queueVars, writeVars, readVars, wireVars, downVars
<1>12. ASSUME NEW r \in Reqs, Reset(r) PROVE Released'
  BY <1>0, <1>12 DEF Released, Over, UserTypes, StreamTypes, Reset, engineVars, userVars,
       statusVars, writeVars, readVars, wireVars, downVars
<1>13. CASE PeerClose
  BY <1>0, <1>13 DEF Released, Over, UserTypes, StreamTypes, PeerClose, Fatal, engineVars, userVars,
       statusVars, queueVars, writeVars, readVars, wireVars
<1>14. CASE ShutdownStep
  <2>1. /\ UNCHANGED <<upc, sid, status, streams, wpc, wseen, wreq, input>> /\ down < 3 /\ down' = down + 1
        /\ outClosed' = IF down = 1 THEN TRUE ELSE outClosed
    BY <1>14 DEF ShutdownStep, userVars, statusVars, engineVars, writeVars, queueVars
  <2>2. (down' >= 2 => outClosed') /\ down' < 4 /\ down < 4
    BY <1>0, <2>1 DEF Released, ReaderTypes
  <2> QED
    BY <1>0, <2>1, <2>2 DEF Released, Over
<1>15. CASE ShutdownStreams
  <2> DEFINE live == {q \in Reqs : (\E id \in Ids : streams[id] = q) /\ status[q] # "Closed"}
  <2>1. /\ UNCHANGED <<upc, sid, streams, outClosed, wpc, wseen, wreq>> /\ down = 3 /\ down' = 4
        /\ \A q \in Reqs : /\ status'[q] = IF q \in live THEN "Closed" ELSE status[q]
                           /\ input'[q] = IF q \in live /\ input[q] # "none" THEN "quit" ELSE input[q]
    BY <1>15 DEF ShutdownStreams, userVars, engineVars, queueVars, writeVars
  <2>2. \A q \in Reqs : upc[q] = "wait" => sid[q] \in Ids /\ input[q] # "none"
    BY <1>0 DEF Numbers, UserTypes, Fresh, Started
  <2>3. \A q \in Reqs : upc'[q] = "wait" => Over(q)'
    BY <1>0, <2>1, <2>2 DEF Released, Over
  <2> HIDE DEF live
  <2>4. \A q \in Reqs : status'[q] = "HalfClosedRemote" => status[q] = "HalfClosedRemote"
    BY <2>1
  <2> QED
    BY <1>0, <1>over, <2>1, <2>3, <2>4 DEF Released, Over, Threads
<1>16. CASE WriterDrop
  <2>1. UNCHANGED <<upc, sid, status, streams, outClosed, wpc, wseen, wreq, input, down>>
    BY <1>16 DEF WriterDrop, Take, userVars, statusVars, engineVars, queueVars, downVars
  <2> QED
    BY <1>0, <2>1 DEF Released, Over
<1>17. CASE WriterCache
  BY <1>0, <1>17 DEF Released, Over, UserTypes, StreamTypes, WriterCache, engineVars, userVars,
       statusVars, readVars, wireVars, downVars
<1>18. CASE WriterTake
  <2>1. wpc' = "match" /\ UNCHANGED <<upc, sid, status, streams, outClosed, input, down>>
    BY <1>18 DEF WriterTake, Take, userVars, statusVars, engineVars, queueVars, downVars
  <2> QED
    BY <1>0, <2>1 DEF Released, Over
<1>19. CASE WriterMatch
  <2>1. wseen' = status[wreq] /\ wreq \in Reqs /\ UNCHANGED <<upc, sid, status, streams, outClosed, wreq, input, down>>
    BY <1>0, <1>19 DEF WriterMatch, Threads, userVars, statusVars, engineVars, queueVars, downVars
  <2> QED
    BY <1>0, <2>1 DEF Released, Over
<1>20. CASE WriterSend
  <2>1. /\ wreq \in Reqs /\ upc[wreq] \in Started /\ sid[wreq] = wframe.id /\ wframe.id \in Ids /\ sid[wreq] # 0
        /\ UNCHANGED <<upc, sid, outClosed, down>>
    BY <1>0, <1>20, ThreadsKnow, IdFacts DEF WriterSend, AllKnown, Threads, Frames, userVars, queueVars, downVars
  <2>2. wpc' = "take" /\ input' = input
    BY <1>20 DEF WriterSend
  <2>3. \/ UNCHANGED <<status, streams>>
        \/ UNCHANGED streams /\ \E to \in {"Open", "HalfClosedLocal"} : status' = [status EXCEPT ![wreq] = to]
        \/ Over(wreq) /\ status' = [status EXCEPT ![wreq] = "Closed"] /\ (UNCHANGED streams \/ streams' = [streams EXCEPT ![wframe.id] = NoReq])
    <3> DEFINE to == AfterWrite(wseen, wframe)
    <3>1. CASE wseen = "HalfClosedRemote"
      <4>1. Over(wreq) /\ to \in {"Closed", "HalfClosedRemote"}
        BY <1>0, <1>20, <3>1 DEF Released, AfterWrite, WriterSend
      <4> QED
        BY <1>20, <3>1, <4>1 DEF WriterSend, Assign, Purge, statusVars
    <3>2. CASE wseen # "HalfClosedRemote"
      <4>1. to \in {"Open", "HalfClosedLocal"}
        BY <1>20, <3>2 DEF WriterSend, Writable, AfterWrite
      <4> QED
        BY <1>20, <4>1 DEF WriterSend, Assign, Purge, statusVars
    <3> QED
      BY <3>1, <3>2
  <2> QED
    BY <1>0, <1>over, <2>1, <2>2, <2>3, StatusKeeps DEF Over
<1>21. CASE WriterRefuse
  BY <1>0, <1>21 DEF Released, Over, UserTypes, StreamTypes, WriterRefuse, Fatal, WriterDone,
       engineVars, userVars, statusVars, queueVars, readVars, wireVars
<1>22. CASE WriterReset
  <2>1. /\ wreq \in Reqs /\ upc[wreq] \in Started /\ sid[wreq] = wframe.id /\ wframe.id \in Ids /\ sid[wreq] # 0
        /\ UNCHANGED <<upc, sid, outClosed, down>>
    BY <1>0, <1>22, ThreadsKnow, IdFacts DEF WriterReset, AllKnown, Threads, Frames, userVars, queueVars, downVars
  <2>2. input'[wreq] = "quit" /\ status' = [status EXCEPT ![wreq] = "Closed"]
    BY <1>0, <1>22, <2>1 DEF WriterReset, Over, StreamTypes
  <2>3. UNCHANGED streams \/ streams' = [streams EXCEPT ![wframe.id] = NoReq]
    BY <1>22 DEF WriterReset, Purge
  <2>4. wpc' = "take"
    BY <1>22 DEF WriterReset, writeVars
  <2> QED
    BY <1>0, <1>over, <2>1, <2>2, <2>3, <2>4, StatusKeeps
<1>23. CASE ReadFrame
  BY <1>0, <1>23 DEF Released, Over, UserTypes, StreamTypes, ReadFrame, engineVars, userVars,
       statusVars, queueVars, writeVars, downVars
<1>24. CASE ReadMatch
  BY <1>0, <1>24 DEF Released, Over, UserTypes, StreamTypes, ReadMatch, engineVars, userVars,
       statusVars, queueVars, writeVars, wireVars, downVars
<1>25. CASE ReadResponse
  <2>1. /\ rreq \in Reqs /\ upc[rreq] \in Started /\ sid[rreq] = rframe.id /\ rframe.id \in Ids /\ sid[rreq] # 0
        /\ UNCHANGED <<upc, sid, outClosed, down>>
    BY <1>0, <1>25, ThreadsKnow, IdFacts DEF ReadResponse, AllKnown, Threads, Frames, userVars, queueVars, downVars
  <2>2. UNCHANGED <<wpc, wseen, wreq>>
    BY <1>25 DEF ReadResponse, writeVars
  <2>3. \/ UNCHANGED <<status, streams>>
        \/ input'[rreq] \in {"closed", "quit"} /\ (\E to \in {"HalfClosedRemote", "Closed"} : status' = [status EXCEPT ![rreq] = to]) /\ (UNCHANGED streams \/ streams' = [streams EXCEPT ![rframe.id] = NoReq])
    <3> DEFINE to == AfterRead(rseen, rframe)
    <3>1. CASE to = rseen
      <4>1. rseen # "Closed"
        BY <1>25 DEF ReadResponse
      <4> QED
        BY <1>25, <3>1, <4>1 DEF ReadResponse, Assign, Purge, statusVars
    <3>2. CASE to # rseen
      <4>1. to \in {"HalfClosedRemote", "Closed"} /\ status' = [status EXCEPT ![rreq] = to]
        BY <1>25, <3>2 DEF ReadResponse, AfterRead, Assign
      <4>2. input[rreq] # "none"
        BY <1>0, <2>1 DEF Fresh
      <4>3. input'[rreq] \in {"closed", "quit"}
        BY <1>0, <1>25, <2>1, <4>1, <4>2 DEF ReadResponse, Deliver, Over, StreamTypes, ReaderDone
      <4>4. UNCHANGED streams \/ streams' = [streams EXCEPT ![rframe.id] = NoReq]
        BY <1>25 DEF ReadResponse, Purge
      <4> QED
        BY <4>1, <4>3, <4>4
    <3> QED
      BY <3>1, <3>2
  <2> QED
    BY <1>0, <1>over, <2>1, <2>2, <2>3, StatusKeeps
<1>26. CASE ReadRefuse
  <2>1. UNCHANGED <<upc, sid, status, streams, outClosed, wpc, wseen, wreq, down>>
    BY <1>26 DEF ReadRefuse, userVars, statusVars, engineVars, writeVars
  <2> QED
    BY <1>0, <1>over, <2>1 DEF Released, Over, Threads
<1>27. CASE ReadReset
  <2>1. /\ rreq \in Reqs /\ upc[rreq] \in Started /\ sid[rreq] = rframe.id /\ rframe.id \in Ids /\ sid[rreq] # 0
        /\ UNCHANGED <<upc, sid, outClosed, down>>
    BY <1>0, <1>27, ThreadsKnow, IdFacts DEF ReadReset, AllKnown, Threads, Frames, userVars, queueVars, downVars
  <2>2. input'[rreq] = "quit" /\ status' = [status EXCEPT ![rreq] = "Closed"]
    BY <1>0, <1>27, <2>1 DEF ReadReset, Over, StreamTypes
  <2>3. UNCHANGED streams \/ streams' = [streams EXCEPT ![rframe.id] = NoReq]
    BY <1>27 DEF ReadReset, Purge
  <2>4. UNCHANGED <<wpc, wseen, wreq>>
    BY <1>27 DEF ReadReset, writeVars
  <2> QED
    BY <1>0, <1>over, <2>1, <2>2, <2>3, <2>4, StatusKeeps
<1>28. CASE UNCHANGED vars
  BY <1>0, <1>28 DEF Released, Over, UserTypes, StreamTypes, vars, engineVars, userVars, statusVars,
       queueVars, writeVars, readVars, wireVars, downVars
<1> QED
  BY <1>1, <1>2, <1>3, <1>4, <1>5, <1>6, <1>7, <1>8, <1>9, <1>10, <1>11, <1>12, <1>13,
        <1>14, <1>15, <1>16, <1>17, <1>18, <1>19, <1>20, <1>21, <1>22, <1>23, <1>24, <1>25, <1>26,
        <1>27, <1>28
     DEF Next, Requesting, Writing, Reading, Shutting

\* All of this holds initially,
LEMMA InitReleased == Init => ReleaseInv
<1> SUFFICES ASSUME Init PROVE ReleaseInv
  OBVIOUS
<1>1. /\ \A id \in Ids : cacheMap[id] = << >> /\ streams[id] = NoReq /\ srv[id] = "idle"
      /\ \A r \in Reqs : upc[r] = "new" /\ sid[r] = 0 /\ status[r] = "Idle" /\ input[r] = "none"
      /\ control = << >> /\ message = << >> /\ opened = << >> /\ lastStreamId = 0 /\ down = 0
      /\ wpc = "take" /\ rpc = "read" /\ NoReq \notin Reqs
  BY ClientAssumption DEF Init
<1>2. CountInv
  BY InitTypes
<1>3. Alone /\ Unique
  BY <1>1 DEF Alone, Unique
<1>4. Placed /\ Fresh
  BY <1>1 DEF Placed, Fresh, Started
<1>5. AllKnown
  BY <1>1, EmptyRange DEF AllKnown
<1>6. Released
  BY <1>1 DEF Released
<1> QED
  BY <1>2, <1>3, <1>4, <1>5, <1>6 DEF ReleaseInv, StreamInv

\* and every step keeps it.
LEMMA NextStreams == FirstAlone /\ StreamInv /\ [Next]_vars => StreamInv'
<1> SUFFICES ASSUME FirstAlone, StreamInv, [Next]_vars PROVE StreamInv'
  OBVIOUS
<1>1. CountInv /\ TypeOK /\ Threads /\ Numbers /\ Alone /\ Unique /\ Placed /\ Fresh /\ AllKnown
  BY DEF StreamInv, CountInv
<1>2. CountInv'
  BY <1>1, NextTypes
<1>3. Alone' /\ Unique'
  BY <1>1, NextAlone, NextUnique
<1>4. Placed' /\ Fresh' /\ AllKnown'
  BY <1>1, NextPlaced, NextFresh, NextKnown
<1> QED
  BY <1>2, <1>3, <1>4 DEF StreamInv

\* When the first request begins alone, every behaviour has the invariant of
\* the streams, and nobody waits for a stream that is gone.
THEOREM NobodyIsLeft == FirstAlone => (Spec => []ReleaseInv)
<1> SUFFICES ASSUME FirstAlone PROVE Spec => []ReleaseInv
  OBVIOUS
<1>1. Init => ReleaseInv
  BY InitReleased
<1>2. ReleaseInv /\ [Next]_vars => ReleaseInv'
  BY NextStreams, NextReleased DEF ReleaseInv
<1> QED
  BY <1>1, <1>2, PTL DEF Spec

\* After shutdown no request waits for a queue that nobody will close.
THEOREM ShutdownLeavesNobody == FirstAlone => (Spec => []ShutdownReleases)
<1> SUFFICES ASSUME FirstAlone PROVE Spec => []ShutdownReleases
  OBVIOUS
<1>1. ReleaseInv => ShutdownReleases
  BY DEF ReleaseInv, Released, Over, ShutdownReleases
<1> QED
  BY <1>1, NobodyIsLeft, PTL


-----------------------------------------------------------------------------
(* Streams are opened in order.                                              *)

\* What was opened are ids.
LEMMA OpenedIds ==
  ASSUME TypeOK
  PROVE  Opened \subseteq Ids /\ \A i \in DOMAIN opened : opened[i] \in Opened /\ opened[i] \in Ids
<1>1. \A i \in DOMAIN opened : opened[i] \in Ids
  BY DEF TypeOK
<1> QED
  BY <1>1 DEF Opened, Range

\* A new id was never on the wire.
LEMMA FreshId ==
  ASSUME TypeOK, Numbers, Alone, AllKnown, NEW r \in Reqs, LoadId(r) \/ NextId(r)
  PROVE  sid[r] = 0 /\ sid'[r] \notin Opened /\ 0 \notin Opened
<1>1. /\ sid[r] = 0 /\ \A q \in Reqs : sid[q] # sid'[r]
  <2>1. CASE LoadId(r)
    <3>1. sid'[r] = lastStreamId /\ sid[r] = 0 /\ upc[r] = "load"
      BY <2>1 DEF LoadId, User, TypeOK, Numbers
    <3> QED
      BY <3>1 DEF Alone
  <2>2. CASE NextId(r)
    <3>1. sid'[r] = lastStreamId + 2 /\ sid[r] = 0
      BY <2>2 DEF NextId, User, TypeOK, Numbers
    <3>2. lastStreamId \in Nat /\ \A q \in Reqs : sid[q] \in Nat /\ sid[q] <= lastStreamId
      BY IdNumbers DEF Alone
    <3> QED
      BY <3>1, <3>2
  <2> QED
    BY <2>1, <2>2
<1>2. sid'[r] \notin Opened
  BY <1>1 DEF AllKnown, Known, Opened
<1>3. 0 \notin Opened
  <2>1. opened \in Seq(Ids) /\ 0 \notin Ids
    BY IdFacts DEF TypeOK
  <2> QED
    BY <2>1 DEF Opened, Range
<1> QED
  BY <1>1, <1>2, <1>3

\* The stream of the frame that is written is open then.
LEMMA SendFacts ==
  ASSUME TypeOK, Threads, Sent, WriterSend
  PROVE  /\ Opened' = Opened \cup {wframe.id}
         /\ wseen # "Idle" => wframe.id \in Opened
         /\ opened' = opened \/ (wframe.id \notin Opened /\ opened' = Append(opened, wframe.id))
<1>1. wframe.id \in Ids /\ opened \in Seq(Ids) /\ wpc = "update" /\ Writable(wseen, wframe)
      /\ opened' = IF wseen = "Idle" THEN Append(opened, wframe.id) ELSE opened
  BY DEF WriterSend, Threads, Frames, TypeOK
<1>2. CASE wseen = "Idle"
  <2>1. Range(Append(opened, wframe.id)) = Range(opened) \cup {wframe.id}
    BY <1>1, AppendRange
  <2> QED
    BY <1>1, <1>2, <2>1 DEF Sent, Opened
<1>3. CASE wseen # "Idle"
  <2>1. wframe.id \in Opened
    BY <1>1, <1>3 DEF Writable, Sent
  <2>2. opened' = opened
    BY <1>1, <1>3
  <2>3. Opened' = Opened
    BY <2>2 DEF Opened
  <2> QED
    BY <2>1, <2>2, <2>3
<1> QED
  BY <1>2, <1>3

\* Between an id and the one after the next there is one id.
LEMMA NextIdIsOne ==
  ASSUME NEW last \in Ids \cup {0}, NEW x \in Ids, NEW y \in Ids,
         last < x, x <= last + 2, last < y, y <= last + 2
  PROVE  x = y
<1>1. PICK i \in 1 .. Cardinality(Reqs) : x = 2 * i - 1
  BY IdFacts
<1>2. PICK j \in 1 .. Cardinality(Reqs) : y = 2 * j - 1
  BY IdFacts
<1>3. \/ last = 0
      \/ \E k \in 1 .. Cardinality(Reqs) : last = 2 * k - 1
  BY IdFacts
<1>4. i \in Nat /\ j \in Nat
  BY IdFacts
<1>5. CASE last = 0
  BY <1>1, <1>2, <1>4, <1>5
<1>6. ASSUME NEW k \in 1 .. Cardinality(Reqs), last = 2 * k - 1 PROVE x = y
  BY <1>1, <1>2, <1>4, <1>6, IdFacts
<1> QED
  BY <1>3, <1>5, <1>6

\* What a frame that goes out does to the streams that are open.
LEMMA SendRanks ==
  ASSUME TypeOK, Ranks, NEW id \in Ids, id <= lastSendId + 2,
         Opened' = Opened \cup {id}, opened' = opened \/ (id \notin Opened /\ opened' = Append(opened, id)),
         lastSendId' = lastSendId \/ (lastSendId < id /\ lastSendId' = id)
  PROVE  Ranks'
<1>0. lastSendId \in Ids \cup {0} /\ opened \in Seq(Ids) /\ Ids \subseteq Nat /\ lastSendId \in Nat
  BY IdFacts, IdNumbers DEF TypeOK
<1>9. Opened \subseteq Ids /\ \A i \in DOMAIN opened : opened[i] \in Opened /\ opened[i] \in Ids
  BY OpenedIds
<1>1. ASSUME NEW x \in Ids, x <= lastSendId' PROVE x \in Opened'
  <2>1. CASE x <= lastSendId
    BY <2>1 DEF Ranks
  <2>2. CASE ~ (x <= lastSendId)
    <3>1. lastSendId' = id /\ lastSendId < id /\ lastSendId < x /\ x <= lastSendId + 2
      BY <1>0, <1>1, <2>2
    <3>2. x = id
      BY <1>0, <3>1, NextIdIsOne
    <3> QED
      BY <3>2
  <2> QED
    BY <2>1, <2>2
<1>2. ASSUME NEW x \in Opened' PROVE x <= lastSendId' + 2
  <2>1. x \in Nat /\ x <= lastSendId + 2
    <3>1. x \in Ids /\ (x \in Opened \/ x = id)
      BY <1>2, <1>9
    <3> QED
      BY <1>0, <3>1 DEF Ranks
  <2>2. lastSendId \in Nat /\ lastSendId' \in Nat /\ lastSendId <= lastSendId'
    BY <1>0
  <2> DEFINE a == lastSendId  b == lastSendId'
  <2>3. a \in Nat /\ b \in Nat /\ a <= b /\ x <= a + 2 /\ x \in Nat
    BY <2>1, <2>2
  <2> HIDE DEF a, b
  <2>4. x <= b + 2
    BY <2>3
  <2> QED
    BY <2>4 DEF b
<1>3. InOrder'
  <2>1. CASE opened' = opened
    BY <2>1 DEF Ranks, InOrder
  <2>2. CASE id \notin Opened /\ opened' = Append(opened, id)
    <3>1. \A i \in DOMAIN opened : opened[i] \in Opened /\ opened[i] \in Ids
      BY <1>9
    <3>2. lastSendId < id
      BY <1>0, <2>2 DEF Ranks
    <3>3. \A x \in Opened : x \in Ids => x < id
      <4> SUFFICES ASSUME NEW x \in Opened, x \in Ids, ~ (x < id) PROVE FALSE
        OBVIOUS
      <4>1. lastSendId < x /\ x <= lastSendId + 2
        BY <1>0, <3>2 DEF Ranks
      <4>2. x = id
        BY <1>0, <3>2, <4>1, NextIdIsOne
      <4> QED
        BY <2>2, <4>2
    <3>4. Len(opened') = Len(opened) + 1 /\ opened'[Len(opened) + 1] = id
          /\ \A i \in 1 .. Len(opened) : opened'[i] = opened[i]
      BY <1>0, <2>2, AppendAt
    <3>5. DOMAIN opened' = 1 .. Len(opened) + 1 /\ DOMAIN opened = 1 .. Len(opened) /\ Len(opened) \in Nat
      BY <1>0, <2>2
    <3>6. ASSUME NEW i \in DOMAIN opened', NEW j \in DOMAIN opened', i < j PROVE opened'[i] < opened'[j]
      <4> DEFINE n == Len(opened)
      <4>0. n \in Nat /\ i \in 1 .. n + 1 /\ j \in 1 .. n + 1 /\ i < j
        BY <3>5, <3>6
      <4> HIDE DEF n
      <4>9. i \in 1 .. n /\ (j \in 1 .. n \/ j = n + 1)
        BY <4>0
      <4>1. i \in DOMAIN opened /\ opened'[i] = opened[i] /\ (j \in DOMAIN opened \/ j = Len(opened) + 1)
        BY <3>4, <3>5, <4>9 DEF n
      <4>2. CASE j \in DOMAIN opened
        BY <3>4, <3>5, <3>6, <4>1, <4>2 DEF Ranks, InOrder
      <4>3. CASE j \notin DOMAIN opened
        <5>1. opened'[j] = id
          BY <3>4, <4>1, <4>3
        <5> QED
          BY <3>1, <3>3, <4>1, <5>1
      <4> QED
        BY <4>2, <4>3
    <3> QED
      BY <3>6 DEF InOrder
  <2> QED
    BY <2>1, <2>2
<1> QED
  BY <1>1, <1>2, <1>3 DEF Ranks

\* Without resets no thread has a frame of a stream beyond the next one to open.
LEMMA NextSent == "reset" \notin troubles /\ StreamInv /\ Sent /\ [Next]_vars => Sent'
<1> SUFFICES ASSUME "reset" \notin troubles /\ StreamInv /\ Sent, [Next]_vars PROVE Sent'
  OBVIOUS
<1>0. TypeOK /\ Threads /\ Numbers /\ Alone /\ Unique /\ AllKnown /\ StreamTypes /\ UserTypes /\ Sent
  BY DEF StreamInv, CountInv, TypeOK, UserTypes, StreamTypes
<1>1. ASSUME NEW r \in Reqs, Count(r) PROVE Sent'
  BY <1>0, <1>1 DEF Sent, Opened, Count, User, statusVars, queueVars, writeVars, readVars, wireVars,
       downVars
<1>2. ASSUME NEW r \in Reqs, Refuse(r) PROVE Sent'
  BY <1>0, <1>2 DEF Sent, Opened, Refuse, User, statusVars, queueVars, writeVars, readVars,
       wireVars, downVars
<1>3. ASSUME NEW r \in Reqs, FirstId(r) PROVE Sent'
  BY <1>0, <1>3 DEF Sent, Opened, FirstId, User, statusVars, queueVars, writeVars, readVars,
       wireVars, downVars
<1>4. ASSUME NEW r \in Reqs, LoadId(r) PROVE Sent'
  <2>1. UNCHANGED <<status, srv, control, rpc, rframe, wpc, wframe, wseen, lastSendId, opened>>
        /\ \A q \in Reqs : q # r => sid'[q] = sid[q]
    BY <1>0, <1>4 DEF LoadId, UserTypes, statusVars, wireVars, queueVars, readVars, writeVars
  <2>2. sid[r] = 0 /\ sid'[r] \notin Opened /\ 0 \notin Opened
    BY <1>0, <1>4, FreshId
  <2> QED
    BY <1>0, <2>1, <2>2 DEF Sent, Opened
<1>5. ASSUME NEW r \in Reqs, NextId(r) PROVE Sent'
  <2>1. UNCHANGED <<status, srv, control, rpc, rframe, wpc, wframe, wseen, lastSendId, opened>>
        /\ \A q \in Reqs : q # r => sid'[q] = sid[q]
    BY <1>0, <1>5 DEF NextId, UserTypes, statusVars, wireVars, queueVars, readVars, writeVars
  <2>2. sid[r] = 0 /\ sid'[r] \notin Opened /\ 0 \notin Opened
    BY <1>0, <1>5, FreshId
  <2> QED
    BY <1>0, <2>1, <2>2 DEF Sent, Opened
<1>6. ASSUME NEW r \in Reqs, MapStream(r) PROVE Sent'
  BY <1>0, <1>6 DEF Sent, Opened, MapStream, User, statusVars, queueVars, writeVars, readVars,
       wireVars, downVars
<1>7. ASSUME NEW r \in Reqs, OpenConn(r) PROVE Sent'
  BY <1>0, <1>7 DEF Sent, Opened, OpenConn, User, engineVars, statusVars, queueVars, writeVars,
       readVars, wireVars, downVars
<1>8. ASSUME NEW r \in Reqs, Write(r) PROVE Sent'
  BY <1>0, <1>8 DEF Sent, Opened, Write, User, engineVars, statusVars, writeVars, readVars,
       wireVars, downVars
<1>9. ASSUME NEW r \in Reqs, WriteFails(r) PROVE Sent'
  BY <1>0, <1>9 DEF Sent, Opened, WriteFails, User, engineVars, statusVars, queueVars, writeVars,
       readVars, wireVars, downVars
<1>10. ASSUME NEW r \in Reqs, Response(r) PROVE Sent'
  BY <1>0, <1>10 DEF Sent, Opened, Response, User, engineVars, statusVars, queueVars, writeVars,
       readVars, wireVars, downVars
<1>11. ASSUME NEW r \in Reqs, NoResponse(r) PROVE Sent'
  BY <1>0, <1>11 DEF Sent, Opened, NoResponse, User, engineVars, statusVars, queueVars, writeVars,
       readVars, wireVars, downVars
<1>12. ASSUME NEW r \in Reqs, Reset(r) PROVE Sent'
  BY <1>12 DEF Reset
<1>13. CASE PeerClose
  BY <1>0, <1>13 DEF Sent, Opened, PeerClose, Fatal, engineVars, userVars, statusVars, queueVars,
       writeVars, readVars, wireVars
<1>14. CASE ShutdownStep
  <2>1. Range(control') \subseteq Range(control)
    BY <1>14, EmptyRange DEF ShutdownStep, queueVars
  <2> QED
    BY <1>0, <1>14, <2>1 DEF Sent, Opened, ShutdownStep, userVars, statusVars, writeVars, readVars, wireVars
<1>15. CASE ShutdownStreams
  <2>1. \A q \in Reqs : status'[q] \in {status[q], "Closed"}
    BY <1>15 DEF ShutdownStreams
  <2> QED
    BY <1>0, <1>15, <2>1 DEF Sent, Opened, ShutdownStreams, userVars, queueVars, writeVars, readVars, wireVars
<1>16. CASE WriterDrop
  <2>1. Range(control') \subseteq Range(control)
    BY <1>0, <1>16, TakenFacts DEF WriterDrop
  <2> QED
    BY <1>0, <1>16, <2>1 DEF Sent, Opened, WriterDrop, userVars, statusVars, readVars, wireVars
<1>17. CASE WriterCache
  BY <1>0, <1>17 DEF Sent, Opened, WriterCache, engineVars, userVars, statusVars, readVars,
       wireVars, downVars
<1>18. CASE WriterTake
  <2>1. /\ Range(control') \subseteq Range(control)
        /\ (Taken \in Range(control) \cup Range(message) \/ (Cached(lastSendId + 2) /\ Taken \in Range(cacheMap[lastSendId + 2])))
        /\ Taken \in Frames
    BY <1>0, <1>18, TakenFacts DEF WriterTake
  <2>2. Taken.type = "rst" => Taken \in Range(control)
    BY <1>0, <2>1 DEF Threads, Contents, Cached
  <2>3. Taken.id \in Nat /\ lastSendId \in Nat
    BY <1>0, <2>1, IdFacts, IdNumbers DEF Frames
  <2>4. Taken.type # "rst" => Taken.id <= lastSendId + 2
    BY <1>18, <2>3 DEF WriterTake, Early
  <2>5. IF Taken.type = "rst" THEN Taken.id \in Opened ELSE Taken.id <= lastSendId + 2
    BY <1>0, <2>2, <2>4 DEF Sent
  <2>6. wpc' = "match" /\ wframe' = Taken /\ UNCHANGED <<status, sid, srv, rpc, rframe, lastSendId, opened>>
    BY <1>18 DEF WriterTake, userVars, statusVars, readVars, wireVars
  <2> QED
    BY <1>0, <2>1, <2>5, <2>6 DEF Sent, Opened
<1>19. CASE WriterMatch
  <2>1. /\ wpc = "match" /\ wpc' = "update" /\ wseen' = status[wreq] /\ wreq \in Reqs /\ sid[wreq] = wframe.id
        /\ UNCHANGED <<status, sid, srv, control, rpc, rframe, wframe, lastSendId, opened>>
    BY <1>0, <1>19 DEF WriterMatch, Threads, AllKnown, userVars, statusVars, readVars, wireVars, queueVars
  <2> QED
    BY <1>0, <2>1 DEF Sent, Opened
<1>20. CASE WriterSend
  <2>1. /\ wpc = "update" /\ wpc' = "take" /\ UNCHANGED <<sid, rpc, rframe, control>>
        /\ wreq \in Reqs /\ sid[wreq] = wframe.id /\ wframe.id \in Ids /\ sid[wreq] # 0
    BY <1>0, <1>20, IdFacts DEF WriterSend, Threads, AllKnown, Frames, userVars, readVars, queueVars
  <2>2. /\ Opened' = Opened \cup {wframe.id}
        /\ wseen # "Idle" => wframe.id \in Opened
    BY <1>0, <1>20, SendFacts
  <2>3. status'[wreq] # "Idle" /\ \A q \in Reqs : q # wreq => status'[q] = status[q]
    <3> DEFINE to == AfterWrite(wseen, wframe)
    <3>1. to # "Idle"
      BY DEF AfterWrite
    <3>2. CASE to = wseen
      <4>1. wframe.id \in Opened /\ status' = status
        BY <1>20, <2>2, <3>1, <3>2 DEF WriterSend, Assign, statusVars
      <4> QED
        BY <1>0, <2>1, <4>1 DEF Sent
    <3>3. CASE to # wseen
      <4>1. status' = [status EXCEPT ![wreq] = to]
        BY <1>20, <3>3 DEF WriterSend, Assign
      <4> QED
        BY <1>0, <2>1, <3>1, <4>1 DEF StreamTypes
    <3> QED
      BY <3>2, <3>3
  <2>4. \A q \in Reqs : q # wreq => sid[q] # wframe.id
    BY <1>0, <2>1 DEF Unique
  <2>5. \A id \in Ids : srv'[id] # "idle" => srv[id] # "idle" \/ id = wframe.id
    BY <1>20 DEF WriterSend, TypeOK
  <2> QED
    BY <1>0, <2>1, <2>2, <2>3, <2>4, <2>5 DEF Sent
<1>21. CASE WriterRefuse
  BY <1>0, <1>21 DEF Sent, Opened, WriterRefuse, Fatal, WriterDone, engineVars, userVars,
       statusVars, queueVars, readVars, wireVars
<1>22. CASE WriterReset
  <2>1. /\ UNCHANGED <<sid, srv, opened, control>> /\ wreq \in Reqs /\ sid[wreq] = wframe.id
        /\ status' = [status EXCEPT ![wreq] = "Closed"]
    BY <1>0, <1>22 DEF WriterReset, Threads, AllKnown, userVars, queueVars, wireVars
  <2>2. \A q \in Reqs : status'[q] \in {status[q], "Closed"}
    BY <1>0, <2>1 DEF StreamTypes
  <2>3. wpc' = "take" /\ UNCHANGED <<rpc, rframe>>
    BY <1>22 DEF WriterReset, readVars, writeVars
  <2> QED
    BY <1>0, <2>1, <2>2, <2>3 DEF Sent, Opened
<1>23. CASE ReadFrame
  <2>1. PICK id \in Ids : \E f \in ServerFrames(id) :
          /\ srv' = [srv EXCEPT ![id] = IF f.type = "rst" THEN "reset" ELSE IF f.end THEN "done" ELSE "headers"]
          /\ IF streams[id] = NoReq THEN UNCHANGED <<rpc, rframe, rreq>>
             ELSE rpc' = "match" /\ rframe' = f /\ rreq' = streams[id]
    BY <1>23 DEF ReadFrame
  <2>2. \A f \in ServerFrames(id) : f.id = id /\ srv[id] # "idle"
    BY ServerFrameFacts
  <2>3. id \in Opened
    BY <1>0, <2>1, <2>2 DEF Sent
  <2>4. \A x \in Ids : srv'[x] # "idle" => x \in Opened
    BY <1>0, <2>1, <2>3 DEF Sent, TypeOK
  <2>5. rpc' \in {"match", "update"} => rframe'.id \in Opened
    BY <1>0, <2>1, <2>2, <2>3 DEF Sent
  <2>6. UNCHANGED <<status, sid, control, wpc, wframe, wseen, lastSendId, opened>>
    BY <1>23 DEF ReadFrame, userVars, statusVars, writeVars, queueVars
  <2> QED
    BY <1>0, <2>4, <2>5, <2>6 DEF Sent, Opened
<1>24. CASE ReadMatch
  BY <1>0, <1>24 DEF Sent, Opened, ReadMatch, engineVars, userVars, statusVars, queueVars,
       writeVars, wireVars, downVars
<1>25. CASE ReadResponse
  <2>1. /\ rpc = "update" /\ rpc' = "read" /\ rreq \in Reqs /\ sid[rreq] = rframe.id
        /\ UNCHANGED <<sid, srv, opened, control, wpc, wframe, wseen, lastSendId>>
    BY <1>0, <1>25 DEF ReadResponse, Threads, AllKnown, queueVars, writeVars, wireVars
  <2>2. sid[rreq] \in Opened
    BY <1>0, <2>1 DEF Sent
  <2>3. \A q \in Reqs : status'[q] = status[q] \/ (q = rreq /\ status'[q] \in {"HalfClosedRemote", "Closed"})
    <3> DEFINE to == AfterRead(rseen, rframe)
    <3>1. CASE to = rseen
      BY <1>25, <3>1 DEF ReadResponse, Assign, statusVars
    <3>2. CASE to # rseen
      <4>1. status' = [status EXCEPT ![rreq] = to] /\ to \in {"HalfClosedRemote", "Closed"}
        BY <1>25, <3>2 DEF ReadResponse, Assign, AfterRead
      <4> QED
        BY <1>0, <4>1 DEF StreamTypes
    <3> QED
      BY <3>1, <3>2
  <2> QED
    BY <1>0, <2>1, <2>2, <2>3 DEF Sent, Opened
<1>26. CASE ReadRefuse
  <2>1. Range(control') \subseteq Range(control) \cup {Frame(rframe.id, "rst", FALSE)}
    BY <1>0, <1>26, RefuseFacts
  <2>2. Frame(rframe.id, "rst", FALSE).id = rframe.id /\ rframe.id \in Opened
    BY <1>0, <1>26 DEF Frame, Sent, ReadRefuse
  <2>3. \A f \in Range(control') : f.id \in Opened
    BY <1>0, <2>1, <2>2 DEF Sent
  <2>4. rpc' \in {"read", "dead"} /\ UNCHANGED <<status, sid, srv, wpc, wframe, wseen, lastSendId, opened>>
    BY <1>26 DEF ReadRefuse, userVars, statusVars, writeVars, wireVars
  <2> QED
    BY <1>0, <2>3, <2>4 DEF Sent, Opened
<1>27. CASE ReadReset
  <2>1. /\ UNCHANGED <<sid, srv, opened, control>> /\ rreq \in Reqs /\ sid[rreq] = rframe.id
        /\ status' = [status EXCEPT ![rreq] = "Closed"]
    BY <1>0, <1>27 DEF ReadReset, Threads, AllKnown, userVars, queueVars, wireVars
  <2>2. \A q \in Reqs : status'[q] \in {status[q], "Closed"}
    BY <1>0, <2>1 DEF StreamTypes
  <2>3. rpc' = "read" /\ UNCHANGED <<wpc, wframe, wseen, lastSendId>>
    BY <1>27 DEF ReadReset, readVars, writeVars
  <2> QED
    BY <1>0, <2>1, <2>2, <2>3 DEF Sent, Opened
<1>28. CASE UNCHANGED vars
  BY <1>0, <1>28 DEF Sent, Opened, vars, engineVars, userVars, statusVars, queueVars, writeVars,
       readVars, wireVars, downVars
<1> QED
  BY <1>1, <1>2, <1>3, <1>4, <1>5, <1>6, <1>7, <1>8, <1>9, <1>10, <1>11, <1>12, <1>13,
        <1>14, <1>15, <1>16, <1>17, <1>18, <1>19, <1>20, <1>21, <1>22, <1>23, <1>24, <1>25, <1>26,
        <1>27, <1>28
     DEF Next, Requesting, Writing, Reading, Shutting

\* Without resets streams are opened one after the other.
LEMMA NextRanks == "reset" \notin troubles /\ StreamInv /\ Sent /\ Ranks /\ [Next]_vars => Ranks'
<1> SUFFICES ASSUME "reset" \notin troubles /\ StreamInv /\ Sent /\ Ranks, [Next]_vars PROVE Ranks'
  OBVIOUS
<1>0. TypeOK /\ Threads /\ Numbers /\ Alone /\ Unique /\ AllKnown /\ StreamTypes /\ UserTypes /\ Sent /\ Ranks
  BY DEF StreamInv, CountInv, TypeOK, UserTypes, StreamTypes
<1>1. ASSUME NEW r \in Reqs, Count(r) PROVE Ranks'
  BY <1>0, <1>1 DEF Ranks, Opened, InOrder, Count, User, statusVars, queueVars, writeVars, readVars,
       wireVars, downVars
<1>2. ASSUME NEW r \in Reqs, Refuse(r) PROVE Ranks'
  BY <1>0, <1>2 DEF Ranks, Opened, InOrder, Refuse, User, statusVars, queueVars, writeVars,
       readVars, wireVars, downVars
<1>3. ASSUME NEW r \in Reqs, FirstId(r) PROVE Ranks'
  BY <1>0, <1>3 DEF Ranks, Opened, InOrder, FirstId, User, statusVars, queueVars, writeVars,
       readVars, wireVars, downVars
<1>4. ASSUME NEW r \in Reqs, LoadId(r) PROVE Ranks'
  BY <1>0, <1>4 DEF Ranks, Opened, InOrder, LoadId, User, engineVars, statusVars, queueVars,
       writeVars, readVars, wireVars, downVars
<1>5. ASSUME NEW r \in Reqs, NextId(r) PROVE Ranks'
  BY <1>0, <1>5 DEF Ranks, Opened, InOrder, NextId, User, statusVars, queueVars, writeVars,
       readVars, wireVars, downVars
<1>6. ASSUME NEW r \in Reqs, MapStream(r) PROVE Ranks'
  BY <1>0, <1>6 DEF Ranks, Opened, InOrder, MapStream, User, statusVars, queueVars, writeVars,
       readVars, wireVars, downVars
<1>7. ASSUME NEW r \in Reqs, OpenConn(r) PROVE Ranks'
  BY <1>0, <1>7 DEF Ranks, Opened, InOrder, OpenConn, User, engineVars, statusVars, queueVars,
       writeVars, readVars, wireVars, downVars
<1>8. ASSUME NEW r \in Reqs, Write(r) PROVE Ranks'
  BY <1>0, <1>8 DEF Ranks, Opened, InOrder, Write, User, engineVars, statusVars, writeVars,
       readVars, wireVars, downVars
<1>9. ASSUME NEW r \in Reqs, WriteFails(r) PROVE Ranks'
  BY <1>0, <1>9 DEF Ranks, Opened, InOrder, WriteFails, User, engineVars, statusVars, queueVars,
       writeVars, readVars, wireVars, downVars
<1>10. ASSUME NEW r \in Reqs, Response(r) PROVE Ranks'
  BY <1>0, <1>10 DEF Ranks, Opened, InOrder, Response, User, engineVars, statusVars, queueVars,
       writeVars, readVars, wireVars, downVars
<1>11. ASSUME NEW r \in Reqs, NoResponse(r) PROVE Ranks'
  BY <1>0, <1>11 DEF Ranks, Opened, InOrder, NoResponse, User, engineVars, statusVars, queueVars,
       writeVars, readVars, wireVars, downVars
<1>12. ASSUME NEW r \in Reqs, Reset(r) PROVE Ranks'
  BY <1>0, <1>12 DEF Ranks, Opened, InOrder, Reset, engineVars, userVars, statusVars, writeVars,
       readVars, wireVars, downVars
<1>13. CASE PeerClose
  BY <1>0, <1>13 DEF Ranks, Opened, InOrder, PeerClose, Fatal, engineVars, userVars, statusVars,
       queueVars, writeVars, readVars, wireVars
<1>14. CASE ShutdownStep
  BY <1>0, <1>14 DEF Ranks, Opened, InOrder, ShutdownStep, engineVars, userVars, statusVars,
       queueVars, writeVars, readVars, wireVars
<1>15. CASE ShutdownStreams
  BY <1>0, <1>15 DEF Ranks, Opened, InOrder, ShutdownStreams, engineVars, userVars, queueVars,
       writeVars, readVars, wireVars
<1>16. CASE WriterDrop
  BY <1>0, <1>16 DEF Ranks, Opened, InOrder, WriterDrop, Take, engineVars, userVars, statusVars,
       readVars, wireVars, downVars
<1>17. CASE WriterCache
  BY <1>0, <1>17 DEF Ranks, Opened, InOrder, WriterCache, engineVars, userVars, statusVars,
       readVars, wireVars, downVars
<1>18. CASE WriterTake
  BY <1>0, <1>18 DEF Ranks, Opened, InOrder, WriterTake, Take, engineVars, userVars, statusVars,
       readVars, wireVars, downVars
<1>19. CASE WriterMatch
  BY <1>0, <1>19 DEF Ranks, Opened, InOrder, WriterMatch, engineVars, userVars, statusVars,
       queueVars, readVars, wireVars, downVars
<1>20. CASE WriterSend
  <2>1. wframe.id \in Ids /\ wframe.id <= lastSendId + 2
    BY <1>0, <1>20 DEF WriterSend, Threads, Frames, Sent
  <2>2. /\ Opened' = Opened \cup {wframe.id}
        /\ opened' = opened \/ (wframe.id \notin Opened /\ opened' = Append(opened, wframe.id))
    BY <1>0, <1>20, SendFacts
  <2>3. lastSendId' = lastSendId \/ (lastSendId < wframe.id /\ lastSendId' = wframe.id)
    <3>1. wframe.id \in Nat /\ lastSendId \in Nat
      BY <1>0, <2>1, IdFacts, IdNumbers
    <3> QED
      BY <1>20, <3>1 DEF WriterSend, SentId
  <2> QED
    BY <1>0, <2>1, <2>2, <2>3, SendRanks
<1>21. CASE WriterRefuse
  BY <1>0, <1>21 DEF Ranks, Opened, InOrder, WriterRefuse, Fatal, WriterDone, engineVars, userVars,
       statusVars, queueVars, readVars, wireVars
<1>22. CASE WriterReset
  <2>1. wframe.id \in Ids /\ wframe.id \in Opened
    BY <1>0, <1>22 DEF WriterReset, Threads, Frames, Sent
  <2>2. lastSendId' = lastSendId \/ (lastSendId < wframe.id /\ lastSendId' = wframe.id)
    <3>1. wframe.id \in Nat /\ lastSendId \in Nat
      BY <1>0, <2>1, IdFacts, IdNumbers
    <3> QED
      BY <1>22, <3>1 DEF WriterReset, SentId
  <2>3. opened' = opened /\ wframe.id <= lastSendId + 2
    BY <1>0, <1>22, <2>1 DEF WriterReset, Ranks
  <2>4. Opened' = Opened \cup {wframe.id}
    BY <2>1, <2>3 DEF Opened
  <2>5. wframe.id \in Ids
    BY <2>1
  <2> QED
    BY <1>0, <2>2, <2>3, <2>4, <2>5, SendRanks
<1>23. CASE ReadFrame
  BY <1>0, <1>23 DEF Ranks, Opened, InOrder, ReadFrame, engineVars, userVars, statusVars, queueVars,
       writeVars, downVars
<1>24. CASE ReadMatch
  BY <1>0, <1>24 DEF Ranks, Opened, InOrder, ReadMatch, engineVars, userVars, statusVars, queueVars,
       writeVars, wireVars, downVars
<1>25. CASE ReadResponse
  BY <1>0, <1>25 DEF Ranks, Opened, InOrder, ReadResponse, Assign, Purge, ReaderDone, Deliver,
       queueVars, writeVars, wireVars, downVars
<1>26. CASE ReadRefuse
  BY <1>0, <1>26 DEF Ranks, Opened, InOrder, ReadRefuse, Fatal, ReaderDone, engineVars, userVars,
       statusVars, writeVars, wireVars
<1>27. CASE ReadReset
  BY <1>0, <1>27 DEF Ranks, Opened, InOrder, ReadReset, Purge, ReaderDone, userVars, queueVars,
       writeVars, wireVars, downVars
<1>28. CASE UNCHANGED vars
  BY <1>0, <1>28 DEF Ranks, Opened, InOrder, vars, engineVars, userVars, statusVars, queueVars,
       writeVars, readVars, wireVars, downVars
<1> QED
  BY <1>1, <1>2, <1>3, <1>4, <1>5, <1>6, <1>7, <1>8, <1>9, <1>10, <1>11, <1>12, <1>13,
        <1>14, <1>15, <1>16, <1>17, <1>18, <1>19, <1>20, <1>21, <1>22, <1>23, <1>24, <1>25, <1>26,
        <1>27, <1>28
     DEF Next, Requesting, Writing, Reading, Shutting

\* What may go wrong is settled at the beginning.
LEMMA NextTroubles == [Next]_vars => troubles' = troubles
<1> SUFFICES ASSUME [Next]_vars PROVE troubles' = troubles
  OBVIOUS
<1>1. ASSUME NEW r \in Reqs, Count(r) PROVE troubles' = troubles
  BY <1>1 DEF Count, User, statusVars, queueVars, writeVars, readVars, wireVars, downVars
<1>2. ASSUME NEW r \in Reqs, Refuse(r) PROVE troubles' = troubles
  BY <1>2 DEF Refuse, User, statusVars, queueVars, writeVars, readVars, wireVars, downVars
<1>3. ASSUME NEW r \in Reqs, FirstId(r) PROVE troubles' = troubles
  BY <1>3 DEF FirstId, User, statusVars, queueVars, writeVars, readVars, wireVars, downVars
<1>4. ASSUME NEW r \in Reqs, LoadId(r) PROVE troubles' = troubles
  BY <1>4 DEF LoadId, User, engineVars, statusVars, queueVars, writeVars, readVars, wireVars,
       downVars
<1>5. ASSUME NEW r \in Reqs, NextId(r) PROVE troubles' = troubles
  BY <1>5 DEF NextId, User, statusVars, queueVars, writeVars, readVars, wireVars, downVars
<1>6. ASSUME NEW r \in Reqs, MapStream(r) PROVE troubles' = troubles
  BY <1>6 DEF MapStream, User, statusVars, queueVars, writeVars, readVars, wireVars, downVars
<1>7. ASSUME NEW r \in Reqs, OpenConn(r) PROVE troubles' = troubles
  BY <1>7 DEF OpenConn, User, engineVars, statusVars, queueVars, writeVars, readVars, wireVars,
       downVars
<1>8. ASSUME NEW r \in Reqs, Write(r) PROVE troubles' = troubles
  BY <1>8 DEF Write, User, engineVars, statusVars, writeVars, readVars, wireVars, downVars
<1>9. ASSUME NEW r \in Reqs, WriteFails(r) PROVE troubles' = troubles
  BY <1>9 DEF WriteFails, User, engineVars, statusVars, queueVars, writeVars, readVars, wireVars,
       downVars
<1>10. ASSUME NEW r \in Reqs, Response(r) PROVE troubles' = troubles
  BY <1>10 DEF Response, User, engineVars, statusVars, queueVars, writeVars, readVars, wireVars,
       downVars
<1>11. ASSUME NEW r \in Reqs, NoResponse(r) PROVE troubles' = troubles
  BY <1>11 DEF NoResponse, User, engineVars, statusVars, queueVars, writeVars, readVars, wireVars,
       downVars
<1>12. ASSUME NEW r \in Reqs, Reset(r) PROVE troubles' = troubles
  BY <1>12 DEF Reset, engineVars, userVars, statusVars, writeVars, readVars, wireVars, downVars
<1>13. CASE PeerClose
  BY <1>13 DEF PeerClose, Fatal, engineVars, userVars, statusVars, queueVars, writeVars, readVars,
       wireVars
<1>14. CASE ShutdownStep
  BY <1>14 DEF ShutdownStep, engineVars, userVars, statusVars, queueVars, writeVars, readVars,
       wireVars
<1>15. CASE ShutdownStreams
  BY <1>15 DEF ShutdownStreams, engineVars, userVars, queueVars, writeVars, readVars, wireVars
<1>16. CASE WriterDrop
  BY <1>16 DEF WriterDrop, Take, engineVars, userVars, statusVars, readVars, wireVars, downVars
<1>17. CASE WriterCache
  BY <1>17 DEF WriterCache, engineVars, userVars, statusVars, readVars, wireVars, downVars
<1>18. CASE WriterTake
  BY <1>18 DEF WriterTake, Take, engineVars, userVars, statusVars, readVars, wireVars, downVars
<1>19. CASE WriterMatch
  BY <1>19 DEF WriterMatch, engineVars, userVars, statusVars, queueVars, readVars, wireVars,
       downVars
<1>20. CASE WriterSend
  BY <1>20 DEF WriterSend, Assign, Purge, WriterDone, userVars, queueVars, readVars, downVars
<1>21. CASE WriterRefuse
  BY <1>21 DEF WriterRefuse, Fatal, WriterDone, engineVars, userVars, statusVars, queueVars,
       readVars, wireVars
<1>22. CASE WriterReset
  BY <1>22 DEF WriterReset, Purge, WriterDone, userVars, queueVars, readVars, downVars
<1>23. CASE ReadFrame
  BY <1>23 DEF ReadFrame, engineVars, userVars, statusVars, queueVars, writeVars, downVars
<1>24. CASE ReadMatch
  BY <1>24 DEF ReadMatch, engineVars, userVars, statusVars, queueVars, writeVars, wireVars, downVars
<1>25. CASE ReadResponse
  BY <1>25 DEF ReadResponse, Assign, Purge, ReaderDone, Deliver, queueVars, writeVars, wireVars,
       downVars
<1>26. CASE ReadRefuse
  BY <1>26 DEF ReadRefuse, Fatal, ReaderDone, engineVars, userVars, statusVars, writeVars, wireVars
<1>27. CASE ReadReset
  BY <1>27 DEF ReadReset, Purge, ReaderDone, userVars, queueVars, writeVars, wireVars, downVars
<1>28. CASE UNCHANGED vars
  BY <1>28 DEF vars, engineVars, userVars, statusVars, queueVars, writeVars, readVars, wireVars,
       downVars
<1> QED
  BY <1>1, <1>2, <1>3, <1>4, <1>5, <1>6, <1>7, <1>8, <1>9, <1>10, <1>11, <1>12, <1>13,
        <1>14, <1>15, <1>16, <1>17, <1>18, <1>19, <1>20, <1>21, <1>22, <1>23, <1>24, <1>25, <1>26,
        <1>27, <1>28
     DEF Next, Requesting, Writing, Reading, Shutting

\* When the first request begins alone and no stream is reset by its timer,
\* headers go out in the order of the ids, whatever the order in which the
\* user threads write them.
THEOREM HeadersKeepOrder == FirstAlone => (Spec => []OpenedInOrder)
<1> SUFFICES ASSUME FirstAlone PROVE Spec => []OpenedInOrder
  OBVIOUS
<1>1. Init => OrderInv
  <2> SUFFICES ASSUME Init PROVE StreamInv /\ Sent /\ Ranks
    BY DEF OrderInv
  <2>1. StreamInv
    BY InitReleased DEF ReleaseInv
  <2>2. /\ opened = << >> /\ control = << >> /\ lastSendId = 0 /\ wpc = "take" /\ rpc = "read"
        /\ \A r \in Reqs : status[r] = "Idle"
        /\ \A id \in Ids : srv[id] = "idle"
    BY DEF Init
  <2>3. Opened = {} /\ Range(control) = {}
    BY <2>2, EmptyRange DEF Opened
  <2>4. Sent
    BY <2>2, <2>3 DEF Sent
  <2>5. \A id \in Ids : ~ (id <= 0)
    BY IdFacts
  <2>6. Ranks
    BY <2>2, <2>3, <2>5 DEF Ranks, InOrder
  <2> QED
    BY <2>1, <2>4, <2>6
<1>2. OrderInv /\ [Next]_vars => OrderInv'
  <2> SUFFICES ASSUME OrderInv, [Next]_vars PROVE OrderInv'
    OBVIOUS
  <2>1. StreamInv'
    BY NextStreams DEF OrderInv
  <2>2. troubles' = troubles
    BY NextTroubles
  <2>3. "reset" \notin troubles => Sent' /\ Ranks'
    BY NextSent, NextRanks DEF OrderInv
  <2> QED
    BY <2>1, <2>2, <2>3 DEF OrderInv
<1>3. OrderInv => OpenedInOrder
  BY DEF OrderInv, Ranks, OpenedInOrder
<1> QED
  BY <1>1, <1>2, <1>3, PTL DEF Spec

-----------------------------------------------------------------------------
(* The frames of one stream, from the request to the wire.                   *)

\* The place of a frame in its request; the last one has the end.
Rank(f) == IF f.end THEN 3 ELSE IF f.type = "fields" THEN 1 ELSE 2

\* The frames of a stream that are cached and will be taken, wait in message and
\* are still to be written; the cache of a stream that a reset overtook is never
\* read again.
CachedOf(r) == IF sid[r] > lastSendId + 1 THEN Range(cacheMap[sid[r]]) ELSE {}
WaitingOf(r) == {f \in Range(message) : f.id = sid[r]}
ToWrite(r) == IF input[r] = "quit" THEN {} ELSE Range(todo[r])
Rest(r) == CachedOf(r) \cup WaitingOf(r) \cup ToWrite(r)

\* The write thread has a frame of the stream: its reset, or one of the request.
AtHand(r) == wpc \in {"match", "update"} /\ wframe.id = sid[r]
InHand(r) == IF AtHand(r) /\ wframe.type # "rst" THEN {wframe} ELSE {}

\* No frame of the stream is taken any more.
Gone(r) == streams[sid[r]] # r \/ down >= 2 \/ wpc = "dead"
Stuck(r) == cacheMap[sid[r]] # << >> /\ sid[r] <= lastSendId + 1

Ascends(s, id) ==
  \A i, j \in DOMAIN s : i < j /\ s[i].id = id /\ s[j].id = id => Rank(s[i]) < Rank(s[j])
Precede(A, B) == \A f \in A, g \in B : Rank(f) < Rank(g)

\* Wherever they are, the frames are in the order they were written.
Row(H, C, M, T) == /\ Precede(H, C \cup M \cup T)
                   /\ Precede(C, M) /\ Precede(C, T) /\ Precede(M, T)
Lined(r) ==
  /\ Ascends(message, sid[r]) /\ Ascends(cacheMap[sid[r]], sid[r]) /\ Ascends(todo[r], sid[r])
  /\ Row(InHand(r), CachedOf(r), WaitingOf(r), ToWrite(r))

None == << >>
Fields == <<"fields">>
Body == <<"fields", "data">>
Whole == <<"fields", "data", "fields">>
Uncut == {None, Fields, Body, Whole}
Cut == {<<"fields", "rst">>, <<"fields", "data", "rst">>, <<"fields", "data", "fields", "rst">>}

\* The frames of P are to be sent after w; Q has, besides, the one in hand.
Follow(P, Q, w, stuck) ==
  /\ \A f, g \in Q : f.type = "data" /\ g.type = "data" => Rank(f) = Rank(g)
  /\ \A f \in P :
       /\ w \in {None, Fields, Body}
       /\ Rank(f) = 1 => w = None
       /\ f.type = "data" => w # Body
       /\ f.type = "data" /\ w = None => stuck \/ \E g \in Q : Rank(g) = 1
       /\ f.type = "fields" /\ Rank(f) = 3 /\ (w = Fields \/ \E g \in Q : Rank(g) = 1) =>
            \E g \in Q : Rank(g) = 2

Fits(r) == Lined(r) /\ Follow(Rest(r), Rest(r) \cup InHand(r), wire[sid[r]], Stuck(r))

\* The frame in hand is the next, unless data of a stream that is stuck.
HandFits(r) ==
  \A f \in InHand(r) :
    /\ Rank(f) = 1 => wire[sid[r]] = None
    /\ f.type = "data" => wire[sid[r]] \in {None, Fields}
    /\ f.type = "data" /\ wire[sid[r]] = None => Stuck(r) \/ Gone(r)
    /\ f.type = "fields" /\ Rank(f) = 3 => wire[sid[r]] \in {None, Body}

\* The status leaves Idle with the first frame, and the request is half closed
\* with the last one.
StatusFits(r) ==
  /\ wire[sid[r]] # None => status[r] # "Idle"
  /\ status[r] # "Idle" => wire[sid[r]] # None \/ down >= 3 \/ (streams[sid[r]] # r /\ ~ AtHand(r))
  /\ status[r] = "HalfClosedLocal" => Gone(r) \/ (Rest(r) = {} /\ InHand(r) = {})
  /\ status[r] = "Closed" => streams[sid[r]] # r \/ down = 4

\* So does the status that the write thread has read.
SeenFits(r) ==
  AtHand(r) /\ wpc = "update" =>
    /\ wseen = "Idle" => wire[sid[r]] = None
    /\ wseen # "Idle" => status[r] # "Idle" /\ (wire[sid[r]] # None \/ down >= 3)
    /\ wseen = "HalfClosedLocal" => Gone(r) \/ InHand(r) = {}
    /\ wseen = "Closed" => Gone(r)

WireFits(r) ==
  /\ wire[sid[r]] \in Uncut \cup Cut
  /\ wire[sid[r]] \in Cut => streams[sid[r]] # r /\ ~ AtHand(r)
  /\ wire[sid[r]] # None \/ InHand(r) # {} => sid[r] <= lastSendId + 2

Begins(r) == upc[r] \in Started /\ sid[r] # 0

Untouched ==
  /\ \A id \in Ids : wire[id] # None => Known(id)
  /\ \A id \in Ids : srv[id] # "idle" => wire[id] # None \/ down >= 3
  /\ rpc \in {"match", "update"} => srv[rframe.id] # "idle"
  /\ \A r \in Reqs : upc[r] \notin Started => todo[r] = << >>

Kept(r) == (Gone(r) \/ Fits(r)) /\ HandFits(r) /\ StatusFits(r) /\ SeenFits(r) /\ WireFits(r)

FrameInv == Untouched /\ \A r \in Reqs : Begins(r) => Kept(r)

-----------------------------------------------------------------------------
(* The end of a stream.                                                      *)

ResetComes(r) == (\E f \in Range(control) : f.id = sid[r]) \/ (AtHand(r) /\ wframe.type = "rst")
OnRead(r) == rpc \in {"match", "update"} /\ rframe.id = sid[r]

\* The stream is purged, or the connection ends.
Lost(r) == cause # "none" \/ streams[sid[r]] # r

\* A queue is quit with a reset, which comes, or when its stream is lost.
Quits(r) == input[r] = "quit" => Lost(r) \/ ResetComes(r)

\* A user waits when all is written; the end is the last that is read.
AllWrote(r) == upc[r] \in {"wait", "done"} => todo[r] = << >>
LastRead(r) == OnRead(r) /\ srv[sid[r]] = "done" => rframe.end

Exempt(r) == r \in overwritten \/ Lost(r)

\* The read thread has half closed the stream on the server's end, unless a
\* reset comes; the end of the request is to come, has met a dead cache, or
\* has half closed the stream.
Answered(r) == srv[sid[r]] = "done" /\ ~ OnRead(r) => status[r] = "HalfClosedRemote" \/ ResetComes(r)
EndToCome(r) == \E f \in Rest(r) \cup InHand(r) : f.end
Asks(r) == upc[r] \in {"write", "wait", "done"} /\ input[r] # "quit"
Asked(r) == Asks(r) => EndToCome(r) \/ Stuck(r) \/ status[r] = "HalfClosedLocal"

Causes == /\ outClosed => down >= 2
          /\ down > 0 \/ wpc = "dead" \/ rpc = "dead" => cause # "none"

Ends(r) == Quits(r) /\ AllWrote(r) /\ LastRead(r) /\ (Exempt(r) \/ (Answered(r) /\ Asked(r)))

EndInv == Causes /\ \A r \in Reqs : Begins(r) => Ends(r)

\* The ranks of frames.
LEMMA RankFacts ==
  ASSUME NEW f \in Frames
  PROVE  /\ Rank(f) \in 1 .. 3 /\ f.id \in Ids /\ f.type \in {"fields", "data", "rst"} /\ f.end \in BOOLEAN
         /\ f.end <=> Rank(f) = 3
         /\ f.type # "rst" /\ Rank(f) = 2 => f.type = "data"
         /\ Rank(f) = 1 => f.type = "fields"
BY DEF Frames, Rank

\* One more element of a short sequence.
LEMMA OneMore ==
  ASSUME NEW T, NEW s \in Seq(T), NEW x \in T
  PROVE  /\ Len(s) = 0 => Append(s, x) = <<x>>
         /\ Len(s) = 1 => Append(s, x) = <<s[1], x>>
         /\ Len(s) = 2 => Append(s, x) = <<s[1], s[2], x>>
         /\ Len(s) = 3 => Append(s, x) = <<s[1], s[2], s[3], x>>
<1> DEFINE t == Append(s, x)
           n == Len(s)
<1>1. /\ n \in Nat /\ DOMAIN t = 1 .. n + 1 /\ t[n + 1] = x /\ \A i \in 1 .. n : t[i] = s[i]
      /\ t \in Seq(T) /\ Len(t) = n + 1
  BY AppendAt
<1>2. t = [i \in 1 .. n + 1 |-> t[i]]
  <2> HIDE DEF t, n
  <2> QED
    BY <1>1
<1> HIDE DEF t, n
<1>3. n = 0 => t = <<x>>
  BY <1>1, <1>2
<1>4. n = 1 => t = <<s[1], x>>
  BY <1>1, <1>2
<1>5. n = 2 => t = <<s[1], s[2], x>>
  BY <1>1, <1>2
<1>6. n = 3 => t = <<s[1], s[2], s[3], x>>
  BY <1>1, <1>2
<1> QED
  BY <1>3, <1>4, <1>5, <1>6 DEF t, n

\* What can be on the wire of a stream, and what one more frame makes of it.
LEMMA ShapesDiffer ==
  /\ None \notin {Fields, Body, Whole} /\ Fields \notin {Body, Whole} /\ Body # Whole
  /\ \A w \in Cut : w \notin Uncut
  /\ Append(None, "fields") = Fields /\ Append(Fields, "data") = Body /\ Append(Body, "fields") = Whole
  /\ Append(Fields, "rst") \in Cut /\ Append(Body, "rst") \in Cut /\ Append(Whole, "rst") \in Cut
<1> DEFINE T == {"fields", "data", "rst"}
           c1 == <<"fields", "rst">>
           c2 == <<"fields", "data", "rst">>
           c3 == <<"fields", "data", "fields", "rst">>
<1>1. /\ None \in Seq(T) /\ Len(None) = 0
      /\ Fields \in Seq(T) /\ Len(Fields) = 1 /\ Fields[1] = "fields"
      /\ Body \in Seq(T) /\ Len(Body) = 2 /\ Body[1] = "fields" /\ Body[2] = "data"
      /\ Whole \in Seq(T) /\ Len(Whole) = 3 /\ Whole[1] = "fields" /\ Whole[2] = "data" /\ Whole[3] = "fields"
  BY DEF None, Fields, Body, Whole
<1>2. /\ Append(None, "fields") = <<"fields">> /\ Append(Fields, "data") = <<"fields", "data">>
      /\ Append(Body, "fields") = <<"fields", "data", "fields">>
      /\ Append(Fields, "rst") = c1 /\ Append(Body, "rst") = c2 /\ Append(Whole, "rst") = c3
  <2>1. Append(None, "fields") = <<"fields">>
    BY <1>1, OneMore
  <2>2. \A x \in T : Append(Fields, x) = <<"fields", x>>
    BY <1>1, OneMore
  <2>3. \A x \in T : Append(Body, x) = <<"fields", "data", x>>
    BY <1>1, OneMore
  <2>4. \A x \in T : Append(Whole, x) = <<"fields", "data", "fields", x>>
    BY <1>1, OneMore
  <2> QED
    BY <2>1, <2>2, <2>3, <2>4
<1>3. /\ Len(c1) = 2 /\ c1[2] = "rst" /\ Len(c2) = 3 /\ c2[3] = "rst" /\ Len(c3) = 4
  OBVIOUS
<1>13. Len(None) = 0 /\ Len(Fields) = 1 /\ Len(Body) = 2 /\ Len(Whole) = 3
  BY <1>1
<1>4. Cut = {c1, c2, c3} /\ Fields = <<"fields">> /\ Body = <<"fields", "data">> /\ Whole = <<"fields", "data", "fields">>
  BY DEF Cut, Fields, Body, Whole
<1> HIDE DEF c1, c2, c3
<1>5. c1 \notin Uncut
  BY <1>1, <1>3 DEF Uncut
<1>6. c2 \notin Uncut
  BY <1>1, <1>3 DEF Uncut
<1>7. c3 \notin Uncut
  BY <1>3, <1>13 DEF Uncut
<1>8. None \notin {Fields, Body, Whole} /\ Fields \notin {Body, Whole} /\ Body # Whole
  <2>1. None # Fields /\ None # Body /\ None # Whole
    BY <1>13
  <2>2. Len(Fields) # Len(Body) /\ Len(Fields) # Len(Whole) /\ Len(Body) # Len(Whole)
    BY <1>13
  <2>3. Fields # Body /\ Fields # Whole /\ Body # Whole
    BY <2>2, Zenon
  <2> QED
    BY <2>1, <2>3
<1>9. \A w \in Cut : w \notin Uncut
  BY <1>4, <1>5, <1>6, <1>7
<1>10. /\ Append(None, "fields") = Fields /\ Append(Fields, "data") = Body /\ Append(Body, "fields") = Whole
  BY <1>2, <1>4
<1>11. /\ Append(Fields, "rst") \in Cut /\ Append(Body, "rst") \in Cut /\ Append(Whole, "rst") \in Cut
  BY <1>2, <1>4
<1> QED
  BY <1>8, <1>9, <1>10, <1>11

-----------------------------------------------------------------------------
(* The frames of one stream in a queue.                                      *)

Of(s, id) == {f \in Range(s) : f.id = id}

\* Without the head, the rest is in order and comes after it.
LEMMA OfTail ==
  ASSUME NEW s \in Seq(Frames), s # << >>, NEW id
  PROVE  /\ Tail(s) \in Seq(Frames) /\ Head(s) \in Frames /\ Head(s) \in Range(s)
         /\ Ascends(s, id) => Ascends(Tail(s), id)
         /\ Of(s, id) = Of(Tail(s), id) \cup (IF Head(s).id = id THEN {Head(s)} ELSE {})
         /\ Ascends(s, id) /\ Head(s).id = id => Precede({Head(s)}, Of(Tail(s), id))
<1>1. /\ 1 \in DOMAIN s /\ Head(s) = s[1] /\ s[1] \in Frames /\ Tail(s) \in Seq(Frames)
      /\ \A i \in DOMAIN Tail(s) : i + 1 \in DOMAIN s /\ Tail(s)[i] = s[i + 1]
      /\ \A i \in DOMAIN s : i = 1 \/ (i - 1 \in DOMAIN Tail(s) /\ Tail(s)[i - 1] = s[i])
      /\ DOMAIN Tail(s) \subseteq Nat
  BY TailAt
<1>2. Range(s) = Range(Tail(s)) \cup {Head(s)}
  <2>1. \A x : (\E i \in DOMAIN s : s[i] = x) <=> (s[1] = x \/ \E i \in DOMAIN Tail(s) : Tail(s)[i] = x)
    BY TailHolds
  <2> DEFINE t == Tail(s)
  <2> HIDE DEF t
  <2>2. \A x : x \in Range(s) <=> (s[1] = x \/ x \in Range(t))
    BY <2>1 DEF Range, t
  <2> QED
    BY <1>1, <2>2 DEF t
<1>3. Of(s, id) = Of(Tail(s), id) \cup (IF Head(s).id = id THEN {Head(s)} ELSE {})
  BY <1>2 DEF Of
<1>4. ASSUME Ascends(s, id) PROVE Ascends(Tail(s), id)
  BY <1>1, <1>4 DEF Ascends
<1>5. ASSUME Ascends(s, id), Head(s).id = id PROVE Precede({Head(s)}, Of(Tail(s), id))
  <2>1. ASSUME NEW i \in DOMAIN Tail(s), Tail(s)[i].id = id PROVE Rank(Head(s)) < Rank(Tail(s)[i])
    BY <1>1, <1>5, <2>1 DEF Ascends
  <2> QED
    BY <2>1 DEF Precede, Of, Range
<1> QED
  BY <1>1, <1>2, <1>3, <1>4, <1>5

\* A frame that comes after the others keeps them in order.
LEMMA OfAppend ==
  ASSUME NEW s \in Seq(Frames), NEW f \in Frames, NEW id
  PROVE  /\ Append(s, f) \in Seq(Frames)
         /\ Of(Append(s, f), id) = Of(s, id) \cup (IF f.id = id THEN {f} ELSE {})
         /\ Ascends(s, id) /\ (f.id = id => Precede(Of(s, id), {f})) => Ascends(Append(s, f), id)
<1> DEFINE t == Append(s, f)
<1>1. /\ t \in Seq(Frames) /\ Len(s) \in Nat /\ DOMAIN s = 1 .. Len(s) /\ DOMAIN t = 1 .. Len(s) + 1
      /\ \A i \in DOMAIN s : t[i] = s[i]
      /\ t[Len(s) + 1] = f
  BY AppendAt
<1>2. Range(t) = Range(s) \cup {f}
  BY AppendRange
<1> HIDE DEF t
<1>3. Of(t, id) = Of(s, id) \cup (IF f.id = id THEN {f} ELSE {})
  BY <1>2 DEF Of
<1>4. ASSUME Ascends(s, id), f.id = id => Precede(Of(s, id), {f}) PROVE Ascends(t, id)
  <2>1. ASSUME NEW i \in DOMAIN t, NEW j \in DOMAIN t, i < j, t[i].id = id, t[j].id = id
        PROVE  Rank(t[i]) < Rank(t[j])
    <3>1. i \in DOMAIN s /\ (j \in DOMAIN s \/ j = Len(s) + 1)
      BY <1>1, <2>1
    <3>2. CASE j \in DOMAIN s
      BY <1>1, <1>4, <2>1, <3>1, <3>2 DEF Ascends
    <3>3. CASE j = Len(s) + 1
      <4>1. t[j] = f /\ f.id = id /\ t[i] = s[i] /\ s[i] \in Of(s, id)
        BY <1>1, <2>1, <3>1, <3>3 DEF Of, Range
      <4> QED
        BY <1>4, <4>1 DEF Precede
    <3> QED
      BY <3>1, <3>2, <3>3
  <2> QED
    BY <2>1 DEF Ascends
<1> QED
  BY <1>1, <1>3, <1>4 DEF t

-----------------------------------------------------------------------------
(* What the order of a stream's frames is worth, whatever holds them.        *)

Sets(H, C, M, T) == H \cup C \cup M \cup T \subseteq {f \in Frames : f.type # "rst"}

\* The stream's own writes end.
LEMMA RowQuits ==
  ASSUME NEW H, NEW C, NEW M, NEW T, NEW w, NEW st, Sets(H, C, M, T),
         Row(H, C, M, T), Follow(C \cup M \cup T, C \cup M \cup T \cup H, w, st)
  PROVE  Row(H, C, M, {}) /\ Follow(C \cup M \cup {}, C \cup M \cup {} \cup H, w, st)
<1>0. \A f \in H \cup C \cup M \cup T : Rank(f) \in 1 .. 3
  BY RankFacts DEF Sets
<1>1. Row(H, C, M, {})
  BY DEF Row, Precede
<1>2. ASSUME NEW f \in C \cup M
      PROVE  /\ w \in {None, Fields, Body}
             /\ Rank(f) = 1 => w = None
             /\ f.type = "data" => w # Body
             /\ f.type = "data" /\ w = None => st \/ \E g \in C \cup M \cup H : Rank(g) = 1
             /\ f.type = "fields" /\ Rank(f) = 3 /\ (w = Fields \/ \E g \in C \cup M \cup H : Rank(g) = 1) =>
                  \E g \in C \cup M \cup H : Rank(g) = 2
  <2>1. \A g \in T : Rank(f) < Rank(g) /\ Rank(g) \in 1 .. 3 /\ Rank(f) \in 1 .. 3
    BY <1>0 DEF Row, Precede
  <2>2. \A g \in T : Rank(g) # 1 /\ (Rank(f) = 3 => FALSE)
    BY <2>1
  <2> QED
    BY <2>2 DEF Follow
<1>3. \A f, g \in C \cup M \cup H : f.type = "data" /\ g.type = "data" => Rank(f) = Rank(g)
  BY DEF Follow
<1> QED
  BY <1>1, <1>2, <1>3 DEF Follow

\* The cache of the stream is not read again.
LEMMA RowLeaps ==
  ASSUME NEW C, NEW M, NEW T, NEW st, Sets({}, C, M, T), C # {},
         Row({}, C, M, T), Follow(C \cup M \cup T, C \cup M \cup T \cup {}, None, st)
  PROVE  Row({}, {}, M, T) /\ Follow({} \cup M \cup T, {} \cup M \cup T \cup {}, None, TRUE)
<1>1. Row({}, {}, M, T)
  BY DEF Row, Precede
<1>2. \A f \in M \cup T : Rank(f) # 1
  <2>1. PICK g \in C : TRUE
    OBVIOUS
  <2>2. \A f \in M \cup T : Rank(g) < Rank(f) /\ Rank(g) \in 1 .. 3 /\ Rank(f) \in 1 .. 3
    BY <2>1, RankFacts DEF Row, Precede, Sets
  <2> QED
    BY <2>2
<1> QED
  BY <1>1, <1>2, ShapesDiffer DEF Follow

\* The write thread takes the first frame.
LEMMA RowTaken ==
  ASSUME NEW P, NEW w, NEW f, P \subseteq {g \in Frames : g.type # "rst"}, Follow(P, P, w, TRUE),
         f \in P, \A g \in P : g = f \/ Rank(f) < Rank(g)
  PROVE  /\ Rank(f) = 1 => w = None
         /\ f.type = "data" => w \in {None, Fields}
         /\ f.type = "data" => \A g \in P : Rank(g) # 1
         /\ f.type = "fields" /\ Rank(f) = 3 => w \in {None, Body}
<1>0. f \in Frames /\ f.type # "rst" /\ Rank(f) \in 1 .. 3
  BY RankFacts
<1>3. \A g \in P : Rank(g) \in 1 .. 3 /\ (g = f \/ Rank(f) < Rank(g))
  BY RankFacts
<1>4. /\ w \in {None, Fields, Body} /\ (Rank(f) = 1 => w = None) /\ (f.type = "data" => w # Body)
  BY <1>0 DEF Follow
<1>5. ASSUME f.type = "data" PROVE \A g \in P : Rank(g) # 1
  <2>1. Rank(f) # 1
    BY <1>0, <1>5, RankFacts
  <2> QED
    BY <1>0, <1>3, <2>1
<1>6. ASSUME f.type = "fields", Rank(f) = 3 PROVE w # Fields
  <2>1. \A g \in P : Rank(g) # 2
    BY <1>3, <1>6
  <2> QED
    BY <1>0, <1>6, <2>1 DEF Follow
<1> QED
  BY <1>4, <1>5, <1>6

\* The frame in hand is written.
LEMMA RowSent ==
  ASSUME NEW P, NEW w, NEW f, P \cup {f} \subseteq {g \in Frames : g.type # "rst"},
         \A g \in P : Rank(f) < Rank(g), Follow(P, P \cup {f}, w, TRUE),
         NEW w2, \/ w = None /\ f.type = "fields" /\ w2 = Fields
                 \/ w = Fields /\ f.type = "data" /\ w2 = Body
                 \/ Rank(f) = 3
  PROVE  Follow(P, P, w2, FALSE) /\ (Rank(f) = 3 => P = {})
<1>0. f \in Frames /\ f.type # "rst" /\ Rank(f) \in 1 .. 3
  BY RankFacts
<1>2. ASSUME NEW g \in P
      PROVE  /\ g \in Frames /\ g.type \in {"fields", "data"} /\ Rank(f) < Rank(g) /\ Rank(g) \in 2 .. 3
             /\ Rank(f) # 3 /\ (f.type = "data" => g.type # "data")
             /\ Rank(f) = 1 => f.type = "fields"
             /\ f.type = "data" => Rank(f) = 2
  <2>1. g \in Frames /\ g.type \in {"fields", "data"} /\ Rank(g) \in 1 .. 3 /\ Rank(f) < Rank(g)
    BY RankFacts
  <2>2. f.type = "data" => g.type # "data"
    BY <2>1, <1>0 DEF Follow
  <2> QED
    BY <1>0, <2>1, <2>2, RankFacts
<1>3. Rank(f) = 3 => P = {}
  BY <1>2
<1>4. \A g, h \in P : g.type = "data" /\ h.type = "data" => Rank(g) = Rank(h)
  BY DEF Follow
<1>5. ASSUME NEW g \in P
      PROVE  /\ w2 \in {None, Fields, Body}
             /\ Rank(g) # 1
             /\ g.type = "data" => w2 # Body
             /\ g.type = "data" /\ w2 = None => FALSE
             /\ g.type = "fields" /\ Rank(g) = 3 /\ (w2 = Fields \/ \E h \in P : Rank(h) = 1) =>
                  \E h \in P : Rank(h) = 2
  <2>1. Rank(f) # 3 /\ Rank(g) # 1 /\ \A h \in P : Rank(h) # 1
    BY <1>2
  <2>2. CASE w = None /\ f.type = "fields" /\ w2 = Fields
    <3>1. Rank(f) = 1
      BY <1>0, <2>1, <2>2, RankFacts
    <3>2. ASSUME g.type = "fields", Rank(g) = 3 PROVE \E h \in P : Rank(h) = 2
      <4>1. \E h \in P \cup {f} : Rank(h) = 2
        BY <3>1, <3>2 DEF Follow
      <4> QED
        BY <3>1, <4>1
    <3> QED
      BY <2>1, <2>2, <3>2, ShapesDiffer
  <2>3. CASE w = Fields /\ f.type = "data" /\ w2 = Body
    BY <1>2, <2>1, <2>3, ShapesDiffer
  <2> QED
    BY <2>1, <2>2, <2>3
<1> QED
  BY <1>3, <1>4, <1>5 DEF Follow

\* Data in hand is dropped before anything of the stream was written.
LEMMA RowDropped ==
  ASSUME NEW C, NEW M, NEW T, NEW st, NEW f, Sets({f}, C, M, T), f.type = "data",
         Row({f}, C, M, T), Follow(C \cup M \cup T, C \cup M \cup T \cup {f}, None, st)
  PROVE  Row({}, C, M, T) /\ Follow(C \cup M \cup T, C \cup M \cup T \cup {}, None, TRUE)
<1>0. f \in Frames /\ Rank(f) \in 2 .. 3
  BY RankFacts DEF Sets
<1>1. Row({}, C, M, T)
  BY DEF Row, Precede
<1>2. \A g \in C \cup M \cup T : Rank(g) = 3
  BY <1>0, RankFacts DEF Row, Precede, Sets
<1> QED
  BY <1>1, <1>2, ShapesDiffer DEF Follow

-----------------------------------------------------------------------------
(* What a step leaves of a stream that it is not about.                      *)

\* Where the frames of a stream are, and what kind they are.
LEMMA PartsFacts ==
  ASSUME TypeOK, Threads, NEW r \in Reqs, sid[r] # 0
  PROVE  /\ sid[r] \in Ids /\ sid[r] \in Nat /\ lastSendId \in Nat /\ cacheMap[sid[r]] \in Seq(Frames)
         /\ message \in Seq(Frames) /\ todo[r] \in Seq(Frames)
         /\ Sets(InHand(r), CachedOf(r), WaitingOf(r), ToWrite(r))
         /\ WaitingOf(r) = Of(message, sid[r])
         /\ Range(cacheMap[sid[r]]) = Of(cacheMap[sid[r]], sid[r])
         /\ Range(todo[r]) = Of(todo[r], sid[r])
<1>1. /\ sid[r] \in Ids /\ cacheMap[sid[r]] \in Seq(Frames) /\ message \in Seq(Frames) /\ todo[r] \in Seq(Frames)
  BY DEF TypeOK
<1>2. sid[r] \in Nat /\ lastSendId \in Nat
  BY IdNumbers
<1>3. \A s \in Seq(Frames) : Range(s) \subseteq Frames
  BY DEF Range
<1>4. /\ \A f \in Range(cacheMap[sid[r]]) : f \in Frames /\ f.type # "rst" /\ f.id = sid[r]
      /\ \A f \in Range(todo[r]) : f \in Frames /\ f.type # "rst" /\ f.id = sid[r]
      /\ \A f \in Range(message) : f \in Frames /\ f.type # "rst"
  BY <1>1, <1>3 DEF Threads, Contents
<1>5. Sets(InHand(r), CachedOf(r), WaitingOf(r), ToWrite(r))
  BY <1>4 DEF Sets, InHand, AtHand, Threads, CachedOf, WaitingOf, ToWrite
<1> QED
  BY <1>1, <1>2, <1>4, <1>5 DEF Of, WaitingOf

\* A step does nothing to the frames of the stream, unless that no more are
\* written or taken.
Rests(r) ==
  /\ sid'[r] = sid[r] /\ todo'[r] = todo[r] /\ cacheMap'[sid[r]] = cacheMap[sid[r]]
  /\ wire'[sid[r]] = wire[sid[r]]
  /\ WaitingOf(r)' = WaitingOf(r) /\ (Ascends(message, sid[r]) => Ascends(message', sid[r]))
  /\ input[r] = "quit" => input'[r] = "quit"
  /\ AtHand(r)' <=> AtHand(r)
  /\ InHand(r)' = InHand(r)
  /\ \/ lastSendId' = lastSendId
     \/ lastSendId < lastSendId' /\ ~ Cached(lastSendId + 2) /\ InHand(r) = {} /\ lastSendId' \in Nat
  /\ streams'[sid[r]] = r => streams[sid[r]] = r
  /\ down >= 2 => down' >= 2
  /\ wpc = "dead" => wpc' = "dead"

\* The frames of the stream that are not written yet are the same.
Stays(r) == Rest(r)' \cup InHand(r)' = Rest(r) \cup InHand(r) /\ (Stuck(r) => Stuck(r)')

\* They are, when what holds them is the same.
LEMMA SameStays ==
  ASSUME NEW r \in Reqs, UNCHANGED <<sid, lastSendId, input>>, todo'[r] = todo[r],
         cacheMap'[sid[r]] = cacheMap[sid[r]], Of(message', sid[r]) = Of(message, sid[r]),
         UNCHANGED <<wpc, wframe>> \/ (~ AtHand(r) /\ ~ AtHand(r)')
  PROVE  Stays(r)
<1>1. CachedOf(r)' = CachedOf(r) /\ ToWrite(r)' = ToWrite(r) /\ (Stuck(r) => Stuck(r)')
  BY DEF CachedOf, ToWrite, Stuck
<1>2. WaitingOf(r)' = WaitingOf(r)
  BY DEF WaitingOf, Of
<1>3. InHand(r)' = InHand(r)
  BY DEF InHand, AtHand
<1> QED
  BY <1>1, <1>2, <1>3 DEF Stays, Rest

\* The cache is as it was, or not read again.
LEMMA RestsCache ==
  ASSUME TypeOK, Threads, NEW r \in Reqs, Begins(r), Rests(r), WireFits(r)
  PROVE  \/ CachedOf(r)' = CachedOf(r) /\ (Stuck(r) => Stuck(r)')
         \/ /\ CachedOf(r)' = {} /\ CachedOf(r) # {} /\ wire[sid[r]] = None
            /\ InHand(r) = {} /\ Stuck(r)'
<1> DEFINE H == InHand(r)  C == CachedOf(r)  w == wire[sid[r]]  C2 == CachedOf(r)'
<1>0. /\ sid[r] \in Ids /\ sid[r] \in Nat /\ lastSendId \in Nat /\ cacheMap[sid[r]] \in Seq(Frames)
  BY PartsFacts DEF Begins
<1>1. CASE lastSendId' = lastSendId
  BY <1>1 DEF CachedOf, Stuck, Rests
<1>2. CASE lastSendId < lastSendId' /\ ~ Cached(lastSendId + 2) /\ InHand(r) = {} /\ lastSendId' \in Nat
  <2>1. cacheMap'[sid[r]] = cacheMap[sid[r]] /\ sid'[r] = sid[r]
    BY DEF Rests
  <2>2. Stuck(r) => Stuck(r)'
    BY <1>0, <1>2, <2>1 DEF Stuck
  <2>3. CASE sid[r] > lastSendId' + 1
    BY <1>0, <1>2, <2>1, <2>2, <2>3 DEF CachedOf
  <2>4. CASE ~ (sid[r] > lastSendId' + 1) /\ C = {}
    BY <2>1, <2>2, <2>4 DEF CachedOf
  <2>5. CASE ~ (sid[r] > lastSendId' + 1) /\ C # {}
    <3>1. sid[r] > lastSendId + 1 /\ cacheMap[sid[r]] # << >>
      BY <2>5, EmptyRange DEF CachedOf
    <3>2. sid[r] # lastSendId + 2
      BY <1>0, <1>2, <3>1 DEF Cached
    <3>3. ~ (sid[r] <= lastSendId + 2)
      BY <1>0, <3>1, <3>2
    <3>4. w = None
      BY <3>3 DEF WireFits
    <3>5. C2 = {} /\ Stuck(r)'
      <4>1. sid[r] <= lastSendId' + 1
        BY <1>0, <1>2, <2>5
      <4> QED
        BY <2>1, <2>5, <3>1, <4>1 DEF CachedOf, Stuck
    <3> QED
      BY <1>2, <2>5, <3>4, <3>5
  <2> QED
    BY <2>3, <2>4, <2>5
<1> QED
  BY <1>1, <1>2 DEF Rests

\* Such a step keeps the order, the wire and what is still to come.
LEMMA RestsKeep ==
  ASSUME TypeOK, Threads, NEW r \in Reqs, Begins(r), Rests(r),
         Gone(r) \/ Fits(r), HandFits(r), WireFits(r)
  PROVE  (Gone(r) \/ Fits(r))' /\ HandFits(r)' /\ WireFits(r)' /\ Rest(r)' \subseteq Rest(r) /\ (Gone(r) => Gone(r)')
<1> DEFINE H == InHand(r)  C == CachedOf(r)  M == WaitingOf(r)  T == ToWrite(r)  w == wire[sid[r]]
           C2 == CachedOf(r)'  T2 == ToWrite(r)'
<1>0. /\ sid[r] \in Ids /\ sid[r] \in Nat /\ lastSendId \in Nat /\ cacheMap[sid[r]] \in Seq(Frames)
      /\ Sets(H, C, M, T)
  BY PartsFacts DEF Begins
<1>1. Gone(r) => Gone(r)'
  BY DEF Gone, Rests
<1>2. T2 = T \/ T2 = {}
  BY DEF ToWrite, Rests
<1>3. \/ C2 = C /\ (Stuck(r) => Stuck(r)')
      \/ C2 = {} /\ C # {} /\ w = None /\ H = {} /\ Stuck(r)'
  BY RestsCache
<1>4. ASSUME Fits(r), ~ Gone(r)' PROVE Fits(r)'
  <2>1. Row(H, C, M, T) /\ Follow(C \cup M \cup T, C \cup M \cup T \cup H, w, Stuck(r))
    BY <1>4 DEF Fits, Lined, Rest
  <2>2. Row(H, C, M, T2) /\ Follow(C \cup M \cup T2, C \cup M \cup T2 \cup H, w, Stuck(r)) /\ Sets(H, C, M, T2)
    <3>1. CASE T2 = T
      BY <1>0, <2>1, <3>1
    <3>2. CASE T2 = {}
      <4> HIDE DEF H, C, M, T, w, T2
      <4>1. Row(H, C, M, {}) /\ Follow(C \cup M \cup {}, C \cup M \cup {} \cup H, w, Stuck(r))
        BY <1>0, <2>1, RowQuits
      <4> QED
        BY <1>0, <3>2, <4>1 DEF Sets
    <3> QED
      BY <1>2, <3>1, <3>2
  <2>3. Row(H, C2, M, T2) /\ Follow(C2 \cup M \cup T2, C2 \cup M \cup T2 \cup H, w, Stuck(r)')
    <3>1. CASE C2 = C /\ (Stuck(r) => Stuck(r)')
      BY <2>2, <3>1 DEF Follow
    <3>2. CASE C2 = {} /\ C # {} /\ w = None /\ H = {} /\ Stuck(r)'
      <4> HIDE DEF H, C, M, T, w, T2, C2
      <4>1. Row({}, {}, M, T2) /\ Follow({} \cup M \cup T2, {} \cup M \cup T2 \cup {}, None, TRUE)
        BY <2>2, <3>2, RowLeaps
      <4>2. Stuck(r)' = TRUE
        BY <3>2 DEF Stuck
      <4> QED
        BY <3>2, <4>1, <4>2
    <3> QED
      BY <1>3, <3>1, <3>2
  <2>4. Ascends(message', sid'[r]) /\ Ascends(cacheMap'[sid'[r]], sid'[r]) /\ Ascends(todo'[r], sid'[r])
    BY <1>4 DEF Fits, Lined, Rests
  <2>5. InHand(r)' = H /\ WaitingOf(r)' = M /\ wire'[sid'[r]] = w
    BY DEF Rests
  <2>6. Row(InHand(r)', CachedOf(r)', WaitingOf(r)', ToWrite(r)')
    BY <2>3, <2>5
  <2>7. Follow(Rest(r)', Rest(r)' \cup InHand(r)', wire'[sid'[r]], Stuck(r)')
    BY <2>3, <2>5 DEF Rest
  <2> QED
    BY <2>4, <2>6, <2>7 DEF Fits, Lined
<1>5. HandFits(r)'
  BY <1>1, <1>3 DEF HandFits, Rests
<1>6. WireFits(r)'
  <2>1. lastSendId <= lastSendId' /\ lastSendId' \in Nat
    BY <1>0 DEF Rests
  <2>2. sid[r] <= lastSendId + 2 => sid[r] <= lastSendId' + 2
    BY <1>0, <2>1
  <2> QED
    BY <2>2 DEF WireFits, Rests
<1>7. Rest(r)' \subseteq Rest(r)
  BY <1>2, <1>3 DEF Rest, Rests
<1> QED
  BY <1>1, <1>4, <1>5, <1>6, <1>7

\* The same for what the status says.
LEMMA RestsStatus ==
  ASSUME TypeOK, NEW r \in Reqs, Rest(r)' \subseteq Rest(r), Gone(r) => Gone(r)',
         sid'[r] = sid[r], wire'[sid[r]] = wire[sid[r]], AtHand(r)' <=> AtHand(r), InHand(r)' = InHand(r),
         streams'[sid[r]] = r => streams[sid[r]] = r,
         StatusFits(r), SeenFits(r), status'[r] = status[r], down <= down', down' \in 0 .. 4
  PROVE  StatusFits(r)' /\ (wpc' # "update" \/ (wpc = "update" /\ wseen' = wseen) => SeenFits(r)')
<1>1. down \in 0 .. 4
  BY DEF TypeOK
<1>2. (down >= 3 => down' >= 3) /\ (down = 4 => down' = 4)
  BY <1>1
<1>3. StatusFits(r)'
  BY <1>2 DEF StatusFits
<1>4. ASSUME wpc' # "update" \/ (wpc = "update" /\ wseen' = wseen) PROVE SeenFits(r)'
  BY <1>2, <1>4 DEF SeenFits
<1> QED
  BY <1>3, <1>4

\* A step of the users, the read thread or the shutdown that leaves the stream's
\* status, its queue and the write thread alone.
LEMMA QuietKeeps ==
  ASSUME TypeOK, Threads, NEW r \in Reqs, Begins(r), Kept(r),
         sid'[r] = sid[r], todo'[r] = todo[r], status'[r] = status[r], wire'[sid[r]] = wire[sid[r]],
         UNCHANGED <<message, cacheMap, lastSendId, wpc, wframe, wseen>>,
         input[r] = "quit" => input'[r] = "quit",
         streams'[sid[r]] = r => streams[sid[r]] = r,
         down <= down', down' \in 0 .. 4
  PROVE  Kept(r)'
<1>1. Rests(r)
  <2>1. down \in 0 .. 4
    BY DEF TypeOK
  <2> QED
    BY <2>1 DEF Rests, WaitingOf, AtHand, InHand
<1>2. (Gone(r) \/ Fits(r))' /\ HandFits(r)' /\ WireFits(r)' /\ Rest(r)' \subseteq Rest(r) /\ (Gone(r) => Gone(r)')
  BY <1>1, RestsKeep DEF Kept
<1>3. StatusFits(r)' /\ SeenFits(r)'
  BY <1>1, <1>2, RestsStatus DEF Kept, Rests
<1> QED
  BY <1>2, <1>3 DEF Kept

\* A step after which no frame of the stream is taken.
LEMMA GoneKeeps ==
  ASSUME TypeOK, Threads, NEW r \in Reqs, Begins(r), Kept(r), Gone(r)',
         sid'[r] = sid[r], status'[r] = status[r], wire'[sid[r]] = wire[sid[r]],
         AtHand(r)' => AtHand(r) /\ UNCHANGED <<wpc, wframe, wseen>>,
         lastSendId <= lastSendId', lastSendId' \in Nat,
         streams'[sid[r]] = r => streams[sid[r]] = r,
         down <= down', down' \in 0 .. 4
  PROVE  Kept(r)'
<1>1. down \in 0 .. 4 /\ lastSendId \in Nat /\ sid[r] \in Nat
  BY IdNumbers DEF TypeOK
<1>2. (down >= 3 => down' >= 3) /\ (down = 4 => down' = 4)
  BY <1>1
<1>3. sid[r] <= lastSendId + 2 => sid[r] <= lastSendId' + 2
  BY <1>1
<1>4. InHand(r)' \subseteq InHand(r)
  BY DEF InHand, AtHand
<1>5. HandFits(r)'
  BY <1>4 DEF HandFits, Kept
<1>6. StatusFits(r)'
  BY <1>2 DEF StatusFits, Kept
<1>7. SeenFits(r)'
  BY <1>2 DEF SeenFits, Kept
<1>8. WireFits(r)'
  BY <1>3, <1>4 DEF WireFits, Kept
<1> QED
  BY <1>5, <1>6, <1>7, <1>8 DEF Kept

\* A step of the write thread on another stream, or of its user.
LEMMA OtherRests ==
  ASSUME TypeOK, Threads, NEW r \in Reqs, Begins(r),
         UNCHANGED <<sid, down>>, todo'[r] = todo[r], status'[r] = status[r],
         wire'[sid[r]] = wire[sid[r]], cacheMap'[sid[r]] = cacheMap[sid[r]],
         input[r] = "quit" => input'[r] = "quit",
         streams'[sid[r]] = r => streams[sid[r]] = r,
         Of(message', sid[r]) = Of(message, sid[r]), Ascends(message, sid[r]) => Ascends(message', sid[r]),
         UNCHANGED <<wpc, wframe, wseen>> \/ (~ AtHand(r) /\ ~ AtHand(r)'),
         wpc = "dead" => wpc' = "dead",
         \/ lastSendId' = lastSendId
         \/ lastSendId < lastSendId' /\ ~ Cached(lastSendId + 2) /\ ~ AtHand(r) /\ lastSendId' \in Nat
  PROVE  Rests(r)
<1>1. down \in 0 .. 4 /\ WaitingOf(r)' = WaitingOf(r)
  BY DEF TypeOK, WaitingOf, Of
<1>2. (AtHand(r)' <=> AtHand(r)) /\ InHand(r)' = InHand(r)
  BY DEF AtHand, InHand
<1>3. ~ AtHand(r) => InHand(r) = {}
  BY DEF InHand
<1> QED
  BY <1>1, <1>2, <1>3 DEF Rests

\* Such a step keeps the order, the wire and the status.
LEMMA OtherKeeps ==
  ASSUME TypeOK, Threads, NEW r \in Reqs, Begins(r), Kept(r),
         UNCHANGED <<sid, down>>, todo'[r] = todo[r], status'[r] = status[r],
         wire'[sid[r]] = wire[sid[r]], cacheMap'[sid[r]] = cacheMap[sid[r]],
         input[r] = "quit" => input'[r] = "quit",
         streams'[sid[r]] = r => streams[sid[r]] = r,
         Of(message', sid[r]) = Of(message, sid[r]), Ascends(message, sid[r]) => Ascends(message', sid[r]),
         UNCHANGED <<wpc, wframe, wseen>> \/ (~ AtHand(r) /\ ~ AtHand(r)'),
         wpc = "dead" => wpc' = "dead",
         \/ lastSendId' = lastSendId
         \/ lastSendId < lastSendId' /\ ~ Cached(lastSendId + 2) /\ ~ AtHand(r) /\ lastSendId' \in Nat
  PROVE  Kept(r)'
<1>1. Rests(r)
  BY OtherRests
<1>2. (Gone(r) \/ Fits(r))' /\ HandFits(r)' /\ WireFits(r)' /\ Rest(r)' \subseteq Rest(r) /\ (Gone(r) => Gone(r)')
  BY <1>1, RestsKeep DEF Kept
<1>3. StatusFits(r)' /\ (wpc' # "update" \/ (wpc = "update" /\ wseen' = wseen) => SeenFits(r)')
  <2>1. down <= down' /\ down' \in 0 .. 4
    BY DEF TypeOK
  <2> QED
    BY <1>1, <1>2, <2>1, RestsStatus DEF Kept, Rests
<1>4. ~ AtHand(r)' => SeenFits(r)'
  BY DEF SeenFits
<1> QED
  BY <1>2, <1>3, <1>4 DEF Kept

-----------------------------------------------------------------------------
(* The steps of the users.                                                   *)

\* A user's frame goes from what is to be written to the end of message.
LEMMA WriteKeeps ==
  ASSUME TypeOK, Threads, Numbers, Unique, NEW r \in Reqs, Begins(r), Kept(r), NEW q \in Reqs, Write(q)
  PROVE  Kept(r)' /\ Stays(r)
<1>1. /\ todo[q] \in Seq(Frames) /\ todo[q] # << >> /\ message \in Seq(Frames) /\ todo \in [Reqs -> Seq(Frames)]
      /\ upc[q] = "write" /\ sid[q] # 0
      /\ UNCHANGED <<sid, status, wire, cacheMap, lastSendId, wpc, wframe, wseen, input, streams, down>>
  BY DEF Write, User, TypeOK, Numbers, engineVars, statusVars, writeVars, wireVars, downVars
<1>2. CASE outClosed /\ input[q] # "quit"
  <2>1. UNCHANGED <<todo, message>>
    BY <1>2 DEF Write
  <2>2. down <= down' /\ down' \in 0 .. 4
    BY <1>1 DEF TypeOK
  <2> QED
    BY <1>1, <2>1, <2>2, QuietKeeps, SameStays
<1>3. CASE ~ (outClosed /\ input[q] # "quit")
  <2> DEFINE h == Head(todo[q])
  <2>1. /\ todo' = [todo EXCEPT ![q] = Tail(todo[q])]
        /\ message' = IF input[q] = "quit" THEN message ELSE Append(message, h)
    BY <1>3 DEF Write
  <2>2. /\ h \in Frames /\ h \in Range(todo[q]) /\ h.id = sid[q]
        /\ Of(todo[q], sid[q]) = Of(Tail(todo[q]), sid[q]) \cup {h}
        /\ Ascends(todo[q], sid[q]) => Ascends(Tail(todo[q]), sid[q]) /\ Precede({h}, Of(Tail(todo[q]), sid[q]))
    <3>1. h \in Range(todo[q]) /\ h \in Frames
      BY <1>1, OfTail
    <3>2. h.id = sid[q]
      BY <3>1 DEF Threads, Contents
    <3> QED
      BY <1>1, <3>1, <3>2, OfTail
  <2> HIDE DEF h
  <2>5. \A id : /\ Of(Append(message, h), id) = Of(message, id) \cup (IF h.id = id THEN {h} ELSE {})
                /\ Ascends(message, id) /\ (h.id = id => Precede(Of(message, id), {h})) =>
                     Ascends(Append(message, h), id)
    <3> TAKE id
    <3>1. message \in Seq(Frames) /\ h \in Frames
      BY <1>1, <2>2
    <3> QED
      BY <3>1, OfAppend
  <2>3. CASE q # r
    <3>1. sid[q] # sid[r] /\ todo'[r] = todo[r]
      BY <1>1, <2>1, <2>3 DEF Unique
    <3>2. Of(message', sid[r]) = Of(message, sid[r]) /\ (Ascends(message, sid[r]) => Ascends(message', sid[r]))
      <4>1. CASE input[q] = "quit"
        BY <2>1, <4>1
      <4>2. CASE input[q] # "quit"
        <5>1. message' = Append(message, h) /\ h.id # sid[r]
          BY <2>1, <2>2, <3>1, <4>2
        <5> QED
          BY <2>5, <5>1
      <4> QED
        BY <4>1, <4>2
    <3> QED
      BY <1>1, <3>1, <3>2, OtherKeeps, SameStays
  <2>4. CASE q = r
    <3> DEFINE H == InHand(r)  C == CachedOf(r)  M == WaitingOf(r)  T == ToWrite(r)  M2 == WaitingOf(r)'  T2 == ToWrite(r)'
               w == wire[sid[r]]
    <3>0. /\ Sets(H, C, M, T) /\ M = Of(message, sid[r]) /\ Range(todo[r]) = Of(todo[r], sid[r]) /\ sid[r] \in Ids
      BY PartsFacts DEF Begins
    <3>1. todo'[r] = Tail(todo[r]) /\ Range(todo'[r]) = Of(todo'[r], sid[r])
      <4>1. todo'[r] = Tail(todo[r])
        BY <1>1, <2>1, <2>4
      <4>2. Range(Tail(todo[r])) \subseteq Range(todo[r])
        BY <1>1, <2>4, TailRange
      <4> QED
        BY <3>0, <4>1, <4>2 DEF Of
    <3>2. InHand(r)' = H /\ CachedOf(r)' = C /\ (AtHand(r)' <=> AtHand(r)) /\ (Gone(r)' <=> Gone(r)) /\ Stuck(r)' = Stuck(r)
      BY <1>1 DEF InHand, AtHand, CachedOf, Gone, Stuck
    <3>3. C \cup M2 \cup T2 = C \cup M \cup T
          /\ (Fits(r) => /\ Row(H, C, M2, T2)
                         /\ Ascends(message', sid[r]) /\ Ascends(todo'[r], sid[r]))
      <4>1. CASE input[r] = "quit"
        <5>1. M2 = M /\ T2 = {} /\ T = {} /\ message' = message
          BY <1>1, <2>1, <2>4, <4>1 DEF WaitingOf, ToWrite
        <5>2. Fits(r) => Row(H, C, M, T) /\ Ascends(message, sid[r]) /\ Ascends(todo[r], sid[r])
          BY DEF Fits, Lined
        <5> QED
          BY <2>2, <2>4, <3>1, <5>1, <5>2
      <4>2. CASE input[r] # "quit"
        <5>1. message' = Append(message, h) /\ T = Range(todo[r]) /\ T2 = Range(todo'[r]) /\ T = T2 \cup {h}
          BY <1>1, <2>1, <2>2, <2>4, <3>0, <3>1, <4>2 DEF ToWrite
        <5>2. M2 = M \cup {h}
          <6>1. M2 = Of(message', sid[r])
            BY <1>1 DEF WaitingOf, Of
          <6> QED
            BY <2>2, <2>4, <2>5, <3>0, <5>1, <6>1
        <5>3. ASSUME Fits(r)
              PROVE Row(H, C, M2, T2) /\ Ascends(message', sid[r]) /\ Ascends(todo'[r], sid[r])
          <6>1. Row(H, C, M, T) /\ Ascends(message, sid[r]) /\ Ascends(todo[r], sid[r])
            BY <5>3 DEF Fits, Lined
          <6>2. Ascends(todo'[r], sid[r]) /\ Precede({h}, T2)
            BY <2>2, <2>4, <3>1, <5>1, <6>1
          <6>3. Precede(M, {h})
            BY <5>1, <6>1 DEF Row, Precede
          <6>4. Ascends(message', sid[r])
            BY <2>2, <2>4, <2>5, <3>0, <5>1, <6>1, <6>3
          <6>5. Row(H, C, M2, T2)
            BY <5>1, <5>2, <6>1, <6>2 DEF Row, Precede
          <6> QED
            BY <6>2, <6>4, <6>5
        <5> QED
          BY <5>1, <5>2, <5>3
      <4> QED
        BY <4>1, <4>2
    <3>4. Rest(r)' = Rest(r)
      BY <3>2, <3>3 DEF Rest
    <3>5. Fits(r) => Fits(r)'
      <4>1. sid'[r] = sid[r] /\ wire'[sid'[r]] = w /\ cacheMap'[sid'[r]] = cacheMap[sid[r]]
        BY <1>1
      <4>2. Fits(r) => Lined(r)'
        BY <3>2, <3>3, <4>1 DEF Fits, Lined
      <4>3. Fits(r) => Follow(Rest(r)', Rest(r)' \cup InHand(r)', wire'[sid'[r]], Stuck(r)')
        BY <3>2, <3>4, <4>1 DEF Fits
      <4> QED
        BY <4>2, <4>3 DEF Fits
    <3>6. HandFits(r) => HandFits(r)'
      BY <1>1, <3>2 DEF HandFits
    <3>7. WireFits(r) => WireFits(r)'
      BY <1>1, <3>2 DEF WireFits
    <3>8. StatusFits(r)' /\ SeenFits(r)'
      <4>1. down <= down' /\ down' \in 0 .. 4
        BY <1>1 DEF TypeOK
      <4> QED
        BY <1>1, <3>2, <3>4, <4>1, RestsStatus DEF Kept
    <3> QED
      BY <3>2, <3>4, <3>5, <3>6, <3>7, <3>8 DEF Kept, Stays
  <2> QED
    BY <2>3, <2>4
<1> QED
  BY <1>2, <1>3

\* What writeRequest enqueues is in order, and ends the request.
LEMMA WrittenFollows ==
  ASSUME NEW kind \in Kinds, NEW id \in Ids, NEW st
  PROVE  /\ Ascends(Written(kind, id), id)
         /\ LET W == Range(Written(kind, id)) IN Follow(W, W, None, st) /\ \E f \in W : f.end
<1> DEFINE h1 == Frame(id, "fields", TRUE)  h2 == Frame(id, "fields", FALSE)
           d1 == Frame(id, "data", TRUE)  d2 == Frame(id, "data", FALSE)
<1>1. /\ Rank(h1) = 3 /\ h1.type = "fields" /\ h1.end
      /\ Rank(h2) = 1 /\ h2.type = "fields"
      /\ Rank(d1) = 3 /\ d1.type = "data" /\ d1.end
      /\ Rank(d2) = 2 /\ d2.type = "data"
  BY DEF Rank, Frame
<1>2. Written(kind, id) \in {<<h1>>, <<h2, d1>>, <<h2, d2, h1>>}
  BY ClientAssumption DEF Written
<1> HIDE DEF h1, h2, d1, d2
<1>3. CASE Written(kind, id) = <<h1>>
  <2> DEFINE s == <<h1>>
  <2>1. DOMAIN s = {1} /\ s[1] = h1
    OBVIOUS
  <2> HIDE DEF s
  <2>2. Range(s) = {h1}
    BY <2>1 DEF Range
  <2>3. Ascends(s, id)
    BY <2>1 DEF Ascends
  <2>4. Follow({h1}, {h1}, None, st)
    BY <1>1, ShapesDiffer DEF Follow
  <2> QED
    BY <1>1, <1>3, <2>2, <2>3, <2>4 DEF s
<1>4. CASE Written(kind, id) = <<h2, d1>>
  <2> DEFINE s == <<h2, d1>>
  <2>1. DOMAIN s = {1, 2} /\ s[1] = h2 /\ s[2] = d1
    OBVIOUS
  <2> HIDE DEF s
  <2>2. Range(s) = {h2, d1}
    BY <2>1 DEF Range
  <2>3. Ascends(s, id)
    BY <1>1, <2>1 DEF Ascends
  <2>4. Follow({h2, d1}, {h2, d1}, None, st)
    BY <1>1, ShapesDiffer DEF Follow
  <2> QED
    BY <1>1, <1>4, <2>2, <2>3, <2>4 DEF s
<1>5. CASE Written(kind, id) = <<h2, d2, h1>>
  <2> DEFINE s == <<h2, d2, h1>>
  <2>1. DOMAIN s = {1, 2, 3} /\ s[1] = h2 /\ s[2] = d2 /\ s[3] = h1
    OBVIOUS
  <2> HIDE DEF s
  <2>2. Range(s) = {h2, d2, h1}
    BY <2>1 DEF Range
  <2>3. Ascends(s, id)
    BY <1>1, <2>1 DEF Ascends
  <2>4. Follow({h2, d2, h1}, {h2, d2, h1}, None, st)
    BY <1>1, ShapesDiffer DEF Follow
  <2> QED
    BY <1>1, <1>5, <2>2, <2>3, <2>4 DEF s
<1> QED
  BY <1>2, <1>3, <1>4, <1>5

\* Nothing has happened to a stream when its request starts to write.
LEMMA StartKeeps ==
  ASSUME StreamInv, Untouched, NEW r \in Reqs, OpenConn(r) \/ WriteFails(r)
  PROVE  Kept(r)' /\ Rest(r)' = Range(todo'[r])
<1>0. TypeOK /\ Threads /\ Numbers /\ Unique /\ Placed /\ Fresh /\ AllKnown
  BY DEF StreamInv, CountInv
<1>1. /\ upc[r] = "open" /\ sid[r] \in Ids /\ sid[r] # 0 /\ input[r] = "none" /\ todo[r] = << >> /\ ~ Known(sid[r])
      /\ (down < 4 => status[r] = "Idle") /\ down \in 0 .. 4
      /\ UNCHANGED <<sid, status, wire, cacheMap, message, lastSendId, wpc, wframe, wseen, streams, down>>
      /\ input'[r] = "open" /\ todo \in [Reqs -> Seq(Frames)]
  <2>1. /\ upc[r] = "open" /\ todo \in [Reqs -> Seq(Frames)] /\ input \in [Reqs -> {"none", "open", "closed", "quit"}]
        /\ input' = [input EXCEPT ![r] = "open"]
        /\ UNCHANGED <<sid, status, wire, cacheMap, message, lastSendId, wpc, wframe, wseen, streams, down>>
    BY <1>0 DEF OpenConn, WriteFails, User, TypeOK, engineVars, statusVars, queueVars, writeVars, wireVars, downVars
  <2>2. sid[r] # 0 /\ sid[r] \in Ids \cup {0} /\ down \in 0 .. 4
    BY <1>0, <2>1 DEF Numbers, TypeOK
  <2>3. upc[r] \notin Started
    BY <2>1 DEF Started
  <2>4. ~ Known(sid[r])
    BY <1>0, <2>2, <2>3 DEF Known, Unique
  <2>5. input[r] = "none" /\ (down < 4 => status[r] = "Idle") /\ todo[r] = << >>
    BY <1>0, <2>3 DEF Fresh, Untouched
  <2> QED
    BY <2>1, <2>2, <2>4, <2>5
<1>2. wire[sid[r]] = None /\ ~ AtHand(r) /\ \A f \in Range(message) : f.id # sid[r]
  BY <1>0, <1>1 DEF Untouched, AtHand, AllKnown
<1>3. \A f \in Range(cacheMap[sid[r]]) : FALSE
  <2>1. \A f \in Range(cacheMap[sid[r]]) : Known(f.id) /\ f.id = sid[r]
    BY <1>0, <1>1 DEF AllKnown, Threads, Contents
  <2> QED
    BY <1>1, <2>1
<1>4. InHand(r)' = {} /\ ~ AtHand(r)' /\ CachedOf(r)' = {} /\ WaitingOf(r)' = {} /\ ToWrite(r)' = Range(todo'[r])
  BY <1>1, <1>2, <1>3 DEF InHand, AtHand, CachedOf, WaitingOf, ToWrite
<1>5. Rest(r)' = Range(todo'[r])
  BY <1>4 DEF Rest
<1>6. Ascends(message', sid[r]) /\ Ascends(cacheMap'[sid[r]], sid[r])
  BY <1>1, <1>2, <1>3 DEF Ascends, Range
<1>7. /\ Ascends(todo'[r], sid[r])
      /\ \A st : Follow(Range(todo'[r]), Range(todo'[r]), None, st)
  <2>1. CASE OpenConn(r)
    <3>1. PICK kind \in Kinds : todo' = [todo EXCEPT ![r] = Written(kind, sid[r])]
      BY <2>1 DEF OpenConn
    <3>2. todo'[r] = Written(kind, sid[r])
      BY <1>1, <3>1
    <3>3. ASSUME NEW st PROVE Ascends(Written(kind, sid[r]), sid[r])
                         /\ LET W == Range(Written(kind, sid[r])) IN Follow(W, W, None, st) /\ \E f \in W : f.end
      BY <1>1, WrittenFollows
    <3> QED
      BY <3>2, <3>3
  <2>2. CASE WriteFails(r)
    <3>1. todo'[r] = << >>
      BY <1>1, <2>2 DEF WriteFails
    <3>2. Ascends(<< >>, sid[r]) /\ Range(<< >>) = {}
      BY EmptyRange DEF Ascends
    <3> QED
      BY <3>1, <3>2 DEF Follow
  <2> QED
    BY <2>1, <2>2
<1>8. Fits(r)'
  <2>1. Row({}, {}, {}, Range(todo'[r]))
    BY DEF Row, Precede
  <2>2. Lined(r)'
    BY <1>1, <1>4, <1>6, <1>7, <2>1 DEF Lined
  <2>3. Rest(r)' \cup InHand(r)' = Range(todo'[r]) /\ wire'[sid'[r]] = None
    BY <1>1, <1>2, <1>4, <1>5
  <2>4. Follow(Rest(r)', Rest(r)' \cup InHand(r)', wire'[sid'[r]], Stuck(r)')
    BY <1>5, <1>7, <2>3
  <2> QED
    BY <2>2, <2>4 DEF Fits
<1>9. HandFits(r)' /\ SeenFits(r)'
  BY <1>4 DEF HandFits, SeenFits
<1>10. StatusFits(r)' /\ WireFits(r)'
  <2>1. status'[r] # "Idle" => down' >= 3 /\ down' = 4
    BY <1>1
  <2>2. StatusFits(r)'
    BY <1>1, <1>2, <2>1 DEF StatusFits, Gone
  <2>3. WireFits(r)'
    BY <1>1, <1>2, <1>4, ShapesDiffer DEF WireFits, Uncut
  <2> QED
    BY <2>2, <2>3
<1> QED
  BY <1>5, <1>8, <1>9, <1>10 DEF Kept

\* What QuietKeeps asks of a step.
QuietFor(r) ==
  /\ sid'[r] = sid[r] /\ todo'[r] = todo[r] /\ status'[r] = status[r] /\ wire'[sid[r]] = wire[sid[r]]
  /\ UNCHANGED <<message, cacheMap, lastSendId, wpc, wframe, wseen>>
  /\ input[r] = "quit" => input'[r] = "quit"
  /\ streams'[sid[r]] = r => streams[sid[r]] = r
  /\ down <= down' /\ down' \in 0 .. 4

\* The users' other steps are such steps.
LEMMA UsersQuiet ==
  ASSUME TypeOK, NEW r \in Reqs, Begins(r), NEW q \in Reqs,
         \/ Count(q) \/ Refuse(q) \/ FirstId(q) \/ LoadId(q) \/ NextId(q) \/ MapStream(q)
         \/ OpenConn(q) \/ WriteFails(q) \/ Response(q) \/ NoResponse(q) \/ Reset(q)
  PROVE  QuietFor(r)
<1>0. /\ UserTypes /\ StreamTypes /\ QueueTypes /\ upc[r] \in Started /\ sid[r] \in Ids
      /\ down \in 0 .. 4
  <2>1. UserTypes /\ StreamTypes /\ QueueTypes /\ down \in 0 .. 4
    BY DEF TypeOK, UserTypes, StreamTypes, QueueTypes
  <2> QED
    BY <2>1 DEF Begins, UserTypes
<1>1. down <= down /\ (upc[r] \notin {"new", "refuse", "cas", "load", "next", "map", "open"})
  BY <1>0 DEF Started
<1>2. CASE Count(q)
  BY <1>0, <1>1, <1>2 DEF QuietFor, UserTypes, StreamTypes, QueueTypes, Count, User, statusVars,
       queueVars, writeVars, readVars, wireVars, downVars
<1>3. CASE Refuse(q)
  BY <1>0, <1>1, <1>3 DEF QuietFor, UserTypes, StreamTypes, QueueTypes, Refuse, User, statusVars,
       queueVars, writeVars, readVars, wireVars, downVars
<1>4. CASE FirstId(q)
  BY <1>0, <1>1, <1>4 DEF QuietFor, UserTypes, StreamTypes, QueueTypes, FirstId, User, statusVars,
       queueVars, writeVars, readVars, wireVars, downVars
<1>5. CASE LoadId(q)
  BY <1>0, <1>1, <1>5 DEF QuietFor, UserTypes, StreamTypes, QueueTypes, LoadId, User, engineVars,
       statusVars, queueVars, writeVars, readVars, wireVars, downVars
<1>6. CASE NextId(q)
  BY <1>0, <1>1, <1>6 DEF QuietFor, UserTypes, StreamTypes, QueueTypes, NextId, User, statusVars,
       queueVars, writeVars, readVars, wireVars, downVars
<1>7. CASE MapStream(q)
  BY <1>0, <1>1, <1>7 DEF QuietFor, UserTypes, StreamTypes, QueueTypes, MapStream, User,
       statusVars, queueVars, writeVars, readVars, wireVars, downVars
<1>8. CASE OpenConn(q)
  BY <1>0, <1>1, <1>8 DEF QuietFor, UserTypes, StreamTypes, QueueTypes, OpenConn, User,
       engineVars, statusVars, queueVars, writeVars, readVars, wireVars, downVars
<1>9. CASE WriteFails(q)
  BY <1>0, <1>1, <1>9 DEF QuietFor, UserTypes, StreamTypes, QueueTypes, WriteFails, User,
       engineVars, statusVars, queueVars, writeVars, readVars, wireVars, downVars
<1>10. CASE Response(q)
  BY <1>0, <1>1, <1>10 DEF QuietFor, UserTypes, StreamTypes, QueueTypes, Response, User,
       engineVars, statusVars, queueVars, writeVars, readVars, wireVars, downVars
<1>11. CASE NoResponse(q)
  BY <1>0, <1>1, <1>11 DEF QuietFor, UserTypes, StreamTypes, QueueTypes, NoResponse, User,
       engineVars, statusVars, queueVars, writeVars, readVars, wireVars, downVars
<1>12. CASE Reset(q)
  BY <1>0, <1>1, <1>12 DEF QuietFor, UserTypes, StreamTypes, QueueTypes, Reset, engineVars,
       userVars, statusVars, writeVars, readVars, wireVars, downVars
<1> QED
  BY <1>2, <1>3, <1>4, <1>5, <1>6, <1>7, <1>8, <1>9, <1>10, <1>11, <1>12

-----------------------------------------------------------------------------
(* The steps of the read thread and of the shutdown.                         *)

\* The read thread half closes the stream, or closes and purges it.
LEMMA ReaderSets ==
  ASSUME TypeOK, Threads, NEW r \in Reqs, Begins(r), Kept(r), wire[sid[r]] # None \/ down >= 3,
         UNCHANGED <<sid, todo, message, cacheMap, lastSendId, wpc, wframe, wseen, wire, down>>,
         input[r] = "quit" => input'[r] = "quit",
         streams'[sid[r]] = r => streams[sid[r]] = r,
         \/ status'[r] = "HalfClosedRemote"
         \/ status'[r] = "Closed" /\ streams'[sid[r]] # r
  PROVE  Kept(r)'
<1>1. Rests(r)
  BY DEF Rests, WaitingOf, AtHand, InHand
<1>2. (Gone(r) \/ Fits(r))' /\ HandFits(r)' /\ WireFits(r)' /\ Rest(r)' \subseteq Rest(r) /\ (Gone(r) => Gone(r)')
  BY <1>1, RestsKeep DEF Kept
<1>3. StatusFits(r)' /\ SeenFits(r)'
  <2>1. InHand(r)' = InHand(r)
    BY DEF InHand, AtHand
  <2>2. StatusFits(r)'
    BY DEF StatusFits
  <2>3. SeenFits(r)'
    BY <1>2, <2>1 DEF SeenFits, AtHand, Kept
  <2> QED
    BY <2>2, <2>3
<1> QED
  BY <1>2, <1>3 DEF Kept

\* The steps of the read thread.
LEMMA ReaderKeeps ==
  ASSUME StreamInv, Untouched, NEW r \in Reqs, Begins(r), Kept(r),
         ReadFrame \/ ReadMatch \/ ReadResponse \/ ReadRefuse \/ ReadReset
  PROVE  Kept(r)'
<1>0. /\ TypeOK /\ Threads /\ Numbers /\ Unique /\ AllKnown
      /\ status \in [Reqs -> Statuses] /\ input \in [Reqs -> {"none", "open", "closed", "quit"}]
      /\ streams \in [Ids -> Reqs \cup {NoReq}] /\ NoReq \notin Reqs /\ sid[r] \in Ids
      /\ down <= down /\ down \in 0 .. 4
  <2>1. TypeOK /\ Threads /\ Numbers /\ Unique /\ AllKnown /\ NoReq \notin Reqs
    BY ClientAssumption DEF StreamInv, CountInv
  <2>2. /\ status \in [Reqs -> Statuses] /\ input \in [Reqs -> {"none", "open", "closed", "quit"}]
        /\ streams \in [Ids -> Reqs \cup {NoReq}] /\ down \in 0 .. 4
    BY <2>1 DEF TypeOK
  <2>3. sid[r] \in Ids
    BY <2>1 DEF TypeOK, Begins
  <2> QED
    BY <2>1, <2>2, <2>3
<1>1. CASE ReadFrame
  <2>1. QuietFor(r)
    BY <1>0, <1>1 DEF QuietFor, ReadFrame, engineVars, userVars, statusVars, queueVars, writeVars, downVars
  <2> QED
    BY <1>0, <2>1, QuietKeeps DEF QuietFor
<1>2. CASE ReadMatch
  <2>1. QuietFor(r)
    BY <1>0, <1>2 DEF QuietFor, ReadMatch, engineVars, userVars, statusVars, queueVars, writeVars, wireVars, downVars
  <2> QED
    BY <1>0, <2>1, QuietKeeps DEF QuietFor
<1>3. CASE ReadRefuse
  <2>1. QuietFor(r)
    BY <1>0, <1>3 DEF QuietFor, ReadRefuse, Fatal, ReaderDone, engineVars, userVars, statusVars, writeVars, wireVars
  <2> QED
    BY <1>0, <2>1, QuietKeeps DEF QuietFor
<1>4. CASE ReadResponse \/ ReadReset
  <2>0. /\ rpc = "update" /\ rreq \in Reqs /\ rframe \in Frames /\ rframe.id \in Ids /\ sid[rreq] = rframe.id
        /\ wire[rframe.id] # None \/ down >= 3
        /\ UNCHANGED <<sid, todo, message, cacheMap, lastSendId, wpc, wframe, wseen, wire, down>>
        /\ input[r] = "quit" => input'[r] = "quit"
    <3>1. rpc = "update" /\ rreq \in Reqs /\ rframe \in Frames /\ rframe.id \in Ids /\ sid[rreq] = rframe.id
      BY <1>0, <1>4 DEF ReadResponse, ReadReset, Threads, Frames, AllKnown
    <3>2. wire[rframe.id] # None \/ down >= 3
      BY <3>1 DEF Untouched
    <3>3. CASE ReadResponse
      BY <1>0, <3>1, <3>2, <3>3 DEF ReadResponse, Deliver, queueVars, writeVars, wireVars, downVars
    <3>4. CASE ReadReset
      BY <1>0, <3>1, <3>2, <3>4 DEF ReadReset, userVars, queueVars, writeVars, wireVars, downVars
    <3> QED
      BY <1>4, <3>3, <3>4
  <2>1. streams'[sid[r]] = r => streams[sid[r]] = r
    <3>1. UNCHANGED streams \/ streams' = [streams EXCEPT ![rframe.id] = NoReq]
      BY <1>4 DEF ReadResponse, ReadReset, Purge
    <3> QED
      BY <1>0, <3>1
  <2>2. CASE rreq # r
    <3>1. status'[r] = status[r]
      BY <1>0, <1>4, <2>2 DEF ReadResponse, ReadReset, Assign, statusVars
    <3> QED
      BY <1>0, <2>0, <2>1, <3>1, QuietKeeps
  <2>3. CASE rreq = r
    <3>1. \/ status'[r] = status[r]
          \/ status'[r] = "HalfClosedRemote"
          \/ status'[r] = "Closed" /\ streams'[sid[r]] # r
      <4>1. CASE ReadReset
        BY <1>0, <2>0, <2>3, <4>1 DEF ReadReset, Purge
      <4>2. CASE ReadResponse
        <5> DEFINE to == AfterRead(rseen, rframe)
        <5>1. to \in {rseen, "HalfClosedRemote", "Closed"} /\ rseen # "Closed"
          BY <4>2 DEF AfterRead, ReadResponse
        <5>2. Assign(rreq, rseen, to) /\ Purge(to = "Closed", rframe.id)
          BY <4>2 DEF ReadResponse
        <5> HIDE DEF to
        <5>3. CASE to = rseen
          BY <5>2, <5>3 DEF Assign, statusVars
        <5>4. CASE to # rseen
          <6>1. status'[r] = to
            BY <1>0, <2>3, <5>2, <5>4 DEF Assign
          <6>2. to = "Closed" => streams'[sid[r]] # r
            BY <1>0, <2>0, <2>3, <5>2 DEF Purge
          <6> QED
            BY <5>1, <5>4, <6>1, <6>2
        <5> QED
          BY <5>3, <5>4
      <4> QED
        BY <1>4, <4>1, <4>2
    <3>2. CASE status'[r] = status[r]
      BY <1>0, <2>0, <2>1, <3>2, QuietKeeps
    <3>3. CASE status'[r] = "HalfClosedRemote" \/ (status'[r] = "Closed" /\ streams'[sid[r]] # r)
      BY <1>0, <2>0, <2>1, <2>3, <3>3, ReaderSets
    <3> QED
      BY <3>1, <3>2, <3>3
  <2> QED
    BY <2>2, <2>3
<1> QED
  BY <1>1, <1>2, <1>3, <1>4

\* The steps of the shutdown.
LEMMA ShutdownKeeps ==
  ASSUME TypeOK, Threads, NEW r \in Reqs, Begins(r), Kept(r), PeerClose \/ ShutdownStep \/ ShutdownStreams
  PROVE  Kept(r)'
<1>0. /\ status \in [Reqs -> Statuses] /\ down \in 0 .. 4 /\ down <= down /\ lastSendId \in Nat /\ lastSendId <= lastSendId
      /\ input \in [Reqs -> {"none", "open", "closed", "quit"}]
  <2>1. lastSendId \in Nat
    BY IdNumbers
  <2>2. /\ status \in [Reqs -> Statuses] /\ down \in 0 .. 4
        /\ input \in [Reqs -> {"none", "open", "closed", "quit"}]
    BY DEF TypeOK
  <2> QED
    BY <2>1, <2>2
<1>1. CASE PeerClose
  <2>1. QuietFor(r)
    BY <1>0, <1>1 DEF QuietFor, PeerClose, engineVars, userVars, statusVars, queueVars, writeVars, wireVars
  <2> QED
    BY <2>1, QuietKeeps DEF QuietFor
<1>2. CASE ShutdownStep
  <2>1. /\ down < 3 /\ down' = down + 1 /\ (down # 1 => UNCHANGED message) /\ input' = input
        /\ UNCHANGED <<sid, status, todo, streams, cacheMap, lastSendId, wpc, wframe, wseen, wire>>
    BY <1>2 DEF ShutdownStep, engineVars, userVars, statusVars, queueVars, writeVars, wireVars
  <2>2. down <= down' /\ down' \in 0 .. 4
    BY <1>0, <2>1
  <2>3. CASE down # 1
    BY <2>1, <2>2, <2>3, QuietKeeps
  <2>4. CASE down = 1
    <3>1. Gone(r)'
      BY <2>1, <2>4 DEF Gone
    <3>2. AtHand(r)' => AtHand(r) /\ UNCHANGED <<wpc, wframe, wseen>>
      BY <2>1 DEF AtHand
    <3> QED
      BY <1>0, <2>1, <2>2, <3>1, <3>2, GoneKeeps
  <2> QED
    BY <2>3, <2>4
<1>3. CASE ShutdownStreams
  <2>1. /\ down = 3 /\ down' = 4 /\ status'[r] \in {status[r], "Closed"}
        /\ UNCHANGED <<sid, streams, cacheMap, lastSendId, wpc, wframe, wseen, wire>>
    BY <1>0, <1>3 DEF ShutdownStreams, engineVars, userVars, queueVars, writeVars, wireVars
  <2>2. Gone(r)' /\ InHand(r)' = InHand(r) /\ (AtHand(r)' <=> AtHand(r)) /\ down' >= 3
    BY <2>1 DEF Gone, InHand, AtHand
  <2>3. HandFits(r)'
    BY <2>1, <2>2 DEF HandFits, Kept
  <2>4. StatusFits(r)'
    BY <2>1, <2>2 DEF StatusFits, Kept
  <2>5. SeenFits(r)'
    BY <2>1, <2>2 DEF SeenFits, Kept
  <2>6. WireFits(r)'
    BY <2>1, <2>2 DEF WireFits, Kept
  <2> QED
    BY <2>2, <2>3, <2>4, <2>5, <2>6 DEF Kept
<1> QED
  BY <1>1, <1>2, <1>3

-----------------------------------------------------------------------------
(* The steps of the write thread.                                            *)

\* What is taken of another stream.
LEMMA TakeOther ==
  ASSUME TypeOK, Threads, NEW id \in Ids, Take, Taken.id # id
  PROVE  /\ cacheMap'[id] = cacheMap[id] /\ Of(message', id) = Of(message, id)
         /\ Ascends(message, id) => Ascends(message', id)
<1>0. message \in Seq(Frames) /\ cacheMap \in [Ids -> Seq(Frames)]
  BY DEF TypeOK
<1>1. CASE Cached(lastSendId + 2)
  <2>1. /\ lastSendId + 2 \in Ids /\ cacheMap[lastSendId + 2] # << >> /\ Taken = Head(cacheMap[lastSendId + 2])
        /\ cacheMap' = [cacheMap EXCEPT ![lastSendId + 2] = Tail(cacheMap[lastSendId + 2])] /\ message' = message
    BY <1>1 DEF Cached, Taken, Take, queueVars
  <2>2. cacheMap[lastSendId + 2] \in Seq(Frames)
    BY <1>0, <2>1
  <2>3. Taken \in Range(cacheMap[lastSendId + 2])
    BY <2>1, <2>2, TailRange
  <2>4. lastSendId + 2 # id
    BY <2>1, <2>3 DEF Threads, Contents
  <2> QED
    BY <1>0, <2>1, <2>4
<1>2. CASE ~ Cached(lastSendId + 2) /\ control # << >>
  BY <1>2 DEF Take
<1>3. CASE ~ Cached(lastSendId + 2) /\ control = << >>
  <2>1. message # << >> /\ Taken = Head(message) /\ message' = Tail(message) /\ cacheMap' = cacheMap
    BY <1>3 DEF Take, Taken
  <2>2. /\ Ascends(message, id) => Ascends(Tail(message), id)
        /\ Of(message, id) = Of(Tail(message), id) \cup (IF Head(message).id = id THEN {Head(message)} ELSE {})
    <3> HIDE DEF Of, Ascends
    <3> QED
      BY <1>0, <2>1, OfTail
  <2> QED
    BY <2>1, <2>2
<1> QED
  BY <1>1, <1>2, <1>3

\* What is taken of the stream itself is its first frame.
LEMMA TakeOwn ==
  ASSUME TypeOK, Threads, NEW r \in Reqs, Begins(r), Take, Taken.id = sid[r], ~ Early, Fits(r), wpc = "take",
         UNCHANGED <<sid, lastSendId, todo, input>>
  PROVE  /\ Taken.type # "rst" =>
              /\ CachedOf(r)' \subseteq CachedOf(r) /\ WaitingOf(r)' \subseteq WaitingOf(r) /\ ToWrite(r)' = ToWrite(r)
              /\ CachedOf(r)' \cup WaitingOf(r)' \cup ToWrite(r) \cup {Taken} = Rest(r)
              /\ Precede({Taken}, CachedOf(r)' \cup WaitingOf(r)' \cup ToWrite(r))
              /\ Ascends(message', sid[r]) /\ Ascends(cacheMap'[sid[r]], sid[r])
              /\ Stuck(r)' = Stuck(r) /\ sid[r] <= lastSendId + 2
         /\ Taken.type = "rst" => UNCHANGED <<message, cacheMap>>
<1> DEFINE id == sid[r]  C == CachedOf(r)  M == WaitingOf(r)  T == ToWrite(r)  f == Taken
<1>0. /\ id \in Ids /\ id \in Nat /\ lastSendId \in Nat /\ message \in Seq(Frames) /\ control \in Seq(Frames)
      /\ cacheMap \in [Ids -> Seq(Frames)] /\ cacheMap[id] \in Seq(Frames)
      /\ M = Of(message, id) /\ Range(cacheMap[id]) = Of(cacheMap[id], id)
  BY PartsFacts DEF Begins, TypeOK
<1>1. /\ Precede(C, M) /\ Precede(C, T) /\ Precede(M, T)
      /\ Ascends(message, id) /\ Ascends(cacheMap[id], id)
  BY DEF Fits, Lined, Row
<1>2. ToWrite(r)' = T /\ WaitingOf(r)' = Of(message', id) /\ sid'[r] = id
  BY DEF ToWrite, WaitingOf, Of
<1>3. CASE Cached(lastSendId + 2)
  <2>1. /\ lastSendId + 2 \in Ids /\ cacheMap[lastSendId + 2] # << >> /\ f = Head(cacheMap[lastSendId + 2])
        /\ cacheMap' = [cacheMap EXCEPT ![lastSendId + 2] = Tail(cacheMap[lastSendId + 2])] /\ message' = message
    BY <1>3 DEF Cached, Taken, Take, queueVars
  <2>2. f \in Range(cacheMap[lastSendId + 2]) /\ f.type # "rst" /\ lastSendId + 2 = id
    <3>1. cacheMap[lastSendId + 2] \in Seq(Frames)
      BY <1>0, <2>1
    <3>2. f \in Range(cacheMap[lastSendId + 2])
      BY <2>1, <3>1, TailRange
    <3> QED
      BY <2>1, <3>2 DEF Threads, Contents
  <2> DEFINE s == cacheMap[id]
  <2>3. s \in Seq(Frames) /\ s # << >> /\ f = Head(s) /\ cacheMap'[id] = Tail(s) /\ f.id = id
    BY <1>0, <2>1, <2>2
  <2>4. /\ Ascends(Tail(s), id) /\ Of(s, id) = Of(Tail(s), id) \cup {f} /\ Precede({f}, Of(Tail(s), id))
    <3>1. /\ Ascends(s, id) => Ascends(Tail(s), id)
          /\ Of(s, id) = Of(Tail(s), id) \cup (IF Head(s).id = id THEN {Head(s)} ELSE {})
          /\ Ascends(s, id) /\ Head(s).id = id => Precede({Head(s)}, Of(Tail(s), id))
      BY <2>3, OfTail
    <3> QED
      BY <1>1, <2>3, <3>1
  <2>5. Range(Tail(s)) = Of(Tail(s), id)
    <3>1. Range(Tail(s)) \subseteq Range(s)
      BY <2>3, TailRange
    <3> QED
      BY <1>0, <3>1 DEF Of
  <2>6. id > lastSendId + 1 /\ ~ (id <= lastSendId + 1)
    BY <1>0, <2>2
  <2>7. C = Of(s, id) /\ CachedOf(r)' = Of(Tail(s), id)
    BY <1>0, <1>2, <2>3, <2>5, <2>6 DEF CachedOf
  <2>8. Stuck(r)' = Stuck(r)
    BY <1>2, <2>6 DEF Stuck
  <2>9. f \in C /\ Precede({f}, M \cup T)
    BY <1>1, <2>4, <2>7 DEF Precede
  <2>10. WaitingOf(r)' = M /\ sid[r] <= lastSendId + 2
    BY <1>0, <1>2, <2>1, <2>2
  <2>11. Precede({f}, CachedOf(r)' \cup M \cup T)
    BY <2>4, <2>7, <2>9 DEF Precede
  <2>12. CachedOf(r)' \cup M \cup T \cup {f} = C \cup M \cup T /\ CachedOf(r)' \subseteq C
    BY <2>4, <2>7
  <2> QED
    BY <1>1, <1>2, <2>1, <2>2, <2>3, <2>4, <2>8, <2>10, <2>11, <2>12 DEF Rest
<1>4. CASE ~ Cached(lastSendId + 2) /\ control # << >>
  <2>1. f = Head(control) /\ UNCHANGED <<message, cacheMap>>
    BY <1>4 DEF Take, Taken
  <2>2. f \in Range(control)
    BY <1>0, <1>4, <2>1, TailRange
  <2>3. f.type = "rst"
    BY <2>2 DEF Threads, Contents
  <2> QED
    BY <2>1, <2>3
<1>5. CASE ~ Cached(lastSendId + 2) /\ control = << >>
  <2>1. message # << >> /\ f = Head(message) /\ message' = Tail(message) /\ cacheMap' = cacheMap
    BY <1>5 DEF Take, Taken
  <2>2. f.type # "rst"
    <3>1. f \in Range(message)
      BY <1>0, <2>1, TailRange
    <3> QED
      BY <3>1 DEF Threads, Contents
  <2>3. sid[r] <= lastSendId + 2
    BY <1>0, <2>2 DEF Early
  <2>4. C = {}
    <3>1. CASE id > lastSendId + 1
      <4>1. id = lastSendId + 2
        BY <1>0, <2>3, <3>1
      <4>2. cacheMap[id] = << >>
        BY <1>0, <1>5, <4>1 DEF Cached
      <4> QED
        BY <4>2, EmptyRange DEF CachedOf
    <3>2. CASE ~ (id > lastSendId + 1)
      BY <3>2 DEF CachedOf
    <3> QED
      BY <3>1, <3>2
  <2>5. CachedOf(r)' = C /\ Stuck(r)' = Stuck(r)
    BY <1>2, <2>1 DEF CachedOf, Stuck
  <2>6. /\ Ascends(message', id) /\ M = Of(message', id) \cup {f} /\ Precede({f}, Of(message', id))
    <3>1. /\ Ascends(message, id) => Ascends(Tail(message), id)
          /\ Of(message, id) = Of(Tail(message), id) \cup (IF Head(message).id = id THEN {Head(message)} ELSE {})
          /\ Ascends(message, id) /\ Head(message).id = id => Precede({Head(message)}, Of(Tail(message), id))
      BY <1>0, <2>1, OfTail
    <3> QED
      BY <1>0, <1>1, <2>1, <3>1
  <2>7. Precede({f}, WaitingOf(r)' \cup T)
    BY <1>1, <1>2, <2>6 DEF Precede
  <2>8. WaitingOf(r)' \cup T \cup {f} = M \cup T /\ WaitingOf(r)' \subseteq M
    BY <1>2, <2>6
  <2> QED
    BY <1>1, <1>2, <2>1, <2>2, <2>3, <2>4, <2>5, <2>6, <2>7, <2>8 DEF Rest
<1> QED
  BY <1>3, <1>4, <1>5

\* The frame of a purged stream is dropped.
LEMMA DropKeeps ==
  ASSUME StreamInv, NEW r \in Reqs, Begins(r), Kept(r), WriterDrop
  PROVE  Kept(r)' /\ (~ Gone(r) => Stays(r))
<1>0. /\ TypeOK /\ Threads /\ sid[r] \in Ids /\ NoReq \notin Reqs /\ wpc = "take" /\ Take /\ streams[Taken.id] = NoReq
      /\ UNCHANGED <<sid, down, todo, status, wire, input, streams, wpc, wframe, wseen, lastSendId>>
      /\ lastSendId \in Nat /\ lastSendId <= lastSendId /\ down \in 0 .. 4 /\ down <= down
  <2>1. TypeOK /\ Threads /\ NoReq \notin Reqs
    BY ClientAssumption DEF StreamInv, CountInv
  <2>2. sid[r] \in Ids /\ down \in 0 .. 4 /\ lastSendId \in Nat
    BY <2>1, PartsFacts DEF Begins, TypeOK
  <2>3. /\ wpc = "take" /\ Take /\ streams[Taken.id] = NoReq
        /\ UNCHANGED <<sid, down, todo, status, wire, input, streams, wpc, wframe, wseen, lastSendId>>
    BY DEF WriterDrop, engineVars, userVars, statusVars, wireVars, downVars
  <2> QED
    BY <2>1, <2>2, <2>3
<1>1. CASE Taken.id = sid[r]
  <2>1. Gone(r)'
    BY <1>0, <1>1 DEF Gone
  <2>2. ~ AtHand(r)'
    BY <1>0 DEF AtHand
  <2> QED
    BY <1>0, <1>1, <2>1, <2>2, GoneKeeps DEF Gone
<1>2. CASE Taken.id # sid[r]
  <2>1. /\ cacheMap'[sid[r]] = cacheMap[sid[r]] /\ Of(message', sid[r]) = Of(message, sid[r])
        /\ Ascends(message, sid[r]) => Ascends(message', sid[r])
    BY <1>0, <1>2, TakeOther
  <2> QED
    BY <1>0, <2>1, OtherKeeps, SameStays
<1> QED
  BY <1>1, <1>2

\* A frame that is early goes from message to the end of its cache.
LEMMA CacheKeeps ==
  ASSUME StreamInv, NEW r \in Reqs, Begins(r), Kept(r), WriterCache
  PROVE  Kept(r)' /\ Stays(r)
<1> DEFINE id == sid[r]  f == Taken
<1>0. /\ TypeOK /\ Threads /\ id \in Ids /\ id \in Nat /\ lastSendId \in Nat
      /\ message \in Seq(Frames) /\ cacheMap \in [Ids -> Seq(Frames)]
      /\ message # << >> /\ f = Head(message) /\ message' = Tail(message) /\ f \in Frames /\ f.id \in Ids
      /\ cacheMap' = [cacheMap EXCEPT ![f.id] = Append(cacheMap[f.id], f)]
      /\ UNCHANGED <<sid, down, todo, status, wire, input, streams, wpc, wframe, wseen, lastSendId>>
      /\ wpc = "take" /\ down <= down' /\ down' \in 0 .. 4 /\ f.type # "rst" /\ f.id > lastSendId + 2
      /\ WaitingOf(r) = Of(message, id) /\ Range(cacheMap[id]) = Of(cacheMap[id], id)
      /\ Sets(InHand(r), CachedOf(r), WaitingOf(r), ToWrite(r))
  <2>1. TypeOK /\ Threads
    BY DEF StreamInv, CountInv
  <2>2. /\ message \in Seq(Frames) /\ cacheMap \in [Ids -> Seq(Frames)] /\ down \in 0 .. 4
    BY <2>1 DEF TypeOK
  <2>3. /\ message # << >> /\ f = Head(message) /\ message' = Tail(message)
        /\ cacheMap' = [cacheMap EXCEPT ![f.id] = Append(cacheMap[f.id], f)]
        /\ UNCHANGED <<sid, down, todo, status, wire, input, streams, wpc, wframe, wseen, lastSendId>>
        /\ wpc = "take" /\ f.type # "rst" /\ f.id > lastSendId + 2
    BY DEF WriterCache, Taken, Early, engineVars, userVars, statusVars, wireVars, downVars
  <2>4. f \in Frames
    BY <2>2, <2>3, TailAt
  <2>5. f.id \in Ids /\ down <= down' /\ down' \in 0 .. 4
    BY <2>2, <2>3, <2>4 DEF Frames
  <2> QED
    BY <2>1, <2>2, <2>3, <2>4, <2>5, PartsFacts DEF Begins
<1>1. /\ Of(message, id) = Of(message', id) \cup (IF f.id = id THEN {f} ELSE {})
      /\ Ascends(message, id) => Ascends(message', id)
      /\ Ascends(message, id) /\ f.id = id => Precede({f}, Of(message', id))
  <2>1. /\ Of(message, id) = Of(Tail(message), id) \cup (IF Head(message).id = id THEN {Head(message)} ELSE {})
        /\ Ascends(message, id) => Ascends(Tail(message), id)
        /\ Ascends(message, id) /\ Head(message).id = id => Precede({Head(message)}, Of(Tail(message), id))
    BY <1>0, OfTail
  <2> QED
    BY <1>0, <2>1
<1>2. CASE f.id # id
  <2>1. cacheMap'[id] = cacheMap[id] /\ Of(message', id) = Of(message, id)
    BY <1>0, <1>1, <1>2
  <2> QED
    BY <1>0, <1>1, <2>1, OtherKeeps, SameStays
<1>3. CASE f.id = id
  <2> DEFINE C == CachedOf(r)  M == WaitingOf(r)  T == ToWrite(r)  C2 == CachedOf(r)'  M2 == WaitingOf(r)'
             s == cacheMap[id]
  <2>1. s \in Seq(Frames) /\ cacheMap'[id] = Append(s, f) /\ id > lastSendId + 1 /\ ~ (id <= lastSendId + 1)
    BY <1>0, <1>3
  <2>2. /\ Of(Append(s, f), id) = Of(s, id) \cup {f}
        /\ Ascends(s, id) /\ Precede(Of(s, id), {f}) => Ascends(Append(s, f), id)
        /\ Range(Append(s, f)) = Range(s) \cup {f}
    <3>1. /\ Of(Append(s, f), id) = Of(s, id) \cup (IF f.id = id THEN {f} ELSE {})
          /\ Ascends(s, id) /\ (f.id = id => Precede(Of(s, id), {f})) => Ascends(Append(s, f), id)
      <4>1. s \in Seq(Frames) /\ f \in Frames
        BY <1>0, <2>1
      <4> HIDE DEF s, f, id
      <4> QED
        BY <4>1, OfAppend
    <3>2. Range(Append(s, f)) = Range(s) \cup {f}
      BY <1>0, <2>1, AppendRange
    <3> QED
      BY <1>3, <3>1, <3>2
  <2>3. /\ C = Of(s, id) /\ C2 = C \cup {f} /\ M = M2 \cup {f} /\ M2 = Of(message', id) /\ ToWrite(r)' = T
        /\ InHand(r) = {} /\ InHand(r)' = {} /\ ~ AtHand(r) /\ ~ AtHand(r)' /\ Stuck(r)' = Stuck(r)
        /\ (Gone(r)' <=> Gone(r))
    <3>1. C = Of(s, id) /\ C2 = C \cup {f}
      BY <1>0, <2>1, <2>2 DEF CachedOf
    <3>2. M2 = Of(message', id) /\ M = M2 \cup {f}
      <4>1. M2 = Of(message', id)
        BY <1>0 DEF WaitingOf, Of
      <4> QED
        BY <1>0, <1>1, <1>3, <4>1
    <3>3. ToWrite(r)' = T /\ (Gone(r)' <=> Gone(r))
      BY <1>0 DEF ToWrite, Gone
    <3>4. InHand(r) = {} /\ InHand(r)' = {} /\ ~ AtHand(r) /\ ~ AtHand(r)'
      BY <1>0 DEF AtHand, InHand
    <3>5. Stuck(r)' = Stuck(r)
      BY <1>0, <2>1 DEF Stuck
    <3> QED
      BY <3>1, <3>2, <3>3, <3>4, <3>5
  <2>4. Rest(r)' = Rest(r)
    BY <2>3 DEF Rest
  <2>5. ASSUME Fits(r) PROVE Fits(r)'
    <3>1. Row({}, C, M, T) /\ Ascends(message, id) /\ Ascends(s, id) /\ Ascends(todo[r], id)
      BY <2>3, <2>5 DEF Fits, Lined
    <3>2. Precede({f}, M2) /\ Precede(C, {f})
      BY <1>1, <1>3, <2>3, <3>1 DEF Row, Precede
    <3>3. Row({}, C2, M2, T)
      BY <2>3, <3>1, <3>2 DEF Row, Precede
    <3>4. Ascends(message', id) /\ Ascends(cacheMap'[id], id) /\ Ascends(todo'[r], id)
      BY <1>0, <1>1, <2>1, <2>2, <2>3, <3>1, <3>2
    <3>5. Lined(r)'
      BY <1>0, <2>3, <3>3, <3>4 DEF Lined
    <3>6. Follow(Rest(r)', Rest(r)' \cup InHand(r)', wire'[sid'[r]], Stuck(r)')
      BY <1>0, <2>3, <2>4, <2>5 DEF Fits
    <3> QED
      BY <3>5, <3>6 DEF Fits
  <2>6. HandFits(r)' /\ WireFits(r)'
    BY <1>0, <2>3 DEF HandFits, WireFits, Kept
  <2>7. StatusFits(r)' /\ SeenFits(r)'
    BY <1>0, <2>3, <2>4, RestsStatus DEF Kept
  <2> QED
    BY <2>3, <2>4, <2>5, <2>6, <2>7 DEF Kept, Stays
<1> QED
  BY <1>2, <1>3

\* The first frame of a stream is taken, or its reset.
LEMMA TakeKeeps ==
  ASSUME StreamInv, NEW r \in Reqs, Begins(r), Kept(r), WriterTake
  PROVE  Kept(r)' /\ Stays(r)
<1> DEFINE f == Taken
<1>0. /\ TypeOK /\ Threads /\ Unique /\ Placed /\ sid[r] \in Ids /\ NoReq \notin Reqs /\ Take /\ ~ Early
      /\ streams[f.id] # NoReq /\ f \in Frames /\ f.id \in Ids
      /\ UNCHANGED <<sid, down, todo, status, wire, input, streams, wseen, lastSendId>>
      /\ wpc = "take" /\ wpc' = "match" /\ wframe' = f /\ down < 2 /\ down \in 0 .. 4
      /\ Sets(InHand(r), CachedOf(r), WaitingOf(r), ToWrite(r))
      /\ streams \in [Ids -> Reqs \cup {NoReq}]
  <2>1. TypeOK /\ Threads /\ Unique /\ Placed /\ NoReq \notin Reqs
    BY ClientAssumption DEF StreamInv, CountInv
  <2>2. /\ streams[f.id] # NoReq /\ wpc = "take" /\ wpc' = "match" /\ wframe' = f /\ down < 2 /\ Take /\ ~ Early
        /\ UNCHANGED <<sid, down, todo, status, wire, input, streams, wseen, lastSendId>>
    BY DEF WriterTake, engineVars, userVars, statusVars, wireVars, downVars
  <2>3. f \in Frames
    BY <2>1, <2>2, TakenFacts
  <2>4. f.id \in Ids
    BY <2>3 DEF Frames
  <2>5. /\ sid[r] \in Ids /\ down \in 0 .. 4 /\ streams \in [Ids -> Reqs \cup {NoReq}]
        /\ Sets(InHand(r), CachedOf(r), WaitingOf(r), ToWrite(r))
    BY <2>1, PartsFacts DEF Begins, TypeOK
  <2> QED
    BY <2>1, <2>2, <2>3, <2>4, <2>5
<1>1. CASE f.id # sid[r]
  <2>1. /\ cacheMap'[sid[r]] = cacheMap[sid[r]] /\ Of(message', sid[r]) = Of(message, sid[r])
        /\ Ascends(message, sid[r]) => Ascends(message', sid[r])
    BY <1>0, <1>1, TakeOther
  <2>2. ~ AtHand(r) /\ ~ AtHand(r)'
    BY <1>0, <1>1 DEF AtHand
  <2> QED
    BY <1>0, <2>1, <2>2, OtherKeeps, SameStays
<1>2. CASE f.id = sid[r]
  <2>1. streams[sid[r]] = r /\ ~ Gone(r) /\ Fits(r)
    <3>1. streams[sid[r]] \in Reqs
      BY <1>0, <1>2
    <3>2. streams[sid[r]] = r
      BY <1>0, <1>2, <3>1 DEF Placed, Unique, Begins
    <3>3. ~ Gone(r)
      BY <1>0, <3>2 DEF Gone
    <3> QED
      BY <3>2, <3>3 DEF Kept
  <2> DEFINE C == CachedOf(r)  M == WaitingOf(r)  T == ToWrite(r)  C2 == CachedOf(r)'  M2 == WaitingOf(r)'
             w == wire[sid[r]]
  <2>2. /\ f.type # "rst" =>
             /\ C2 \subseteq C /\ M2 \subseteq M /\ ToWrite(r)' = T
             /\ C2 \cup M2 \cup T \cup {f} = Rest(r)
             /\ Precede({f}, C2 \cup M2 \cup T)
             /\ Ascends(message', sid[r]) /\ Ascends(cacheMap'[sid[r]], sid[r])
             /\ Stuck(r)' = Stuck(r) /\ sid[r] <= lastSendId + 2
        /\ f.type = "rst" => UNCHANGED <<message, cacheMap>>
    BY <1>0, <1>2, <2>1, TakeOwn
  <2>3. AtHand(r)' /\ InHand(r) = {} /\ InHand(r)' = IF f.type = "rst" THEN {} ELSE {f}
    BY <1>0, <1>2 DEF AtHand, InHand
  <2>4. /\ Row({}, C, M, T) /\ Follow(C \cup M \cup T, C \cup M \cup T \cup {}, w, Stuck(r)) /\ Sets({}, C, M, T)
        /\ Ascends(todo[r], sid[r]) /\ Rest(r) = C \cup M \cup T
    BY <1>0, <2>1, <2>3 DEF Fits, Lined, Rest
  <2>5. /\ w # None => status[r] # "Idle"
        /\ status[r] # "Idle" => w # None \/ down >= 3
        /\ status[r] = "HalfClosedLocal" => Rest(r) = {}
        /\ status[r] # "Closed"
    <3>1. down # 4
      BY <1>0
    <3> QED
      BY <2>1, <2>3, <3>1 DEF StatusFits, Kept
  <2>6. SeenFits(r)'
    BY <1>0 DEF SeenFits
  <2>7. w \in Uncut /\ w \notin Cut
    BY <2>1 DEF WireFits, Kept
  <2>8. CASE f.type = "rst"
    <3>1. C2 = C /\ M2 = M /\ ToWrite(r)' = T /\ Stuck(r)' = Stuck(r) /\ InHand(r)' = {}
      BY <1>0, <2>2, <2>3, <2>8 DEF CachedOf, WaitingOf, ToWrite, Stuck
    <3>2. Rest(r)' = Rest(r)
      BY <3>1 DEF Rest
    <3>3. Lined(r)'
      BY <1>0, <2>1, <2>2, <2>3, <2>8, <3>1 DEF Fits, Lined
    <3>4. Follow(Rest(r)', Rest(r)' \cup InHand(r)', wire'[sid'[r]], Stuck(r)')
      BY <1>0, <2>1, <2>3, <3>1, <3>2 DEF Fits
    <3>5. Fits(r)'
      BY <3>3, <3>4 DEF Fits
    <3>6. HandFits(r)'
      BY <3>1 DEF HandFits
    <3>7. StatusFits(r)'
      BY <1>0, <2>5, <3>1, <3>2 DEF StatusFits
    <3>8. WireFits(r)'
      BY <1>0, <2>7, <3>1 DEF WireFits, Kept
    <3> QED
      BY <2>3, <2>6, <3>1, <3>2, <3>5, <3>6, <3>7, <3>8 DEF Kept, Stays
  <2>9. CASE f.type # "rst"
    <3>1. /\ Row({f}, C2, M2, T) /\ Follow(C2 \cup M2 \cup T, C2 \cup M2 \cup T \cup {f}, w, Stuck(r))
          /\ Rank(f) = 1 => w = None
          /\ f.type = "data" => w \in {None, Fields}
          /\ f.type = "data" /\ w = None => Stuck(r)
          /\ f.type = "fields" /\ Rank(f) = 3 => w \in {None, Body}
      <4>1. /\ C2 \subseteq C /\ M2 \subseteq M /\ C2 \cup M2 \cup T \cup {f} = C \cup M \cup T
            /\ Precede({f}, C2 \cup M2 \cup T)
        BY <2>2, <2>4, <2>9
      <4> HIDE DEF C, M, T, C2, M2, w, f
      <4>2. Row({}, C, M, T) /\ Follow(C \cup M \cup T, C \cup M \cup T \cup {}, w, Stuck(r)) /\ Sets({}, C, M, T)
        BY <2>4
      <4>3. /\ Follow(C \cup M \cup T, C \cup M \cup T \cup {}, w, TRUE)
            /\ Follow(C2 \cup M2 \cup T, C2 \cup M2 \cup T \cup {f}, w, Stuck(r))
        BY <4>1, <4>2 DEF Follow
      <4> DEFINE P == C \cup M \cup T
      <4>4. /\ P \subseteq {g \in Frames : g.type # "rst"} /\ Follow(P, P, w, TRUE) /\ f \in P
            /\ \A g \in P : g = f \/ Rank(f) < Rank(g)
        <5>1. P \cup {} = P
          OBVIOUS
        <5>2. Follow(P, P, w, TRUE)
          BY <4>3, <5>1
        <5> QED
          BY <4>1, <4>2, <5>2 DEF Sets, Precede
      <4> HIDE DEF P
      <4>5. /\ Rank(f) = 1 => w = None
            /\ f.type = "data" => w \in {None, Fields}
            /\ f.type = "data" => \A g \in P : Rank(g) # 1
            /\ f.type = "fields" /\ Rank(f) = 3 => w \in {None, Body}
        BY <4>4, RowTaken
      <4>6. f.type = "data" /\ w = None => Stuck(r)
        <5>1. f \in P /\ Follow(P, P \cup {}, w, Stuck(r))
          BY <4>2, <4>4 DEF P
        <5> QED
          BY <4>5, <5>1 DEF Follow
      <4>7. Row({f}, C2, M2, T)
        BY <4>1, <4>2 DEF Row, Precede
      <4> QED
        BY <4>3, <4>5, <4>6, <4>7
    <3>2. InHand(r)' = {f} /\ Rest(r)' = C2 \cup M2 \cup T /\ Stuck(r)' = Stuck(r) /\ ToWrite(r)' = T
      BY <2>2, <2>3, <2>9 DEF Rest
    <3>3. Lined(r)'
      BY <1>0, <2>2, <2>4, <2>9, <3>1, <3>2 DEF Lined
    <3>4. Follow(Rest(r)', Rest(r)' \cup InHand(r)', wire'[sid'[r]], Stuck(r)')
      BY <1>0, <3>1, <3>2
    <3>5. Fits(r)'
      BY <3>3, <3>4 DEF Fits
    <3>6. HandFits(r)'
      <4>1. wire'[sid'[r]] = w
        BY <1>0
      <4> QED
        BY <3>1, <3>2, <4>1 DEF HandFits
    <3>7. StatusFits(r)'
      <4>1. f \in Rest(r)
        BY <2>2, <2>9
      <4>2. status[r] # "HalfClosedLocal"
        BY <2>5, <4>1
      <4> QED
        BY <1>0, <2>5, <4>2 DEF StatusFits
    <3>8. WireFits(r)'
      BY <1>0, <2>2, <2>7, <2>9 DEF WireFits, Kept
    <3> QED
      BY <2>2, <2>3, <2>6, <2>9, <3>2, <3>5, <3>6, <3>7, <3>8 DEF Kept, Stays
  <2> QED
    BY <2>8, <2>9
<1> QED
  BY <1>1, <1>2

\* The write thread reads the status.
LEMMA MatchKeeps ==
  ASSUME StreamInv, NEW r \in Reqs, Begins(r), Kept(r), WriterMatch
  PROVE  Kept(r)'
<1>0. /\ TypeOK /\ Threads /\ Unique /\ AllKnown /\ wpc = "match" /\ wpc' = "update" /\ wseen' = status[wreq]
      /\ UNCHANGED <<sid, down, todo, status, wire, input, streams, wframe, lastSendId, message, cacheMap>>
      /\ down <= down' /\ down' \in 0 .. 4
  <2>1. TypeOK /\ Threads /\ Unique /\ AllKnown
    BY DEF StreamInv, CountInv
  <2>2. /\ wpc = "match" /\ wpc' = "update" /\ wseen' = status[wreq]
        /\ UNCHANGED <<sid, down, todo, status, wire, input, streams, wframe, lastSendId, message, cacheMap>>
    BY DEF WriterMatch, engineVars, userVars, statusVars, queueVars, wireVars, downVars
  <2>3. down <= down' /\ down' \in 0 .. 4
    BY <2>1, <2>2 DEF TypeOK
  <2> QED
    BY <2>1, <2>2, <2>3
<1>1. Rests(r)
  BY <1>0 DEF Rests, WaitingOf, AtHand, InHand
<1>2. (Gone(r) \/ Fits(r))' /\ HandFits(r)' /\ WireFits(r)' /\ Rest(r)' \subseteq Rest(r) /\ (Gone(r) => Gone(r)')
  BY <1>0, <1>1, RestsKeep DEF Kept
<1>3. StatusFits(r)'
  BY <1>0, <1>1, <1>2, RestsStatus DEF Kept, Rests
<1>4. SeenFits(r)'
  <2>1. CASE ~ AtHand(r)
    BY <1>1, <2>1 DEF SeenFits, Rests
  <2>2. CASE AtHand(r)
    <3>1. wreq = r
      <4>1. wreq \in Reqs /\ sid[wreq] = sid[r]
        BY <1>0, <2>2 DEF Threads, AllKnown, AtHand
      <4> QED
        BY <1>0, <4>1 DEF Unique, Begins
    <3>2. wseen' = status[r] /\ status' = status /\ InHand(r)' = InHand(r) /\ wire' = wire /\ sid' = sid /\ down' = down
      BY <1>0, <1>1, <3>1 DEF Rests
    <3>3. status[r] = "Closed" => Gone(r)'
      BY <1>0, <1>2 DEF StatusFits, Gone, Kept
    <3>4. status[r] = "HalfClosedLocal" => Gone(r)' \/ InHand(r)' = {}
      BY <1>2, <3>2 DEF StatusFits, Kept
    <3>5. status[r] # "Idle" => wire[sid[r]] # None \/ down >= 3
      BY <2>2 DEF StatusFits, Kept
    <3>6. status[r] = "Idle" => wire[sid[r]] = None
      BY DEF StatusFits, Kept
    <3> QED
      BY <3>2, <3>3, <3>4, <3>5, <3>6 DEF SeenFits
  <2> QED
    BY <2>1, <2>2
<1> QED
  BY <1>2, <1>3, <1>4 DEF Kept

\* The id that counts as sent rises only while nothing of the next stream is
\* cached.
LEMMA SentIdRises ==
  ASSUME TypeOK, NEW id \in Ids
  PROVE  /\ SentId(id) \in Nat /\ lastSendId <= SentId(id) /\ lastSendId \in Nat
         /\ \/ SentId(id) = lastSendId
            \/ lastSendId < SentId(id) /\ ~ Cached(lastSendId + 2) /\ SentId(id) = id
<1>1. lastSendId \in Nat /\ id \in Nat
  BY IdNumbers, IdFacts
<1>2. CASE ~ Cached(lastSendId + 2) /\ id > lastSendId
  BY <1>1, <1>2 DEF SentId
<1>3. CASE ~ (~ Cached(lastSendId + 2) /\ id > lastSendId)
  <2>1. SentId(id) = lastSendId
    BY <1>3 DEF SentId
  <2> QED
    BY <1>1, <2>1
<1> QED
  BY <1>2, <1>3

\* Whose frame it is that the write thread writes.
LEMMA WriterOwner ==
  ASSUME StreamInv, NEW r \in Reqs, Begins(r), wpc = "update"
  PROVE  /\ TypeOK /\ Threads /\ wframe \in Frames /\ wframe.id \in Ids /\ wreq \in Reqs
         /\ NoReq \notin Reqs /\ streams \in [Ids -> Reqs \cup {NoReq}] /\ status \in [Reqs -> Statuses]
         /\ input \in [Reqs -> {"none", "open", "closed", "quit"}]
         /\ wire \in [Ids -> Seq({"fields", "data", "rst"})] /\ sid[r] \in Ids /\ down \in 0 .. 4
         /\ wreq = r => AtHand(r) /\ wframe.id = sid[r]
         /\ wreq # r => ~ AtHand(r) /\ wframe.id # sid[r]
<1>1. TypeOK /\ Threads /\ AllKnown /\ Unique /\ NoReq \notin Reqs
  BY ClientAssumption DEF StreamInv, CountInv
<1>2. /\ streams \in [Ids -> Reqs \cup {NoReq}] /\ status \in [Reqs -> Statuses]
      /\ input \in [Reqs -> {"none", "open", "closed", "quit"}]
      /\ wire \in [Ids -> Seq({"fields", "data", "rst"})] /\ sid[r] \in Ids /\ down \in 0 .. 4
  BY <1>1 DEF TypeOK, Begins
<1>3. wframe \in Frames /\ wframe.id \in Ids /\ wreq \in Reqs /\ sid[wreq] = wframe.id
  BY <1>1 DEF Threads, AllKnown, Frames
<1>4. wframe.id = sid[r] <=> wreq = r
  BY <1>1, <1>2, <1>3 DEF Unique, Begins
<1> QED
  BY <1>1, <1>2, <1>3, <1>4 DEF AtHand

\* The stream is purged, or remains.
LEMMA PurgeIf ==
  ASSUME NEW purged \in BOOLEAN, NEW id \in Ids, NEW r \in Reqs, Purge(purged, id), NoReq \notin Reqs,
         streams \in [Ids -> Reqs \cup {NoReq}]
  PROVE  /\ \A i \in Ids : streams'[i] = r => streams[i] = r
         /\ purged => streams'[id] # r
         /\ ~ purged => streams' = streams
BY DEF Purge

\* The write thread writes about another stream.
LEMMA WritesOther ==
  ASSUME StreamInv, NEW r \in Reqs, Begins(r), Kept(r), WriterSend \/ WriterRefuse \/ WriterReset, wreq # r
  PROVE  Kept(r)' /\ Rests(r) /\ status'[r] = status[r]
<1>1. wpc = "update"
  BY DEF WriterSend, WriterRefuse, WriterReset
<1>2. /\ TypeOK /\ Threads /\ wframe \in Frames /\ wframe.id \in Ids /\ wreq \in Reqs
      /\ NoReq \notin Reqs /\ streams \in [Ids -> Reqs \cup {NoReq}] /\ status \in [Reqs -> Statuses]
      /\ input \in [Reqs -> {"none", "open", "closed", "quit"}]
      /\ wire \in [Ids -> Seq({"fields", "data", "rst"})] /\ sid[r] \in Ids
      /\ ~ AtHand(r) /\ wframe.id # sid[r]
  BY <1>1, WriterOwner
<1>3. UNCHANGED <<sid, down, todo, message, cacheMap>> /\ wpc' \in {"take", "dead"}
  BY <1>2 DEF WriterSend, WriterRefuse, WriterReset, userVars, queueVars, downVars
<1>4. /\ status'[r] = status[r] /\ wire'[sid[r]] = wire[sid[r]]
      /\ input[r] = "quit" => input'[r] = "quit"
  <2>1. CASE WriterSend
    BY <1>2, <2>1 DEF WriterSend, Assign, statusVars
  <2>2. CASE WriterRefuse
    BY <2>2 DEF WriterRefuse, statusVars, wireVars
  <2>3. CASE WriterReset
    BY <1>2, <2>3 DEF WriterReset
  <2> QED
    BY <2>1, <2>2, <2>3
<1>5. streams'[sid[r]] = r => streams[sid[r]] = r
  <2>1. CASE WriterSend
    <3>1. PICK b \in BOOLEAN : Purge(b, wframe.id)
      BY <2>1 DEF WriterSend
    <3> QED
      BY <1>2, <3>1, PurgeIf
  <2>2. CASE WriterRefuse
    BY <2>2 DEF WriterRefuse, engineVars
  <2>3. CASE WriterReset
    <3>1. Purge(TRUE, wframe.id)
      BY <2>3 DEF WriterReset
    <3> QED
      BY <1>2, <3>1, PurgeIf
  <2> QED
    BY <2>1, <2>2, <2>3
<1>6. \/ lastSendId' = lastSendId
      \/ lastSendId < lastSendId' /\ ~ Cached(lastSendId + 2) /\ ~ AtHand(r) /\ lastSendId' \in Nat
  <2>1. lastSendId' = lastSendId \/ lastSendId' = SentId(wframe.id)
    BY DEF WriterSend, WriterRefuse, WriterReset
  <2> QED
    BY <1>2, <2>1, SentIdRises
<1>7. ~ AtHand(r)'
  BY <1>3 DEF AtHand
<1> QED
  BY <1>1, <1>2, <1>3, <1>4, <1>5, <1>6, <1>7, OtherKeeps, OtherRests

\* The cache of the stream that the write thread writes: what is left of it is
\* not passed over.
LEMMA OwnCache ==
  ASSUME TypeOK, NEW r \in Reqs, sid[r] \in Ids, sid[r] <= lastSendId + 2,
         lastSendId' = SentId(sid[r]), UNCHANGED <<sid, cacheMap>>
  PROVE  CachedOf(r)' = CachedOf(r)
<1>1. sid[r] \in Nat /\ lastSendId \in Nat
  BY IdNumbers DEF TypeOK
<1>2. \/ lastSendId' = lastSendId
      \/ lastSendId < lastSendId' /\ ~ Cached(lastSendId + 2) /\ lastSendId' = sid[r]
  BY SentIdRises
<1>3. CASE lastSendId' = lastSendId
  BY <1>3 DEF CachedOf
<1>4. CASE lastSendId < lastSendId' /\ ~ Cached(lastSendId + 2) /\ lastSendId' = sid[r]
  <2>1. CachedOf(r)' = {}
    BY <1>1, <1>4 DEF CachedOf
  <2>2. CASE sid[r] = lastSendId + 2
    <3>1. cacheMap[sid[r]] = << >>
      BY <1>4, <2>2 DEF Cached
    <3> QED
      BY <2>1, <3>1, EmptyRange DEF CachedOf
  <2>3. CASE sid[r] # lastSendId + 2
    <3>1. ~ (sid[r] > lastSendId + 1)
      BY <1>1, <2>3
    <3> QED
      BY <2>1, <3>1 DEF CachedOf
  <2> QED
    BY <2>2, <2>3
<1> QED
  BY <1>2, <1>3, <1>4

\* What the frame makes of the stream's wire.
LEMMA WireGrows ==
  ASSUME NEW r \in Reqs, Kept(r), AtHand(r), wpc = "update", wframe \in Frames, wframe.type # "rst",
         Writable(wseen, wframe), wseen \in Statuses, down < 3, down \in 0 .. 4
  PROVE  LET w == wire[sid[r]]  w2 == Append(w, wframe.type) IN
           /\ w2 \in {Fields, Body, Whole}
           /\ \/ w = None /\ wframe.type = "fields" /\ w2 = Fields
              \/ w = Fields /\ wframe.type = "data" /\ w2 = Body
              \/ Rank(wframe) = 3
<1> DEFINE f == wframe  w == wire[sid[r]]  w2 == Append(w, f.type)
<1>1. /\ InHand(r) = {f} /\ Rank(f) \in 1 .. 3 /\ f.type \in {"fields", "data"}
      /\ Rank(f) = 2 => f.type = "data"
      /\ Rank(f) = 1 => f.type = "fields"
  BY RankFacts DEF InHand
<1>2. /\ Rank(f) = 1 => w = None
      /\ f.type = "data" => w \in {None, Fields}
      /\ f.type = "fields" /\ Rank(f) = 3 => w \in {None, Body}
  BY <1>1 DEF HandFits, Kept
<1>3. /\ wseen = "Idle" => w = None
      /\ wseen # "Idle" => w # None
      /\ wseen = "Idle" => f.type = "fields"
  <2>1. ~ (down >= 3)
    BY SMT
  <2> QED
    BY <2>1 DEF SeenFits, Kept, Writable
<1>4. CASE wseen = "Idle"
  BY <1>3, <1>4, ShapesDiffer
<1>5. CASE wseen # "Idle" /\ f.type = "data"
  BY <1>2, <1>3, <1>5, ShapesDiffer
<1>6. CASE wseen # "Idle" /\ f.type = "fields"
  <2>1. Rank(f) = 3
    BY <1>1, <1>2, <1>3, <1>6
  <2>2. w = Body
    BY <1>2, <1>3, <1>6, <2>1
  <2> QED
    BY <1>6, <2>1, <2>2, ShapesDiffer
<1> QED
  BY <1>1, <1>4, <1>5, <1>6

\* The frame that is written is the last of its stream, or others follow.
LEMMA SendFits ==
  ASSUME TypeOK, Threads, NEW r \in Reqs, Begins(r), Kept(r), AtHand(r), wframe.type # "rst", Fits(r),
         UNCHANGED <<sid, todo, input, message, cacheMap>>, lastSendId' = SentId(sid[r]),
         InHand(r)' = {}, NEW w2, wire'[sid[r]] = w2,
         \/ wire[sid[r]] = None /\ wframe.type = "fields" /\ w2 = Fields
         \/ wire[sid[r]] = Fields /\ wframe.type = "data" /\ w2 = Body
         \/ Rank(wframe) = 3
  PROVE  Fits(r)' /\ (Rank(wframe) = 3 => Rest(r)' = {})
<1> DEFINE C == CachedOf(r)  M == WaitingOf(r)  T == ToWrite(r)  f == wframe  w == wire[sid[r]]
<1>1. InHand(r) = {f} /\ sid[r] \in Ids /\ sid[r] <= lastSendId + 2 /\ Sets({f}, C, M, T)
  <2>1. InHand(r) = {f}
    BY DEF InHand
  <2> QED
    BY <2>1, PartsFacts DEF Begins, WireFits, Kept
<1>2. CachedOf(r)' = C /\ WaitingOf(r)' = M /\ ToWrite(r)' = T
  <2>1. CachedOf(r)' = C
    BY <1>1, OwnCache
  <2> QED
    BY <2>1 DEF WaitingOf, ToWrite
<1>3. Row({f}, C, M, T) /\ Follow(C \cup M \cup T, C \cup M \cup T \cup {f}, w, Stuck(r))
  BY <1>1 DEF Fits, Lined, Rest
<1> DEFINE P == C \cup M \cup T
<1>4. /\ P \cup {f} \subseteq {g \in Frames : g.type # "rst"}
      /\ \A g \in P : Rank(f) < Rank(g)
      /\ Follow(P, P \cup {f}, w, TRUE)
  BY <1>1, <1>3 DEF Follow, Sets, Row, Precede
<1>5. /\ Row({}, C, M, T) /\ Follow(P, P, w2, FALSE)
      /\ Rank(f) = 3 => P = {}
  <2>1. \/ w = None /\ f.type = "fields" /\ w2 = Fields
        \/ w = Fields /\ f.type = "data" /\ w2 = Body
        \/ Rank(f) = 3
    OBVIOUS
  <2>2. Row({}, C, M, T)
    BY <1>3 DEF Row, Precede
  <2> HIDE DEF P, f, w
  <2> QED
    BY <1>4, <2>1, <2>2, RowSent
<1>6. Follow(C \cup M \cup T, C \cup M \cup T \cup {}, w2, Stuck(r)')
  BY <1>5 DEF Follow
<1>7. Lined(r)'
  BY <1>2, <1>5 DEF Fits, Lined
<1>8. Follow(Rest(r)', Rest(r)' \cup InHand(r)', wire'[sid'[r]], Stuck(r)')
  BY <1>2, <1>6 DEF Rest
<1> QED
  BY <1>2, <1>5, <1>7, <1>8 DEF Fits, Rest

\* The write thread writes the frame it has.
LEMMA SendKeeps ==
  ASSUME StreamInv, NEW r \in Reqs, Begins(r), Kept(r), WriterSend
  PROVE  Kept(r)'
<1>1. CASE wreq # r
  BY <1>1, WritesOther
<1>2. CASE wreq = r
  <2> DEFINE f == wframe  id == sid[r]  w == wire[sid[r]]  w2 == wire'[sid[r]]  to == AfterWrite(wseen, wframe)
  <2>1. /\ wpc = "update" /\ wpc' = "take" /\ f.type # "rst" /\ Writable(wseen, f)
        /\ Assign(wreq, wseen, to) /\ Purge(to = "Closed", f.id)
        /\ wire' = IF down < 3 THEN [wire EXCEPT ![f.id] = Append(wire[f.id], f.type)] ELSE wire
        /\ lastSendId' = SentId(f.id)
        /\ UNCHANGED <<sid, todo, input, message, cacheMap, down>>
    BY DEF WriterSend, userVars, queueVars, downVars
  <2>2. /\ TypeOK /\ Threads /\ f \in Frames /\ id \in Ids /\ AtHand(r) /\ f.id = id
        /\ NoReq \notin Reqs /\ streams \in [Ids -> Reqs \cup {NoReq}] /\ status \in [Reqs -> Statuses]
        /\ wire \in [Ids -> Seq({"fields", "data", "rst"})] /\ down \in 0 .. 4
    BY <1>2, <2>1, WriterOwner
  <2>3. wseen \in Statuses
    BY <2>2 DEF TypeOK
  <2>4. /\ ~ AtHand(r)' /\ InHand(r)' = {} /\ InHand(r) = {f}
        /\ down < 3 => w2 = Append(w, f.type)
        /\ down >= 3 => w2 = w
    <3>1. ~ AtHand(r)' /\ InHand(r)' = {} /\ InHand(r) = {f}
      BY <2>1, <2>2 DEF AtHand, InHand
    <3>2. down >= 3 => ~ (down < 3)
      BY <2>2
    <3> QED
      BY <2>1, <2>2, <3>1, <3>2
  <2>5. /\ streams'[id] = r => streams[id] = r
        /\ to = "Closed" => streams'[id] # r
        /\ to # "Closed" => streams' = streams
    <3> HIDE DEF to
    <3>1. (to = "Closed") \in BOOLEAN
      OBVIOUS
    <3> QED
      BY <2>1, <2>2, <3>1, PurgeIf
  <2>6. to \in {"Open", "HalfClosedLocal", "HalfClosedRemote", "Closed"} /\ (to = "HalfClosedLocal" => f.end)
    BY DEF AfterWrite
  <2>7. status'[r] = to \/ (to = wseen /\ status'[r] = status[r])
    <3> HIDE DEF to
    <3> QED
      BY <1>2, <2>1, <2>2 DEF Assign, statusVars
  <2>8. sid[r] <= lastSendId + 2 /\ sid[r] <= lastSendId' + 2
    <3>1. sid[r] <= lastSendId + 2
      BY <2>4 DEF WireFits, Kept
    <3>2. lastSendId <= lastSendId' /\ lastSendId \in Nat /\ lastSendId' \in Nat /\ sid[r] \in Nat
      BY <2>1, <2>2, SentIdRises, IdNumbers
    <3> QED
      BY <3>1, <3>2
  <2>9. (Gone(r) => Gone(r)') /\ HandFits(r)' /\ SeenFits(r)'
    BY <2>1, <2>4, <2>5 DEF Gone, HandFits, SeenFits
  <2>10. status'[r] = "Closed" => streams'[id] # r \/ down = 4
    <3>1. to # "Closed" /\ status[r] = "Closed" => streams'[id] # r \/ down = 4
      BY <2>5 DEF StatusFits, Kept
    <3> QED
      BY <2>5, <2>7, <3>1
  <2>11. status'[r] # "Idle"
    BY <2>1, <2>2, <2>6, <2>7 DEF SeenFits, Kept
  <2>12. status'[r] = "HalfClosedLocal" /\ to # "HalfClosedLocal" => Gone(r)
    BY <2>4, <2>7 DEF StatusFits, Kept
  <2>13. CASE down >= 3
    <3>1. Gone(r)'
      BY <2>1, <2>2, <2>13 DEF Gone
    <3>2. StatusFits(r)'
      BY <2>1, <2>10, <2>11, <2>13, <3>1 DEF StatusFits
    <3>3. WireFits(r)'
      <4>1. w \notin Cut /\ w \in Uncut
        BY <2>2 DEF WireFits, Kept
      <4> QED
        BY <2>1, <2>4, <2>8, <2>13, <4>1 DEF WireFits
    <3> QED
      BY <2>9, <3>1, <3>2, <3>3 DEF Kept
  <2>14. CASE down < 3
    <3>1. /\ w2 \in {Fields, Body, Whole}
          /\ \/ w = None /\ wframe.type = "fields" /\ w2 = Fields
             \/ w = Fields /\ wframe.type = "data" /\ w2 = Body
             \/ Rank(wframe) = 3
      BY <2>1, <2>2, <2>3, <2>4, <2>14, WireGrows
    <3>2. Fits(r) => Fits(r)' /\ (Rank(wframe) = 3 => Rest(r)' = {})
      <4> HIDE DEF w2
      <4>1. wire'[sid[r]] = w2
        BY DEF w2
      <4> QED
        BY <2>1, <2>2, <2>4, <3>1, <4>1, SendFits
    <3>3. WireFits(r)'
      BY <2>1, <2>4, <2>8, <3>1, ShapesDiffer DEF WireFits, Uncut
    <3>4. status'[r] = "HalfClosedLocal" => Gone(r)' \/ Rest(r)' = {}
      <4>1. to = "HalfClosedLocal" => Rank(wframe) = 3
        BY <2>6 DEF Rank
      <4>2. Gone(r) \/ Fits(r)
        BY DEF Kept
      <4> QED
        BY <2>7, <2>9, <2>12, <3>2, <4>1, <4>2
    <3>5. StatusFits(r)'
      BY <2>1, <2>4, <2>10, <2>11, <3>1, <3>4, ShapesDiffer DEF StatusFits
    <3> QED
      BY <2>9, <3>2, <3>3, <3>5 DEF Kept
  <2>15. down >= 3 \/ down < 3
    BY <2>2
  <2> QED
    BY <2>13, <2>14, <2>15
<1> QED
  BY <1>1, <1>2

\* Data that is dropped on a stream that goes on is that of a stream whose
\* headers are in a cache that is not read again.
LEMMA RefusedStuck ==
  ASSUME StreamInv, NEW r \in Reqs, Begins(r), Kept(r), WriterRefuse, wreq = r, wframe.type = "data", ~ Gone(r)
  PROVE  wire[sid[r]] = None /\ Stuck(r) /\ Fits(r)
<1>1. wpc = "update" /\ ~ Writable(wseen, wframe) /\ wframe.type # "rst"
  BY DEF WriterRefuse
<1>2. TypeOK /\ AtHand(r) /\ InHand(r) = {wframe}
  BY <1>1, WriterOwner DEF InHand
<1>3. wseen \in {"Idle", "HalfClosedLocal", "Closed"}
  BY <1>1, <1>2 DEF Writable, TypeOK, Statuses
<1>4. wseen = "Idle" /\ wire[sid[r]] = None
  BY <1>1, <1>2, <1>3 DEF SeenFits, Kept
<1> QED
  BY <1>2, <1>4 DEF HandFits, Kept

\* Data that is not writable is dropped, fields end the connection.
LEMMA RefuseKeeps ==
  ASSUME StreamInv, NEW r \in Reqs, Begins(r), Kept(r), WriterRefuse
  PROVE  Kept(r)'
<1>1. CASE wreq # r
  BY <1>1, WritesOther
<1>2. CASE wreq = r
  <2> DEFINE f == wframe  id == sid[r]  w == wire[sid[r]]
  <2>1. /\ wpc = "update" /\ f.type # "rst" /\ ~ Writable(wseen, f)
        /\ wpc' = IF f.type = "data" THEN "take" ELSE "dead"
        /\ UNCHANGED <<sid, todo, input, message, cacheMap, down, streams, status, wire, lastSendId>>
    BY DEF WriterRefuse, engineVars, userVars, statusVars, queueVars, wireVars
  <2>2. TypeOK /\ Threads /\ f \in Frames /\ id \in Ids /\ AtHand(r) /\ f.id = id /\ down \in 0 .. 4
    BY <1>2, <2>1, WriterOwner
  <2>3. /\ ~ AtHand(r)' /\ InHand(r)' = {} /\ InHand(r) = {f}
        /\ lastSendId <= lastSendId' /\ lastSendId' \in Nat /\ down <= down' /\ down' \in 0 .. 4
    <3>1. ~ AtHand(r)' /\ InHand(r)' = {} /\ InHand(r) = {f}
      BY <2>1, <2>2 DEF AtHand, InHand
    <3>2. lastSendId \in Nat
      BY <2>2, IdNumbers
    <3> QED
      BY <2>1, <2>2, <3>1, <3>2
  <2>4. CASE f.type # "data" \/ Gone(r)
    <3>1. Gone(r)'
      BY <2>1, <2>4 DEF Gone
    <3> QED
      BY <2>1, <2>2, <2>3, <3>1, GoneKeeps
  <2>5. CASE f.type = "data" /\ ~ Gone(r)
    <3>2. w = None /\ Stuck(r) /\ Fits(r)
      BY <1>2, <2>5, RefusedStuck
    <3> DEFINE C == CachedOf(r)  M == WaitingOf(r)  T == ToWrite(r)
    <3>3. CachedOf(r)' = C /\ WaitingOf(r)' = M /\ ToWrite(r)' = T /\ Stuck(r)' = TRUE
      BY <2>1, <3>2 DEF CachedOf, WaitingOf, ToWrite, Stuck
    <3>4. Row({}, C, M, T) /\ Follow(C \cup M \cup T, C \cup M \cup T \cup {}, None, TRUE)
      <4>1. /\ Sets({f}, C, M, T) /\ Row({f}, C, M, T) /\ f.type = "data"
            /\ Follow(C \cup M \cup T, C \cup M \cup T \cup {f}, None, Stuck(r))
        <5>1. Sets({f}, C, M, T)
          BY <2>2, <2>3, PartsFacts DEF Begins
        <5> QED
          BY <2>3, <2>5, <3>2, <5>1 DEF Fits, Lined, Rest
      <4>2. Follow(C \cup M \cup T, C \cup M \cup T \cup {f}, None, TRUE)
        BY <4>1 DEF Follow
      <4> HIDE DEF C, M, T, f
      <4> QED
        BY <4>1, <4>2, RowDropped
    <3>5. Lined(r)'
      BY <2>1, <2>3, <3>2, <3>3, <3>4 DEF Fits, Lined
    <3>6. Follow(Rest(r)', Rest(r)' \cup InHand(r)', wire'[sid'[r]], Stuck(r)')
      BY <2>1, <2>3, <3>2, <3>3, <3>4 DEF Rest
    <3>7. Rest(r)' = Rest(r)
      BY <3>3 DEF Rest
    <3>8. StatusFits(r)'
      <4>1. ~ Gone(r)
        BY <2>5
      <4> QED
        BY <2>1, <2>2, <2>3, <3>7, <4>1 DEF StatusFits, Kept
    <3>9. WireFits(r)'
      BY <2>1, <2>2, <2>3 DEF WireFits, Kept
    <3>10. HandFits(r)' /\ SeenFits(r)'
      BY <2>3 DEF HandFits, SeenFits
    <3> QED
      BY <3>5, <3>6, <3>8, <3>9, <3>10 DEF Kept, Fits
  <2> QED
    BY <2>4, <2>5
<1> QED
  BY <1>1, <1>2

\* The reset is written, and the stream purged.
LEMMA WriterResetKeeps ==
  ASSUME StreamInv, NEW r \in Reqs, Begins(r), Kept(r), WriterReset
  PROVE  Kept(r)'
<1>1. CASE wreq # r
  BY <1>1, WritesOther
<1>2. CASE wreq = r
  <2> DEFINE id == sid[r]  w == wire[sid[r]]
  <2>1. /\ wpc = "update" /\ wpc' = "take" /\ wframe.type = "rst" /\ Purge(TRUE, wframe.id)
        /\ status' = [status EXCEPT ![wreq] = "Closed"]
        /\ wire' = IF wseen = "Idle" \/ down > 2 THEN wire
                   ELSE [wire EXCEPT ![wframe.id] = Append(wire[wframe.id], "rst")]
        /\ lastSendId' = SentId(wframe.id)
        /\ UNCHANGED <<sid, down>>
    BY DEF WriterReset, userVars, downVars
  <2>2. /\ TypeOK /\ id \in Ids /\ AtHand(r) /\ wframe.id = id /\ down \in 0 .. 4
        /\ NoReq \notin Reqs /\ streams \in [Ids -> Reqs \cup {NoReq}] /\ status \in [Reqs -> Statuses]
        /\ wire \in [Ids -> Seq({"fields", "data", "rst"})]
    BY <1>2, <2>1, WriterOwner
  <2>3. ~ AtHand(r)' /\ InHand(r)' = {} /\ status'[r] = "Closed" /\ streams'[id] # r
    <3>1. ~ AtHand(r)' /\ InHand(r)' = {}
      BY <2>1 DEF AtHand, InHand
    <3>2. streams'[id] # r
      BY <2>1, <2>2, PurgeIf
    <3> QED
      BY <1>2, <2>1, <2>2, <3>1, <3>2
  <2>4. w \in Uncut /\ w \notin Cut
    BY <2>2 DEF WireFits, Kept
  <2>5. wire'[id] \in Uncut \cup Cut /\ (wire'[id] # None => w # None)
    <3>1. CASE wseen = "Idle" \/ down > 2
      BY <2>1, <2>4, <3>1
    <3>2. CASE ~ (wseen = "Idle" \/ down > 2)
      <4>1. ~ (down >= 3)
        BY <2>2, <3>2
      <4>2. w # None
        BY <2>1, <2>2, <3>2, <4>1 DEF SeenFits, Kept
      <4>3. wire'[id] = Append(w, "rst")
        BY <2>1, <2>2, <3>2
      <4> QED
        BY <2>4, <4>2, <4>3, ShapesDiffer DEF Uncut
    <3> QED
      BY <3>1, <3>2
  <2>6. WireFits(r)'
    <3>1. lastSendId <= lastSendId' /\ lastSendId \in Nat /\ lastSendId' \in Nat /\ sid[r] \in Nat
      BY <2>1, <2>2, SentIdRises, IdNumbers
    <3>2. wire'[id] # None => sid[r] <= lastSendId' + 2
      <4>1. wire'[id] # None => sid[r] <= lastSendId + 2
        BY <2>5 DEF WireFits, Kept
      <4> QED
        BY <3>1, <4>1
    <3> QED
      BY <2>1, <2>3, <2>5, <3>2 DEF WireFits
  <2>7. StatusFits(r)'
    BY <2>1, <2>3 DEF StatusFits
  <2>8. Gone(r)' /\ HandFits(r)' /\ SeenFits(r)'
    BY <2>1, <2>3 DEF Gone, HandFits, SeenFits
  <2> QED
    BY <2>6, <2>7, <2>8 DEF Kept
<1> QED
  BY <1>1, <1>2

-----------------------------------------------------------------------------
(* Every step.                                                               *)

\* A step that writes nothing, gets nothing from the server and begins no
\* request without what it has to write.
Bland ==
  /\ UNCHANGED <<wire, srv>>
  /\ down >= 3 => down' >= 3
  /\ rpc' \in {"match", "update"} => rpc \in {"match", "update"} /\ rframe' = rframe
  /\ \A q \in Reqs : upc'[q] \notin Started => todo'[q] = todo[q]

\* All steps are, but those in which a frame is written or read.
LEMMA NextBland ==
  ASSUME TypeOK, [Next]_vars
  PROVE  Bland \/ WriterSend \/ WriterReset \/ ReadFrame
<1>0. UserTypes /\ QueueTypes /\ down \in 0 .. 4
  BY DEF TypeOK, UserTypes, QueueTypes
<1>1. ASSUME NEW r \in Reqs, Count(r) PROVE Bland
  BY <1>0, <1>1 DEF Bland, Started, UserTypes, QueueTypes, Count, User, statusVars, queueVars,
       writeVars, readVars, wireVars, downVars
<1>2. ASSUME NEW r \in Reqs, Refuse(r) PROVE Bland
  BY <1>0, <1>2 DEF Bland, Started, UserTypes, QueueTypes, Refuse, User, statusVars, queueVars,
       writeVars, readVars, wireVars, downVars
<1>3. ASSUME NEW r \in Reqs, FirstId(r) PROVE Bland
  BY <1>0, <1>3 DEF Bland, Started, UserTypes, QueueTypes, FirstId, User, statusVars, queueVars,
       writeVars, readVars, wireVars, downVars
<1>4. ASSUME NEW r \in Reqs, LoadId(r) PROVE Bland
  BY <1>0, <1>4 DEF Bland, Started, UserTypes, QueueTypes, LoadId, User, engineVars, statusVars,
       queueVars, writeVars, readVars, wireVars, downVars
<1>5. ASSUME NEW r \in Reqs, NextId(r) PROVE Bland
  BY <1>0, <1>5 DEF Bland, Started, UserTypes, QueueTypes, NextId, User, statusVars, queueVars,
       writeVars, readVars, wireVars, downVars
<1>6. ASSUME NEW r \in Reqs, MapStream(r) PROVE Bland
  BY <1>0, <1>6 DEF Bland, Started, UserTypes, QueueTypes, MapStream, User, statusVars, queueVars,
       writeVars, readVars, wireVars, downVars
<1>7. ASSUME NEW r \in Reqs, OpenConn(r) PROVE Bland
  BY <1>0, <1>7 DEF Bland, Started, UserTypes, QueueTypes, OpenConn, User, engineVars, statusVars,
       queueVars, writeVars, readVars, wireVars, downVars
<1>8. ASSUME NEW r \in Reqs, Write(r) PROVE Bland
  BY <1>0, <1>8 DEF Bland, Started, UserTypes, QueueTypes, Write, User, engineVars, statusVars,
       writeVars, readVars, wireVars, downVars
<1>9. ASSUME NEW r \in Reqs, WriteFails(r) PROVE Bland
  BY <1>0, <1>9 DEF Bland, Started, UserTypes, QueueTypes, WriteFails, User, engineVars,
       statusVars, queueVars, writeVars, readVars, wireVars, downVars
<1>10. ASSUME NEW r \in Reqs, Response(r) PROVE Bland
  BY <1>0, <1>10 DEF Bland, Started, UserTypes, QueueTypes, Response, User, engineVars,
       statusVars, queueVars, writeVars, readVars, wireVars, downVars
<1>11. ASSUME NEW r \in Reqs, NoResponse(r) PROVE Bland
  BY <1>0, <1>11 DEF Bland, Started, UserTypes, QueueTypes, NoResponse, User, engineVars,
       statusVars, queueVars, writeVars, readVars, wireVars, downVars
<1>12. ASSUME NEW r \in Reqs, Reset(r) PROVE Bland
  BY <1>0, <1>12 DEF Bland, Started, UserTypes, QueueTypes, Reset, engineVars, userVars,
       statusVars, writeVars, readVars, wireVars, downVars
<1>13. CASE PeerClose
  BY <1>0, <1>13 DEF Bland, Started, UserTypes, QueueTypes, PeerClose, Fatal, engineVars,
       userVars, statusVars, queueVars, writeVars, readVars, wireVars
<1>14. CASE ShutdownStep
  BY <1>0, <1>14 DEF Bland, Started, UserTypes, QueueTypes, ShutdownStep, engineVars, userVars,
       statusVars, queueVars, writeVars, readVars, wireVars
<1>15. CASE ShutdownStreams
  BY <1>0, <1>15 DEF Bland, Started, UserTypes, QueueTypes, ShutdownStreams, engineVars, userVars,
       queueVars, writeVars, readVars, wireVars
<1>16. CASE WriterDrop
  BY <1>0, <1>16 DEF Bland, Started, UserTypes, QueueTypes, WriterDrop, engineVars, userVars,
       statusVars, readVars, wireVars, downVars
<1>17. CASE WriterCache
  BY <1>0, <1>17 DEF Bland, Started, UserTypes, QueueTypes, WriterCache, engineVars, userVars,
       statusVars, readVars, wireVars, downVars
<1>18. CASE WriterTake
  BY <1>0, <1>18 DEF Bland, Started, UserTypes, QueueTypes, WriterTake, engineVars, userVars,
       statusVars, readVars, wireVars, downVars
<1>19. CASE WriterMatch
  BY <1>0, <1>19 DEF Bland, Started, UserTypes, QueueTypes, WriterMatch, engineVars, userVars,
       statusVars, queueVars, readVars, wireVars, downVars
<1>20. CASE WriterRefuse
  BY <1>0, <1>20 DEF Bland, Started, UserTypes, QueueTypes, WriterRefuse, Fatal, WriterDone,
       engineVars, userVars, statusVars, queueVars, readVars, wireVars
<1>21. CASE ReadMatch
  BY <1>0, <1>21 DEF Bland, Started, UserTypes, QueueTypes, ReadMatch, engineVars, userVars,
       statusVars, queueVars, writeVars, wireVars, downVars
<1>22. CASE ReadResponse
  BY <1>0, <1>22 DEF Bland, Started, UserTypes, QueueTypes, ReadResponse, Assign, Purge,
       ReaderDone, Deliver, statusVars, queueVars, writeVars, wireVars, downVars
<1>23. CASE ReadRefuse
  BY <1>0, <1>23 DEF Bland, Started, UserTypes, QueueTypes, ReadRefuse, Fatal, ReaderDone,
       engineVars, userVars, statusVars, writeVars, wireVars
<1>24. CASE ReadReset
  BY <1>0, <1>24 DEF Bland, Started, UserTypes, QueueTypes, ReadReset, Purge, ReaderDone,
       userVars, queueVars, writeVars, wireVars, downVars
<1>25. CASE UNCHANGED vars
  BY <1>0, <1>25 DEF Bland, Started, UserTypes, QueueTypes, vars, engineVars, userVars,
       statusVars, queueVars, writeVars, readVars, wireVars, downVars
<1> QED
  BY <1>1, <1>2, <1>3, <1>4, <1>5, <1>6, <1>7, <1>8, <1>9, <1>10, <1>11, <1>12, <1>13, <1>14,
       <1>15, <1>16, <1>17, <1>18, <1>19, <1>20, <1>21, <1>22, <1>23, <1>24, <1>25 DEF Next,
       Requesting, Writing, Reading, Shutting

\* Nothing happens to a stream before its request begins to write.
LEMMA NextUntouched == StreamInv /\ Untouched /\ [Next]_vars => Untouched'
<1> SUFFICES ASSUME StreamInv, Untouched, [Next]_vars PROVE Untouched'
  OBVIOUS
<1>0. /\ TypeOK /\ Threads /\ AllKnown /\ down \in 0 .. 4 /\ wire \in [Ids -> Seq({"fields", "data", "rst"})]
      /\ srv \in [Ids -> {"idle", "asked", "headers", "done", "reset"}]
      /\ todo \in [Reqs -> Seq(Frames)]
  <2>1. TypeOK /\ Threads /\ AllKnown
    BY DEF StreamInv, CountInv
  <2> QED
    BY <2>1 DEF TypeOK
<1>1. /\ \A q \in Reqs : upc[q] \in Started => upc'[q] \in Started /\ sid'[q] = sid[q]
      /\ \A x : Known(x) => Known(x)'
  <2>1. \A q \in Reqs : upc[q] \in Started => upc'[q] \in Started /\ sid'[q] = sid[q]
    BY NextStarted DEF StreamInv, CountInv
  <2> QED
    BY <2>1, KnownStays
<1>2. CASE Bland
  <2>1. \A id \in Ids : wire'[id] # None => Known(id)'
    BY <1>1, <1>2 DEF Bland, Untouched
  <2>2. \A id \in Ids : srv'[id] # "idle" => wire'[id] # None \/ down' >= 3
    BY <1>2 DEF Bland, Untouched
  <2>3. rpc' \in {"match", "update"} => srv'[rframe'.id] # "idle"
    BY <1>2 DEF Bland, Untouched
  <2>4. \A r \in Reqs : upc'[r] \notin Started => todo'[r] = << >>
    BY <1>1, <1>2 DEF Bland, Untouched
  <2> QED
    BY <2>1, <2>2, <2>3, <2>4 DEF Untouched
<1>3. CASE WriterSend \/ WriterReset
  <2>1. /\ wframe \in Frames /\ wframe.id \in Ids /\ Known(wframe.id)
        /\ UNCHANGED <<upc, sid, todo, rpc, rframe, down>>
        /\ wire' = wire \/ \E t \in {"fields", "data", "rst"} : wire' = [wire EXCEPT ![wframe.id] = Append(wire[wframe.id], t)]
        /\ srv' = srv \/ (srv' = [srv EXCEPT ![wframe.id] = "asked"] /\
             (down < 3 => wire' = [wire EXCEPT ![wframe.id] = Append(wire[wframe.id], wframe.type)]))
    <3>1. wpc = "update"
      BY <1>3 DEF WriterSend, WriterReset
    <3>2. wframe \in Frames /\ wframe.id \in Ids /\ Known(wframe.id) /\ wframe.type \in {"fields", "data", "rst"}
      BY <1>0, <3>1, RankFacts DEF Threads, AllKnown
    <3>3. UNCHANGED <<upc, sid, todo, rpc, rframe, down>>
      BY <1>3 DEF WriterSend, WriterReset, userVars, readVars, downVars
    <3>4. CASE WriterSend
      BY <3>2, <3>3, <3>4 DEF WriterSend
    <3>5. CASE WriterReset
      BY <3>2, <3>3, <3>5 DEF WriterReset
    <3> QED
      BY <1>3, <3>4, <3>5
  <2>2. \A id \in Ids : \A t \in {"fields", "data", "rst"} : Append(wire[id], t) # None
    <3>1. ASSUME NEW s \in Seq({"fields", "data", "rst"}), NEW t \in {"fields", "data", "rst"} PROVE Append(s, t) # None
      BY DEF None
    <3> QED
      BY <1>0, <3>1
  <2>3. \A id \in Ids : /\ wire[id] # None => wire'[id] # None
                        /\ wire'[id] # None => wire[id] # None \/ id = wframe.id
    BY <1>0, <2>1, <2>2
  <2>4. \A id \in Ids : wire'[id] # None => Known(id)'
    BY <1>1, <2>1, <2>3 DEF Untouched
  <2>5. \A id \in Ids : srv'[id] # "idle" => wire'[id] # None \/ down' >= 3
    <3> SUFFICES ASSUME NEW id \in Ids, srv'[id] # "idle", ~ (down' >= 3) PROVE wire'[id] # None
      OBVIOUS
    <3>1. down < 3
      BY <1>0, <2>1
    <3>2. CASE srv[id] # "idle"
      BY <2>1, <2>3, <3>2 DEF Untouched
    <3>3. CASE srv[id] = "idle"
      <4>1. id = wframe.id /\ wire' = [wire EXCEPT ![wframe.id] = Append(wire[wframe.id], wframe.type)]
        BY <1>0, <2>1, <3>1, <3>3
      <4>2. wframe.type \in {"fields", "data", "rst"}
        BY <2>1, RankFacts
      <4> QED
        BY <1>0, <2>1, <2>2, <4>1, <4>2
    <3> QED
      BY <3>2, <3>3
  <2>6. rpc' \in {"match", "update"} => srv'[rframe'.id] # "idle"
    <3>1. rpc \in {"match", "update"} => rframe.id \in Ids
      BY <1>0 DEF Threads, Frames
    <3> QED
      BY <1>0, <2>1, <3>1 DEF Untouched
  <2>7. \A r \in Reqs : upc'[r] \notin Started => todo'[r] = << >>
    BY <2>1 DEF Untouched
  <2> QED
    BY <2>4, <2>5, <2>6, <2>7 DEF Untouched
<1>4. CASE ReadFrame
  <2>0. PICK id \in Ids : \E f \in ServerFrames(id) :
             /\ srv' = [srv EXCEPT ![id] = IF f.type = "rst" THEN "reset" ELSE IF f.end THEN "done" ELSE "headers"]
             /\ IF streams[id] = NoReq THEN UNCHANGED <<rpc, rframe, rreq>>
                ELSE rpc' = "match" /\ rframe' = f /\ rreq' = streams[id]
    BY <1>4 DEF ReadFrame
  <2>1. PICK f \in ServerFrames(id) :
             /\ srv' = [srv EXCEPT ![id] = IF f.type = "rst" THEN "reset" ELSE IF f.end THEN "done" ELSE "headers"]
             /\ IF streams[id] = NoReq THEN UNCHANGED <<rpc, rframe, rreq>>
                ELSE rpc' = "match" /\ rframe' = f /\ rreq' = streams[id]
    BY <2>0
  <2>2. srv[id] # "idle" /\ f.id = id /\ UNCHANGED <<upc, sid, todo, wire, down>> /\ rpc = "read"
    BY <1>4, <2>1 DEF ServerFrames, Frame, ReadFrame, userVars, downVars
  <2>3. \A i \in Ids : (srv[i] # "idle" => srv'[i] # "idle") /\ (srv'[i] # "idle" => srv[i] # "idle")
    BY <1>0, <2>1, <2>2
  <2>4. \A i \in Ids : wire'[i] # None => Known(i)'
    BY <1>1, <2>2 DEF Untouched
  <2>5. \A i \in Ids : srv'[i] # "idle" => wire'[i] # None \/ down' >= 3
    BY <2>2, <2>3 DEF Untouched
  <2>6. rpc' \in {"match", "update"} => srv'[rframe'.id] # "idle"
    BY <2>1, <2>2, <2>3
  <2>7. \A r \in Reqs : upc'[r] \notin Started => todo'[r] = << >>
    BY <2>2 DEF Untouched
  <2> QED
    BY <2>4, <2>5, <2>6, <2>7 DEF Untouched
<1> QED
  BY <1>0, <1>2, <1>3, <1>4, NextBland

\* A request begins to write, or is refused before it has a stream.
LEMMA NextBegins ==
  ASSUME TypeOK, Numbers, [Next]_vars, NEW q \in Reqs, Begins(q)'
  PROVE  Begins(q) \/ OpenConn(q) \/ WriteFails(q)
<1>0. /\ UserTypes /\ upc'[q] \in Started /\ sid'[q] # 0
      /\ upc[q] \in {"new", "refuse", "cas", "load", "next"} => sid[q] = 0
  BY DEF TypeOK, UserTypes, Begins, Numbers
<1>1. ASSUME NEW r \in Reqs, Count(r) PROVE Begins(q) \/ OpenConn(q) \/ WriteFails(q)
  BY <1>0, <1>1 DEF Begins, Started, UserTypes, Count, User, statusVars, queueVars, writeVars,
       readVars, wireVars, downVars
<1>2. ASSUME NEW r \in Reqs, Refuse(r) PROVE Begins(q) \/ OpenConn(q) \/ WriteFails(q)
  BY <1>0, <1>2 DEF Begins, Started, UserTypes, Refuse, User, statusVars, queueVars, writeVars,
       readVars, wireVars, downVars
<1>3. ASSUME NEW r \in Reqs, FirstId(r) PROVE Begins(q) \/ OpenConn(q) \/ WriteFails(q)
  BY <1>0, <1>3 DEF Begins, Started, UserTypes, FirstId, User, statusVars, queueVars, writeVars,
       readVars, wireVars, downVars
<1>4. ASSUME NEW r \in Reqs, LoadId(r) PROVE Begins(q) \/ OpenConn(q) \/ WriteFails(q)
  BY <1>0, <1>4 DEF Begins, Started, UserTypes, LoadId, User, engineVars, statusVars, queueVars,
       writeVars, readVars, wireVars, downVars
<1>5. ASSUME NEW r \in Reqs, NextId(r) PROVE Begins(q) \/ OpenConn(q) \/ WriteFails(q)
  BY <1>0, <1>5 DEF Begins, Started, UserTypes, NextId, User, statusVars, queueVars, writeVars,
       readVars, wireVars, downVars
<1>6. ASSUME NEW r \in Reqs, MapStream(r) PROVE Begins(q) \/ OpenConn(q) \/ WriteFails(q)
  BY <1>0, <1>6 DEF Begins, Started, UserTypes, MapStream, User, statusVars, queueVars, writeVars,
       readVars, wireVars, downVars
<1>7. ASSUME NEW r \in Reqs, OpenConn(r) PROVE Begins(q) \/ OpenConn(q) \/ WriteFails(q)
  <2>1. CASE r = q
    BY <1>7, <2>1
  <2>2. CASE r # q
    BY <1>0, <1>7, <2>2 DEF Begins, UserTypes, OpenConn, User, engineVars, statusVars,
         queueVars, writeVars, readVars, wireVars, downVars
  <2> QED
    BY <2>1, <2>2
<1>8. ASSUME NEW r \in Reqs, Write(r) PROVE Begins(q) \/ OpenConn(q) \/ WriteFails(q)
  BY <1>0, <1>8 DEF Begins, Started, UserTypes, Write, User, engineVars, statusVars, writeVars,
       readVars, wireVars, downVars
<1>9. ASSUME NEW r \in Reqs, WriteFails(r) PROVE Begins(q) \/ OpenConn(q) \/ WriteFails(q)
  <2>1. CASE r = q
    BY <1>9, <2>1
  <2>2. CASE r # q
    BY <1>0, <1>9, <2>2 DEF Begins, UserTypes, WriteFails, User, engineVars, statusVars,
         queueVars, writeVars, readVars, wireVars, downVars
  <2> QED
    BY <2>1, <2>2
<1>10. ASSUME NEW r \in Reqs, Response(r) PROVE Begins(q) \/ OpenConn(q) \/ WriteFails(q)
  BY <1>0, <1>10 DEF Begins, Started, UserTypes, Response, User, engineVars, statusVars,
       queueVars, writeVars, readVars, wireVars, downVars
<1>11. ASSUME NEW r \in Reqs, NoResponse(r) PROVE Begins(q) \/ OpenConn(q) \/ WriteFails(q)
  BY <1>0, <1>11 DEF Begins, Started, UserTypes, NoResponse, User, engineVars, statusVars,
       queueVars, writeVars, readVars, wireVars, downVars
<1>12. ASSUME NEW r \in Reqs, Reset(r) PROVE Begins(q) \/ OpenConn(q) \/ WriteFails(q)
  BY <1>0, <1>12 DEF Begins, Started, UserTypes, Reset, engineVars, userVars, statusVars,
       writeVars, readVars, wireVars, downVars
<1>13. CASE PeerClose
  BY <1>0, <1>13 DEF Begins, PeerClose, Fatal, engineVars, userVars, statusVars, queueVars,
       writeVars, readVars, wireVars
<1>14. CASE ShutdownStep
  BY <1>0, <1>14 DEF Begins, ShutdownStep, engineVars, userVars, statusVars, queueVars, writeVars,
       readVars, wireVars
<1>15. CASE ShutdownStreams
  BY <1>0, <1>15 DEF Begins, ShutdownStreams, engineVars, userVars, queueVars, writeVars,
       readVars, wireVars
<1>16. CASE WriterDrop
  BY <1>0, <1>16 DEF Begins, WriterDrop, engineVars, userVars, statusVars, readVars, wireVars,
       downVars
<1>17. CASE WriterCache
  BY <1>0, <1>17 DEF Begins, WriterCache, engineVars, userVars, statusVars, readVars, wireVars,
       downVars
<1>18. CASE WriterTake
  BY <1>0, <1>18 DEF Begins, WriterTake, engineVars, userVars, statusVars, readVars, wireVars,
       downVars
<1>19. CASE WriterMatch
  BY <1>0, <1>19 DEF Begins, WriterMatch, engineVars, userVars, statusVars, queueVars, readVars,
       wireVars, downVars
<1>20. CASE WriterSend
  BY <1>0, <1>20 DEF Begins, WriterSend, Assign, Purge, WriterDone, userVars, statusVars,
       queueVars, readVars, downVars
<1>21. CASE WriterRefuse
  BY <1>0, <1>21 DEF Begins, WriterRefuse, Fatal, WriterDone, engineVars, userVars, statusVars,
       queueVars, readVars, wireVars
<1>22. CASE WriterReset
  BY <1>0, <1>22 DEF Begins, WriterReset, Purge, WriterDone, userVars, queueVars, readVars,
       downVars
<1>23. CASE ReadFrame
  BY <1>0, <1>23 DEF Begins, ReadFrame, engineVars, userVars, statusVars, queueVars, writeVars,
       downVars
<1>24. CASE ReadMatch
  BY <1>0, <1>24 DEF Begins, ReadMatch, engineVars, userVars, statusVars, queueVars, writeVars,
       wireVars, downVars
<1>25. CASE ReadResponse
  BY <1>0, <1>25 DEF Begins, ReadResponse, Assign, Purge, ReaderDone, Deliver, statusVars,
       queueVars, writeVars, wireVars, downVars
<1>26. CASE ReadRefuse
  BY <1>0, <1>26 DEF Begins, ReadRefuse, Fatal, ReaderDone, engineVars, userVars, statusVars,
       writeVars, wireVars
<1>27. CASE ReadReset
  BY <1>0, <1>27 DEF Begins, ReadReset, Purge, ReaderDone, userVars, queueVars, writeVars,
       wireVars, downVars
<1>28. CASE UNCHANGED vars
  BY <1>0, <1>28 DEF Begins, vars, engineVars, userVars, statusVars, queueVars, writeVars,
       readVars, wireVars, downVars
<1> QED
  BY <1>1, <1>2, <1>3, <1>4, <1>5, <1>6, <1>7, <1>8, <1>9, <1>10, <1>11, <1>12, <1>13, <1>14,
       <1>15, <1>16, <1>17, <1>18, <1>19, <1>20, <1>21, <1>22, <1>23, <1>24, <1>25, <1>26, <1>27,
       <1>28 DEF Next, Requesting, Writing, Reading, Shutting

\* A stream that has begun keeps its order.
LEMMA NextKept ==
  ASSUME StreamInv, Untouched, [Next]_vars, NEW r \in Reqs, Begins(r), Kept(r)
  PROVE  Kept(r)'
<1>0. TypeOK /\ Threads /\ Numbers /\ Unique /\ down \in 0 .. 4 /\ down <= down
  <2>1. TypeOK /\ Threads /\ Numbers /\ Unique
    BY DEF StreamInv, CountInv
  <2>2. down \in 0 .. 4
    BY <2>1 DEF TypeOK
  <2> QED
    BY <2>1, <2>2
<1>1. ASSUME NEW q \in Reqs,
             \/ Count(q) \/ Refuse(q) \/ FirstId(q) \/ LoadId(q) \/ NextId(q) \/ MapStream(q)
             \/ OpenConn(q) \/ WriteFails(q) \/ Response(q) \/ NoResponse(q) \/ Reset(q)
      PROVE  Kept(r)'
  <2>1. QuietFor(r)
    BY <1>0, <1>1, UsersQuiet
  <2> QED
    BY <1>0, <2>1, QuietKeeps DEF QuietFor
<1>2. ASSUME NEW q \in Reqs, Write(q) PROVE Kept(r)'
  BY <1>0, <1>2, WriteKeeps
<1>3. CASE PeerClose \/ ShutdownStep \/ ShutdownStreams
  BY <1>0, <1>3, ShutdownKeeps
<1>4. CASE ReadFrame \/ ReadMatch \/ ReadResponse \/ ReadRefuse \/ ReadReset
  BY <1>4, ReaderKeeps
<1>5. CASE Writing
  BY <1>5, DropKeeps, CacheKeeps, TakeKeeps, MatchKeeps, SendKeeps, RefuseKeeps, WriterResetKeeps DEF Writing
<1>6. CASE UNCHANGED vars
  <2>1. QuietFor(r)
    BY <1>0, <1>6 DEF QuietFor, vars, engineVars, userVars, statusVars, queueVars, writeVars, wireVars, downVars
  <2> QED
    BY <1>0, <2>1, QuietKeeps DEF QuietFor
<1> QED
  BY <1>1, <1>2, <1>3, <1>4, <1>5, <1>6 DEF Next, Requesting, Reading, Shutting

\* So every step keeps the frames in order.
LEMMA NextFrames == StreamInv /\ FrameInv /\ [Next]_vars => FrameInv'
<1> SUFFICES ASSUME StreamInv, FrameInv, [Next]_vars PROVE FrameInv'
  OBVIOUS
<1>1. Untouched'
  BY NextUntouched DEF FrameInv
<1>2. ASSUME NEW r \in Reqs, Begins(r)' PROVE Kept(r)'
  <2>1. CASE Begins(r)
    BY <2>1, NextKept DEF FrameInv
  <2>2. CASE OpenConn(r) \/ WriteFails(r)
    BY <2>2, StartKeeps DEF FrameInv
  <2> QED
    BY <1>2, <2>1, <2>2, NextBegins DEF StreamInv, CountInv
<1> QED
  BY <1>1, <1>2 DEF FrameInv

\* Every stream's frames are in the order they were written, wherever they are,
\* and what is on its wire is a beginning of them.
THEOREM FramesLineUp == FirstAlone => (Spec => [](StreamInv /\ FrameInv))
<1> SUFFICES ASSUME FirstAlone PROVE Spec => [](StreamInv /\ FrameInv)
  OBVIOUS
<1>1. Init => StreamInv /\ FrameInv
  <2> SUFFICES ASSUME Init PROVE StreamInv /\ FrameInv
    OBVIOUS
  <2>1. StreamInv
    BY InitReleased DEF ReleaseInv
  <2>2. /\ rpc = "read" /\ \A id \in Ids : wire[id] = None /\ srv[id] = "idle"
        /\ \A r \in Reqs : todo[r] = << >> /\ ~ Begins(r)
    BY DEF Init, None, Begins
  <2> QED
    BY <2>1, <2>2 DEF FrameInv, Untouched
<1>2. (StreamInv /\ FrameInv) /\ [Next]_vars => (StreamInv /\ FrameInv)'
  BY NextStreams, NextFrames
<1> QED
  BY <1>1, <1>2, PTL DEF Spec

\* A stream's headers, body and trailer go out in the order they were written,
\* and none before its headers, whatever was cached, dropped or reset.
THEOREM FramesKeepOrder == FirstAlone => (Spec => []FramesInOrder)
<1> SUFFICES ASSUME FirstAlone PROVE Spec => []FramesInOrder
  OBVIOUS
<1>1. StreamInv /\ FrameInv => FramesInOrder
  <2> SUFFICES ASSUME StreamInv, FrameInv, NEW id \in Ids PROVE wire[id] \in Uncut \cup Cut
    BY DEF FramesInOrder, Uncut, Cut, None, Fields, Body, Whole
  <2>1. CASE wire[id] = None
    BY <2>1 DEF Uncut
  <2>2. CASE wire[id] # None
    <3>1. PICK r \in Reqs : sid[r] = id /\ upc[r] \in Started
      BY <2>2 DEF FrameInv, Untouched, Known
    <3>2. Begins(r)
      BY <3>1, IdFacts DEF Begins
    <3> QED
      BY <3>1, <3>2 DEF FrameInv, Kept, WireFits
  <2> QED
    BY <2>1, <2>2
<1> QED
  BY <1>1, FramesLineUp, PTL

-----------------------------------------------------------------------------
(* The end of a stream, step by step.                                        *)

\* A connection that ends has a cause, and keeps it.
LEMMA NextCauses ==
  ASSUME TypeOK, Causes, [Next]_vars
  PROVE  Causes' /\ (cause # "none" => cause' # "none")
<1>0. down \in 0 .. 4
  BY DEF TypeOK
<1>1. ASSUME NEW q \in Reqs, Count(q) PROVE Causes' /\ (cause # "none" => cause' # "none")
  BY <1>0, <1>1 DEF Causes, Count, User, statusVars, queueVars, writeVars, readVars, wireVars,
       downVars
<1>2. ASSUME NEW q \in Reqs, Refuse(q) PROVE Causes' /\ (cause # "none" => cause' # "none")
  BY <1>0, <1>2 DEF Causes, Refuse, User, statusVars, queueVars, writeVars, readVars, wireVars,
       downVars
<1>3. ASSUME NEW q \in Reqs, FirstId(q) PROVE Causes' /\ (cause # "none" => cause' # "none")
  BY <1>0, <1>3 DEF Causes, FirstId, User, statusVars, queueVars, writeVars, readVars, wireVars,
       downVars
<1>4. ASSUME NEW q \in Reqs, LoadId(q) PROVE Causes' /\ (cause # "none" => cause' # "none")
  BY <1>0, <1>4 DEF Causes, LoadId, User, engineVars, statusVars, queueVars, writeVars, readVars,
       wireVars, downVars
<1>5. ASSUME NEW q \in Reqs, NextId(q) PROVE Causes' /\ (cause # "none" => cause' # "none")
  BY <1>0, <1>5 DEF Causes, NextId, User, statusVars, queueVars, writeVars, readVars, wireVars,
       downVars
<1>6. ASSUME NEW q \in Reqs, MapStream(q) PROVE Causes' /\ (cause # "none" => cause' # "none")
  BY <1>0, <1>6 DEF Causes, MapStream, User, statusVars, queueVars, writeVars, readVars, wireVars,
       downVars
<1>7. ASSUME NEW q \in Reqs, OpenConn(q) PROVE Causes' /\ (cause # "none" => cause' # "none")
  BY <1>0, <1>7 DEF Causes, OpenConn, User, engineVars, statusVars, queueVars, writeVars,
       readVars, wireVars, downVars
<1>8. ASSUME NEW q \in Reqs, Write(q) PROVE Causes' /\ (cause # "none" => cause' # "none")
  BY <1>0, <1>8 DEF Causes, Write, User, engineVars, statusVars, writeVars, readVars, wireVars,
       downVars
<1>9. ASSUME NEW q \in Reqs, WriteFails(q) PROVE Causes' /\ (cause # "none" => cause' # "none")
  BY <1>0, <1>9 DEF Causes, WriteFails, User, engineVars, statusVars, queueVars, writeVars,
       readVars, wireVars, downVars
<1>10. ASSUME NEW q \in Reqs, Response(q) PROVE Causes' /\ (cause # "none" => cause' # "none")
  BY <1>0, <1>10 DEF Causes, Response, User, engineVars, statusVars, queueVars, writeVars,
       readVars, wireVars, downVars
<1>11. ASSUME NEW q \in Reqs, NoResponse(q) PROVE Causes' /\ (cause # "none" => cause' # "none")
  BY <1>0, <1>11 DEF Causes, NoResponse, User, engineVars, statusVars, queueVars, writeVars,
       readVars, wireVars, downVars
<1>12. ASSUME NEW q \in Reqs, Reset(q) PROVE Causes' /\ (cause # "none" => cause' # "none")
  BY <1>0, <1>12 DEF Causes, Reset, engineVars, userVars, statusVars, writeVars, readVars,
       wireVars, downVars
<1>13. CASE PeerClose
  BY <1>0, <1>13 DEF Causes, PeerClose, Fatal, engineVars, userVars, statusVars, queueVars,
       writeVars, readVars, wireVars
<1>14. CASE ShutdownStep
  BY <1>0, <1>14 DEF Causes, ShutdownStep, engineVars, userVars, statusVars, queueVars, writeVars,
       readVars, wireVars
<1>15. CASE ShutdownStreams
  BY <1>0, <1>15 DEF Causes, ShutdownStreams, engineVars, userVars, queueVars, writeVars,
       readVars, wireVars
<1>16. CASE WriterDrop
  BY <1>0, <1>16 DEF Causes, Take, queueVars, WriterDrop, engineVars, userVars, statusVars, readVars,
       wireVars, downVars
<1>17. CASE WriterCache
  BY <1>0, <1>17 DEF Causes, WriterCache, engineVars, userVars, statusVars, readVars, wireVars,
       downVars
<1>18. CASE WriterTake
  BY <1>0, <1>18 DEF Causes, Take, queueVars, WriterTake, engineVars, userVars, statusVars, readVars,
       wireVars, downVars
<1>19. CASE WriterMatch
  BY <1>0, <1>19 DEF Causes, WriterMatch, engineVars, userVars, statusVars, queueVars, readVars,
       wireVars, downVars
<1>20. CASE WriterSend
  BY <1>0, <1>20 DEF Causes, WriterSend, Assign, Purge, WriterDone, userVars, statusVars,
       queueVars, readVars, downVars
<1>21. CASE WriterRefuse
  BY <1>0, <1>21 DEF Causes, WriterRefuse, Fatal, WriterDone, engineVars, userVars, statusVars,
       queueVars, readVars, wireVars
<1>22. CASE WriterReset
  BY <1>0, <1>22 DEF Causes, WriterReset, Purge, WriterDone, userVars, queueVars, readVars,
       downVars
<1>23. CASE ReadFrame
  BY <1>0, <1>23 DEF Causes, ReadFrame, engineVars, userVars, statusVars, queueVars, writeVars,
       downVars
<1>24. CASE ReadMatch
  BY <1>0, <1>24 DEF Causes, ReadMatch, engineVars, userVars, statusVars, queueVars, writeVars,
       wireVars, downVars
<1>25. CASE ReadResponse
  BY <1>0, <1>25 DEF Causes, ReadResponse, Assign, Purge, ReaderDone, Deliver, statusVars,
       queueVars, writeVars, wireVars, downVars
<1>26. CASE ReadRefuse
  BY <1>0, <1>26 DEF Causes, ReadRefuse, Fatal, ReaderDone, engineVars, userVars, statusVars,
       writeVars, wireVars
<1>27. CASE ReadReset
  BY <1>0, <1>27 DEF Causes, ReadReset, Purge, ReaderDone, userVars, queueVars, writeVars,
       wireVars, downVars
<1>28. CASE UNCHANGED vars
  BY <1>0, <1>28 DEF Causes, vars, engineVars, userVars, statusVars, queueVars, writeVars,
       readVars, wireVars, downVars
<1> QED
  BY <1>1, <1>2, <1>3, <1>4, <1>5, <1>6, <1>7, <1>8, <1>9, <1>10, <1>11, <1>12, <1>13, <1>14,
       <1>15, <1>16, <1>17, <1>18, <1>19, <1>20, <1>21, <1>22, <1>23, <1>24, <1>25, <1>26, <1>27,
       <1>28 DEF Next, Requesting, Writing, Reading, Shutting

\* What the steps about a stream that has begun rest on.
LEMMA BegunFacts ==
  ASSUME StreamInv, Causes, [Next]_vars, NEW r \in Reqs, Begins(r)
  PROVE  /\ UserTypes /\ StreamTypes /\ QueueTypes /\ WriterTypes /\ ReaderTypes /\ NoReq \notin Reqs
         /\ upc[r] \in Started /\ sid[r] \in Ids /\ sid'[r] = sid[r]
         /\ cause # "none" => cause' # "none"
         /\ wpc \in {"match", "update"} => wframe.id \in Ids
         /\ rpc \in {"match", "update"} => rframe.id \in Ids
         /\ upc[r] \notin {"new", "refuse", "cas", "load", "next", "map", "open"}
<1>1. TypeOK /\ Threads /\ Numbers /\ NoReq \notin Reqs
  BY ClientAssumption DEF StreamInv, CountInv
<1>2. UserTypes /\ StreamTypes /\ QueueTypes /\ WriterTypes /\ ReaderTypes
  BY <1>1 DEF TypeOK, Threads, UserTypes, StreamTypes, QueueTypes, WriterTypes, ReaderTypes
<1>3. upc[r] \in Started /\ sid[r] \in Ids
  BY <1>2 DEF UserTypes, Begins
<1>4. sid'[r] = sid[r]
  BY <1>1, <1>3, NextStarted
<1>5. cause # "none" => cause' # "none"
  BY <1>1, NextCauses
<1>6. /\ wpc \in {"match", "update"} => wframe.id \in Ids
      /\ rpc \in {"match", "update"} => rframe.id \in Ids
  BY <1>1 DEF Threads, Frames
<1> QED
  BY <1>1, <1>2, <1>3, <1>4, <1>5, <1>6 DEF Started

\* What is lost stays lost.
LEMMA NextLost ==
  ASSUME StreamInv, Causes, [Next]_vars, NEW r \in Reqs, Begins(r), Lost(r)
  PROVE  Lost(r)'
<1>0. /\ UserTypes /\ StreamTypes /\ QueueTypes /\ WriterTypes /\ ReaderTypes /\ NoReq \notin Reqs
      /\ upc[r] \in Started /\ sid[r] \in Ids /\ sid'[r] = sid[r]
      /\ cause # "none" => cause' # "none"
      /\ wpc \in {"match", "update"} => wframe.id \in Ids
      /\ rpc \in {"match", "update"} => rframe.id \in Ids
      /\ upc[r] \notin {"new", "refuse", "cas", "load", "next", "map", "open"}
  BY BegunFacts
<1>1. ASSUME NEW q \in Reqs, Count(q) PROVE Lost(r)'
  BY <1>0, <1>1 DEF Lost, UserTypes, Count, User, statusVars, queueVars, writeVars, readVars,
       wireVars, downVars
<1>2. ASSUME NEW q \in Reqs, Refuse(q) PROVE Lost(r)'
  BY <1>0, <1>2 DEF Lost, UserTypes, Refuse, User, statusVars, queueVars, writeVars, readVars,
       wireVars, downVars
<1>3. ASSUME NEW q \in Reqs, FirstId(q) PROVE Lost(r)'
  BY <1>0, <1>3 DEF Lost, UserTypes, FirstId, User, statusVars, queueVars, writeVars, readVars,
       wireVars, downVars
<1>4. ASSUME NEW q \in Reqs, LoadId(q) PROVE Lost(r)'
  BY <1>0, <1>4 DEF Lost, UserTypes, LoadId, User, engineVars, statusVars, queueVars, writeVars,
       readVars, wireVars, downVars
<1>5. ASSUME NEW q \in Reqs, NextId(q) PROVE Lost(r)'
  BY <1>0, <1>5 DEF Lost, UserTypes, NextId, User, statusVars, queueVars, writeVars, readVars,
       wireVars, downVars
<1>6. ASSUME NEW q \in Reqs, MapStream(q) PROVE Lost(r)'
  BY <1>0, <1>6 DEF Lost, UserTypes, MapStream, User, statusVars, queueVars, writeVars, readVars,
       wireVars, downVars
<1>7. ASSUME NEW q \in Reqs, OpenConn(q) PROVE Lost(r)'
  BY <1>0, <1>7 DEF Lost, UserTypes, OpenConn, User, engineVars, statusVars, queueVars, writeVars,
       readVars, wireVars, downVars
<1>8. ASSUME NEW q \in Reqs, Write(q) PROVE Lost(r)'
  BY <1>0, <1>8 DEF Lost, UserTypes, Write, User, engineVars, statusVars, writeVars, readVars,
       wireVars, downVars
<1>9. ASSUME NEW q \in Reqs, WriteFails(q) PROVE Lost(r)'
  BY <1>0, <1>9 DEF Lost, UserTypes, WriteFails, User, engineVars, statusVars, queueVars,
       writeVars, readVars, wireVars, downVars
<1>10. ASSUME NEW q \in Reqs, Response(q) PROVE Lost(r)'
  BY <1>0, <1>10 DEF Lost, UserTypes, Response, User, engineVars, statusVars, queueVars,
       writeVars, readVars, wireVars, downVars
<1>11. ASSUME NEW q \in Reqs, NoResponse(q) PROVE Lost(r)'
  BY <1>0, <1>11 DEF Lost, UserTypes, NoResponse, User, engineVars, statusVars, queueVars,
       writeVars, readVars, wireVars, downVars
<1>12. ASSUME NEW q \in Reqs, Reset(q) PROVE Lost(r)'
  BY <1>0, <1>12 DEF Lost, UserTypes, Reset, engineVars, userVars, statusVars, writeVars,
       readVars, wireVars, downVars
<1>13. CASE PeerClose
  BY <1>0, <1>13 DEF Lost, UserTypes, PeerClose, Fatal, engineVars, userVars, statusVars,
       queueVars, writeVars, readVars, wireVars
<1>14. CASE ShutdownStep
  BY <1>0, <1>14 DEF Lost, UserTypes, ShutdownStep, engineVars, userVars, statusVars, queueVars,
       writeVars, readVars, wireVars
<1>15. CASE ShutdownStreams
  BY <1>0, <1>15 DEF Lost, UserTypes, ShutdownStreams, engineVars, userVars, queueVars, writeVars,
       readVars, wireVars
<1>16. CASE WriterDrop
  BY <1>0, <1>16 DEF Lost, UserTypes, WriterDrop, engineVars, userVars, statusVars, readVars,
       wireVars, downVars
<1>17. CASE WriterCache
  BY <1>0, <1>17 DEF Lost, UserTypes, WriterCache, engineVars, userVars, statusVars, readVars,
       wireVars, downVars
<1>18. CASE WriterTake
  BY <1>0, <1>18 DEF Lost, UserTypes, WriterTake, engineVars, userVars, statusVars, readVars,
       wireVars, downVars
<1>19. CASE WriterMatch
  BY <1>0, <1>19 DEF Lost, UserTypes, WriterMatch, engineVars, userVars, statusVars, queueVars,
       readVars, wireVars, downVars
<1>20. CASE WriterSend
  BY <1>0, <1>20 DEF Lost, UserTypes, WriterSend, Assign, Purge, WriterDone, userVars, statusVars,
       queueVars, readVars, downVars
<1>21. CASE WriterRefuse
  BY <1>0, <1>21 DEF Lost, UserTypes, WriterRefuse, Fatal, WriterDone, engineVars, userVars,
       statusVars, queueVars, readVars, wireVars
<1>22. CASE WriterReset
  BY <1>0, <1>22 DEF Lost, UserTypes, WriterReset, Purge, WriterDone, userVars, queueVars,
       readVars, downVars
<1>23. CASE ReadFrame
  BY <1>0, <1>23 DEF Lost, UserTypes, ReadFrame, engineVars, userVars, statusVars, queueVars,
       writeVars, downVars
<1>24. CASE ReadMatch
  BY <1>0, <1>24 DEF Lost, UserTypes, ReadMatch, engineVars, userVars, statusVars, queueVars,
       writeVars, wireVars, downVars
<1>25. CASE ReadResponse
  BY <1>0, <1>25 DEF Lost, UserTypes, ReadResponse, Assign, Purge, ReaderDone, Deliver,
       statusVars, queueVars, writeVars, wireVars, downVars
<1>26. CASE ReadRefuse
  BY <1>0, <1>26 DEF Lost, UserTypes, ReadRefuse, Fatal, ReaderDone, engineVars, userVars,
       statusVars, writeVars, wireVars
<1>27. CASE ReadReset
  BY <1>0, <1>27 DEF Lost, UserTypes, ReadReset, Purge, ReaderDone, userVars, queueVars,
       writeVars, wireVars, downVars
<1>28. CASE UNCHANGED vars
  BY <1>0, <1>28 DEF Lost, UserTypes, vars, engineVars, userVars, statusVars, queueVars,
       writeVars, readVars, wireVars, downVars
<1> QED
  BY <1>1, <1>2, <1>3, <1>4, <1>5, <1>6, <1>7, <1>8, <1>9, <1>10, <1>11, <1>12, <1>13, <1>14,
       <1>15, <1>16, <1>17, <1>18, <1>19, <1>20, <1>21, <1>22, <1>23, <1>24, <1>25, <1>26, <1>27,
       <1>28 DEF Next, Requesting, Writing, Reading, Shutting

\* What a stream is exempt for remains.
LEMMA NextExempt ==
  ASSUME StreamInv, Causes, [Next]_vars, NEW r \in Reqs, Begins(r), Exempt(r)
  PROVE  Exempt(r)'
<1>0. Lost(r) => Lost(r)'
  BY NextLost
<1>1. ASSUME NEW q \in Reqs, Count(q) PROVE Exempt(r)'
  BY <1>0, <1>1 DEF Exempt, Count, User, statusVars, queueVars, writeVars, readVars, wireVars,
       downVars
<1>2. ASSUME NEW q \in Reqs, Refuse(q) PROVE Exempt(r)'
  BY <1>0, <1>2 DEF Exempt, Refuse, User, statusVars, queueVars, writeVars, readVars, wireVars,
       downVars
<1>3. ASSUME NEW q \in Reqs, FirstId(q) PROVE Exempt(r)'
  BY <1>0, <1>3 DEF Exempt, FirstId, User, statusVars, queueVars, writeVars, readVars, wireVars,
       downVars
<1>4. ASSUME NEW q \in Reqs, LoadId(q) PROVE Exempt(r)'
  BY <1>0, <1>4 DEF Exempt, LoadId, User, engineVars, statusVars, queueVars, writeVars, readVars,
       wireVars, downVars
<1>5. ASSUME NEW q \in Reqs, NextId(q) PROVE Exempt(r)'
  BY <1>0, <1>5 DEF Exempt, NextId, User, statusVars, queueVars, writeVars, readVars, wireVars,
       downVars
<1>6. ASSUME NEW q \in Reqs, MapStream(q) PROVE Exempt(r)'
  BY <1>0, <1>6 DEF Exempt, MapStream, User, statusVars, queueVars, writeVars, readVars, wireVars,
       downVars
<1>7. ASSUME NEW q \in Reqs, OpenConn(q) PROVE Exempt(r)'
  BY <1>0, <1>7 DEF Exempt, OpenConn, User, engineVars, statusVars, queueVars, writeVars,
       readVars, wireVars, downVars
<1>8. ASSUME NEW q \in Reqs, Write(q) PROVE Exempt(r)'
  BY <1>0, <1>8 DEF Exempt, Write, User, engineVars, statusVars, writeVars, readVars, wireVars,
       downVars
<1>9. ASSUME NEW q \in Reqs, WriteFails(q) PROVE Exempt(r)'
  BY <1>0, <1>9 DEF Exempt, WriteFails, User, engineVars, statusVars, queueVars, writeVars,
       readVars, wireVars, downVars
<1>10. ASSUME NEW q \in Reqs, Response(q) PROVE Exempt(r)'
  BY <1>0, <1>10 DEF Exempt, Response, User, engineVars, statusVars, queueVars, writeVars,
       readVars, wireVars, downVars
<1>11. ASSUME NEW q \in Reqs, NoResponse(q) PROVE Exempt(r)'
  BY <1>0, <1>11 DEF Exempt, NoResponse, User, engineVars, statusVars, queueVars, writeVars,
       readVars, wireVars, downVars
<1>12. ASSUME NEW q \in Reqs, Reset(q) PROVE Exempt(r)'
  BY <1>0, <1>12 DEF Exempt, Reset, engineVars, userVars, statusVars, writeVars, readVars,
       wireVars, downVars
<1>13. CASE PeerClose
  BY <1>0, <1>13 DEF Exempt, PeerClose, Fatal, engineVars, userVars, statusVars, queueVars,
       writeVars, readVars, wireVars
<1>14. CASE ShutdownStep
  BY <1>0, <1>14 DEF Exempt, ShutdownStep, engineVars, userVars, statusVars, queueVars, writeVars,
       readVars, wireVars
<1>15. CASE ShutdownStreams
  BY <1>0, <1>15 DEF Exempt, ShutdownStreams, engineVars, userVars, queueVars, writeVars,
       readVars, wireVars
<1>16. CASE WriterDrop
  BY <1>0, <1>16 DEF Exempt, WriterDrop, engineVars, userVars, statusVars, readVars, wireVars,
       downVars
<1>17. CASE WriterCache
  BY <1>0, <1>17 DEF Exempt, WriterCache, engineVars, userVars, statusVars, readVars, wireVars,
       downVars
<1>18. CASE WriterTake
  BY <1>0, <1>18 DEF Exempt, WriterTake, engineVars, userVars, statusVars, readVars, wireVars,
       downVars
<1>19. CASE WriterMatch
  BY <1>0, <1>19 DEF Exempt, WriterMatch, engineVars, userVars, statusVars, queueVars, readVars,
       wireVars, downVars
<1>20. CASE WriterSend
  BY <1>0, <1>20 DEF Exempt, WriterSend, Assign, WriterDone, userVars, statusVars, queueVars,
       readVars, downVars
<1>21. CASE WriterRefuse
  BY <1>0, <1>21 DEF Exempt, WriterRefuse, Fatal, WriterDone, engineVars, userVars, statusVars,
       queueVars, readVars, wireVars
<1>22. CASE WriterReset
  BY <1>0, <1>22 DEF Exempt, WriterReset, Purge, WriterDone, userVars, queueVars, readVars,
       downVars
<1>23. CASE ReadFrame
  BY <1>0, <1>23 DEF Exempt, ReadFrame, engineVars, userVars, statusVars, queueVars, writeVars,
       downVars
<1>24. CASE ReadMatch
  BY <1>0, <1>24 DEF Exempt, ReadMatch, engineVars, userVars, statusVars, queueVars, writeVars,
       wireVars, downVars
<1>25. CASE ReadResponse
  BY <1>0, <1>25 DEF Exempt, ReadResponse, Assign, ReaderDone, statusVars, queueVars, writeVars,
       wireVars, downVars
<1>26. CASE ReadRefuse
  BY <1>0, <1>26 DEF Exempt, ReadRefuse, Fatal, ReaderDone, engineVars, userVars, statusVars,
       writeVars, wireVars
<1>27. CASE ReadReset
  BY <1>0, <1>27 DEF Exempt, ReadReset, Purge, ReaderDone, userVars, queueVars, writeVars,
       wireVars, downVars
<1>28. CASE UNCHANGED vars
  BY <1>0, <1>28 DEF Exempt, vars, engineVars, userVars, statusVars, queueVars, writeVars,
       readVars, wireVars, downVars
<1> QED
  BY <1>1, <1>2, <1>3, <1>4, <1>5, <1>6, <1>7, <1>8, <1>9, <1>10, <1>11, <1>12, <1>13, <1>14,
       <1>15, <1>16, <1>17, <1>18, <1>19, <1>20, <1>21, <1>22, <1>23, <1>24, <1>25, <1>26, <1>27,
       <1>28 DEF Next, Requesting, Writing, Reading, Shutting

\* A reset that is queued comes.
LEMMA ResetQueued ==
  ASSUME TypeOK, NEW id \in Ids,
         control' = IF outClosed THEN control ELSE Append(control, Frame(id, "rst", FALSE))
  PROVE  /\ Range(control) \subseteq Range(control')
         /\ ~ outClosed => \E f \in Range(control') : f.id = id
<1>1. control \in Seq(Frames) /\ Frame(id, "rst", FALSE) \in Frames /\ Frame(id, "rst", FALSE).id = id
  BY FrameFacts DEF TypeOK
<1>2. \A f \in Frames : Range(Append(control, f)) = Range(control) \cup {f}
  BY <1>1, AppendRange
<1> QED
  BY <1>1, <1>2

\* The write thread takes one frame, and a reset from control.
LEMMA ControlTaken ==
  ASSUME TypeOK, Threads, Take
  PROVE  Range(control) \subseteq Range(control') \cup {Taken}
<1>1. control \in Seq(Frames)
  BY DEF TypeOK
<1>2. CASE control' = control
  BY <1>2
<1>3. CASE control' # control
  <2>1. control # << >> /\ control' = Tail(control) /\ Taken = Head(control)
    BY <1>3 DEF Take, Taken, queueVars
  <2>2. \A x : (\E i \in DOMAIN control : control[i] = x) => (control[1] = x \/ \E i \in DOMAIN control' : control'[i] = x)
    BY <1>1, <2>1, TailHolds
  <2>3. Taken = control[1]
    BY <1>1, <2>1, TailAt
  <2> QED
    BY <2>2, <2>3 DEF Range
<1> QED
  BY <1>2, <1>3

\* The reset of a stream comes, until the stream is lost.
LEMMA NextComing ==
  ASSUME StreamInv, Causes, [Next]_vars, NEW r \in Reqs, Begins(r), ResetComes(r)
  PROVE  ResetComes(r)' \/ Lost(r)'
<1>0. /\ UserTypes /\ StreamTypes /\ QueueTypes /\ WriterTypes /\ ReaderTypes /\ NoReq \notin Reqs
      /\ upc[r] \in Started /\ sid[r] \in Ids /\ sid'[r] = sid[r]
      /\ cause # "none" => cause' # "none"
      /\ wpc \in {"match", "update"} => wframe.id \in Ids
      /\ rpc \in {"match", "update"} => rframe.id \in Ids
      /\ upc[r] \notin {"new", "refuse", "cas", "load", "next", "map", "open"}
  BY BegunFacts
<1>30. TypeOK /\ Threads
  BY DEF StreamInv, CountInv
<1>31. ASSUME Range(control) \subseteq Range(control'), UNCHANGED <<wpc, wframe>> PROVE ResetComes(r)'
  BY <1>0, <1>31 DEF ResetComes, AtHand
<1>1. ASSUME NEW q \in Reqs, Count(q) PROVE ResetComes(r)' \/ Lost(r)'
  BY <1>0, <1>1 DEF ResetComes, AtHand, Count, User, statusVars, queueVars, writeVars, readVars,
       wireVars, downVars
<1>2. ASSUME NEW q \in Reqs, Refuse(q) PROVE ResetComes(r)' \/ Lost(r)'
  BY <1>0, <1>2 DEF ResetComes, AtHand, Refuse, User, statusVars, queueVars, writeVars, readVars,
       wireVars, downVars
<1>3. ASSUME NEW q \in Reqs, FirstId(q) PROVE ResetComes(r)' \/ Lost(r)'
  BY <1>0, <1>3 DEF ResetComes, AtHand, FirstId, User, statusVars, queueVars, writeVars, readVars,
       wireVars, downVars
<1>4. ASSUME NEW q \in Reqs, LoadId(q) PROVE ResetComes(r)' \/ Lost(r)'
  BY <1>0, <1>4 DEF ResetComes, AtHand, LoadId, User, engineVars, statusVars, queueVars,
       writeVars, readVars, wireVars, downVars
<1>5. ASSUME NEW q \in Reqs, NextId(q) PROVE ResetComes(r)' \/ Lost(r)'
  BY <1>0, <1>5 DEF ResetComes, AtHand, NextId, User, statusVars, queueVars, writeVars, readVars,
       wireVars, downVars
<1>6. ASSUME NEW q \in Reqs, MapStream(q) PROVE ResetComes(r)' \/ Lost(r)'
  BY <1>0, <1>6 DEF ResetComes, AtHand, MapStream, User, statusVars, queueVars, writeVars,
       readVars, wireVars, downVars
<1>7. ASSUME NEW q \in Reqs, OpenConn(q) PROVE ResetComes(r)' \/ Lost(r)'
  BY <1>0, <1>7 DEF ResetComes, AtHand, OpenConn, User, engineVars, statusVars, queueVars,
       writeVars, readVars, wireVars, downVars
<1>8. ASSUME NEW q \in Reqs, Write(q) PROVE ResetComes(r)' \/ Lost(r)'
  BY <1>0, <1>8 DEF ResetComes, AtHand, Write, User, engineVars, statusVars, writeVars, readVars,
       wireVars, downVars
<1>9. ASSUME NEW q \in Reqs, WriteFails(q) PROVE ResetComes(r)' \/ Lost(r)'
  BY <1>0, <1>9 DEF ResetComes, AtHand, WriteFails, User, engineVars, statusVars, queueVars,
       writeVars, readVars, wireVars, downVars
<1>10. ASSUME NEW q \in Reqs, Response(q) PROVE ResetComes(r)' \/ Lost(r)'
  BY <1>0, <1>10 DEF ResetComes, AtHand, Response, User, engineVars, statusVars, queueVars,
       writeVars, readVars, wireVars, downVars
<1>11. ASSUME NEW q \in Reqs, NoResponse(q) PROVE ResetComes(r)' \/ Lost(r)'
  BY <1>0, <1>11 DEF ResetComes, AtHand, NoResponse, User, engineVars, statusVars, queueVars,
       writeVars, readVars, wireVars, downVars
<1>12. ASSUME NEW q \in Reqs, Reset(q) PROVE ResetComes(r)' \/ Lost(r)'
  <2>1. sid[q] \in Ids /\ Range(control) \subseteq Range(control')
    <3>1. sid[q] \in Ids
      BY <1>30, <1>12, ResetFacts DEF StreamInv, CountInv
    <3> QED
      BY <1>30, <1>12, <3>1, ResetQueued DEF Reset
  <2> QED
    BY <1>31, <1>12, <2>1 DEF Reset, writeVars
<1>13. CASE PeerClose
  BY <1>0, <1>13 DEF ResetComes, AtHand, PeerClose, Fatal, engineVars, userVars, statusVars,
       queueVars, writeVars, readVars, wireVars
<1>14. CASE ShutdownStep
  BY <1>0, <1>14 DEF Lost, ShutdownStep
<1>15. CASE ShutdownStreams
  BY <1>0, <1>15 DEF ResetComes, AtHand, ShutdownStreams, engineVars, userVars, queueVars,
       writeVars, readVars, wireVars
<1>16. CASE WriterDrop
  <2>1. PICK f \in Range(control) : f.id = sid[r]
    BY <1>16 DEF ResetComes, AtHand, WriterDrop
  <2>2. CASE f \in Range(control')
    BY <1>0, <2>1, <2>2 DEF ResetComes
  <2>3. CASE f = Taken
    BY <1>0, <1>16, <2>1, <2>3 DEF Lost, WriterDrop, engineVars
  <2> QED
    BY <1>30, <1>16, <2>1, <2>2, <2>3, ControlTaken DEF WriterDrop
<1>17. CASE WriterCache
  BY <1>0, <1>17 DEF ResetComes, AtHand, WriterCache, engineVars, userVars, statusVars, readVars,
       wireVars, downVars
<1>18. CASE WriterTake
  <2>1. PICK f \in Range(control) : f.id = sid[r]
    BY <1>18 DEF ResetComes, AtHand, WriterTake
  <2>2. CASE f \in Range(control')
    BY <1>0, <2>1, <2>2 DEF ResetComes
  <2>3. CASE f = Taken
    <3>1. f.type = "rst"
      BY <1>30 DEF Threads, Contents
    <3> QED
      BY <1>0, <1>18, <2>1, <2>3, <3>1 DEF ResetComes, AtHand, WriterTake
  <2> QED
    BY <1>30, <1>18, <2>1, <2>2, <2>3, ControlTaken DEF WriterTake
<1>19. CASE WriterMatch
  BY <1>0, <1>19 DEF ResetComes, AtHand, WriterMatch, engineVars, userVars, statusVars, queueVars,
       readVars, wireVars, downVars
<1>20. CASE WriterSend
  BY <1>0, <1>20 DEF ResetComes, WriterSend, queueVars
<1>21. CASE WriterRefuse
  BY <1>0, <1>21 DEF ResetComes, WriterRefuse, queueVars
<1>22. CASE WriterReset
  <2>1. CASE AtHand(r)
    <3>1. Purge(TRUE, wframe.id) /\ wframe.id = sid[r]
      BY <1>22, <2>1 DEF WriterReset, AtHand
    <3>2. streams \in [Ids -> Reqs \cup {NoReq}] /\ sid[r] \in Ids /\ NoReq \notin Reqs
      BY <1>0 DEF UserTypes
    <3>3. streams'[sid[r]] # r
      BY <3>1, <3>2, PurgeIf
    <3> QED
      BY <1>0, <3>3 DEF Lost
  <2>2. CASE ~ AtHand(r)
    BY <1>0, <1>22, <2>2 DEF ResetComes, WriterReset, queueVars
  <2> QED
    BY <2>1, <2>2
<1>23. CASE ReadFrame
  BY <1>0, <1>23 DEF ResetComes, AtHand, ReadFrame, engineVars, userVars, statusVars, queueVars,
       writeVars, downVars
<1>24. CASE ReadMatch
  BY <1>0, <1>24 DEF ResetComes, AtHand, ReadMatch, engineVars, userVars, statusVars, queueVars,
       writeVars, wireVars, downVars
<1>25. CASE ReadResponse
  BY <1>0, <1>25 DEF ResetComes, AtHand, ReadResponse, Assign, Purge, ReaderDone, Deliver,
       statusVars, queueVars, writeVars, wireVars, downVars
<1>26. CASE ReadRefuse
  <2>1. Range(control) \subseteq Range(control')
    BY <1>0, <1>30, <1>26, ResetQueued DEF ReadRefuse
  <2> QED
    BY <1>31, <1>26, <2>1 DEF ReadRefuse, writeVars
<1>27. CASE ReadReset
  BY <1>0, <1>27 DEF ResetComes, AtHand, ReadReset, Purge, ReaderDone, userVars, queueVars,
       writeVars, wireVars, downVars
<1>28. CASE UNCHANGED vars
  BY <1>0, <1>28 DEF ResetComes, AtHand, vars, engineVars, userVars, statusVars, queueVars,
       writeVars, readVars, wireVars, downVars
<1> QED
  BY <1>1, <1>2, <1>3, <1>4, <1>5, <1>6, <1>7, <1>8, <1>9, <1>10, <1>11, <1>12, <1>13, <1>14,
       <1>15, <1>16, <1>17, <1>18, <1>19, <1>20, <1>21, <1>22, <1>23, <1>24, <1>25, <1>26, <1>27,
       <1>28 DEF Next, Requesting, Writing, Reading, Shutting

\* A queue is quit with a reset, or a lost stream.
LEMMA NextQuits ==
  ASSUME StreamInv, Causes, [Next]_vars, NEW r \in Reqs, Begins(r), Quits(r)
  PROVE  Quits(r)'
<1>0. /\ UserTypes /\ StreamTypes /\ QueueTypes /\ WriterTypes /\ ReaderTypes /\ NoReq \notin Reqs
      /\ upc[r] \in Started /\ sid[r] \in Ids /\ sid'[r] = sid[r]
      /\ cause # "none" => cause' # "none"
      /\ wpc \in {"match", "update"} => wframe.id \in Ids
      /\ rpc \in {"match", "update"} => rframe.id \in Ids
      /\ upc[r] \notin {"new", "refuse", "cas", "load", "next", "map", "open"}
  BY BegunFacts
<1>30. TypeOK /\ Threads /\ AllKnown /\ Unique /\ (outClosed => cause # "none")
  <2>1. TypeOK /\ Threads /\ AllKnown /\ Unique
    BY DEF StreamInv, CountInv
  <2> QED
    BY <2>1 DEF TypeOK, Causes
<1>31. ASSUME input[r] = "quit" PROVE Quits(r)'
  BY <1>31, NextLost, NextComing DEF Quits
<1>32. ASSUME input'[r] = "quit" => input[r] = "quit" PROVE Quits(r)'
  BY <1>31, <1>32 DEF Quits
<1>1. ASSUME NEW q \in Reqs, Count(q) PROVE Quits(r)'
  <2>1. input'[r] = "quit" => input[r] = "quit"
    BY <1>0, <1>1 DEF UserTypes, StreamTypes, Count, User, statusVars, queueVars, writeVars,
         readVars, wireVars, downVars
  <2> QED
    BY <1>32, <2>1
<1>2. ASSUME NEW q \in Reqs, Refuse(q) PROVE Quits(r)'
  <2>1. input'[r] = "quit" => input[r] = "quit"
    BY <1>0, <1>2 DEF UserTypes, StreamTypes, Refuse, User, statusVars, queueVars, writeVars,
         readVars, wireVars, downVars
  <2> QED
    BY <1>32, <2>1
<1>3. ASSUME NEW q \in Reqs, FirstId(q) PROVE Quits(r)'
  <2>1. input'[r] = "quit" => input[r] = "quit"
    BY <1>0, <1>3 DEF UserTypes, StreamTypes, FirstId, User, statusVars, queueVars, writeVars,
         readVars, wireVars, downVars
  <2> QED
    BY <1>32, <2>1
<1>4. ASSUME NEW q \in Reqs, LoadId(q) PROVE Quits(r)'
  <2>1. input'[r] = "quit" => input[r] = "quit"
    BY <1>0, <1>4 DEF UserTypes, StreamTypes, LoadId, User, engineVars, statusVars, queueVars,
         writeVars, readVars, wireVars, downVars
  <2> QED
    BY <1>32, <2>1
<1>5. ASSUME NEW q \in Reqs, NextId(q) PROVE Quits(r)'
  <2>1. input'[r] = "quit" => input[r] = "quit"
    BY <1>0, <1>5 DEF UserTypes, StreamTypes, NextId, User, statusVars, queueVars, writeVars,
         readVars, wireVars, downVars
  <2> QED
    BY <1>32, <2>1
<1>6. ASSUME NEW q \in Reqs, MapStream(q) PROVE Quits(r)'
  <2>1. input'[r] = "quit" => input[r] = "quit"
    BY <1>0, <1>6 DEF UserTypes, StreamTypes, MapStream, User, statusVars, queueVars, writeVars,
         readVars, wireVars, downVars
  <2> QED
    BY <1>32, <2>1
<1>7. ASSUME NEW q \in Reqs, OpenConn(q) PROVE Quits(r)'
  <2>1. input'[r] = "quit" => input[r] = "quit"
    BY <1>0, <1>7 DEF UserTypes, StreamTypes, OpenConn, User, engineVars, statusVars, queueVars,
         writeVars, readVars, wireVars, downVars
  <2> QED
    BY <1>32, <2>1
<1>8. ASSUME NEW q \in Reqs, Write(q) PROVE Quits(r)'
  <2>1. input'[r] = "quit" => input[r] = "quit"
    BY <1>0, <1>8 DEF UserTypes, StreamTypes, Write, User, engineVars, statusVars, writeVars,
         readVars, wireVars, downVars
  <2> QED
    BY <1>32, <2>1
<1>9. ASSUME NEW q \in Reqs, WriteFails(q) PROVE Quits(r)'
  <2>1. input'[r] = "quit" => input[r] = "quit"
    BY <1>0, <1>9 DEF UserTypes, StreamTypes, WriteFails, User, engineVars, statusVars, queueVars,
         writeVars, readVars, wireVars, downVars
  <2> QED
    BY <1>32, <2>1
<1>10. ASSUME NEW q \in Reqs, Response(q) PROVE Quits(r)'
  <2>1. input'[r] = "quit" => input[r] = "quit"
    BY <1>0, <1>10 DEF UserTypes, StreamTypes, Response, User, engineVars, statusVars, queueVars,
         writeVars, readVars, wireVars, downVars
  <2> QED
    BY <1>32, <2>1
<1>11. ASSUME NEW q \in Reqs, NoResponse(q) PROVE Quits(r)'
  <2>1. input'[r] = "quit" => input[r] = "quit"
    BY <1>0, <1>11 DEF UserTypes, StreamTypes, NoResponse, User, engineVars, statusVars, queueVars,
         writeVars, readVars, wireVars, downVars
  <2> QED
    BY <1>32, <2>1
<1>12. ASSUME NEW q \in Reqs, Reset(q) PROVE Quits(r)'
  <2>1. CASE q # r
    <3>1. input'[r] = "quit" => input[r] = "quit"
      BY <1>0, <1>12, <2>1 DEF Reset, StreamTypes
    <3> QED
      BY <1>32, <3>1
  <2>2. CASE q = r
    <3>1. outClosed \/ \E f \in Range(control') : f.id = sid[r]
      BY <1>0, <1>30, <1>12, <2>2, ResetQueued DEF Reset
    <3> QED
      BY <1>0, <1>30, <3>1 DEF Quits, Lost, ResetComes
  <2> QED
    BY <2>1, <2>2
<1>13. CASE PeerClose
  <2>1. input'[r] = "quit" => input[r] = "quit"
    BY <1>0, <1>13 DEF UserTypes, StreamTypes, PeerClose, Fatal, engineVars, userVars, statusVars,
         queueVars, writeVars, readVars, wireVars
  <2> QED
    BY <1>32, <2>1
<1>14. CASE ShutdownStep
  <2>1. input'[r] = "quit" => input[r] = "quit"
    BY <1>0, <1>14 DEF UserTypes, StreamTypes, ShutdownStep, engineVars, userVars, statusVars,
         queueVars, writeVars, readVars, wireVars
  <2> QED
    BY <1>32, <2>1
<1>15. CASE ShutdownStreams
  <2>1. Lost(r)'
    BY <1>0, <1>15 DEF ShutdownStreams, Causes, Lost
  <2> QED
    BY <2>1 DEF Quits
<1>16. CASE WriterDrop
  <2>1. input'[r] = "quit" => input[r] = "quit"
    BY <1>0, <1>16 DEF UserTypes, StreamTypes, WriterDrop, engineVars, userVars, statusVars,
         readVars, wireVars, downVars
  <2> QED
    BY <1>32, <2>1
<1>17. CASE WriterCache
  <2>1. input'[r] = "quit" => input[r] = "quit"
    BY <1>0, <1>17 DEF UserTypes, StreamTypes, WriterCache, engineVars, userVars, statusVars,
         readVars, wireVars, downVars
  <2> QED
    BY <1>32, <2>1
<1>18. CASE WriterTake
  <2>1. input'[r] = "quit" => input[r] = "quit"
    BY <1>0, <1>18 DEF UserTypes, StreamTypes, WriterTake, engineVars, userVars, statusVars,
         readVars, wireVars, downVars
  <2> QED
    BY <1>32, <2>1
<1>19. CASE WriterMatch
  <2>1. input'[r] = "quit" => input[r] = "quit"
    BY <1>0, <1>19 DEF UserTypes, StreamTypes, WriterMatch, engineVars, userVars, statusVars,
         queueVars, readVars, wireVars, downVars
  <2> QED
    BY <1>32, <2>1
<1>20. CASE WriterSend
  <2>1. input'[r] = "quit" => input[r] = "quit"
    BY <1>0, <1>20 DEF UserTypes, StreamTypes, WriterSend, Assign, Purge, WriterDone, userVars,
         statusVars, queueVars, readVars, downVars
  <2> QED
    BY <1>32, <2>1
<1>21. CASE WriterRefuse
  <2>1. input'[r] = "quit" => input[r] = "quit"
    BY <1>0, <1>21 DEF UserTypes, StreamTypes, WriterRefuse, Fatal, WriterDone, engineVars,
         userVars, statusVars, queueVars, readVars, wireVars
  <2> QED
    BY <1>32, <2>1
<1>22. CASE WriterReset
  <2>1. CASE wreq # r
    <3>1. input'[r] = "quit" => input[r] = "quit"
      BY <1>0, <1>22, <2>1 DEF WriterReset, StreamTypes
    <3> QED
      BY <1>32, <3>1
  <2>2. CASE wreq = r
    <3>1. wframe.id = sid[r] /\ Purge(TRUE, wframe.id) /\ streams \in [Ids -> Reqs \cup {NoReq}] /\ NoReq \notin Reqs
      BY <1>0, <1>30, <1>22, <2>2 DEF AllKnown, WriterReset, UserTypes
    <3>2. streams'[sid[r]] # r
      BY <1>0, <3>1, PurgeIf
    <3> QED
      BY <1>0, <3>2 DEF Quits, Lost
  <2> QED
    BY <2>1, <2>2
<1>23. CASE ReadFrame
  <2>1. input'[r] = "quit" => input[r] = "quit"
    BY <1>0, <1>23 DEF UserTypes, StreamTypes, ReadFrame, engineVars, userVars, statusVars,
         queueVars, writeVars, downVars
  <2> QED
    BY <1>32, <2>1
<1>24. CASE ReadMatch
  <2>1. input'[r] = "quit" => input[r] = "quit"
    BY <1>0, <1>24 DEF UserTypes, StreamTypes, ReadMatch, engineVars, userVars, statusVars,
         queueVars, writeVars, wireVars, downVars
  <2> QED
    BY <1>32, <2>1
<1>25. CASE ReadResponse
  <2>1. input'[r] = "quit" => input[r] = "quit"
    BY <1>0, <1>25 DEF UserTypes, StreamTypes, ReadResponse, Assign, Purge, ReaderDone, Deliver,
         statusVars, queueVars, writeVars, wireVars, downVars
  <2> QED
    BY <1>32, <2>1
<1>26. CASE ReadRefuse
  <2>1. CASE rreq # r
    <3>1. input'[r] = "quit" => input[r] = "quit"
      BY <1>0, <1>26, <2>1 DEF ReadRefuse, StreamTypes
    <3> QED
      BY <1>32, <3>1
  <2>2. CASE rreq = r
    <3>1. rframe.id = sid[r]
      BY <1>30, <1>26, <2>2 DEF AllKnown, ReadRefuse
    <3>2. CASE rframe.type = "data"
      <4>1. outClosed \/ \E f \in Range(control') : f.id = sid[r]
        BY <1>0, <1>30, <1>26, <3>1, <3>2, ResetQueued DEF ReadRefuse
      <4> QED
        BY <1>0, <1>30, <4>1 DEF Quits, Lost, ResetComes
    <3>3. CASE rframe.type # "data"
      <4>1. input' = input
        BY <1>26, <3>3 DEF ReadRefuse
      <4> QED
        BY <1>32, <4>1
    <3> QED
      BY <3>2, <3>3
  <2> QED
    BY <2>1, <2>2
<1>27. CASE ReadReset
  <2>1. CASE rreq # r
    <3>1. input'[r] = "quit" => input[r] = "quit"
      BY <1>0, <1>27, <2>1 DEF ReadReset, StreamTypes
    <3> QED
      BY <1>32, <3>1
  <2>2. CASE rreq = r
    <3>1. rframe.id = sid[r] /\ Purge(TRUE, rframe.id) /\ streams \in [Ids -> Reqs \cup {NoReq}] /\ NoReq \notin Reqs
      BY <1>0, <1>30, <1>27, <2>2 DEF AllKnown, ReadReset, UserTypes
    <3>2. streams'[sid[r]] # r
      BY <1>0, <3>1, PurgeIf
    <3> QED
      BY <1>0, <3>2 DEF Quits, Lost
  <2> QED
    BY <2>1, <2>2
<1>28. CASE UNCHANGED vars
  <2>1. input'[r] = "quit" => input[r] = "quit"
    BY <1>0, <1>28 DEF UserTypes, StreamTypes, vars, engineVars, userVars, statusVars, queueVars,
         writeVars, readVars, wireVars, downVars
  <2> QED
    BY <1>32, <2>1
<1> QED
  BY <1>1, <1>2, <1>3, <1>4, <1>5, <1>6, <1>7, <1>8, <1>9, <1>10, <1>11, <1>12, <1>13, <1>14,
       <1>15, <1>16, <1>17, <1>18, <1>19, <1>20, <1>21, <1>22, <1>23, <1>24, <1>25, <1>26, <1>27,
       <1>28 DEF Next, Requesting, Writing, Reading, Shutting

\* A user waits when everything is written.
LEMMA NextAllWrote ==
  ASSUME StreamInv, Causes, [Next]_vars, NEW r \in Reqs, Begins(r), AllWrote(r)
  PROVE  AllWrote(r)'
<1>0. /\ UserTypes /\ StreamTypes /\ QueueTypes /\ WriterTypes /\ ReaderTypes /\ NoReq \notin Reqs
      /\ upc[r] \in Started /\ sid[r] \in Ids /\ sid'[r] = sid[r]
      /\ cause # "none" => cause' # "none"
      /\ wpc \in {"match", "update"} => wframe.id \in Ids
      /\ rpc \in {"match", "update"} => rframe.id \in Ids
      /\ upc[r] \notin {"new", "refuse", "cas", "load", "next", "map", "open"}
  BY BegunFacts
<1>1. ASSUME NEW q \in Reqs, Count(q) PROVE AllWrote(r)'
  BY <1>0, <1>1 DEF AllWrote, UserTypes, QueueTypes, Count, User, statusVars, queueVars,
       writeVars, readVars, wireVars, downVars
<1>2. ASSUME NEW q \in Reqs, Refuse(q) PROVE AllWrote(r)'
  BY <1>0, <1>2 DEF AllWrote, UserTypes, QueueTypes, Refuse, User, statusVars, queueVars,
       writeVars, readVars, wireVars, downVars
<1>3. ASSUME NEW q \in Reqs, FirstId(q) PROVE AllWrote(r)'
  BY <1>0, <1>3 DEF AllWrote, UserTypes, QueueTypes, FirstId, User, statusVars, queueVars,
       writeVars, readVars, wireVars, downVars
<1>4. ASSUME NEW q \in Reqs, LoadId(q) PROVE AllWrote(r)'
  BY <1>0, <1>4 DEF AllWrote, UserTypes, QueueTypes, LoadId, User, engineVars, statusVars,
       queueVars, writeVars, readVars, wireVars, downVars
<1>5. ASSUME NEW q \in Reqs, NextId(q) PROVE AllWrote(r)'
  BY <1>0, <1>5 DEF AllWrote, UserTypes, QueueTypes, NextId, User, statusVars, queueVars,
       writeVars, readVars, wireVars, downVars
<1>6. ASSUME NEW q \in Reqs, MapStream(q) PROVE AllWrote(r)'
  BY <1>0, <1>6 DEF AllWrote, UserTypes, QueueTypes, MapStream, User, statusVars, queueVars,
       writeVars, readVars, wireVars, downVars
<1>7. ASSUME NEW q \in Reqs, OpenConn(q) PROVE AllWrote(r)'
  BY <1>0, <1>7 DEF AllWrote, UserTypes, QueueTypes, OpenConn, User, engineVars, statusVars,
       queueVars, writeVars, readVars, wireVars, downVars
<1>8. ASSUME NEW q \in Reqs, Write(q) PROVE AllWrote(r)'
  <2>1. CASE q # r
    BY <1>0, <1>8, <2>1 DEF AllWrote, UserTypes, QueueTypes, Write, User
  <2>2. CASE q = r
    <3>1. todo[r] \in Seq(Frames) /\ todo[r] # << >> /\ upc[r] = "write"
      BY <1>0, <1>8, <2>2 DEF QueueTypes, Write, User
    <3>2. Len(todo[r]) = 1 => Tail(todo[r]) = << >>
      <4>1. Tail(todo[r]) \in Seq(Frames) /\ Len(Tail(todo[r])) = Len(todo[r]) - 1
        BY <3>1, TailAt
      <4> DEFINE t == Tail(todo[r])
      <4>2. t \in Seq(Frames) /\ (Len(todo[r]) = 1 => Len(t) = 0)
        BY <4>1
      <4> HIDE DEF t
      <4>3. Len(t) = 0 => t = << >>
        BY <4>2
      <4> QED
        BY <4>2, <4>3 DEF t
    <3>3. upc'[r] \in {"wait", "done"} => Len(todo[r]) = 1 /\ todo'[r] = Tail(todo[r])
      BY <1>0, <1>8, <2>2 DEF UserTypes, QueueTypes, Write, User
    <3> QED
      BY <3>2, <3>3 DEF AllWrote
  <2> QED
    BY <2>1, <2>2
<1>9. ASSUME NEW q \in Reqs, WriteFails(q) PROVE AllWrote(r)'
  BY <1>0, <1>9 DEF AllWrote, UserTypes, QueueTypes, WriteFails, User, engineVars, statusVars,
       queueVars, writeVars, readVars, wireVars, downVars
<1>10. ASSUME NEW q \in Reqs, Response(q) PROVE AllWrote(r)'
  BY <1>0, <1>10 DEF AllWrote, UserTypes, QueueTypes, Response, User, engineVars, statusVars,
       queueVars, writeVars, readVars, wireVars, downVars
<1>11. ASSUME NEW q \in Reqs, NoResponse(q) PROVE AllWrote(r)'
  BY <1>0, <1>11 DEF AllWrote, UserTypes, QueueTypes, NoResponse, User, engineVars, statusVars,
       queueVars, writeVars, readVars, wireVars, downVars
<1>12. ASSUME NEW q \in Reqs, Reset(q) PROVE AllWrote(r)'
  BY <1>0, <1>12 DEF AllWrote, UserTypes, QueueTypes, Reset, engineVars, userVars, statusVars,
       writeVars, readVars, wireVars, downVars
<1>13. CASE PeerClose
  BY <1>0, <1>13 DEF AllWrote, UserTypes, QueueTypes, PeerClose, Fatal, engineVars, userVars,
       statusVars, queueVars, writeVars, readVars, wireVars
<1>14. CASE ShutdownStep
  BY <1>0, <1>14 DEF AllWrote, UserTypes, QueueTypes, ShutdownStep, engineVars, userVars,
       statusVars, queueVars, writeVars, readVars, wireVars
<1>15. CASE ShutdownStreams
  BY <1>0, <1>15 DEF AllWrote, UserTypes, QueueTypes, ShutdownStreams, engineVars, userVars,
       queueVars, writeVars, readVars, wireVars
<1>16. CASE WriterDrop
  BY <1>0, <1>16 DEF AllWrote, UserTypes, QueueTypes, WriterDrop, engineVars, userVars,
       statusVars, readVars, wireVars, downVars
<1>17. CASE WriterCache
  BY <1>0, <1>17 DEF AllWrote, UserTypes, QueueTypes, WriterCache, engineVars, userVars,
       statusVars, readVars, wireVars, downVars
<1>18. CASE WriterTake
  BY <1>0, <1>18 DEF AllWrote, UserTypes, QueueTypes, WriterTake, engineVars, userVars,
       statusVars, readVars, wireVars, downVars
<1>19. CASE WriterMatch
  BY <1>0, <1>19 DEF AllWrote, UserTypes, QueueTypes, WriterMatch, engineVars, userVars,
       statusVars, queueVars, readVars, wireVars, downVars
<1>20. CASE WriterSend
  BY <1>0, <1>20 DEF AllWrote, UserTypes, QueueTypes, WriterSend, Assign, Purge, WriterDone,
       userVars, statusVars, queueVars, readVars, downVars
<1>21. CASE WriterRefuse
  BY <1>0, <1>21 DEF AllWrote, UserTypes, QueueTypes, WriterRefuse, Fatal, WriterDone, engineVars,
       userVars, statusVars, queueVars, readVars, wireVars
<1>22. CASE WriterReset
  BY <1>0, <1>22 DEF AllWrote, UserTypes, QueueTypes, WriterReset, Purge, WriterDone, userVars,
       queueVars, readVars, downVars
<1>23. CASE ReadFrame
  BY <1>0, <1>23 DEF AllWrote, UserTypes, QueueTypes, ReadFrame, engineVars, userVars, statusVars,
       queueVars, writeVars, downVars
<1>24. CASE ReadMatch
  BY <1>0, <1>24 DEF AllWrote, UserTypes, QueueTypes, ReadMatch, engineVars, userVars, statusVars,
       queueVars, writeVars, wireVars, downVars
<1>25. CASE ReadResponse
  BY <1>0, <1>25 DEF AllWrote, UserTypes, QueueTypes, ReadResponse, Assign, Purge, ReaderDone,
       Deliver, statusVars, queueVars, writeVars, wireVars, downVars
<1>26. CASE ReadRefuse
  BY <1>0, <1>26 DEF AllWrote, UserTypes, QueueTypes, ReadRefuse, Fatal, ReaderDone, engineVars,
       userVars, statusVars, writeVars, wireVars
<1>27. CASE ReadReset
  BY <1>0, <1>27 DEF AllWrote, UserTypes, QueueTypes, ReadReset, Purge, ReaderDone, userVars,
       queueVars, writeVars, wireVars, downVars
<1>28. CASE UNCHANGED vars
  BY <1>0, <1>28 DEF AllWrote, UserTypes, QueueTypes, vars, engineVars, userVars, statusVars,
       queueVars, writeVars, readVars, wireVars, downVars
<1> QED
  BY <1>1, <1>2, <1>3, <1>4, <1>5, <1>6, <1>7, <1>8, <1>9, <1>10, <1>11, <1>12, <1>13, <1>14,
       <1>15, <1>16, <1>17, <1>18, <1>19, <1>20, <1>21, <1>22, <1>23, <1>24, <1>25, <1>26, <1>27,
       <1>28 DEF Next, Requesting, Writing, Reading, Shutting

\* The last frame of the server is the last that is read.
LEMMA NextLastRead ==
  ASSUME StreamInv, Causes, [Next]_vars, NEW r \in Reqs, Begins(r), LastRead(r)
  PROVE  LastRead(r)'
<1>0. /\ UserTypes /\ StreamTypes /\ QueueTypes /\ WriterTypes /\ ReaderTypes /\ NoReq \notin Reqs
      /\ upc[r] \in Started /\ sid[r] \in Ids /\ sid'[r] = sid[r]
      /\ cause # "none" => cause' # "none"
      /\ wpc \in {"match", "update"} => wframe.id \in Ids
      /\ rpc \in {"match", "update"} => rframe.id \in Ids
      /\ upc[r] \notin {"new", "refuse", "cas", "load", "next", "map", "open"}
  BY BegunFacts
<1>1. ASSUME NEW q \in Reqs, Count(q) PROVE LastRead(r)'
  BY <1>0, <1>1 DEF LastRead, OnRead, ReaderTypes, Count, User, statusVars, queueVars, writeVars,
       readVars, wireVars, downVars
<1>2. ASSUME NEW q \in Reqs, Refuse(q) PROVE LastRead(r)'
  BY <1>0, <1>2 DEF LastRead, OnRead, ReaderTypes, Refuse, User, statusVars, queueVars, writeVars,
       readVars, wireVars, downVars
<1>3. ASSUME NEW q \in Reqs, FirstId(q) PROVE LastRead(r)'
  BY <1>0, <1>3 DEF LastRead, OnRead, ReaderTypes, FirstId, User, statusVars, queueVars,
       writeVars, readVars, wireVars, downVars
<1>4. ASSUME NEW q \in Reqs, LoadId(q) PROVE LastRead(r)'
  BY <1>0, <1>4 DEF LastRead, OnRead, ReaderTypes, LoadId, User, engineVars, statusVars,
       queueVars, writeVars, readVars, wireVars, downVars
<1>5. ASSUME NEW q \in Reqs, NextId(q) PROVE LastRead(r)'
  BY <1>0, <1>5 DEF LastRead, OnRead, ReaderTypes, NextId, User, statusVars, queueVars, writeVars,
       readVars, wireVars, downVars
<1>6. ASSUME NEW q \in Reqs, MapStream(q) PROVE LastRead(r)'
  BY <1>0, <1>6 DEF LastRead, OnRead, ReaderTypes, MapStream, User, statusVars, queueVars,
       writeVars, readVars, wireVars, downVars
<1>7. ASSUME NEW q \in Reqs, OpenConn(q) PROVE LastRead(r)'
  BY <1>0, <1>7 DEF LastRead, OnRead, ReaderTypes, OpenConn, User, engineVars, statusVars,
       queueVars, writeVars, readVars, wireVars, downVars
<1>8. ASSUME NEW q \in Reqs, Write(q) PROVE LastRead(r)'
  BY <1>0, <1>8 DEF LastRead, OnRead, ReaderTypes, Write, User, engineVars, statusVars, writeVars,
       readVars, wireVars, downVars
<1>9. ASSUME NEW q \in Reqs, WriteFails(q) PROVE LastRead(r)'
  BY <1>0, <1>9 DEF LastRead, OnRead, ReaderTypes, WriteFails, User, engineVars, statusVars,
       queueVars, writeVars, readVars, wireVars, downVars
<1>10. ASSUME NEW q \in Reqs, Response(q) PROVE LastRead(r)'
  BY <1>0, <1>10 DEF LastRead, OnRead, ReaderTypes, Response, User, engineVars, statusVars,
       queueVars, writeVars, readVars, wireVars, downVars
<1>11. ASSUME NEW q \in Reqs, NoResponse(q) PROVE LastRead(r)'
  BY <1>0, <1>11 DEF LastRead, OnRead, ReaderTypes, NoResponse, User, engineVars, statusVars,
       queueVars, writeVars, readVars, wireVars, downVars
<1>12. ASSUME NEW q \in Reqs, Reset(q) PROVE LastRead(r)'
  BY <1>0, <1>12 DEF LastRead, OnRead, ReaderTypes, Reset, engineVars, userVars, statusVars,
       writeVars, readVars, wireVars, downVars
<1>13. CASE PeerClose
  BY <1>0, <1>13 DEF LastRead, OnRead, ReaderTypes, PeerClose, Fatal, engineVars, userVars,
       statusVars, queueVars, writeVars, readVars, wireVars
<1>14. CASE ShutdownStep
  BY <1>0, <1>14 DEF LastRead, OnRead, ReaderTypes, ShutdownStep, engineVars, userVars,
       statusVars, queueVars, writeVars, readVars, wireVars
<1>15. CASE ShutdownStreams
  BY <1>0, <1>15 DEF LastRead, OnRead, ReaderTypes, ShutdownStreams, engineVars, userVars,
       queueVars, writeVars, readVars, wireVars
<1>16. CASE WriterDrop
  BY <1>0, <1>16 DEF LastRead, OnRead, ReaderTypes, WriterDrop, engineVars, userVars, statusVars,
       readVars, wireVars, downVars
<1>17. CASE WriterCache
  BY <1>0, <1>17 DEF LastRead, OnRead, ReaderTypes, WriterCache, engineVars, userVars, statusVars,
       readVars, wireVars, downVars
<1>18. CASE WriterTake
  BY <1>0, <1>18 DEF LastRead, OnRead, ReaderTypes, WriterTake, engineVars, userVars, statusVars,
       readVars, wireVars, downVars
<1>19. CASE WriterMatch
  BY <1>0, <1>19 DEF LastRead, OnRead, ReaderTypes, WriterMatch, engineVars, userVars, statusVars,
       queueVars, readVars, wireVars, downVars
<1>20. CASE WriterSend
  BY <1>0, <1>20 DEF LastRead, OnRead, ReaderTypes, WriterSend, Assign, Purge, WriterDone,
       userVars, statusVars, queueVars, readVars, downVars
<1>21. CASE WriterRefuse
  BY <1>0, <1>21 DEF LastRead, OnRead, ReaderTypes, WriterRefuse, Fatal, WriterDone, engineVars,
       userVars, statusVars, queueVars, readVars, wireVars
<1>22. CASE WriterReset
  BY <1>0, <1>22 DEF LastRead, OnRead, ReaderTypes, WriterReset, Purge, WriterDone, userVars,
       queueVars, readVars, downVars
<1>23. CASE ReadFrame
  <2>1. PICK id \in Ids : \E f \in ServerFrames(id) :
             /\ srv' = [srv EXCEPT ![id] = IF f.type = "rst" THEN "reset" ELSE IF f.end THEN "done" ELSE "headers"]
             /\ IF streams[id] = NoReq THEN UNCHANGED <<rpc, rframe, rreq>>
                ELSE rpc' = "match" /\ rframe' = f /\ rreq' = streams[id]
    BY <1>23 DEF ReadFrame
  <2>2. PICK f \in ServerFrames(id) :
             /\ srv' = [srv EXCEPT ![id] = IF f.type = "rst" THEN "reset" ELSE IF f.end THEN "done" ELSE "headers"]
             /\ IF streams[id] = NoReq THEN UNCHANGED <<rpc, rframe, rreq>>
                ELSE rpc' = "match" /\ rframe' = f /\ rreq' = streams[id]
    BY <2>1
  <2>3. f.id = id /\ rpc = "read"
    BY <1>23, <2>2 DEF ServerFrames, Frame, ReadFrame
  <2>4. ASSUME OnRead(r)', srv'[sid[r]] = "done" PROVE rframe'.end
    <3>1. rframe' = f /\ id = sid[r]
      BY <1>0, <2>2, <2>3, <2>4 DEF OnRead
    <3>2. srv'[id] = IF f.type = "rst" THEN "reset" ELSE IF f.end THEN "done" ELSE "headers"
      BY <1>0, <2>2 DEF ReaderTypes
    <3> QED
      BY <2>4, <3>1, <3>2
  <2> QED
    BY <1>0, <2>4 DEF LastRead
<1>24. CASE ReadMatch
  BY <1>0, <1>24 DEF LastRead, OnRead, ReaderTypes, ReadMatch, engineVars, userVars, statusVars,
       queueVars, writeVars, wireVars, downVars
<1>25. CASE ReadResponse
  BY <1>0, <1>25 DEF LastRead, OnRead, ReaderTypes, ReadResponse, Assign, Purge, ReaderDone,
       Deliver, statusVars, queueVars, writeVars, wireVars, downVars
<1>26. CASE ReadRefuse
  BY <1>0, <1>26 DEF LastRead, OnRead, ReaderTypes, ReadRefuse, Fatal, ReaderDone, engineVars,
       userVars, statusVars, writeVars, wireVars
<1>27. CASE ReadReset
  BY <1>0, <1>27 DEF LastRead, OnRead, ReaderTypes, ReadReset, Purge, ReaderDone, userVars,
       queueVars, writeVars, wireVars, downVars
<1>28. CASE UNCHANGED vars
  BY <1>0, <1>28 DEF LastRead, OnRead, ReaderTypes, vars, engineVars, userVars, statusVars,
       queueVars, writeVars, readVars, wireVars, downVars
<1> QED
  BY <1>1, <1>2, <1>3, <1>4, <1>5, <1>6, <1>7, <1>8, <1>9, <1>10, <1>11, <1>12, <1>13, <1>14,
       <1>15, <1>16, <1>17, <1>18, <1>19, <1>20, <1>21, <1>22, <1>23, <1>24, <1>25, <1>26, <1>27,
       <1>28 DEF Next, Requesting, Writing, Reading, Shutting

\* Whose frame it is that the read thread reads.
LEMMA ReaderOwner ==
  ASSUME StreamInv, NEW r \in Reqs, Begins(r), rpc = "update"
  PROVE  /\ rframe \in Frames /\ rframe.id \in Ids /\ rreq \in Reqs
         /\ rreq = r => OnRead(r) /\ rframe.id = sid[r]
         /\ rreq # r => ~ OnRead(r) /\ rframe.id # sid[r]
<1>1. Threads /\ AllKnown /\ Unique
  BY DEF StreamInv, CountInv
<1>2. rframe \in Frames /\ rframe.id \in Ids /\ rreq \in Reqs /\ sid[rreq] = rframe.id
  BY <1>1 DEF Threads, AllKnown, Frames
<1>3. rframe.id = sid[r] <=> rreq = r
  BY <1>1, <1>2 DEF Unique, Begins
<1> QED
  BY <1>2, <1>3 DEF OnRead

\* When the server has ended a stream, the status says so or a reset comes.
LEMMA NextAnswered ==
  ASSUME StreamInv, Causes, [Next]_vars, NEW r \in Reqs, Begins(r), LastRead(r), Answered(r), ~ Exempt(r)
  PROVE  Answered(r)' \/ Exempt(r)'
<1>0. /\ UserTypes /\ StreamTypes /\ QueueTypes /\ WriterTypes /\ ReaderTypes /\ NoReq \notin Reqs
      /\ upc[r] \in Started /\ sid[r] \in Ids /\ sid'[r] = sid[r]
      /\ cause # "none" => cause' # "none"
      /\ wpc \in {"match", "update"} => wframe.id \in Ids
      /\ rpc \in {"match", "update"} => rframe.id \in Ids
      /\ upc[r] \notin {"new", "refuse", "cas", "load", "next", "map", "open"}
  BY BegunFacts
<1>30. /\ TypeOK /\ streams[sid[r]] = r /\ (outClosed => cause # "none")
       /\ Lost(r)' => Exempt(r)'
       /\ ResetComes(r) => ResetComes(r)' \/ Exempt(r)'
  <2>1. TypeOK
    BY DEF StreamInv, CountInv
  <2>2. ResetComes(r) => ResetComes(r)' \/ Exempt(r)'
    BY NextComing DEF Exempt
  <2>3. Lost(r)' => Exempt(r)'
    BY DEF Exempt
  <2>4. streams[sid[r]] = r /\ cause = "none"
    BY DEF Exempt, Lost
  <2>5. outClosed => down >= 2
    BY DEF Causes
  <2>6. down >= 2 => down > 0
    BY <2>1 DEF TypeOK
  <2>7. outClosed => cause # "none"
    BY <2>5, <2>6 DEF Causes
  <2> QED
    BY <2>1, <2>2, <2>3, <2>4, <2>7
<1>31. ASSUME status'[r] = status[r], srv'[sid[r]] = srv[sid[r]], OnRead(r) => OnRead(r)'
       PROVE  Answered(r)' \/ Exempt(r)'
  BY <1>0, <1>30, <1>31 DEF Answered
<1>1. ASSUME NEW q \in Reqs, Count(q) PROVE Answered(r)' \/ Exempt(r)'
  <2>1. status'[r] = status[r] /\ srv'[sid[r]] = srv[sid[r]] /\ (OnRead(r) => OnRead(r)')
    BY <1>0, <1>1 DEF OnRead, UserTypes, StreamTypes, ReaderTypes, Count, User, statusVars,
         queueVars, writeVars, readVars, wireVars, downVars
  <2> QED
    BY <1>31, <2>1
<1>2. ASSUME NEW q \in Reqs, Refuse(q) PROVE Answered(r)' \/ Exempt(r)'
  <2>1. status'[r] = status[r] /\ srv'[sid[r]] = srv[sid[r]] /\ (OnRead(r) => OnRead(r)')
    BY <1>0, <1>2 DEF OnRead, UserTypes, StreamTypes, ReaderTypes, Refuse, User, statusVars,
         queueVars, writeVars, readVars, wireVars, downVars
  <2> QED
    BY <1>31, <2>1
<1>3. ASSUME NEW q \in Reqs, FirstId(q) PROVE Answered(r)' \/ Exempt(r)'
  <2>1. status'[r] = status[r] /\ srv'[sid[r]] = srv[sid[r]] /\ (OnRead(r) => OnRead(r)')
    BY <1>0, <1>3 DEF OnRead, UserTypes, StreamTypes, ReaderTypes, FirstId, User, statusVars,
         queueVars, writeVars, readVars, wireVars, downVars
  <2> QED
    BY <1>31, <2>1
<1>4. ASSUME NEW q \in Reqs, LoadId(q) PROVE Answered(r)' \/ Exempt(r)'
  <2>1. status'[r] = status[r] /\ srv'[sid[r]] = srv[sid[r]] /\ (OnRead(r) => OnRead(r)')
    BY <1>0, <1>4 DEF OnRead, UserTypes, StreamTypes, ReaderTypes, LoadId, User, engineVars,
         statusVars, queueVars, writeVars, readVars, wireVars, downVars
  <2> QED
    BY <1>31, <2>1
<1>5. ASSUME NEW q \in Reqs, NextId(q) PROVE Answered(r)' \/ Exempt(r)'
  <2>1. status'[r] = status[r] /\ srv'[sid[r]] = srv[sid[r]] /\ (OnRead(r) => OnRead(r)')
    BY <1>0, <1>5 DEF OnRead, UserTypes, StreamTypes, ReaderTypes, NextId, User, statusVars,
         queueVars, writeVars, readVars, wireVars, downVars
  <2> QED
    BY <1>31, <2>1
<1>6. ASSUME NEW q \in Reqs, MapStream(q) PROVE Answered(r)' \/ Exempt(r)'
  <2>1. status'[r] = status[r] /\ srv'[sid[r]] = srv[sid[r]] /\ (OnRead(r) => OnRead(r)')
    BY <1>0, <1>6 DEF OnRead, UserTypes, StreamTypes, ReaderTypes, MapStream, User, statusVars,
         queueVars, writeVars, readVars, wireVars, downVars
  <2> QED
    BY <1>31, <2>1
<1>7. ASSUME NEW q \in Reqs, OpenConn(q) PROVE Answered(r)' \/ Exempt(r)'
  <2>1. status'[r] = status[r] /\ srv'[sid[r]] = srv[sid[r]] /\ (OnRead(r) => OnRead(r)')
    BY <1>0, <1>7 DEF OnRead, UserTypes, StreamTypes, ReaderTypes, OpenConn, User, engineVars,
         statusVars, queueVars, writeVars, readVars, wireVars, downVars
  <2> QED
    BY <1>31, <2>1
<1>8. ASSUME NEW q \in Reqs, Write(q) PROVE Answered(r)' \/ Exempt(r)'
  <2>1. status'[r] = status[r] /\ srv'[sid[r]] = srv[sid[r]] /\ (OnRead(r) => OnRead(r)')
    BY <1>0, <1>8 DEF OnRead, UserTypes, StreamTypes, ReaderTypes, Write, User, engineVars,
         statusVars, writeVars, readVars, wireVars, downVars
  <2> QED
    BY <1>31, <2>1
<1>9. ASSUME NEW q \in Reqs, WriteFails(q) PROVE Answered(r)' \/ Exempt(r)'
  <2>1. status'[r] = status[r] /\ srv'[sid[r]] = srv[sid[r]] /\ (OnRead(r) => OnRead(r)')
    BY <1>0, <1>9 DEF OnRead, UserTypes, StreamTypes, ReaderTypes, WriteFails, User, engineVars,
         statusVars, queueVars, writeVars, readVars, wireVars, downVars
  <2> QED
    BY <1>31, <2>1
<1>10. ASSUME NEW q \in Reqs, Response(q) PROVE Answered(r)' \/ Exempt(r)'
  <2>1. status'[r] = status[r] /\ srv'[sid[r]] = srv[sid[r]] /\ (OnRead(r) => OnRead(r)')
    BY <1>0, <1>10 DEF OnRead, UserTypes, StreamTypes, ReaderTypes, Response, User, engineVars,
         statusVars, queueVars, writeVars, readVars, wireVars, downVars
  <2> QED
    BY <1>31, <2>1
<1>11. ASSUME NEW q \in Reqs, NoResponse(q) PROVE Answered(r)' \/ Exempt(r)'
  <2>1. status'[r] = status[r] /\ srv'[sid[r]] = srv[sid[r]] /\ (OnRead(r) => OnRead(r)')
    BY <1>0, <1>11 DEF OnRead, UserTypes, StreamTypes, ReaderTypes, NoResponse, User, engineVars,
         statusVars, queueVars, writeVars, readVars, wireVars, downVars
  <2> QED
    BY <1>31, <2>1
<1>12. ASSUME NEW q \in Reqs, Reset(q) PROVE Answered(r)' \/ Exempt(r)'
  <2>1. status'[r] = status[r] /\ srv'[sid[r]] = srv[sid[r]] /\ (OnRead(r) => OnRead(r)')
    BY <1>0, <1>12 DEF OnRead, UserTypes, StreamTypes, ReaderTypes, Reset, engineVars, userVars,
         statusVars, writeVars, readVars, wireVars, downVars
  <2> QED
    BY <1>31, <2>1
<1>13. CASE PeerClose
  <2>1. status'[r] = status[r] /\ srv'[sid[r]] = srv[sid[r]] /\ (OnRead(r) => OnRead(r)')
    BY <1>0, <1>13 DEF OnRead, UserTypes, StreamTypes, ReaderTypes, PeerClose, Fatal, engineVars,
         userVars, statusVars, queueVars, writeVars, readVars, wireVars
  <2> QED
    BY <1>31, <2>1
<1>14. CASE ShutdownStep
  <2>1. status'[r] = status[r] /\ srv'[sid[r]] = srv[sid[r]] /\ (OnRead(r) => OnRead(r)')
    BY <1>0, <1>14 DEF OnRead, UserTypes, StreamTypes, ReaderTypes, ShutdownStep, engineVars,
         userVars, statusVars, queueVars, writeVars, readVars, wireVars
  <2> QED
    BY <1>31, <2>1
<1>15. CASE ShutdownStreams
  <2>1. Lost(r)'
    BY <1>0, <1>15 DEF ShutdownStreams, Causes, Lost
  <2> QED
    BY <1>30, <2>1
<1>16. CASE WriterDrop
  <2>1. status'[r] = status[r] /\ srv'[sid[r]] = srv[sid[r]] /\ (OnRead(r) => OnRead(r)')
    BY <1>0, <1>16 DEF OnRead, UserTypes, StreamTypes, ReaderTypes, WriterDrop, engineVars,
         userVars, statusVars, readVars, wireVars, downVars
  <2> QED
    BY <1>31, <2>1
<1>17. CASE WriterCache
  <2>1. status'[r] = status[r] /\ srv'[sid[r]] = srv[sid[r]] /\ (OnRead(r) => OnRead(r)')
    BY <1>0, <1>17 DEF OnRead, UserTypes, StreamTypes, ReaderTypes, WriterCache, engineVars,
         userVars, statusVars, readVars, wireVars, downVars
  <2> QED
    BY <1>31, <2>1
<1>18. CASE WriterTake
  <2>1. status'[r] = status[r] /\ srv'[sid[r]] = srv[sid[r]] /\ (OnRead(r) => OnRead(r)')
    BY <1>0, <1>18 DEF OnRead, UserTypes, StreamTypes, ReaderTypes, WriterTake, engineVars,
         userVars, statusVars, readVars, wireVars, downVars
  <2> QED
    BY <1>31, <2>1
<1>19. CASE WriterMatch
  <2>1. status'[r] = status[r] /\ srv'[sid[r]] = srv[sid[r]] /\ (OnRead(r) => OnRead(r)')
    BY <1>0, <1>19 DEF OnRead, UserTypes, StreamTypes, ReaderTypes, WriterMatch, engineVars,
         userVars, statusVars, queueVars, readVars, wireVars, downVars
  <2> QED
    BY <1>31, <2>1
<1>20. CASE WriterSend
  <2>0. /\ wframe.id \in Ids /\ wreq \in Reqs /\ (wreq = r => wframe.id = sid[r])
        /\ wreq # r => wframe.id # sid[r]
    BY <1>20, WriterOwner DEF WriterSend
  <2>1. CASE wreq # r
    <3>1. status'[r] = status[r] /\ srv'[sid[r]] = srv[sid[r]] /\ (OnRead(r) => OnRead(r)')
      BY <1>0, <2>0, <2>1, <1>20 DEF OnRead, UserTypes, StreamTypes, ReaderTypes, WriterSend,
           Assign, WriterDone, userVars, statusVars, queueVars, readVars, downVars
    <3> QED
      BY <1>31, <3>1
  <2>2. CASE wreq = r
    <3> DEFINE to == AfterWrite(wseen, wframe)
    <3>1. /\ Assign(r, wseen, to) /\ Purge(to = "Closed", sid[r]) /\ streams \in [Ids -> Reqs \cup {NoReq}]
          /\ srv'[sid[r]] = "done" => srv[sid[r]] = "done"
          /\ OnRead(r)' <=> OnRead(r)
      BY <1>0, <2>0, <2>2, <1>20 DEF WriterSend, UserTypes, ReaderTypes, readVars, OnRead
    <3>2. to \in {"Open", "HalfClosedLocal", "HalfClosedRemote", "Closed"}
          /\ (wseen = "HalfClosedRemote" => to \in {"HalfClosedRemote", "Closed"})
      BY DEF AfterWrite
    <3> HIDE DEF to
    <3>3. CASE to = wseen
      <4>1. status'[r] = status[r]
        BY <3>1, <3>3 DEF Assign, statusVars
      <4> QED
        BY <1>0, <1>30, <3>1, <4>1 DEF Answered
    <3>4. CASE to # wseen /\ status[r] = "HalfClosedRemote"
      <4>1. CASE wseen # "HalfClosedRemote"
        BY <3>1, <3>4, <4>1 DEF Assign, Exempt
      <4>2. CASE wseen = "HalfClosedRemote"
        <5>1. to = "Closed" /\ Purge(TRUE, sid[r])
          BY <3>1, <3>2, <3>4, <4>2
        <5>2. streams'[sid[r]] # r
          BY <1>0, <3>1, <5>1, PurgeIf
        <5> QED
          BY <1>0, <1>30, <5>2 DEF Lost
      <4> QED
        BY <4>1, <4>2
    <3>5. CASE status[r] # "HalfClosedRemote"
      BY <1>0, <1>30, <3>1, <3>5 DEF Answered
    <3> QED
      BY <3>3, <3>4, <3>5
  <2> QED
    BY <2>1, <2>2
<1>21. CASE WriterRefuse
  <2>1. status'[r] = status[r] /\ srv'[sid[r]] = srv[sid[r]] /\ (OnRead(r) => OnRead(r)')
    BY <1>0, <1>21 DEF OnRead, UserTypes, StreamTypes, ReaderTypes, WriterRefuse, Fatal, WriterDone,
         engineVars, userVars, statusVars, queueVars, readVars, wireVars
  <2> QED
    BY <1>31, <2>1
<1>22. CASE WriterReset
  <2>0. /\ wframe.id \in Ids /\ wreq \in Reqs /\ (wreq = r => wframe.id = sid[r])
        /\ wreq # r => wframe.id # sid[r]
    BY <1>22, WriterOwner DEF WriterReset
  <2>1. CASE wreq # r
    <3>1. status'[r] = status[r] /\ srv'[sid[r]] = srv[sid[r]] /\ (OnRead(r) => OnRead(r)')
      BY <1>0, <2>0, <2>1, <1>22 DEF OnRead, UserTypes, StreamTypes, ReaderTypes, WriterReset,
           WriterDone, userVars, queueVars, readVars, downVars
    <3> QED
      BY <1>31, <3>1
  <2>2. CASE wreq = r
    <3>1. Purge(TRUE, wframe.id) /\ streams \in [Ids -> Reqs \cup {NoReq}]
      BY <1>0, <1>22 DEF WriterReset, UserTypes
    <3>2. streams'[sid[r]] # r
      BY <1>0, <2>0, <2>2, <3>1, PurgeIf
    <3> QED
      BY <1>0, <1>30, <3>2 DEF Lost
  <2> QED
    BY <2>1, <2>2
<1>23. CASE ReadFrame
  <2>1. PICK id \in Ids : \E f \in ServerFrames(id) :
             /\ srv' = [srv EXCEPT ![id] = IF f.type = "rst" THEN "reset" ELSE IF f.end THEN "done" ELSE "headers"]
             /\ IF streams[id] = NoReq THEN UNCHANGED <<rpc, rframe, rreq>>
                ELSE rpc' = "match" /\ rframe' = f /\ rreq' = streams[id]
    BY <1>23 DEF ReadFrame
  <2>2. PICK f \in ServerFrames(id) :
             /\ srv' = [srv EXCEPT ![id] = IF f.type = "rst" THEN "reset" ELSE IF f.end THEN "done" ELSE "headers"]
             /\ IF streams[id] = NoReq THEN UNCHANGED <<rpc, rframe, rreq>>
                ELSE rpc' = "match" /\ rframe' = f /\ rreq' = streams[id]
    BY <2>1
  <2>3. f.id = id /\ rpc = "read" /\ status' = status
    BY <1>23, <2>2 DEF ServerFrames, Frame, ReadFrame, statusVars
  <2>4. CASE id = sid[r]
    <3>1. OnRead(r)'
      BY <1>0, <1>30, <2>2, <2>3, <2>4 DEF OnRead
    <3> QED
      BY <3>1 DEF Answered
  <2>5. CASE id # sid[r]
    <3>1. srv'[sid[r]] = srv[sid[r]] /\ ~ OnRead(r)
      BY <1>0, <2>2, <2>3, <2>5 DEF ReaderTypes, OnRead
    <3> QED
      BY <1>31, <2>3, <3>1
  <2> QED
    BY <2>4, <2>5
<1>24. CASE ReadMatch
  <2>1. status'[r] = status[r] /\ srv'[sid[r]] = srv[sid[r]] /\ (OnRead(r) => OnRead(r)')
    BY <1>0, <1>24 DEF OnRead, UserTypes, StreamTypes, ReaderTypes, ReadMatch, engineVars, userVars,
         statusVars, queueVars, writeVars, wireVars, downVars
  <2> QED
    BY <1>31, <2>1
<1>25. CASE ReadResponse
  <2>0. /\ rframe.id \in Ids /\ rreq \in Reqs /\ (rreq = r => rframe.id = sid[r])
        /\ rreq # r => rframe.id # sid[r] /\ ~ OnRead(r)
    BY <1>25, ReaderOwner DEF ReadResponse
  <2>1. CASE rreq # r
    <3>1. status'[r] = status[r] /\ srv'[sid[r]] = srv[sid[r]] /\ (OnRead(r) => OnRead(r)')
      BY <1>0, <2>0, <2>1, <1>25 DEF OnRead, UserTypes, StreamTypes, ReaderTypes, ReadResponse,
           Assign, ReaderDone, Deliver, statusVars, queueVars, writeVars, wireVars, downVars
    <3> QED
      BY <1>31, <3>1
  <2>2. CASE rreq = r
    <3> DEFINE to == AfterRead(rseen, rframe)
    <3>1. /\ Assign(r, rseen, to) /\ Purge(to = "Closed", sid[r]) /\ streams \in [Ids -> Reqs \cup {NoReq}]
          /\ srv' = srv /\ rseen \in {"Open", "HalfClosedLocal"}
      BY <1>0, <2>0, <2>2, <1>25 DEF ReadResponse, UserTypes, wireVars
    <3>2. CASE srv[sid[r]] # "done"
      BY <1>0, <3>1, <3>2 DEF Answered
    <3>3. CASE srv[sid[r]] = "done"
      <4>1. rframe.end
        BY <2>0, <2>2, <3>3, <1>25, ReaderOwner DEF LastRead, ReadResponse
      <4>2. to = IF rseen = "Open" THEN "HalfClosedRemote" ELSE "Closed"
        BY <4>1 DEF AfterRead
      <4> HIDE DEF to
      <4>3. to # rseen
        BY <3>1, <4>2
      <4>4. status'[r] = to
        BY <1>0, <3>1, <4>3 DEF Assign, StreamTypes
      <4>5. CASE to = "Closed"
        <5>1. Purge(TRUE, sid[r])
          BY <3>1, <4>5
        <5>2. streams'[sid[r]] # r
          BY <1>0, <3>1, <5>1, PurgeIf
        <5> QED
          BY <1>0, <1>30, <5>2 DEF Lost
      <4>6. CASE to = "HalfClosedRemote"
        BY <4>4, <4>6 DEF Answered
      <4> QED
        BY <4>2, <4>5, <4>6
    <3> QED
      BY <3>2, <3>3
  <2> QED
    BY <2>1, <2>2
<1>26. CASE ReadRefuse
  <2>0. /\ rframe.id \in Ids /\ rreq \in Reqs /\ (rreq = r => rframe.id = sid[r])
        /\ rreq # r => rframe.id # sid[r] /\ ~ OnRead(r)
    BY <1>26, ReaderOwner DEF ReadRefuse
  <2>1. CASE rreq # r
    <3>1. status'[r] = status[r] /\ srv'[sid[r]] = srv[sid[r]] /\ (OnRead(r) => OnRead(r)')
      BY <1>0, <2>0, <2>1, <1>26 DEF OnRead, UserTypes, StreamTypes, ReaderTypes, ReadRefuse,
           Fatal, ReaderDone, engineVars, userVars, statusVars, writeVars, wireVars
    <3> QED
      BY <1>31, <3>1
  <2>2. CASE rreq = r
    <3>1. CASE rframe.type = "data"
      <4>1. outClosed \/ \E f \in Range(control') : f.id = sid[r]
        BY <1>0, <1>30, <2>0, <2>2, <1>26, <3>1, ResetQueued DEF ReadRefuse
      <4> QED
        BY <1>0, <1>30, <4>1 DEF Answered, Lost, ResetComes
    <3>2. CASE rframe.type # "data"
      <4>1. cause' # "none"
        BY <1>26, <3>2 DEF ReadRefuse, Fatal
      <4> QED
        BY <1>30, <4>1 DEF Lost
    <3> QED
      BY <3>1, <3>2
  <2> QED
    BY <2>1, <2>2
<1>27. CASE ReadReset
  <2>0. /\ rframe.id \in Ids /\ rreq \in Reqs /\ (rreq = r => rframe.id = sid[r])
        /\ rreq # r => rframe.id # sid[r] /\ ~ OnRead(r)
    BY <1>27, ReaderOwner DEF ReadReset
  <2>1. CASE rreq # r
    <3>1. status'[r] = status[r] /\ srv'[sid[r]] = srv[sid[r]] /\ (OnRead(r) => OnRead(r)')
      BY <1>0, <2>0, <2>1, <1>27 DEF OnRead, UserTypes, StreamTypes, ReaderTypes, ReadReset,
           ReaderDone, userVars, queueVars, writeVars, wireVars, downVars
    <3> QED
      BY <1>31, <3>1
  <2>2. CASE rreq = r
    <3>1. Purge(TRUE, rframe.id) /\ streams \in [Ids -> Reqs \cup {NoReq}]
      BY <1>0, <1>27 DEF ReadReset, UserTypes
    <3>2. streams'[sid[r]] # r
      BY <1>0, <2>0, <2>2, <3>1, PurgeIf
    <3> QED
      BY <1>0, <1>30, <3>2 DEF Lost
  <2> QED
    BY <2>1, <2>2
<1>28. CASE UNCHANGED vars
  <2>1. status'[r] = status[r] /\ srv'[sid[r]] = srv[sid[r]] /\ (OnRead(r) => OnRead(r)')
    BY <1>0, <1>28 DEF OnRead, UserTypes, StreamTypes, ReaderTypes, vars, engineVars, userVars,
         statusVars, queueVars, writeVars, readVars, wireVars, downVars
  <2> QED
    BY <1>31, <2>1
<1> QED
  BY <1>1, <1>2, <1>3, <1>4, <1>5, <1>6, <1>7, <1>8, <1>9, <1>10, <1>11, <1>12, <1>13, <1>14,
       <1>15, <1>16, <1>17, <1>18, <1>19, <1>20, <1>21, <1>22, <1>23, <1>24, <1>25, <1>26, <1>27,
       <1>28 DEF Next, Requesting, Writing, Reading, Shutting

\* A user that still asks, asked before.
LEMMA NextAsking ==
  ASSUME StreamInv, Causes, [Next]_vars, NEW r \in Reqs, Begins(r)
  PROVE  Asks(r)' => Asks(r)
<1>0. /\ UserTypes /\ StreamTypes /\ QueueTypes /\ WriterTypes /\ ReaderTypes /\ NoReq \notin Reqs
      /\ upc[r] \in Started /\ sid[r] \in Ids /\ sid'[r] = sid[r]
      /\ cause # "none" => cause' # "none"
      /\ wpc \in {"match", "update"} => wframe.id \in Ids
      /\ rpc \in {"match", "update"} => rframe.id \in Ids
      /\ upc[r] \notin {"new", "refuse", "cas", "load", "next", "map", "open"}
  BY BegunFacts
<1>1. ASSUME NEW q \in Reqs, Count(q) PROVE Asks(r)' => Asks(r)
  BY <1>0, <1>1 DEF Asks, UserTypes, StreamTypes, Count, User, statusVars, queueVars, writeVars,
       readVars, wireVars, downVars
<1>2. ASSUME NEW q \in Reqs, Refuse(q) PROVE Asks(r)' => Asks(r)
  BY <1>0, <1>2 DEF Asks, UserTypes, StreamTypes, Refuse, User, statusVars, queueVars, writeVars,
       readVars, wireVars, downVars
<1>3. ASSUME NEW q \in Reqs, FirstId(q) PROVE Asks(r)' => Asks(r)
  BY <1>0, <1>3 DEF Asks, UserTypes, StreamTypes, FirstId, User, statusVars, queueVars, writeVars,
       readVars, wireVars, downVars
<1>4. ASSUME NEW q \in Reqs, LoadId(q) PROVE Asks(r)' => Asks(r)
  BY <1>0, <1>4 DEF Asks, UserTypes, StreamTypes, LoadId, User, engineVars, statusVars, queueVars,
       writeVars, readVars, wireVars, downVars
<1>5. ASSUME NEW q \in Reqs, NextId(q) PROVE Asks(r)' => Asks(r)
  BY <1>0, <1>5 DEF Asks, UserTypes, StreamTypes, NextId, User, statusVars, queueVars, writeVars,
       readVars, wireVars, downVars
<1>6. ASSUME NEW q \in Reqs, MapStream(q) PROVE Asks(r)' => Asks(r)
  BY <1>0, <1>6 DEF Asks, UserTypes, StreamTypes, MapStream, User, statusVars, queueVars,
       writeVars, readVars, wireVars, downVars
<1>7. ASSUME NEW q \in Reqs, OpenConn(q) PROVE Asks(r)' => Asks(r)
  BY <1>0, <1>7 DEF Asks, UserTypes, StreamTypes, OpenConn, User, engineVars, statusVars,
       queueVars, writeVars, readVars, wireVars, downVars
<1>8. ASSUME NEW q \in Reqs, Write(q) PROVE Asks(r)' => Asks(r)
  BY <1>0, <1>8 DEF Asks, UserTypes, StreamTypes, Write, User, engineVars, statusVars, writeVars,
       readVars, wireVars, downVars
<1>9. ASSUME NEW q \in Reqs, WriteFails(q) PROVE Asks(r)' => Asks(r)
  BY <1>0, <1>9 DEF Asks, UserTypes, StreamTypes, WriteFails, User, engineVars, statusVars,
       queueVars, writeVars, readVars, wireVars, downVars
<1>10. ASSUME NEW q \in Reqs, Response(q) PROVE Asks(r)' => Asks(r)
  BY <1>0, <1>10 DEF Asks, UserTypes, StreamTypes, Response, User, engineVars, statusVars,
       queueVars, writeVars, readVars, wireVars, downVars
<1>11. ASSUME NEW q \in Reqs, NoResponse(q) PROVE Asks(r)' => Asks(r)
  BY <1>0, <1>11 DEF Asks, UserTypes, StreamTypes, NoResponse, User, engineVars, statusVars,
       queueVars, writeVars, readVars, wireVars, downVars
<1>12. ASSUME NEW q \in Reqs, Reset(q) PROVE Asks(r)' => Asks(r)
  BY <1>0, <1>12 DEF Asks, UserTypes, StreamTypes, Reset, engineVars, userVars, statusVars,
       writeVars, readVars, wireVars, downVars
<1>13. CASE PeerClose
  BY <1>0, <1>13 DEF Asks, UserTypes, StreamTypes, PeerClose, Fatal, engineVars, userVars,
       statusVars, queueVars, writeVars, readVars, wireVars
<1>14. CASE ShutdownStep
  BY <1>0, <1>14 DEF Asks, UserTypes, StreamTypes, ShutdownStep, engineVars, userVars, statusVars,
       queueVars, writeVars, readVars, wireVars
<1>15. CASE ShutdownStreams
  BY <1>0, <1>15 DEF Asks, UserTypes, StreamTypes, ShutdownStreams, engineVars, userVars,
       queueVars, writeVars, readVars, wireVars
<1>16. CASE WriterDrop
  BY <1>0, <1>16 DEF Asks, UserTypes, StreamTypes, WriterDrop, engineVars, userVars, statusVars,
       readVars, wireVars, downVars
<1>17. CASE WriterCache
  BY <1>0, <1>17 DEF Asks, UserTypes, StreamTypes, WriterCache, engineVars, userVars, statusVars,
       readVars, wireVars, downVars
<1>18. CASE WriterTake
  BY <1>0, <1>18 DEF Asks, UserTypes, StreamTypes, WriterTake, engineVars, userVars, statusVars,
       readVars, wireVars, downVars
<1>19. CASE WriterMatch
  BY <1>0, <1>19 DEF Asks, UserTypes, StreamTypes, WriterMatch, engineVars, userVars, statusVars,
       queueVars, readVars, wireVars, downVars
<1>20. CASE WriterSend
  BY <1>0, <1>20 DEF Asks, UserTypes, StreamTypes, WriterSend, Assign, Purge, WriterDone,
       userVars, statusVars, queueVars, readVars, downVars
<1>21. CASE WriterRefuse
  BY <1>0, <1>21 DEF Asks, UserTypes, StreamTypes, WriterRefuse, Fatal, WriterDone, engineVars,
       userVars, statusVars, queueVars, readVars, wireVars
<1>22. CASE WriterReset
  BY <1>0, <1>22 DEF Asks, UserTypes, StreamTypes, WriterReset, Purge, WriterDone, userVars,
       queueVars, readVars, downVars
<1>23. CASE ReadFrame
  BY <1>0, <1>23 DEF Asks, UserTypes, StreamTypes, ReadFrame, engineVars, userVars, statusVars,
       queueVars, writeVars, downVars
<1>24. CASE ReadMatch
  BY <1>0, <1>24 DEF Asks, UserTypes, StreamTypes, ReadMatch, engineVars, userVars, statusVars,
       queueVars, writeVars, wireVars, downVars
<1>25. CASE ReadResponse
  BY <1>0, <1>25 DEF Asks, UserTypes, StreamTypes, ReadResponse, Assign, Purge, ReaderDone,
       Deliver, statusVars, queueVars, writeVars, wireVars, downVars
<1>26. CASE ReadRefuse
  BY <1>0, <1>26 DEF Asks, UserTypes, StreamTypes, ReadRefuse, Fatal, ReaderDone, engineVars,
       userVars, statusVars, writeVars, wireVars
<1>27. CASE ReadReset
  BY <1>0, <1>27 DEF Asks, UserTypes, StreamTypes, ReadReset, Purge, ReaderDone, userVars,
       queueVars, writeVars, wireVars, downVars
<1>28. CASE UNCHANGED vars
  BY <1>0, <1>28 DEF Asks, UserTypes, StreamTypes, vars, engineVars, userVars, statusVars,
       queueVars, writeVars, readVars, wireVars, downVars
<1> QED
  BY <1>1, <1>2, <1>3, <1>4, <1>5, <1>6, <1>7, <1>8, <1>9, <1>10, <1>11, <1>12, <1>13, <1>14,
       <1>15, <1>16, <1>17, <1>18, <1>19, <1>20, <1>21, <1>22, <1>23, <1>24, <1>25, <1>26, <1>27,
       <1>28 DEF Next, Requesting, Writing, Reading, Shutting

\* The frames of a stream at rest are still to come, or its cache is passed over.
LEMMA RestsStay ==
  ASSUME TypeOK, Threads, NEW r \in Reqs, Begins(r), Rests(r), WireFits(r), input'[r] # "quit"
  PROVE  Stays(r) \/ Stuck(r)'
<1>1. CASE CachedOf(r)' = CachedOf(r) /\ (Stuck(r) => Stuck(r)')
  <2>1. ToWrite(r)' = ToWrite(r)
    BY DEF ToWrite, Rests
  <2> QED
    BY <1>1, <2>1 DEF Stays, Rest, Rests
<1> QED
  BY <1>1, RestsCache

\* The end of a request is to come, is in a cache that is not read again, or has
\* half closed the stream.
LEMMA NextAsked ==
  ASSUME StreamInv, Untouched, Causes, [Next]_vars, NEW r \in Reqs, Begins(r), Kept(r), Asked(r),
         ~ Exempt(r)
  PROVE  Asked(r)' \/ Exempt(r)'
<1>0. /\ UserTypes /\ StreamTypes /\ QueueTypes /\ WriterTypes /\ ReaderTypes /\ NoReq \notin Reqs
      /\ upc[r] \in Started /\ sid[r] \in Ids /\ sid'[r] = sid[r]
      /\ cause # "none" => cause' # "none"
      /\ wpc \in {"match", "update"} => wframe.id \in Ids
      /\ rpc \in {"match", "update"} => rframe.id \in Ids
      /\ upc[r] \notin {"new", "refuse", "cas", "load", "next", "map", "open"}
  BY BegunFacts
<1>30. TypeOK /\ Threads /\ Numbers /\ Unique /\ WireFits(r) /\ StatusFits(r)
  BY DEF StreamInv, CountInv, Kept
<1>31. cause = "none" /\ streams[sid[r]] = r
  BY DEF Exempt, Lost
<1>32. down = 0 /\ down <= down /\ down \in 0 .. 4 /\ wpc # "dead" /\ outClosed = FALSE
  <2>1. ~ (down > 0) /\ wpc # "dead"
    BY <1>31 DEF Causes
  <2>2. down = 0 /\ outClosed \in BOOLEAN /\ ~ (down >= 2)
    BY <1>30, <2>1 DEF TypeOK
  <2> QED
    BY <2>1, <2>2 DEF Causes
<1>33. ~ Gone(r)
  BY <1>31, <1>32 DEF Gone
<1> SUFFICES ASSUME Asks(r)', ~ Exempt(r)'
             PROVE  (EndToCome(r) \/ Stuck(r))' \/ status'[r] = "HalfClosedLocal"
  BY DEF Asked
<1>34. (EndToCome(r) \/ Stuck(r) \/ status[r] = "HalfClosedLocal") /\ input[r] # "quit"
  BY NextAsking DEF Asked, Asks
<1>35. cause' = "none" /\ streams'[sid[r]] = r /\ r \notin overwritten'
  BY <1>0 DEF Exempt, Lost
<1>36. ASSUME Stays(r) \/ Stuck(r)', status'[r] = status[r] \/ status[r] # "HalfClosedLocal"
       PROVE  (EndToCome(r) \/ Stuck(r))' \/ status'[r] = "HalfClosedLocal"
  BY <1>34, <1>36 DEF Stays, EndToCome
<1>37. ASSUME Rests(r), status'[r] = status[r] \/ status[r] # "HalfClosedLocal"
       PROVE  (EndToCome(r) \/ Stuck(r))' \/ status'[r] = "HalfClosedLocal"
  <2>1. Stays(r) \/ Stuck(r)'
    BY <1>30, <1>37, RestsStay DEF Asks
  <2> QED
    BY <1>36, <1>37, <2>1
<1>38. ASSUME QuietFor(r)
       PROVE  (EndToCome(r) \/ Stuck(r))' \/ status'[r] = "HalfClosedLocal"
  <2>1. Rests(r) /\ status'[r] = status[r]
    BY <1>32, <1>38 DEF QuietFor, Rests, WaitingOf, AtHand, InHand
  <2> QED
    BY <1>37, <2>1
<1>1. ASSUME NEW q \in Reqs, Count(q) PROVE (EndToCome(r) \/ Stuck(r))' \/ status'[r] = "HalfClosedLocal"
  <2>1. QuietFor(r)
    BY <1>30, <1>1, UsersQuiet
  <2> QED
    BY <1>38, <2>1
<1>2. ASSUME NEW q \in Reqs, Refuse(q) PROVE (EndToCome(r) \/ Stuck(r))' \/ status'[r] = "HalfClosedLocal"
  <2>1. QuietFor(r)
    BY <1>30, <1>2, UsersQuiet
  <2> QED
    BY <1>38, <2>1
<1>3. ASSUME NEW q \in Reqs, FirstId(q) PROVE (EndToCome(r) \/ Stuck(r))' \/ status'[r] = "HalfClosedLocal"
  <2>1. QuietFor(r)
    BY <1>30, <1>3, UsersQuiet
  <2> QED
    BY <1>38, <2>1
<1>4. ASSUME NEW q \in Reqs, LoadId(q) PROVE (EndToCome(r) \/ Stuck(r))' \/ status'[r] = "HalfClosedLocal"
  <2>1. QuietFor(r)
    BY <1>30, <1>4, UsersQuiet
  <2> QED
    BY <1>38, <2>1
<1>5. ASSUME NEW q \in Reqs, NextId(q) PROVE (EndToCome(r) \/ Stuck(r))' \/ status'[r] = "HalfClosedLocal"
  <2>1. QuietFor(r)
    BY <1>30, <1>5, UsersQuiet
  <2> QED
    BY <1>38, <2>1
<1>6. ASSUME NEW q \in Reqs, MapStream(q) PROVE (EndToCome(r) \/ Stuck(r))' \/ status'[r] = "HalfClosedLocal"
  <2>1. QuietFor(r)
    BY <1>30, <1>6, UsersQuiet
  <2> QED
    BY <1>38, <2>1
<1>7. ASSUME NEW q \in Reqs, OpenConn(q) PROVE (EndToCome(r) \/ Stuck(r))' \/ status'[r] = "HalfClosedLocal"
  <2>1. QuietFor(r)
    BY <1>30, <1>7, UsersQuiet
  <2> QED
    BY <1>38, <2>1
<1>8. ASSUME NEW q \in Reqs, Write(q) PROVE (EndToCome(r) \/ Stuck(r))' \/ status'[r] = "HalfClosedLocal"
  <2>1. Stays(r)
    BY <1>30, <1>8, WriteKeeps
  <2>2. status' = status
    BY <1>8 DEF Write, statusVars
  <2> QED
    BY <1>36, <2>1, <2>2
<1>9. ASSUME NEW q \in Reqs, WriteFails(q) PROVE (EndToCome(r) \/ Stuck(r))' \/ status'[r] = "HalfClosedLocal"
  <2>1. QuietFor(r)
    BY <1>30, <1>9, UsersQuiet
  <2> QED
    BY <1>38, <2>1
<1>10. ASSUME NEW q \in Reqs, Response(q) PROVE (EndToCome(r) \/ Stuck(r))' \/ status'[r] = "HalfClosedLocal"
  <2>1. QuietFor(r)
    BY <1>30, <1>10, UsersQuiet
  <2> QED
    BY <1>38, <2>1
<1>11. ASSUME NEW q \in Reqs, NoResponse(q) PROVE (EndToCome(r) \/ Stuck(r))' \/ status'[r] = "HalfClosedLocal"
  <2>1. QuietFor(r)
    BY <1>30, <1>11, UsersQuiet
  <2> QED
    BY <1>38, <2>1
<1>12. ASSUME NEW q \in Reqs, Reset(q) PROVE (EndToCome(r) \/ Stuck(r))' \/ status'[r] = "HalfClosedLocal"
  <2>1. QuietFor(r)
    BY <1>30, <1>12, UsersQuiet
  <2> QED
    BY <1>38, <2>1
<1>13. CASE PeerClose
  BY <1>35, <1>13 DEF PeerClose, Fatal
<1>14. CASE ShutdownStep
  BY <1>31, <1>14 DEF ShutdownStep
<1>15. CASE ShutdownStreams
  BY <1>32, <1>15 DEF ShutdownStreams
<1>16. CASE WriterDrop
  <2>1. Stays(r)
    BY <1>33, <1>16, DropKeeps
  <2>2. status' = status
    BY <1>16 DEF WriterDrop, statusVars
  <2> QED
    BY <1>36, <2>1, <2>2
<1>17. CASE WriterCache
  <2>1. Stays(r)
    BY <1>33, <1>17, CacheKeeps
  <2>2. status' = status
    BY <1>17 DEF WriterCache, statusVars
  <2> QED
    BY <1>36, <2>1, <2>2
<1>18. CASE WriterTake
  <2>1. Stays(r)
    BY <1>33, <1>18, TakeKeeps
  <2>2. status' = status
    BY <1>18 DEF WriterTake, statusVars
  <2> QED
    BY <1>36, <2>1, <2>2
<1>19. CASE WriterMatch
  <2>1. Rests(r) /\ status' = status
    BY <1>32, <1>19 DEF Rests, WaitingOf, AtHand, InHand, WriterMatch, engineVars, userVars, statusVars, queueVars,
                       wireVars, downVars
  <2> QED
    BY <1>37, <2>1
<1>20. CASE WriterSend
  <2>1. CASE wreq # r
    <3>1. Rests(r) /\ status'[r] = status[r]
      BY <1>20, <2>1, WritesOther
    <3> QED
      BY <1>37, <3>1
  <2>2. CASE wreq = r
    <3>0. AtHand(r) /\ wframe.id = sid[r]
      BY <1>20, <2>2, WriterOwner DEF WriterSend
    <3> DEFINE f == wframe  to == AfterWrite(wseen, f)
    <3>1. /\ wpc' = "take" /\ f.type # "rst" /\ Writable(wseen, f)
          /\ Assign(r, wseen, to) /\ Purge(to = "Closed", sid[r])
          /\ lastSendId' = SentId(sid[r]) /\ UNCHANGED <<sid, todo, input, message, cacheMap>>
      BY <1>20, <2>2, <3>0 DEF WriterSend, userVars, queueVars
    <3>2. InHand(r) = {f} /\ InHand(r)' = {} /\ sid[r] <= lastSendId + 2
      BY <1>30, <3>0, <3>1 DEF InHand, AtHand, WireFits
    <3>3. Rest(r)' = Rest(r)
      <4>1. CachedOf(r)' = CachedOf(r)
        BY <1>0, <1>30, <3>1, <3>2, OwnCache
      <4> QED
        BY <3>1, <4>1 DEF Rest, WaitingOf, ToWrite
    <3>4. Stuck(r) => Stuck(r)'
      <4>1. sid[r] \in Nat /\ lastSendId \in Nat /\ lastSendId' \in Nat /\ lastSendId <= lastSendId'
        BY <1>0, <1>30, <3>1, SentIdRises, IdFacts
      <4>2. sid[r] <= lastSendId + 1 => sid[r] <= lastSendId' + 1
        BY <4>1
      <4> QED
        BY <3>1, <4>2 DEF Stuck
    <3>5. CASE f.end
      <4>1. to \in {"HalfClosedLocal", "Closed"} /\ (to = "HalfClosedLocal" => wseen # to)
        BY <3>1, <3>5 DEF AfterWrite, Writable
      <4> HIDE DEF to
      <4>2. CASE to = "Closed"
        <5>1. Purge(TRUE, sid[r]) /\ streams \in [Ids -> Reqs \cup {NoReq}]
          BY <1>0, <3>1, <4>2 DEF UserTypes
        <5> QED
          BY <1>0, <1>35, <5>1, PurgeIf
      <4>3. CASE to = "HalfClosedLocal"
        BY <1>0, <3>1, <4>1, <4>3 DEF Assign, StreamTypes
      <4> QED
        BY <4>1, <4>2, <4>3
    <3>6. CASE ~ f.end
      <4>1. status[r] # "HalfClosedLocal"
        BY <1>30, <1>33, <3>2 DEF StatusFits
      <4>2. EndToCome(r) => EndToCome(r)'
        BY <3>2, <3>3, <3>6 DEF EndToCome
      <4> QED
        BY <1>34, <3>4, <4>1, <4>2
    <3> QED
      BY <3>5, <3>6
  <2> QED
    BY <2>1, <2>2
<1>21. CASE WriterRefuse
  <2>1. CASE wreq # r
    <3>1. Rests(r) /\ status'[r] = status[r]
      BY <1>21, <2>1, WritesOther
    <3> QED
      BY <1>37, <3>1
  <2>2. CASE wreq = r
    <3>0. AtHand(r) /\ wframe.id = sid[r]
      BY <1>21, <2>2, WriterOwner DEF WriterRefuse
    <3>1. CASE wframe.type = "data"
      <4>1. Stuck(r)
        BY <1>33, <1>21, <2>2, <3>1, RefusedStuck
      <4> QED
        BY <1>21, <4>1 DEF Stuck, WriterRefuse, userVars
    <3>2. CASE wframe.type # "data"
      BY <1>35, <1>21, <3>2 DEF WriterRefuse, Fatal
    <3> QED
      BY <3>1, <3>2
  <2> QED
    BY <2>1, <2>2
<1>22. CASE WriterReset
  <2>1. CASE wreq # r
    <3>1. Rests(r) /\ status'[r] = status[r]
      BY <1>22, <2>1, WritesOther
    <3> QED
      BY <1>37, <3>1
  <2>2. CASE wreq = r
    <3>0. AtHand(r) /\ wframe.id = sid[r]
      BY <1>22, <2>2, WriterOwner DEF WriterReset
    <3>1. Purge(TRUE, sid[r]) /\ streams \in [Ids -> Reqs \cup {NoReq}]
      BY <1>0, <1>22, <3>0 DEF WriterReset, UserTypes
    <3> QED
      BY <1>0, <1>35, <3>1, PurgeIf
  <2> QED
    BY <2>1, <2>2
<1>23. CASE ReadFrame
  <2>1. QuietFor(r)
    BY <1>0, <1>31, <1>32, <1>23 DEF QuietFor, StreamTypes, ReadFrame, engineVars, userVars,
         statusVars, queueVars, writeVars, downVars
  <2> QED
    BY <1>38, <2>1
<1>24. CASE ReadMatch
  <2>1. QuietFor(r)
    BY <1>0, <1>31, <1>32, <1>24 DEF QuietFor, StreamTypes, ReadMatch, engineVars, userVars,
         statusVars, queueVars, writeVars, wireVars, downVars
  <2> QED
    BY <1>38, <2>1
<1>25. CASE ReadResponse
  <2>0. rreq \in Reqs /\ (rreq = r => rframe.id = sid[r])
    BY <1>25, ReaderOwner DEF ReadResponse
  <2>1. CASE rreq # r
    <3>1. QuietFor(r)
      BY <1>0, <1>31, <1>32, <1>25, <2>1 DEF QuietFor, StreamTypes, ReadResponse, Assign,
           ReaderDone, Deliver, statusVars, queueVars, writeVars, wireVars, downVars
    <3> QED
      BY <1>38, <3>1
  <2>2. CASE rreq = r
    <3> DEFINE to == AfterRead(rseen, rframe)
    <3>1. /\ Assign(r, rseen, to) /\ Purge(to = "Closed", sid[r]) /\ rseen \in {"Open", "HalfClosedLocal"}
          /\ UNCHANGED <<sid, todo, message, cacheMap, lastSendId, wpc, wframe, wire, down>>
      BY <1>25, <2>0, <2>2 DEF ReadResponse, queueVars, writeVars, wireVars, downVars
    <3>2. Rests(r)
      BY <1>31, <1>34, <3>1 DEF Rests, WaitingOf, AtHand, InHand
    <3>3. to = rseen \/ to = IF rseen = "Open" THEN "HalfClosedRemote" ELSE "Closed"
      BY DEF AfterRead
    <3> HIDE DEF to
    <3>4. CASE to = rseen
      <4>1. status' = status
        BY <3>1, <3>4 DEF Assign, statusVars
      <4> QED
        BY <1>37, <3>2, <4>1
    <3>5. CASE to # rseen /\ status[r] = "HalfClosedLocal"
      <4>1. rseen = "HalfClosedLocal"
        BY <1>35, <3>1, <3>5 DEF Assign
      <4>2. to = "Closed"
        BY <3>3, <3>5, <4>1
      <4>3. Purge(TRUE, sid[r]) /\ streams \in [Ids -> Reqs \cup {NoReq}]
        BY <1>0, <3>1, <4>2 DEF UserTypes
      <4> QED
        BY <1>0, <1>35, <4>3, PurgeIf
    <3>6. CASE status[r] # "HalfClosedLocal"
      BY <1>37, <3>2, <3>6
    <3> QED
      BY <3>4, <3>5, <3>6
  <2> QED
    BY <2>1, <2>2
<1>26. CASE ReadRefuse
  <2>1. QuietFor(r)
    BY <1>0, <1>31, <1>32, <1>26 DEF QuietFor, StreamTypes, ReadRefuse, Fatal, ReaderDone,
         engineVars, userVars, statusVars, writeVars, wireVars
  <2> QED
    BY <1>38, <2>1
<1>27. CASE ReadReset
  <2>0. rreq \in Reqs /\ (rreq = r => rframe.id = sid[r])
    BY <1>27, ReaderOwner DEF ReadReset
  <2>1. CASE rreq # r
    <3>1. QuietFor(r)
      BY <1>0, <1>31, <1>32, <1>27, <2>1 DEF QuietFor, StreamTypes, ReadReset, ReaderDone,
           userVars, queueVars, writeVars, wireVars, downVars
    <3> QED
      BY <1>38, <3>1
  <2>2. CASE rreq = r
    <3>1. Purge(TRUE, sid[r]) /\ streams \in [Ids -> Reqs \cup {NoReq}]
      BY <1>0, <1>27, <2>0, <2>2 DEF ReadReset, UserTypes
    <3> QED
      BY <1>0, <1>35, <3>1, PurgeIf
  <2> QED
    BY <2>1, <2>2
<1>28. CASE UNCHANGED vars
  <2>1. QuietFor(r)
    BY <1>32, <1>28 DEF QuietFor, vars, engineVars, userVars, statusVars, queueVars, writeVars,
         readVars, wireVars, downVars
  <2> QED
    BY <1>38, <2>1
<1> QED
  BY <1>1, <1>2, <1>3, <1>4, <1>5, <1>6, <1>7, <1>8, <1>9, <1>10, <1>11, <1>12, <1>13, <1>14,
       <1>15, <1>16, <1>17, <1>18, <1>19, <1>20, <1>21, <1>22, <1>23, <1>24, <1>25, <1>26, <1>27,
       <1>28 DEF Next, Requesting, Writing, Reading, Shutting

\* A request that starts to write has its end before it.
LEMMA StartEnds ==
  ASSUME StreamInv, Untouched, Causes, NEW r \in Reqs, OpenConn(r) \/ WriteFails(r)
  PROVE  Ends(r)'
<1>0. TypeOK /\ Numbers /\ Unique /\ AllKnown
  BY DEF StreamInv, CountInv
<1>1. /\ upc[r] = "open" /\ upc'[r] \in {"write", "failed"} /\ input'[r] = "open"
      /\ UNCHANGED <<sid, srv, cause, streams, overwritten, rpc, rframe, down>>
  <2>1. UserTypes /\ StreamTypes
    BY <1>0 DEF TypeOK, UserTypes, StreamTypes
  <2> QED
    BY <2>1 DEF UserTypes, StreamTypes, OpenConn, WriteFails, User, engineVars, statusVars, readVars, wireVars, downVars
<1>2. sid[r] \in Ids /\ ~ Known(sid[r])
  <2>1. sid[r] # 0 /\ sid[r] \in Ids \cup {0} /\ upc[r] \notin Started
    BY <1>0, <1>1 DEF Numbers, TypeOK, Started
  <2> QED
    BY <1>0, <2>1 DEF Known, Unique
<1>3. ~ OnRead(r)'
  BY <1>0, <1>1, <1>2 DEF OnRead, AllKnown
<1>4. Quits(r)' /\ AllWrote(r)' /\ LastRead(r)'
  BY <1>1, <1>3 DEF Quits, AllWrote, LastRead
<1>5. Answered(r)' \/ Exempt(r)'
  <2>1. CASE srv[sid[r]] = "idle"
    BY <1>1, <2>1 DEF Answered
  <2>2. CASE srv[sid[r]] # "idle"
    <3>1. down >= 3
      BY <1>2, <2>2 DEF Untouched
    <3>2. down > 0
      BY <1>0, <3>1 DEF TypeOK
    <3> QED
      BY <1>1, <3>2 DEF Causes, Exempt, Lost
  <2> QED
    BY <2>1, <2>2
<1>6. Asked(r)'
  <2>1. CASE WriteFails(r)
    BY <1>0, <2>1 DEF WriteFails, User, Asked, Asks, TypeOK
  <2>2. CASE OpenConn(r)
    <3>1. PICK kind \in Kinds : todo' = [todo EXCEPT ![r] = Written(kind, sid[r])]
      BY <2>2 DEF OpenConn
    <3>2. todo'[r] = Written(kind, sid[r])
      BY <1>0, <3>1 DEF TypeOK
    <3>3. \E f \in Range(Written(kind, sid[r])) : f.end
      <4>1. ASSUME NEW st
            PROVE  LET W == Range(Written(kind, sid[r])) IN Follow(W, W, None, st) /\ \E f \in W : f.end
        BY <1>2, WrittenFollows
      <4> QED
        BY <4>1
    <3>4. Rest(r)' = Range(todo'[r])
      BY StartKeeps
    <3> QED
      BY <3>2, <3>3, <3>4 DEF Asked, EndToCome
  <2> QED
    BY <2>1, <2>2
<1> QED
  BY <1>4, <1>5, <1>6 DEF Ends

\* So every step keeps what is known of the ends of the streams.
LEMMA NextEnds == StreamInv /\ FrameInv /\ EndInv /\ [Next]_vars => EndInv'
<1> SUFFICES ASSUME StreamInv, FrameInv, EndInv, [Next]_vars PROVE EndInv'
  OBVIOUS
<1>0. TypeOK /\ Numbers /\ Untouched /\ Causes
  BY DEF StreamInv, CountInv, FrameInv, EndInv
<1>1. Causes'
  BY <1>0, NextCauses
<1>2. ASSUME NEW r \in Reqs, Begins(r)' PROVE Ends(r)'
  <2>1. CASE Begins(r)
    <3>1. Kept(r) /\ Ends(r)
      BY <2>1 DEF FrameInv, EndInv
    <3>2. Quits(r)' /\ AllWrote(r)' /\ LastRead(r)'
      BY <1>0, <2>1, <3>1, NextQuits, NextAllWrote, NextLastRead DEF Ends
    <3>3. CASE Exempt(r)
      BY <1>0, <2>1, <3>2, <3>3, NextExempt DEF Ends
    <3>4. CASE ~ Exempt(r)
      <4>1. Answered(r)' \/ Exempt(r)'
        BY <1>0, <2>1, <3>1, <3>4, NextAnswered DEF Ends
      <4>2. Asked(r)' \/ Exempt(r)'
        BY <1>0, <2>1, <3>1, <3>4, NextAsked DEF Ends
      <4> QED
        BY <3>2, <4>1, <4>2 DEF Ends
    <3> QED
      BY <3>3, <3>4
  <2>2. CASE OpenConn(r) \/ WriteFails(r)
    BY <1>0, <2>2, StartEnds
  <2> QED
    BY <1>0, <1>2, <2>1, <2>2, NextBegins
<1> QED
  BY <1>1, <1>2 DEF EndInv

\* A stream that both sides have ended has left the map, whichever thread ended
\* its half last, unless one thread assigned its status over the other's.
THEOREM EndedStreamsLeave == FirstAlone => (Spec => []EndedIsPurged)
<1> SUFFICES ASSUME FirstAlone PROVE Spec => []EndedIsPurged
  OBVIOUS
<1>1. Init => EndInv
  BY DEF Init, EndInv, Causes, Begins
<1>2. StreamInv /\ FrameInv /\ EndInv => EndedIsPurged
  <2> SUFFICES ASSUME StreamInv, FrameInv, EndInv, cause = "none", rpc = "read", wpc = "take",
                      NEW r \in Reqs, r \notin overwritten, AllWritten(r), srv[sid[r]] = "done",
                      streams[sid[r]] = r
               PROVE  FALSE
    BY DEF EndedIsPurged
  <2>1. Begins(r) /\ upc[r] \in {"wait", "done"}
    BY DEF StreamInv, CountInv, Numbers, AllWritten, Begins, Started
  <2>2. Ends(r) /\ ~ Lost(r) /\ ~ Exempt(r)
    BY <2>1 DEF EndInv, Lost, Exempt
  <2>3. ~ AtHand(r) /\ InHand(r) = {} /\ ~ OnRead(r)
    BY DEF AtHand, InHand, OnRead
  <2>4. /\ \A f \in Range(control) : f.id # sid[r]
        /\ \A f \in Range(message) : f.id # sid[r]
    BY DEF AllWritten, Range
  <2>5. ~ ResetComes(r)
    BY <2>3, <2>4 DEF ResetComes
  <2>6. status[r] = "HalfClosedRemote" /\ input[r] # "quit"
    BY <2>2, <2>3, <2>5 DEF Ends, Answered, Quits
  <2>7. EndToCome(r)
    BY <2>1, <2>2, <2>6 DEF Ends, Asked, Asks, Stuck, AllWritten
  <2>8. Rest(r) = {}
    <3>1. CachedOf(r) = {}
      BY EmptyRange DEF CachedOf, AllWritten
    <3>2. ToWrite(r) = {}
      BY <2>1, <2>2, EmptyRange DEF Ends, AllWrote, ToWrite
    <3>3. WaitingOf(r) = {}
      BY <2>4 DEF WaitingOf
    <3> QED
      BY <3>1, <3>2, <3>3 DEF Rest
  <2> QED
    BY <2>3, <2>7, <2>8 DEF EndToCome
<1>3. (StreamInv /\ FrameInv) /\ EndInv /\ [Next]_vars => EndInv'
  BY NextEnds
<1>4. Spec => [](StreamInv /\ FrameInv)
  BY FramesLineUp
<1> QED
  BY <1>1, <1>2, <1>3, <1>4, PTL DEF Spec
=============================================================================
