----------------------------- MODULE TlsStream -----------------------------
(* The TLS stream of a socket (net/tls/stream.cj with buffer.cj) above the   *)
(* engine of TlsEngine: one thread shakes hands and writes, one reads, one   *)
(* closes. The five locks are taken in the order read, write, fill, flush,   *)
(* ssl; what happens under sslLock, which is never held across another wait, *)
(* is one action. Peer and network are external: bytes arrive in pieces, the *)
(* peer may stop reading, stop sending or hang up at any time.               *)
EXTENDS TlsEngine, FiniteSets

CONSTANTS BufferSize,      \* BUFFER_SIZE
          SizeLimit,       \* DEFAULT_SIZE_LIMIT
          CompactThreshold,
          Scenarios        \* what may happen: how many records users write and read, whether they
                           \* close, what the peer says at most, and what may go wrong

DataOf(pieces) == SelectSeq(pieces, LAMBDA piece : piece > 0)

ASSUME TlsStreamAssumption ==
  /\ BufferSize \in Nat \ {0} /\ SizeLimit \in Nat /\ SizeLimit >= BufferSize /\ CompactThreshold \in Nat
  /\ \A s \in Scenarios :
       /\ s.writes \in Nat /\ s.reads \in Nat /\ s.closes \in BOOLEAN
       /\ s.faults \subseteq {"hangs up", "stops", "fails"}
       /\ s.says \in Seq(Int) /\ DataOf(s.says) = [i \in 1 .. Len(DataOf(s.says)) |-> i]

VARIABLES readBuffer, writeBuffer, received, ssl, pendingRead, disposed, shutdownStarted,
          \* received: what socket.read returned, to be committed
          locks,           \* readLock, writeLock, fillLock, flushLock: who holds it
          todo,            \* what each thread has left to do, in order
          batch,           \* the bytes of writeBuffer being written to the socket
          timer,           \* the timer of shutdownWithTimeout runs
          sock,            \* the socket: open here, what has arrived, hung up by the peer
          heard, said, deaf, \* the peer: what it has had, sent; it has stopped
          scenario,        \* what may happen in this behaviour
          written, read,   \* records the user has written, has read
          misuse           \* a native call after the native state was freed; a buffer that cannot grow

conn == <<ssl, pendingRead, disposed, shutdownStarted>>
peer == <<heard, said, deaf>>
user == <<written, read, scenario>>
streamVars == <<readBuffer, writeBuffer, received, conn, locks, todo, batch, timer, sock, peer, user, misuse>>

SThreads == {"reader", "writer", "closer"}
Free4 == [l \in {"read", "write", "fill", "flush"} |-> "free"]

----------------------------------------------------------------------------
(* buffer.cj. `array' is the storage; the content is what lies after `start'  *)
(* up to `end'.                                                              *)

NewBuffer == [array |-> [i \in 1 .. BufferSize |-> 0], start |-> 0, end |-> 0, eof |-> FALSE]

Size(b) == Len(b.array)
Data(b) == SubSeq(b.array, b.start + 1, b.end)
HasFreeSpace(b) == b.end < Size(b)

MayCompact(b) == b.start > 0 /\ (b.end - b.start <= CompactThreshold \/ Size(b) - b.end <= CompactThreshold)

Compact(b) == [b EXCEPT !.array = Data(b) \o SubSeq(@, b.end - b.start + 1, Size(b)),
                        !.start = 0, !.end = b.end - b.start]
Compacted(b) == IF MayCompact(b) THEN Compact(b) ELSE b

GrownSize(n) ==
  LET half == (n * 3) \div 2
      more == IF half <= n THEN n * 2 ELSE half
      shifted == (more \div 4) * 4
  IN  AtMost(IF shifted > n THEN shifted ELSE more, SizeLimit)

CanGrow(b) == GrownSize(Size(b)) > Size(b)
Grow(b) == [b EXCEPT !.array = @ \o [i \in 1 .. GrownSize(Size(b)) - Size(b) |-> 0]]

\* Mutant: room is made in the array there is, if there is any to make.
WithSpaceCompacted(b) == IF HasFreeSpace(b) THEN b ELSE IF b.start > 0 THEN Compact(b) ELSE Grow(b)

WithSpace(b) == IF HasFreeSpace(b) THEN b ELSE Grow(b)

Overwrite(b, at, bytes) ==
  [b EXCEPT !.array = [i \in DOMAIN @ |-> IF i > at /\ i <= at + Len(bytes) THEN bytes[i - at] ELSE @[i]]]

----------------------------------------------------------------------------
(* Control.                                                                  *)

At(t, label) == todo[t] # <<>> /\ Head(todo[t]) = label
Goto(t, labels) == todo' = [todo EXCEPT ![t] = labels \o Tail(@)]
Go(t) == Goto(t, <<>>)

\* An exception ends the operation (for close: the attempt to shut down); a
\* handshake flushes once more before it passes the exception on.
Handler(t) ==
  CASE t = "writer" /\ "handshake" \in Range(todo[t]) -> <<"flushCheck", "end">>
    [] OTHER -> SubSeq(todo[t], CHOOSE i \in DOMAIN todo[t] : todo[t][i] = "end", Len(todo[t]))

Raise(t) ==
  /\ todo' = [todo EXCEPT ![t] = Handler(t)]
  /\ locks' = [l \in DOMAIN locks |-> IF locks[l] = t /\ l \in {"fill", "flush"} THEN "free" ELSE locks[l]]

StreamInit ==
  /\ readBuffer = NewBuffer /\ writeBuffer = NewBuffer
  /\ ssl = NewSsl /\ pendingRead = 0 /\ disposed = FALSE /\ shutdownStarted = FALSE
  /\ received = 0 /\ locks = Free4 /\ batch = [from |-> 0, to |-> 0, copy |-> <<>>]
  /\ todo = [t \in SThreads |-> <<>>] /\ timer = FALSE
  /\ sock = [open |-> TRUE, in |-> <<>>, eof |-> FALSE]
  /\ heard = <<>> /\ said = 0 /\ deaf = FALSE
  /\ written = 0 /\ read = <<>> /\ misuse = "none"
  /\ scenario \in Scenarios

----------------------------------------------------------------------------
(* Operations of the user. The socket hands the stream out after the         *)
(* handshake, so reads and writes come later.                                *)

Handshake ==
  /\ ssl = NewSsl /\ todo["writer"] = <<>> /\ ~ shutdownStarted
  /\ todo' = [todo EXCEPT !["writer"] = <<"lockRead", "lockWrite", "handshake", "flushCheck", "end">>]
  /\ UNCHANGED <<readBuffer, writeBuffer, received, conn, locks, batch, timer, sock, peer, user, misuse>>

Write ==
  /\ ssl.hs = "done" /\ todo["writer"] = <<>> /\ written < scenario.writes /\ ~ shutdownStarted
  /\ todo' = [todo EXCEPT !["writer"] = <<"lockWrite", "write", "flushCheck", "end">>]
  /\ UNCHANGED <<readBuffer, writeBuffer, received, conn, locks, batch, timer, sock, peer, user, misuse>>

Read ==
  /\ ssl.hs = "done" /\ todo["reader"] = <<>> /\ Len(read) < scenario.reads /\ ~ shutdownStarted
  /\ todo' = [todo EXCEPT !["reader"] = <<"lockRead", "read", "flush", "end">>]
  /\ UNCHANGED <<readBuffer, writeBuffer, received, conn, locks, batch, timer, sock, peer, user, misuse>>

\* tryStartClose
Close ==
  /\ scenario.closes /\ todo["closer"] = <<>> /\ ~ disposed /\ ~ shutdownStarted
  /\ shutdownStarted' = TRUE
  /\ todo' = [todo EXCEPT !["closer"] = <<"tryWriteLock", "tryReadLock", "dispose", "closeSocket">>]
  /\ UNCHANGED <<readBuffer, writeBuffer, received, ssl, pendingRead, disposed, locks, batch, timer, sock, peer, user, misuse>>

LockFor(label) == IF label \in {"lockRead", "tryReadLock"} THEN "read" ELSE "write"

Lock(t) ==
  /\ At(t, "lockRead") \/ At(t, "lockWrite")
  /\ LET l == LockFor(Head(todo[t]))
     IN  locks[l] = "free" /\ locks' = [locks EXCEPT ![l] = t]
  /\ Go(t)
  /\ UNCHANGED <<readBuffer, writeBuffer, received, conn, batch, timer, sock, peer, user, misuse>>

\* readLock and writeLock are let go; close also cancels its timer.
End(t) ==
  /\ At(t, "end")
  /\ locks' = [l \in DOMAIN locks |-> IF locks[l] = t THEN "free" ELSE locks[l]]
  /\ timer' = IF t = "closer" THEN FALSE ELSE timer
  /\ Go(t)
  /\ UNCHANGED <<readBuffer, writeBuffer, received, conn, batch, sock, peer, user, misuse>>

----------------------------------------------------------------------------
(* Native calls, under sslLock.                                              *)

\* Mutant: only a shutdown that has begun is looked at.
RefusedLate(op) == op \in {"handshake", "write"} /\ shutdownStarted

\* tryRead and tryShutdown look at disposed alone, the others at
\* shutdownStarted too.
Refused(op) == disposed \/ (op \in {"handshake", "write"} /\ shutdownStarted)

\* What a native call may answer: the window for output is what is free after
\* growing the buffer if it is full.
Calls(op) ==
  LET out == WithSpace(writeBuffer)
  IN  EngineCalls(op, ssl, MapInputBio(Data(readBuffer), readBuffer.eof), MapOutputBio(Size(out) - out.end),
                  <<2 * written + 1, 2 * written + 2>>)

\* tryIO: what the call used and made is counted off and added.
TryIO(call) ==
  LET out == WithSpace(writeBuffer)
  IN  /\ ssl' = call.s
      /\ readBuffer' = [readBuffer EXCEPT !.start = @ + call.consumed]
      /\ writeBuffer' = [Overwrite(out, out.end, call.produced) EXCEPT !.end = @ + Len(call.produced)]
      /\ pendingRead' = IF call.result = "NEED_READ" THEN pendingRead + 1 ELSE pendingRead
      \* socket.write keeps the array it was given when the buffer takes another.
      /\ batch' = IF Size(out) = Size(writeBuffer) \/ batch.copy # <<>> THEN batch
                  ELSE [batch EXCEPT !.copy = SubSeq(writeBuffer.array, batch.from + 1, batch.to)]
      /\ misuse' = IF disposed THEN "freed" ELSE misuse
      /\ UNCHANGED <<received, disposed, shutdownStarted, timer, sock, peer, locks>>

Full == ~ HasFreeSpace(writeBuffer) /\ ~ CanGrow(writeBuffer)

\* The thread gets no native call: the stream is closed or its buffer is full
\* at its limit.
Thrown(t) ==
  /\ \E op \in {"read", "write", "handshake", "shutdown"} :
       /\ At(t, op)
       /\ \/ Refused(op) /\ op # "shutdown"
          \/ ~ Refused(op) /\ Full
       /\ misuse' = IF Refused(op) THEN misuse ELSE "full"
  /\ Raise(t)
  /\ UNCHANGED <<readBuffer, writeBuffer, received, conn, batch, timer, sock, peer, user>>

Calling(t, op) == At(t, op) /\ ~ Refused(op) /\ ~ Full

\* What is called again, after a flush and, if bytes are missing, a fill.
Again(result, flush, op) ==
  CASE result = "NEED_READ" -> <<flush, "fill", op>>
    [] result = "NEED_WRITE" -> <<flush, op>>
    [] OTHER -> <<>>

TryRead(t) ==
  /\ Calling(t, "read")
  /\ \E call \in Calls("read") :
       /\ TryIO(call)
       /\ Goto(t, Again(call.result, "flush", "read"))
       /\ read' = IF call.result = "OK" THEN Append(read, call.record) ELSE read
       /\ UNCHANGED <<written, scenario>>

TryWrite(t) ==
  /\ Calling(t, "write")
  /\ \E call \in Calls("write") :
       /\ TryIO(call)
       /\ Goto(t, Again(call.result, "flushCheck", "write"))
       /\ written' = IF call.result = "OK" THEN written + 1 ELSE written
       /\ UNCHANGED <<read, scenario>>

TryHandshake(t) ==
  /\ Calling(t, "handshake")
  /\ \E call \in Calls("handshake") :
       /\ TryIO(call)
       /\ todo' = [todo EXCEPT ![t] =
                    CASE call.result = "OK" -> Tail(@)
                      [] call.result \in {"NEED_READ", "NEED_WRITE"} -> <<"flushCheck", "fill">> \o @
                      [] OTHER -> <<"flushCheck", "end">>]
       /\ UNCHANGED user

\* While the peer's answer is awaited a shutdown fills as well when it has
\* only to write; a stream that was disposed of meanwhile is shut down.
TryShutdown(t) ==
  \/ /\ At(t, "shutdown") /\ disposed /\ Go(t)
     /\ UNCHANGED <<readBuffer, writeBuffer, received, conn, locks, batch, timer, sock, peer, user, misuse>>
  \/ /\ Calling(t, "shutdown")
     /\ \E call \in Calls("shutdown") :
          /\ TryIO(call)
          /\ todo' = [todo EXCEPT ![t] =
                       CASE call.result \in {"NEED_READ", "NEED_WRITE"} -> <<"flush", "fill">> \o @
                         [] call.result = "FAIL" -> Handler(t)
                         [] OTHER -> Tail(@)]
          /\ UNCHANGED user

----------------------------------------------------------------------------
(* flush: writeBuffer goes to the socket, one thread at a time.              *)

\* flush() refuses a disposed stream and leaves one that is being closed.
FlushCheck(t) ==
  /\ At(t, "flushCheck")
  /\ IF disposed THEN Raise(t)
     ELSE Goto(t, IF shutdownStarted THEN <<>> ELSE <<"flush">>) /\ UNCHANGED locks
  /\ UNCHANGED <<readBuffer, writeBuffer, received, conn, batch, timer, sock, peer, user, misuse>>

\* The lock is taken with the first look at what there is to write; nobody
\* asks whether flushLock (fillLock) is held without waiting for it.
GetOutgoingBatch(t) ==
  /\ At(t, "flush") /\ locks["flush"] \in {"free", t}
  /\ IF disposed \/ Data(writeBuffer) = <<>>
       THEN /\ locks' = [locks EXCEPT !["flush"] = "free"] /\ Go(t)
            /\ UNCHANGED <<writeBuffer, batch>>
       ELSE /\ writeBuffer' = Compacted(writeBuffer)
            /\ batch' = [from |-> writeBuffer'.start, to |-> writeBuffer'.end, copy |-> <<>>]
            /\ locks' = [locks EXCEPT !["flush"] = t]
            /\ Goto(t, <<"send">>)
  /\ UNCHANGED <<readBuffer, received, conn, timer, sock, peer, user, misuse>>

SocketWrite(t) ==
  /\ At(t, "send") /\ sock.open /\ ~ deaf
  /\ heard' = heard \o (IF batch.copy # <<>> THEN batch.copy
                        ELSE SubSeq(writeBuffer.array, batch.from + 1, batch.to))
  /\ Goto(t, <<"commitWritten">>)
  /\ UNCHANGED <<readBuffer, writeBuffer, received, conn, locks, batch, timer, sock, said, deaf, user, misuse>>

\* A failed write disposes of the stream and closes the socket.
SocketWriteFailed(t) ==
  /\ At(t, "send")
  /\ disposed' = TRUE /\ shutdownStarted' = TRUE /\ pendingRead' = 0
  /\ sock' = [sock EXCEPT !.open = FALSE]
  /\ Raise(t)
  /\ UNCHANGED <<readBuffer, writeBuffer, received, ssl, batch, timer, peer, user, misuse>>

CommitWritten(t) ==
  /\ At(t, "commitWritten")
  /\ writeBuffer' = [writeBuffer EXCEPT !.start = @ + batch.to - batch.from]
  /\ batch' = [from |-> 0, to |-> 0, copy |-> <<>>]
  /\ Goto(t, <<"flush">>)
  /\ UNCHANGED <<readBuffer, received, conn, locks, timer, sock, peer, user, misuse>>

----------------------------------------------------------------------------
(* fill: the socket is read into readBuffer, by one thread at a time.        *)

FillDone(t) == locks' = [locks EXCEPT !["fill"] = "free"] /\ Go(t)

\* ifReadNeeded: only one thread claims what several asked for.
IfReadNeeded(t) ==
  /\ At(t, "fill") /\ locks["fill"] \in {"free", t}
  /\ \/ disposed /\ Raise(t) /\ UNCHANGED <<readBuffer, pendingRead, misuse>>
     \/ ~ disposed /\ pendingRead = 0 /\ FillDone(t) /\ UNCHANGED <<readBuffer, pendingRead, misuse>>
     \/ /\ ~ disposed /\ pendingRead > 0 /\ pendingRead' = 0
        /\ LET b == Compacted(readBuffer)
           IN  IF HasFreeSpace(b) \/ CanGrow(b)
                 THEN /\ readBuffer' = WithSpace(b) /\ locks' = [locks EXCEPT !["fill"] = t]
                      /\ Goto(t, <<"recv">>) /\ UNCHANGED misuse
                 ELSE readBuffer' = b /\ Raise(t) /\ misuse' = "full"
  /\ UNCHANGED <<writeBuffer, received, ssl, disposed, shutdownStarted, batch, timer, sock, peer, user>>

\* The socket gives some of the bytes that have arrived, or the end of file.
SocketRead(t) ==
  /\ At(t, "recv") /\ sock.open
  /\ \/ \E n \in 1 .. AtMost(Size(readBuffer) - readBuffer.end, Len(sock.in)) :
          /\ readBuffer' = Overwrite(readBuffer, readBuffer.end, SubSeq(sock.in, 1, n))
          /\ sock' = [sock EXCEPT !.in = SubSeq(@, n + 1, Len(@))]
          /\ received' = n
     \/ /\ sock.in = <<>> /\ sock.eof /\ received' = 0
        /\ UNCHANGED <<readBuffer, sock>>
  /\ Goto(t, <<"commitRead">>)
  /\ UNCHANGED <<writeBuffer, conn, locks, batch, timer, peer, user, misuse>>

\* A failed read may be tried again.
SocketReadFailed(t) ==
  /\ At(t, "recv")
  /\ pendingRead' = IF ~ disposed /\ ~ shutdownStarted THEN pendingRead + 1 ELSE pendingRead
  /\ Raise(t)
  /\ UNCHANGED <<readBuffer, writeBuffer, received, ssl, disposed, shutdownStarted, batch, timer, sock,
                 peer, user, misuse>>

CommitRead(t) ==
  /\ At(t, "commitRead")
  /\ IF received = 0
       THEN readBuffer' = [readBuffer EXCEPT !.eof = TRUE] /\ FillDone(t)
       ELSE readBuffer' = [readBuffer EXCEPT !.end = @ + received] /\ Goto(t, <<"fill">>) /\ UNCHANGED locks
  /\ received' = 0
  /\ UNCHANGED <<writeBuffer, conn, batch, timer, sock, peer, user, misuse>>

----------------------------------------------------------------------------
(* close                                                                     *)

\* Mutant: the shutdown is tried without a timer.
TryLockUntimed(t) ==
  /\ At(t, "tryWriteLock") \/ At(t, "tryReadLock")
  /\ LET l == LockFor(Head(todo[t]))
     IN  IF locks[l] = "free"
           THEN /\ locks' = [locks EXCEPT ![l] = t] /\ Goto(t, <<"shutdown", "flush", "end">>)
           ELSE Go(t) /\ UNCHANGED locks
  /\ UNCHANGED <<readBuffer, writeBuffer, received, conn, batch, timer, sock, peer, user, misuse>>

\* One attempt to shut down under writeLock, one under readLock, each if the
\* lock is free, each with a timer that closes the socket.
TryLock(t) ==
  /\ At(t, "tryWriteLock") \/ At(t, "tryReadLock")
  /\ LET l == LockFor(Head(todo[t]))
     IN  IF locks[l] = "free"
           THEN /\ locks' = [locks EXCEPT ![l] = t] /\ timer' = TRUE
                /\ Goto(t, <<"shutdown", "flush", "end">>)
           ELSE Go(t) /\ UNCHANGED <<locks, timer>>
  /\ UNCHANGED <<readBuffer, writeBuffer, received, conn, batch, sock, peer, user, misuse>>

TimerFires ==
  /\ timer /\ timer' = FALSE
  /\ sock' = [sock EXCEPT !.open = FALSE]
  /\ UNCHANGED <<readBuffer, writeBuffer, received, conn, locks, todo, batch, peer, user, misuse>>

\* closeImpl frees the connection, the counters and the exception.
CloseImpl(t) ==
  /\ At(t, "dispose")
  /\ disposed' = TRUE /\ shutdownStarted' = TRUE
  /\ pendingRead' = IF disposed THEN pendingRead ELSE 0
  /\ Go(t)
  /\ UNCHANGED <<readBuffer, writeBuffer, received, ssl, locks, batch, timer, sock, peer, user, misuse>>

CloseSocket(t) ==
  /\ At(t, "closeSocket")
  /\ sock' = [sock EXCEPT !.open = FALSE]
  /\ Go(t)
  /\ UNCHANGED <<readBuffer, writeBuffer, received, conn, locks, batch, timer, peer, user, misuse>>

----------------------------------------------------------------------------
(* The peer.                                                                 *)

\* It says its hello once it has heard ours, then the rest of what it has to say.
PeerSends ==
  /\ sock.open /\ ~ sock.eof /\ ~ deaf /\ said < Len(scenario.says) /\ heard # <<>>
  /\ sock' = [sock EXCEPT !.in = Append(@, scenario.says[said + 1])]
  /\ said' = said + 1
  /\ UNCHANGED <<readBuffer, writeBuffer, received, conn, locks, todo, batch, timer, heard, deaf, user, misuse>>

PeerHangsUp ==
  /\ "hangs up" \in scenario.faults /\ sock.open /\ ~ sock.eof /\ ~ deaf /\ sock' = [sock EXCEPT !.eof = TRUE]
  /\ UNCHANGED <<readBuffer, writeBuffer, received, conn, locks, todo, batch, timer, peer, user, misuse>>

\* It neither reads nor answers any more; nobody is told.
PeerStops ==
  /\ "stops" \in scenario.faults /\ sock.open /\ ~ sock.eof /\ ~ deaf /\ deaf' = TRUE
  /\ UNCHANGED <<readBuffer, writeBuffer, received, conn, locks, todo, batch, timer, sock, heard, said, user, misuse>>

----------------------------------------------------------------------------
StreamStep(t) ==
  \/ Lock(t) \/ End(t) \/ Thrown(t) \/ TryRead(t) \/ TryWrite(t) \/ TryHandshake(t) \/ TryShutdown(t)
  \/ FlushCheck(t) \/ GetOutgoingBatch(t) \/ SocketWrite(t) \/ CommitWritten(t)
  \/ IfReadNeeded(t) \/ SocketRead(t) \/ CommitRead(t)
  \/ ~ sock.open /\ (SocketReadFailed(t) \/ SocketWriteFailed(t))
  \/ TryLock(t) \/ CloseImpl(t) \/ CloseSocket(t)

\* A timeout of the socket, or a peer that has reset the connection.
SocketFails(t) == "fails" \in scenario.faults /\ sock.open /\ (SocketReadFailed(t) \/ SocketWriteFailed(t))

StreamNext ==
  \/ \E t \in SThreads : StreamStep(t) \/ SocketFails(t)
  \/ Handshake \/ Write \/ Read \/ Close \/ TimerFires
  \/ PeerSends \/ PeerHangsUp \/ PeerStops

\* Threads that can run run, and timers fire; users and peers need do nothing.
StreamFairness == (\A t \in SThreads : WF_streamVars(StreamStep(t))) /\ WF_streamVars(TimerFires)

StreamSpec == StreamInit /\ [][StreamNext]_streamVars /\ StreamFairness

----------------------------------------------------------------------------
(* Properties.                                                               *)

RecordOf(i) == <<2 * i - 1, 2 * i>>
Records(n) == [i \in 1 .. n |-> RecordOf(i)]

RecordsIn(pieces) == Records(Len(DataOf(pieces)) \div 2)

Arrived ==
  LET pieces == DataOf(heard)
  IN  [i \in 1 .. Len(pieces) \div 2 |-> <<pieces[2 * i - 1], pieces[2 * i]>>]

\* The records the peer has sent.
Sent == RecordsIn(SubSeq(scenario.says, 1, said))

Pipes == INSTANCE TlsPipes WITH
  Record <- {RecordOf(i) : i \in 1 .. Max({s.writes + Len(s.says) : s \in Scenarios})},
  written <- Records(written + (IF ssl.accepted THEN 1 ELSE 0)),
  arrived <- Arrived, sent <- Sent, read <- read

\* Whatever the buffers, the partial writes and the threads do, records reach
\* the other side unchanged, in order and once (stream.cj's buffers are shared
\* by the native code, socket.read and socket.write without a common lock).
StreamIsTwoPipes == Pipes!PipesSpec

\* No native call uses the state closeImpl freed, and no operation finds a
\* buffer that is full at its limit (grow() throws then, under sslLock).
NeverMisused == misuse = "none"

\* Once close was called every operation returns, those included that were
\* blocked in the socket or in one of the five locks.
ClosedReleasesAll == shutdownStarted ~> \A t \in SThreads : todo[t] = <<>>

\* A read whose record has been sent delivers it, unless the stream ends.
Ended == shutdownStarted \/ disposed \/ ssl.broken \/ ~ sock.open
Waiting(n) == todo["reader"] # <<>> /\ Len(read) < n /\ Len(Sent) >= n
ReadDelivers == \A n \in 1 .. Max({s.reads : s \in Scenarios}) : Waiting(n) ~> (~ Waiting(n) \/ Ended \/ deaf)
=============================================================================
