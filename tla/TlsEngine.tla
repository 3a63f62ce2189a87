----------------------------- MODULE TlsEngine -----------------------------
(* The calls with which the stream of stdx.net.tls runs OpenSSL over two     *)
(* windows of memory: net/tls/native/tls_bio.c and the engine's part of      *)
(* net/tls/native/tls-impl.c. The stream hands over the encrypted bytes it   *)
(* has received and the room it has for encrypted bytes to send; a call says *)
(* how much of each was used. OpenSSL itself is external: its records are    *)
(* two pieces of data (2k-1, 2k: record k) or one negative control piece.    *)
EXTENDS Integers, SequencesExt

Hello == -1
CloseNotify == -2
Alert == -3
Request == -4 \* to update keys or to negotiate again: whoever reads it answers
Answer == -5

NewSsl == [hs |-> "start", partial |-> <<>>, wpend |-> <<>>, accepted |-> FALSE,
           sent |-> FALSE, rcvd |-> FALSE, broken |-> FALSE]

----------------------------------------------------------------------------
(* tls_bio.c: a window that is read or written from its start.               *)

BioMap(buffer, length, eof) == [buffer |-> buffer, length |-> length, position |-> 0, eof |-> eof]

BioRemaining(bio) == bio.length - bio.position
BioEof(bio) == BioRemaining(bio) = 0 /\ bio.eof

AtMost(a, b) == IF a < b THEN a ELSE b

\* The read callback: bytes, "eof", or "retry" when the window is exhausted.
BioRead(bio, n) ==
  LET batch == AtMost(n, BioRemaining(bio))
  IN  IF BioRemaining(bio) = 0
        THEN [rc |-> IF bio.eof THEN "eof" ELSE "retry", bytes |-> <<>>, bio |-> bio]
        ELSE [rc |-> "ok", bytes |-> SubSeq(bio.buffer, bio.position + 1, bio.position + batch),
              bio |-> [bio EXCEPT !.position = @ + batch]]

\* The write callback: as many bytes as there is room for.
BioWrite(bio, bytes) ==
  LET batch == AtMost(Len(bytes), BioRemaining(bio))
  IN  [bio EXCEPT !.buffer = @ \o SubSeq(bytes, 1, batch), !.position = @ + batch]

----------------------------------------------------------------------------
(* OpenSSL.                                                                  *)

\* Reads from the window until a record is complete: its pieces, or none.
ReadRecord(s, in) ==
  LET got == BioRead(in, Len(in.buffer))
      all == s.partial \o got.bytes
      size == IF all # <<>> /\ Head(all) > 0 THEN 2 ELSE 1
  IN  IF Len(all) < size
        THEN [s |-> [s EXCEPT !.partial = all], in |-> got.bio, record |-> <<>>,
              rc |-> BioRead(got.bio, 1).rc]
        ELSE [s |-> [s EXCEPT !.partial = <<>>], record |-> SubSeq(all, 1, size), rc |-> "ok",
              in |-> [in EXCEPT !.position = @ + size - Len(s.partial)]]

\* Writes what is pending, as far as the window goes.
WritePending(s, out) ==
  LET n == AtMost(Len(s.wpend), BioRemaining(out))
  IN  [s |-> [s EXCEPT !.wpend = SubSeq(@, n + 1, Len(@))], out |-> BioWrite(out, s.wpend)]

\* What a call of OpenSSL leaves: the connection, the windows, its return
\* value, the error SSL_get_error reports for it and the record it delivers.
Outcome(s, in, out, rc, error, record) ==
  [s |-> s, in |-> in, out |-> out, rc |-> rc, error |-> error, record |-> record]

ReadFailure(r, out) ==
  IF r.rc = "retry" THEN Outcome(r.s, r.in, out, -1, "WANT_READ", <<>>)
                    ELSE Outcome([r.s EXCEPT !.broken = TRUE], r.in, out, 0, "SSL", <<>>)

\* Each call is the set of what may come of it.
SSL_do_handshake(s, in, out) ==
  LET begun == IF s.hs = "start" THEN [s EXCEPT !.hs = "hello", !.wpend = <<Hello>>] ELSE s
      answer(w, r) ==
        CASE r.record = <<>> -> ReadFailure(r, w.out)
          [] r.record = <<Hello>> -> Outcome([r.s EXCEPT !.hs = "done"], r.in, w.out, 1, "NONE", <<>>)
          [] OTHER -> Outcome([r.s EXCEPT !.broken = TRUE], r.in, w.out, -1, "SSL", <<>>)
  IN  { IF s.hs = "done" THEN Outcome(s, in, out, 1, "NONE", <<>>)
        ELSE IF w.s.wpend # <<>> THEN Outcome(w.s, in, w.out, -1, "WANT_WRITE", <<>>)
        ELSE answer(w, ReadRecord(w.s, in)) : w \in {WritePending(begun, out)} }

\* A read may have to write: the answer goes out at once, or behind a record
\* that is under way, or, once close_notify was sent, not at all.
Answering(s, out) ==
  CASE s.sent -> [s |-> s, out |-> out]
    [] ~ s.sent /\ s.wpend = <<>> -> WritePending([s EXCEPT !.wpend = <<Answer>>], out)
    [] OTHER -> [s |-> [s EXCEPT !.wpend = Append(@, Answer)], out |-> out]

SSL_read(s, in, out) ==
  LET first == ReadRecord(s, in)
      w == IF first.record = <<Request>> THEN Answering(first.s, out) ELSE [s |-> first.s, out |-> out]
  IN  { CASE s.rcvd -> Outcome(s, in, out, 0, "ZERO_RETURN", <<>>)
          [] ~ s.rcvd /\ s.broken -> Outcome(s, in, out, -1, "SSL", <<>>)
          [] ~ s.rcvd /\ ~ s.broken /\ r.record = <<>> -> ReadFailure(r, w.out)
          [] ~ s.rcvd /\ ~ s.broken /\ r.record = <<CloseNotify>> ->
               Outcome([r.s EXCEPT !.rcvd = TRUE], r.in, w.out, 0, "ZERO_RETURN", <<>>)
          [] OTHER -> IF Head(r.record) > 0 THEN Outcome(r.s, r.in, w.out, 1, "NONE", r.record)
                      ELSE Outcome([r.s EXCEPT !.broken = TRUE], r.in, w.out, -1, "SSL", <<>>) :
        r \in {IF first.record = <<Request>> THEN ReadRecord(w.s, first.in) ELSE first} }

\* A record that was accepted and not yet written is the one a retry writes.
SSL_write(s, in, out, record) ==
  { IF s.sent \/ s.broken THEN Outcome(s, in, out, -1, "SSL", <<>>)
    ELSE IF w.s.wpend # <<>> THEN Outcome(w.s, in, w.out, -1, "WANT_WRITE", <<>>)
    ELSE Outcome([w.s EXCEPT !.accepted = FALSE], in, w.out, 1, "NONE", record) :
    w \in {WritePending(IF s.accepted THEN s
                        ELSE [s EXCEPT !.wpend = @ \o record, !.accepted = TRUE], out)} }

\* Data that comes after our close_notify is an error.
SSL_shutdown(s, in, out) ==
  LET begun == IF s.sent THEN s ELSE [s EXCEPT !.sent = TRUE, !.wpend = @ \o <<CloseNotify>>]
      answer(w, r) ==
        CASE r.record = <<CloseNotify>> -> Outcome([r.s EXCEPT !.rcvd = TRUE], r.in, w.out, 1, "NONE", <<>>)
          [] r.record = <<>> -> ReadFailure(r, w.out)
          [] OTHER -> Outcome([r.s EXCEPT !.broken = TRUE], r.in, w.out, -1, "SSL", <<>>)
  IN  { IF s.hs # "done" \/ s.broken THEN Outcome(s, in, out, -1, "SSL", <<>>)
        ELSE IF w.s.wpend # <<>> THEN Outcome(w.s, in, w.out, -1, "WANT_WRITE", <<>>)
        ELSE IF w.s.rcvd THEN Outcome(w.s, in, w.out, 1, "NONE", <<>>)
        ELSE IF ~ s.sent THEN Outcome(w.s, in, w.out, 0, "NONE", <<>>)
        ELSE answer(w, ReadRecord(w.s, in)) : w \in {WritePending(begun, out)} }

----------------------------------------------------------------------------
(* tls-impl.c: what a call answers to the stream.                            *)

Needs(error) == IF error = "WANT_READ" THEN "NEED_READ" ELSE "NEED_WRITE"
Retries == {"WANT_READ", "WANT_WRITE"}

SslReadFailed(o) == IF o.s.sent \/ (o.rc = 0 /\ BioEof(o.in)) THEN "EOF" ELSE "FAIL"

SslRead(o) ==
  CASE o.rc > 0 -> "OK"
    [] o.error = "ZERO_RETURN" -> "EOF"
    [] o.error \in Retries -> Needs(o.error)
    [] OTHER -> SslReadFailed(o)

SSlWrite(o) ==
  CASE o.rc > 0 -> "OK" [] o.error \in Retries -> Needs(o.error) [] OTHER -> "FAIL"

SslHandshake(o) ==
  CASE o.rc = 1 -> "OK" [] o.error \in Retries -> Needs(o.error) [] OTHER -> "FAIL"

SslShutdown(o) ==
  CASE o.rc = 1 -> "OK"
    [] o.rc = 0 /\ o.error = "NONE" -> IF ~ o.s.sent THEN "NEED_WRITE" ELSE IF ~ o.s.rcvd THEN "NEED_READ" ELSE "OK"
    [] o.error \in Retries -> Needs(o.error)
    [] OTHER -> IF o.s.sent THEN "OK" ELSE "FAIL"

\* Mutant: all that was mapped is taken as used.
CalledAll(o, result) ==
  [s |-> o.s, consumed |-> o.in.length, produced |-> o.out.buffer, record |-> o.record, result |-> result]

\* The four calls: both windows are mapped, OpenSSL runs, both are unmapped and
\* their positions are the counts the stream is given.
Called(o, result) ==
  [s |-> o.s, consumed |-> o.in.position, produced |-> o.out.buffer, record |-> o.record, result |-> result]

MapInputBio(raw, eof) == BioMap(raw, Len(raw), eof)
MapOutputBio(room) == BioMap(<<>>, room, FALSE)

CJ_TLS_DYN_SslHandshake(s, in, out) == {Called(o, SslHandshake(o)) : o \in SSL_do_handshake(s, in, out)}
CJ_TLS_DYN_SslRead(s, in, out) == {Called(o, SslRead(o)) : o \in SSL_read(s, in, out)}
CJ_TLS_DYN_SslWrite(s, in, out, record) == {Called(o, SSlWrite(o)) : o \in SSL_write(s, in, out, record)}
CJ_TLS_DYN_SslShutdown(s, in, out) == {Called(o, SslShutdown(o)) : o \in SSL_shutdown(s, in, out)}

EngineCalls(op, s, in, out, record) ==
  CASE op = "handshake" -> CJ_TLS_DYN_SslHandshake(s, in, out)
    [] op = "read" -> CJ_TLS_DYN_SslRead(s, in, out)
    [] op = "write" -> CJ_TLS_DYN_SslWrite(s, in, out, record)
    [] op = "shutdown" -> CJ_TLS_DYN_SslShutdown(s, in, out)
=============================================================================
