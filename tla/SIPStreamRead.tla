---------------------------- MODULE SIPStreamRead ----------------------------
(***************************************************************************)
(* A stream connection (TCP, TLS, WS) carrying SIP messages, read with     *)
(* SIPMessage::read (src/sipparser/SIPMessage.cpp).                        *)
(*                                                                         *)
(* The peer appends whole messages (or CRLF keep-alives) to the byte       *)
(* stream; the network makes the bytes readable one at a time; the reader  *)
(* calls read() on the current SIPMessage whenever bytes are readable.     *)
(* read() takes at most BufSize bytes per readsome, feeds them to consume  *)
(* and, when a message completes inside the buffer, seeks the stream back  *)
(* to the first byte it did not use.  A completed message is handed up and *)
(* a fresh SIPMessage reads the rest; a parse error closes the connection. *)
(***************************************************************************)
EXTENDS SIPMessageParse, FiniteSets

CONSTANTS
  Messages,  \* the byte strings the peer may send, one per send
  MaxSends,  \* how many sends the peer makes at most
  BufSize    \* the size of read()'s buffer (1024 in the code)

ASSUME Messages \subseteq Seq(Bytes) /\ MaxSends \in Nat /\ BufSize \in Nat \ {0}

VARIABLES
  stream,    \* every byte the peer has sent, in order
  sent,      \* the sends, in order
  avail,     \* how many bytes of stream have arrived
  pos,       \* the read position of the std::istream
  msg,       \* the SIPMessage being filled by read()
  received,  \* the messages read() completed, in order
  closed,    \* the reader gave up on the connection after a parse error
  lastRead   \* what the last read() call returned and how far it moved

vars == <<stream, sent, avail, pos, msg, received, closed, lastRead>>

\* What a completed message is, as the upper layer sees it.
View(p) == [startLine |-> p.startLine, headers |-> p.headers,
            bad |-> p.bad, body |-> p.body, ub |-> p.ub]

\* A send made of keep-alive bytes only carries no message.
IsKeepAlive(m) == \A i \in 1..Len(m) : IsJunk(m[i])
SentMessages == SelectSeq(sent, LAMBDA m : ~IsKeepAlive(m))

------------------------------------------------------------------------------

\* SIPMessage::read(strm, totalRead).  Each round reads up to BufSize of
\* the readable bytes (readsome); no bytes ends the call with FALSE; a
\* complete message ends it with TRUE after seeking back to the end of the
\* message and subtracting that offset from totalRead; a parse error ends
\* it with FALSE and totalRead = 0; otherwise it reads on.
ReadSize(at) == IF avail - at < BufSize THEN avail - at ELSE BufSize
ReadBuffer(at) == SubSeq(stream, at + 1, at + ReadSize(at))

RECURSIVE ReadRound(_, _, _)

\* Mutant: read() without the seekg back to the end of the message.
ReadOutcomeNoSeekBack(c, at, n, total) ==
  CASE c.result = "true" ->
         [p |-> c.p, pos |-> at + n, totalRead |-> total + n, ret |-> "true"]
    [] c.result = "false" ->
         [p |-> c.p, pos |-> at + n, totalRead |-> 0, ret |-> "false"]
    [] OTHER -> ReadRound(c.p, at + n, total + n)

\* What read() does with consume's result c for the n bytes read at at.
ReadOutcome(c, at, n, total) ==
  CASE c.result = "true" /\ c.stop < n ->
         [p |-> c.p, pos |-> at + c.stop, totalRead |-> total + n - c.stop,
          ret |-> "true"]
    [] c.result = "true" ->
         [p |-> c.p, pos |-> at + n, totalRead |-> total + n, ret |-> "true"]
    [] c.result = "false" ->
         [p |-> c.p, pos |-> at + n, totalRead |-> 0, ret |-> "false"]
    [] OTHER -> ReadRound(c.p, at + n, total + n)

\* Mutant: read() returns indeterminate when the stream runs dry, as its
\* comment there says would ask the upper layer for more bytes.
ReadRoundTribool(p, at, total) ==
  IF ReadSize(at) = 0
  THEN [p |-> p, pos |-> at, totalRead |-> total, ret |-> Indeterminate]
  ELSE ReadOutcome(Consume(p, ReadBuffer(at)), at, ReadSize(at), total)

\* One round of read()'s loop: readsome, then consume.
ReadRound(p, at, total) ==
  IF ReadSize(at) = 0
  THEN [p |-> p, pos |-> at, totalRead |-> total, ret |-> "false"]
  ELSE ReadOutcome(Consume(p, ReadBuffer(at)), at, ReadSize(at), total)

ReadMessage(p0) == ReadRound(p0, pos, 0)

\* The reader of a stream connection: it calls read() when bytes are
\* readable; a TRUE result hands the message up and starts a new
\* SIPMessage, FALSE with totalRead = 0 is a parse error and drops the
\* connection, any other FALSE waits for more bytes.
\* read() is called when the connection is open and bytes are readable.
ReadGuard == ~closed /\ avail > pos

Read ==
  /\ ReadGuard
  /\ \E r \in {ReadMessage(msg)} :
        /\ pos' = r.pos
        /\ lastRead' = [ret |-> r.ret, totalRead |-> r.totalRead,
                        consumed |-> r.pos - pos]
        /\ IF r.ret = "true"
           THEN /\ received' = Append(received, View(r.p))
                /\ msg' = NewMessage
                /\ UNCHANGED closed
           ELSE /\ msg' = r.p
                /\ closed' = (r.totalRead = 0)
                /\ UNCHANGED received
  /\ UNCHANGED <<stream, sent, avail>>

\* The peer sends one more message or keep-alive.
Send ==
  /\ Len(sent) < MaxSends
  /\ \E m \in Messages :
       /\ stream' = stream \o m
       /\ sent' = Append(sent, m)
  /\ UNCHANGED <<avail, pos, msg, received, closed, lastRead>>

\* One more byte of the stream arrives.
Arrive ==
  /\ avail < Len(stream)
  /\ avail' = avail + 1
  /\ UNCHANGED <<stream, sent, pos, msg, received, closed, lastRead>>

Init ==
  /\ stream = <<>>
  /\ sent = <<>>
  /\ avail = 0
  /\ pos = 0
  /\ msg = NewMessage
  /\ received = <<>>
  /\ closed = FALSE
  /\ lastRead = [ret |-> "false", totalRead |-> 0, consumed |-> 0]

Next == Read \/ Send \/ Arrive

\* TCP delivers what was sent, and the I/O service calls read() whenever
\* the socket is readable.  The second conjunct is WF_vars(Read) with
\* ENABLED <<Read>>_vars written as ReadGuard: every round of read() takes
\* at least one byte, so a Read step always moves pos.
Fairness == WF_vars(Arrive) /\ ([]<>~ReadGuard \/ []<><<Read>>_vars)

Spec == Init /\ [][Next]_vars /\ Fairness

------------------------------------------------------------------------------
(* Properties.                                                             *)

TypeOK ==
  /\ stream \in Seq(Bytes)
  /\ avail \in 0..Len(stream)
  /\ pos \in 0..avail
  /\ msg.cs \in ConsumeStates
  /\ closed \in BOOLEAN
  /\ lastRead.ret \in {"true", "false"}

\* Framing (spec 4.1 and scenario S6): the messages read() completes are,
\* in order, exactly the messages the peer sent, each as the datagram
\* parser reads it from its own bytes: no byte of one message leaks into
\* the next, whatever the chunking by readsome and the seek-back in read().
ReceivedMatchesSent ==
  /\ Len(received) <= Len(SentMessages)
  /\ \A i \in 1..Len(received) :
       received[i] = View(ParseDatagram(SentMessages[i]))

\* A connection carrying only well-formed messages is never dropped by a
\* parse error in consumeOne.
NoValidMessageRejected == ~closed

\* parse() never folds a line onto a previous line that does not exist
\* (headerTokenize's pop_back on an empty list), neither for the message
\* being read nor for any message read() completed.
NoUndefinedBehaviour ==
  ~msg.ub /\ \A i \in 1..Len(received) : ~received[i].ub

\* read() documents that totalRead is the number of bytes it processed:
\* when it returns TRUE that is how far it moved the stream.
TotalReadIsConsumed == lastRead.ret = "true" => lastRead.totalRead = lastRead.consumed

\* Every message the peer sends is eventually handed up by read().
AllMessagesRead ==
  \A n \in 1..MaxSends :
    (Len(SentMessages) >= n) ~> (Len(received) >= n)

=============================================================================
