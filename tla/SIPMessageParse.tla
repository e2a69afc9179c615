--------------------------- MODULE SIPMessageParse ---------------------------
(***************************************************************************)
(* The SIP message parser of src/sipparser/SIPMessage.cpp as operators.    *)
(*                                                                         *)
(* A byte is abstracted to the class the parser tells apart: CR, LF, SP,   *)
(* HT, ":", the letter "l" (the compact name of Content-Length), the       *)
(* letter "a" (any other token character), the digits "0" and "1", "CTL"   *)
(* (any other control byte) and "HIGH" (a byte above 0x7F).  Strings are   *)
(* sequences of these classes.                                             *)
(*                                                                         *)
(* Parse is SIPMessage::parse (the datagram parser, also called by the     *)
(* stream parser when the header terminator arrives); ConsumeOne and       *)
(* Consume are the byte-wise stream parser used for TCP, TLS and WS.       *)
(***************************************************************************)
EXTENDS Naturals, Sequences, SequencesExt

CR == "CR"
LF == "LF"
SP == "SP"
HT == "HT"
COLON == ":"

Bytes == {CR, LF, SP, HT, COLON, "l", "a", "0", "1", "CTL", "HIGH"}
Digits == {"0", "1"}

\* ABNF primitives: isChar is US-ASCII, isCtl is the RFC CTL class
\* %x00-1F / %x7F (so it contains CR, LF and HT).
IsChar(c) == c # "HIGH"
IsCtl(c) == c \in {CR, LF, HT, "CTL"}
\* ::isspace / boost::trim
IsSpace(c) == c \in {SP, HT, CR, LF}
\* Mutant: a junk test that forgets LF.
IsJunkNoLF(c) == ~IsChar(c) \/ c = CR
\* bytes the parser drops before a start line
IsJunk(c) == ~IsChar(c) \/ c = CR \/ c = LF

\* The parser states of SIPMessage::_consumeState.
ConsumeStates == {"IDLE", "START_LINE_PARSE", "EXPECTING_NEW_LINE_1",
                  "HEADER_LINE_START", "HEADER_LWS", "HEADER_NAME",
                  "HEADER_VALUE", "EXPECTING_NEW_LINE_2",
                  "EXPECTING_NEW_LINE_3", "EXPECTING_BODY"}

\* A boost::tribool result.
Indeterminate == "indeterminate"
Tribool(b) == IF b THEN "true" ELSE "false"

------------------------------------------------------------------------------
(* String helpers.                                                         *)

RECURSIVE DropSpace(_)
DropSpace(s) == IF s # <<>> /\ IsSpace(Head(s)) THEN DropSpace(Tail(s)) ELSE s

RECURSIVE DropJunk(_)
DropJunk(s) == IF s # <<>> /\ IsJunk(Head(s)) THEN DropJunk(Tail(s)) ELSE s

Trim(s) == Reverse(DropSpace(Reverse(DropSpace(s))))

\* std::string::find: the first index of pat in s, 0 when absent.
Find(s, pat) ==
  LET I == {i \in 1..(Len(s) - Len(pat) + 1) :
              SubSeq(s, i, i + Len(pat) - 1) = pat}
  IN IF I = {} THEN 0 ELSE Min(I)

\* boost::char_separator on "\r\n": the maximal runs of non CR/LF bytes.
RECURSIVE SplitLines(_, _)
SplitLines(s, cur) ==
  IF s = <<>>
  THEN IF cur = <<>> THEN <<>> ELSE <<cur>>
  ELSE IF Head(s) \in {CR, LF}
       THEN (IF cur = <<>> THEN <<>> ELSE <<cur>>) \o SplitLines(Tail(s), <<>>)
       ELSE SplitLines(Tail(s), Append(cur, Head(s)))

\* atoi: optional leading white space, then the longest run of digits.
RECURSIVE DigitsValue(_, _)
DigitsValue(s, acc) ==
  IF s # <<>> /\ Head(s) \in Digits
  THEN DigitsValue(Tail(s), 10 * acc + (IF Head(s) = "1" THEN 1 ELSE 0))
  ELSE acc
Atoi(s) == DigitsValue(DropSpace(s), 0)

------------------------------------------------------------------------------
(* SIPMessage::parse and the functions it calls.                           *)

\* messageSplit: the header block and the body, split at the first blank
\* line (CRLFCRLF, else CRCR, else LFLF).  The leading junk is already gone.
MessageSplit(m) ==
  LET at4 == Find(m, <<CR, LF, CR, LF>>)
      at2 == IF Find(m, <<CR, CR>>) # 0 THEN Find(m, <<CR, CR>>)
                                        ELSE Find(m, <<LF, LF>>)
      off == IF at4 # 0 THEN at4 ELSE at2
      blen == IF at4 # 0 THEN 4 ELSE 2
  IN IF off = 0
     THEN [headers |-> m, body |-> <<>>]
     ELSE [headers |-> SubSeq(m, 1, off - 1),
           body |-> SubSeq(m, off + blen, Len(m))]

\* headerTokenize: a line starting with white space continues the previous
\* line; the previous line is popped and replaced by the joined one.  When
\* there is no previous line the pop_back is on an empty list, which is
\* undefined behaviour: "ub" records that it happened.
HeaderTokenize(block) ==
  LET Fold(acc, cur) ==
        IF IsSpace(Head(cur))
        THEN LET joined == Trim(acc.prev) \o <<SP>> \o Trim(cur)
             IN [lines |-> Append(Front(acc.lines), joined),
                 prev |-> joined,
                 ub |-> acc.ub \/ acc.lines = <<>>]
        ELSE [lines |-> Append(acc.lines, cur), prev |-> cur, ub |-> acc.ub]
  IN FoldLeft(Fold, [lines |-> <<>>, prev |-> <<>>, ub |-> FALSE],
              SplitLines(block, <<>>))

\* hdrGetExpandedForm followed by boost::to_lower: the map key of a name.
HeaderKey(name) ==
  CASE name = <<"l">> -> <<"content-length">>
    [] name = <<"a">> -> <<"accept-contact">>
    [] OTHER          -> name

\* The header lines, stored as in parse(): a line without ':' goes to the
\* bad headers; a name seen first gets the next offset (its index in the
\* sequence) and its raw name; a repeated name appends its value.
StoreHeaders(lines) ==
  LET Store(acc, line) ==
        LET c == Find(line, <<COLON>>)
            name == Trim(SubSeq(line, 1, c - 1))
            value == Trim(SubSeq(line, c + 1, Len(line)))
            key == HeaderKey(name)
            at == SelectInSeq(acc.headers, LAMBDA h : h.key = key)
        IN CASE c = 0 -> [acc EXCEPT !.bad = Append(@, line)]
             [] at = 0 -> [acc EXCEPT !.headers =
                             Append(@, [key |-> key, raw |-> name,
                                        values |-> <<value>>])]
             [] OTHER -> [acc EXCEPT !.headers[at].values = Append(@, value)]
  IN FoldLeft(Store, [headers |-> <<>>, bad |-> <<>>], lines)

\* hdrGet(name, 0): the first value of the header with this key, or "".
HdrGet(headers, key) ==
  LET at == SelectInSeq(headers, LAMBDA h : h.key = key)
  IN IF at = 0 THEN <<>> ELSE headers[at].values[1]

\* The fields parse() sets from a successful split.
ParsedHeaders(p, d, body, tok, stored) ==
  [p EXCEPT !.data = d, !.startLine = Head(tok.lines),
            !.headers = stored.headers, !.bad = stored.bad,
            !.body = body, !.expectedBodyLen = 0, !.finalized = TRUE,
            !.ub = p.ub \/ tok.ub]

\* parse() after messageSplit: tok is headerTokenize's result and body the
\* body messageSplit cut off; the first line is the start line, the others
\* are stored.  No lines means messageSplit failed and the fields stay reset.
ParsedFields(p, d, body, tok) ==
  IF tok.lines = <<>>
  THEN [p EXCEPT !.data = d, !.startLine = <<>>, !.body = <<>>,
                 !.headers = <<>>, !.bad = <<>>, !.expectedBodyLen = 0,
                 !.finalized = TRUE]
  ELSE ParsedHeaders(p, d, body, tok, StoreHeaders(Tail(tok.lines)))

\* SIPMessage::parse(data) applied to the message record p: the fields it
\* resets, the junk it erases from the data, and the parsed message.
ParseSplit(p, d, split) ==
  ParsedFields(p, d, split.body, HeaderTokenize(split.headers))
ParseFrom(p, d) == ParseSplit(p, d, MessageSplit(d))

Parse(p) ==
  IF p.data = <<>> THEN p
  ELSE ParseFrom(p, DropJunk(p.data))

\* commitData: the start line, then every non-empty value of every header
\* in offset order as "raw: value", a blank line and the body.
CommitData(p) ==
  LET Line(h, v) == h.raw \o <<COLON, SP>> \o v \o <<CR, LF>>
      HeaderLines(h) ==
        FoldLeft(LAMBDA acc, v : IF v = <<>> THEN acc ELSE acc \o Line(h, v),
                 <<>>, h.values)
  IN p.startLine \o <<CR, LF>>
       \o FoldLeft(LAMBDA acc, h : acc \o HeaderLines(h), <<>>, p.headers)
       \o <<CR, LF>> \o p.body

------------------------------------------------------------------------------
(* The stream parser.                                                      *)

\* A SIPMessage as built by the default constructor.
NewMessage ==
  [cs |-> "IDLE", data |-> <<>>, idle |-> 0, body |-> <<>>,
   expectedBodyLen |-> 0, finalized |-> TRUE, startLine |-> <<>>,
   headers |-> <<>>, bad |-> <<>>, ub |-> FALSE]

\* The message built by parse(string) for a datagram.
ParseDatagram(bytes) ==
  Parse([NewMessage EXCEPT !.data = bytes, !.finalized = FALSE])

Step(p, r) == [p |-> p, result |-> r]
Push(p, c) == [p EXCEPT !.data = Append(@, c)]

\* Mutant: a Content-Length of 1 is taken as no body (> 1 for > 0).
HeadersEndLengthOffByOne(q, clen) ==
  IF clen # <<>> /\ Atoi(clen) > 1
  THEN Step([q EXCEPT !.expectedBodyLen = Atoi(clen), !.cs = "EXPECTING_BODY",
                      !.finalized = FALSE], Indeterminate)
  ELSE Step([q EXCEPT !.expectedBodyLen = IF clen # <<>> THEN Atoi(clen) ELSE @],
            Tribool(q.finalized))

\* consumeOne at the blank line, after parse() built q: a positive
\* Content-Length (atoi) starts the body, otherwise the message is done
\* with the result parse() left in _finalized.
HeadersEndLength(q, clen) ==
  IF clen # <<>> /\ Atoi(clen) > 0
  THEN Step([q EXCEPT !.expectedBodyLen = Atoi(clen), !.cs = "EXPECTING_BODY",
                      !.finalized = FALSE], Indeterminate)
  ELSE Step([q EXCEPT !.expectedBodyLen = IF clen # <<>> THEN Atoi(clen) ELSE @],
            Tribool(q.finalized))
HeadersEnd(q) == HeadersEndLength(q, HdrGet(q.headers, <<"content-length">>))

\* SIPMessage::consumeOne: one byte through the parser state machine.
ConsumeOne(p0, c) ==
  LET p == IF p0.cs = "IDLE" /\ ~IsJunk(c)
           THEN [p0 EXCEPT !.data = <<>>, !.cs = "START_LINE_PARSE"]
           ELSE p0
      Go(st) == Step([Push(p, c) EXCEPT !.cs = st], Indeterminate)
  IN CASE p.cs = "IDLE" ->
            Step([p EXCEPT !.idle = @ + 1], Indeterminate)
       [] p.cs = "START_LINE_PARSE" ->
            CASE c = CR -> Go("EXPECTING_NEW_LINE_1")
              [] ~IsChar(c) \/ IsCtl(c) -> Step(p, "false")
              [] OTHER -> Go(p.cs)
       [] p.cs = "EXPECTING_NEW_LINE_1" ->
            IF c = LF THEN Go("HEADER_LINE_START") ELSE Step(p, "false")
       [] p.cs = "HEADER_LINE_START" ->
            CASE c = CR -> Go("EXPECTING_NEW_LINE_3")
              [] c \in {SP, HT} -> Go("HEADER_LWS")
              [] ~IsChar(c) \/ IsCtl(c) -> Step(p, "false")
              [] OTHER -> Go("HEADER_NAME")
       [] p.cs = "HEADER_LWS" ->
            CASE c = CR -> Go("EXPECTING_NEW_LINE_2")
              [] c \in {SP, HT} -> Go("HEADER_LWS")
              [] IsCtl(c) -> Step(p, "false")
              [] OTHER -> Go("HEADER_VALUE")
       [] p.cs = "HEADER_NAME" ->
            CASE c = COLON -> Go("HEADER_VALUE")
              [] ~IsChar(c) \/ IsCtl(c) -> Step(p, "false")
              [] OTHER -> Go(p.cs)
       [] p.cs = "HEADER_VALUE" ->
            CASE c = CR -> Go("EXPECTING_NEW_LINE_2")
              [] ~IsChar(c) \/ IsCtl(c) -> Step(p, "false")
              [] OTHER -> Go(p.cs)
       [] p.cs = "EXPECTING_NEW_LINE_2" ->
            IF c = LF THEN Go("HEADER_LINE_START") ELSE Step(p, "false")
       [] p.cs = "EXPECTING_NEW_LINE_3" ->
            IF c # LF THEN Step(Push(p, c), "false")
            ELSE HeadersEnd(Parse(Push(p, c)))
       [] p.cs = "EXPECTING_BODY" ->
            LET q == [p EXCEPT !.body = Append(@, c)]
            IN IF Len(q.body) < q.expectedBodyLen
               THEN Step(q, Indeterminate)
               ELSE Step([q EXCEPT !.data = CommitData(q), !.finalized = TRUE],
                         "true")

\* SIPMessage::consume(begin, end): bytes through consumeOne until one
\* gives a definite result; "stop" is how many bytes it took.
RECURSIVE ConsumeLoop(_, _, _)
\* the rest of the loop after consumeOne returned s for byte i
ConsumeNext(s, buf, i) ==
  IF s.result = Indeterminate THEN ConsumeLoop(s.p, buf, i + 1)
  ELSE [p |-> s.p, result |-> s.result, stop |-> i]
ConsumeLoop(p, buf, i) ==
  IF i > Len(buf) THEN [p |-> p, result |-> Indeterminate, stop |-> Len(buf)]
  ELSE ConsumeNext(ConsumeOne(p, buf[i]), buf, i)
Consume(p0, buf) == ConsumeLoop([p0 EXCEPT !.finalized = FALSE], buf, 1)

=============================================================================
