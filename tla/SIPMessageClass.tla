--------------------------- MODULE SIPMessageClass ---------------------------
(***************************************************************************)
(* How a SIPMessage (src/sipparser/SIPMessage.cpp) classifies itself:      *)
(* isRequest, isResponse, isResponseTo, isResponseFamily, isErrorResponse, *)
(* isFinalResponse, is1xx..is6xx, isMidDialog and getTransactionId, with   *)
(* the two boost::tribool caches _isRequest and _isResponse they fill.     *)
(*                                                                         *)
(* A start line is a record: its kind ("request" and "status" pass the     *)
(* RFC 3261 ABNF check of requestLineVerify and statusLineVerify, "other"  *)
(* passes neither, "empty" is the empty string), its first token, the      *)
(* status code it begins with after "SIP/2.0 " (0 if none) and c8, the     *)
(* character at index 8 of a line that is not a status line: "x" for any  *)
(* non-digit, or "ub" when the line is shorter than 9 characters.          *)
(* Method names, CSeq numbers, branches and Call-IDs are sequences of      *)
(* characters, because the code compares them by prefix, by suffix and    *)
(* case-insensitively and builds the transaction id by concatenation.      *)
(* Each call is one step: the const methods take no lock and the model    *)
(* has one thread.                                                         *)
(***************************************************************************)
EXTENDS Naturals, Sequences, SequencesExt

CONSTANTS
  Messages,     \* the packets parse() is given, as records (see MC)
  Methods,      \* method names callers pass to isRequest and isResponseTo
  FamilyCodes,  \* response codes callers pass to isResponseFamily
  NxxCodes,     \* codes callers pass to is1xx..is6xx; 0 means the class
  Indet,        \* boost::indeterminate
  Throw,        \* a call that throws SIPParserException
  NoArg         \* a call without the optional argument (method == 0)

Lines == {m.line : m \in Messages}
Tri == {TRUE, FALSE, Indet}

VARIABLES
  msg,        \* the headers parse() stored: CSeq, Via, Call-ID, From/To tags
  startLine,  \* _startLine
  isReq,      \* _isRequest
  isResp,     \* _isResponse
  last        \* history: the last call and what it returned

vars == <<msg, startLine, isReq, isResp, last>>

UpperCase == <<"A","B","C","D","E","F","G","H","I","J","K","L","M",
               "N","O","P","Q","R","S","T","U","V","W","X","Y","Z">>
LowerCase == <<"a","b","c","d","e","f","g","h","i","j","k","l","m",
               "n","o","p","q","r","s","t","u","v","w","x","y","z">>

\* boost::to_lower and OSS::string_to_lower, character by character.
LowerChar(ch) ==
  IF \E i \in 1..26 : UpperCase[i] = ch
  THEN LowerCase[CHOOSE i \in 1..26 : UpperCase[i] = ch] ELSE ch
Lower(s) == [i \in 1..Len(s) |-> LowerChar(s[i])]

RequestLineVerify(l) == l.kind = "request"
StatusLineVerify(l) == l.kind = "status"

DigitChar(d) == <<"0","1","2","3","4","5","6","7","8","9">>[d + 1]

\* _startLine[8]: the code's hundreds digit on a status line.
Char8(l) == IF l.kind = "status" THEN DigitChar(l.code \div 100) ELSE l.c8

\* What _startLine[8] reads: past the end of a short line any byte.
Read8 == IF Char8(startLine) = "ub" THEN {DigitChar(d) : d \in 0..9} \cup {"x"}
                                    ELSE {Char8(startLine)}

\* string_starts_with(_startLine, "SIP/2.0 " + code): the decimal digits
\* of code begin the line's code.
StartsWithCode(l, code) == l.code # 0 /\ \E d \in 0..2 : l.code \div (10^d) = code

CSeqText(m) == m.cseq[1].num \o <<" ">> \o m.cseq[1].method

\* A call's answer, and the caches it leaves.
Ans(res, req, resp) == [res |-> res, req |-> req, resp |-> resp]

\* isRequest(method): with a method, a case-insensitive prefix test that
\* leaves the cache alone; without, the cache or the ABNF checks.
IsRequest(m) ==
  CASE m # NoArg -> Ans(IsPrefix(Lower(m), Lower(startLine.first)), isReq, isResp)
    [] isReq # Indet -> Ans(isReq, isReq, isResp)
    [] startLine.kind = "empty" -> Ans(FALSE, isReq, isResp)
    [] RequestLineVerify(startLine) -> Ans(TRUE, TRUE, isResp)
    [] ~StatusLineVerify(startLine) -> Ans(Indet, isReq, isResp)
    [] OTHER -> Ans(FALSE, FALSE, isResp)

IsResponse ==
  CASE isResp # Indet -> Ans(isResp, isReq, isResp)
    [] startLine.kind = "empty" -> Ans(Throw, isReq, isResp)
    [] StatusLineVerify(startLine) -> Ans(TRUE, isReq, TRUE)
    [] ~RequestLineVerify(startLine) -> Ans(Indet, isReq, isResp)
    [] OTHER -> Ans(FALSE, isReq, FALSE)

\* isResponseTo(method): if (!_isResponse) is taken only for a cached false,
\* so an unverified cache is never filled here; a response is then tested
\* by string_ends_with on the lower-cased CSeq.
IsResponseTo(m) ==
  LET resp == IF isResp = FALSE THEN StatusLineVerify(startLine) ELSE isResp
  IN CASE startLine.kind = "empty" -> Ans(FALSE, isReq, isResp)
       [] resp = TRUE ->
            Ans(IF msg.cseq = <<>> THEN Indet
                ELSE IsSuffix(Lower(m), Lower(CSeqText(msg))), isReq, resp)
       [] ~RequestLineVerify(startLine) -> Ans(Indet, isReq, resp)
       [] OTHER -> Ans(FALSE, isReq, FALSE)

\* The response tests call isResponse(); if (!checkReponse) returns only a
\* definite false (and an exception passes through), so an indeterminate
\* answer goes on to read _startLine[8], here c, and the answer is whether
\* it is one of the digits the test accepts.
OnResponse(digits, c) ==
  LET r == IsResponse
  IN IF r.res \in {FALSE, Throw} THEN r ELSE [r EXCEPT !.res = c \in digits]

IsResponseFamily(code, c) ==
  OnResponse(IF code \in 100..699 THEN {DigitChar(code \div 100)} ELSE {}, c)
\* Mutant: isErrorResponse counts '2' too, as isFinalResponse does.
IsErrorResponseWithSuccess(c) ==
  OnResponse({"2", "3", "4", "5", "6"}, c)
IsErrorResponse(c) == OnResponse({"3", "4", "5", "6"}, c)
IsFinalResponse(c) == OnResponse({"2", "3", "4", "5", "6"}, c)

\* is1xx(code) .. is6xx(code): the class test for code 0, otherwise a
\* prefix test that ignores which of the six was called.
IsNxx(n, code, c) ==
  IF code = 0 THEN IsResponseFamily(100 * n, c)
  ELSE Ans(StartsWithCode(startLine, code), isReq, isResp)

IsMidDialog ==
  Ans(CASE msg.fromTag /\ msg.toTag -> TRUE
        [] msg.fromTag -> FALSE
        [] OTHER -> Indet, isReq, isResp)

\* getTransactionId(id, method): the method (from the CSeq unless given),
\* lower-cased with ack folded to invite, then the CSeq number, then the
\* Via branch or, without one, the Call-ID, concatenated as strings.
AckAsInvite(s) == IF s = <<"a","c","k">> THEN <<"i","n","v","i","t","e">> ELSE s
Fail == [ok |-> FALSE, id |-> <<>>]

GetTransactionId(m, arg) ==
  IF m.via = <<>> \/ m.callId = <<>> \/ m.cseq = <<>> THEN Fail
  ELSE LET method == IF arg = NoArg THEN m.cseq[1].method ELSE arg
           branch == m.via[1]
       IN IF method = <<>> \/ m.cseq[1].num = <<>> THEN Fail
          ELSE [ok |-> TRUE,
                id |-> AckAsInvite(Lower(method)) \o m.cseq[1].num
                       \o (IF branch = <<>> THEN m.callId ELSE branch)]
------------------------------------------------------------------------------
(* The calls.  parse() clears both caches with the rest of the message;    *)
(* the const queries change only the caches.                              *)

\* Mutant: parse() leaves _isRequest as it was.
ParseKeepCache(m) ==
  /\ msg' = m
  /\ startLine' = m.line
  /\ isResp' = Indet
  /\ last' = [op |-> "parse", arg |-> NoArg, res |-> NoArg]
  /\ UNCHANGED isReq

\* parse(data): the reset, then _startLine from the first line (the empty
\* string when messageSplit fails), then the headers.
Parse(m) ==
  /\ msg' = m
  /\ startLine' = m.line
  /\ isReq' = Indet /\ isResp' = Indet
  /\ last' = [op |-> "parse", arg |-> NoArg, res |-> NoArg]

Call(op, arg, a) ==
  /\ isReq' = a.req /\ isResp' = a.resp
  /\ last' = [op |-> op, arg |-> arg, res |-> a.res]
  /\ UNCHANGED <<msg, startLine>>

\* setStartLine(line): assigns _startLine under the write lock and leaves
\* both caches as they were.
SetStartLine(l) ==
  /\ startLine' = l
  /\ last' = [op |-> "setStartLine", arg |-> NoArg, res |-> NoArg]
  /\ UNCHANGED <<msg, isReq, isResp>>

\* SIPMessage(packet): the constructor parses the packet.
Init ==
  /\ \E m \in Messages : msg = m /\ startLine = m.line
  /\ isReq = Indet /\ isResp = Indet
  /\ last = [op |-> "parse", arg |-> NoArg, res |-> NoArg]

Query ==
  \/ \E a \in Methods \cup {NoArg} : Call("isRequest", a, IsRequest(a))
  \/ Call("isResponse", NoArg, IsResponse)
  \/ \E a \in Methods : Call("isResponseTo", a, IsResponseTo(a))
  \/ \E c \in Read8 :
       \/ \E code \in FamilyCodes :
            Call("isResponseFamily", code, IsResponseFamily(code, c))
       \/ Call("isErrorResponse", NoArg, IsErrorResponse(c))
       \/ Call("isFinalResponse", NoArg, IsFinalResponse(c))
       \/ \E n \in 1..6, code \in NxxCodes :
            Call("isNxx", <<n, code>>, IsNxx(n, code, c))
  \/ Call("isMidDialog", NoArg, IsMidDialog)
  \/ \E a \in Methods \cup {NoArg} :
       Call("getTransactionId", a,
            Ans(GetTransactionId(msg, a).ok, isReq, isResp))

\* The message as this repository uses it: set by parse, then queried.
Next == (\E m \in Messages : Parse(m)) \/ Query
Spec == Init /\ [][Next]_vars

\* With the public setStartLine as well.
NextSetStartLine == Next \/ \E l \in Lines : SetStartLine(l)
SpecSetStartLine == Init /\ [][NextSetStartLine]_vars

------------------------------------------------------------------------------
(* Properties.                                                             *)

TypeOK ==
  /\ msg \in Messages /\ startLine \in Lines
  /\ isReq \in Tri /\ isResp \in Tri
  /\ last.res \in BOOLEAN \cup {Indet, Throw, NoArg}

\* A definite cache holds what the ABNF check says of the current start
\* line: parse() clears what an earlier message left, and no query caches
\* a wrong answer (a cache is consistent with its source, or empty).
CacheMatchesStartLine ==
  /\ isReq \in BOOLEAN => isReq = RequestLineVerify(startLine)
  /\ isResp \in BOOLEAN => isResp = StatusLineVerify(startLine)

\* The specification's reading of each query on the current message.
IsStatus == StatusLineVerify(startLine)
Truth(op, arg) ==
  CASE op = "isRequest" ->
         RequestLineVerify(startLine)
         /\ (arg = NoArg \/ Lower(arg) = Lower(startLine.first))
    [] op = "isResponse" -> IsStatus
    [] op = "isResponseTo" ->
         IsStatus /\ Lower(arg) = Lower(msg.cseq[1].method)
    [] op = "isResponseFamily" ->
         IsStatus /\ arg \in 100..699 /\ startLine.code \div 100 = arg \div 100
    [] op = "isErrorResponse" -> IsStatus /\ startLine.code >= 300
    [] op = "isFinalResponse" -> IsStatus /\ startLine.code >= 200
    [] op = "isNxx" ->
         IsStatus /\ IF arg[2] = 0 THEN startLine.code \div 100 = arg[1]
                                   ELSE startLine.code = arg[2]

\* Every definite answer of isRequest, isResponse, isResponseTo, the
\* response-class tests and is1xx..is6xx is right for the message as it
\* is now, whatever the cached tribools were filled by earlier calls.
AnswersMatchStartLine ==
  last.op \in {"isRequest", "isResponse", "isResponseTo", "isResponseFamily",
               "isErrorResponse", "isFinalResponse", "isNxx"}
  /\ last.res \in BOOLEAN
  => last.res = Truth(last.op, last.arg)

\* The transaction a request or response belongs to, as RFC 3261 17.2.3
\* and the specification's canonical key name it: the method with ACK
\* counted as INVITE, the CSeq number, and the branch or else the Call-ID,
\* kept apart.
Origin(m) == IF m.via[1] # <<>> THEN <<"branch", m.via[1]>>
                                 ELSE <<"call-id", m.callId>>
SameTransaction(m1, m2) ==
  /\ AckAsInvite(Lower(m1.cseq[1].method)) = AckAsInvite(Lower(m2.cseq[1].method))
  /\ m1.cseq[1].num = m2.cseq[1].num
  /\ Origin(m1) = Origin(m2)

\* getTransactionId gives the message held now the id of another message
\* exactly when the two belong to the same transaction: the ACK of an
\* INVITE shares its id, a retransmission too, and no two transactions
\* collide in the concatenated string.
KeysSeparateTransactions ==
  \A m \in Messages :
    GetTransactionId(msg, NoArg).ok /\ GetTransactionId(m, NoArg).ok =>
      (GetTransactionId(msg, NoArg).id = GetTransactionId(m, NoArg).id
         <=> SameTransaction(msg, m))

\* A message is never classified both a request and a response: the
\* specification's "either Request xor Response", and the two caches.
RequestXorResponse == ~(isReq = TRUE /\ isResp = TRUE)
==============================================================================
