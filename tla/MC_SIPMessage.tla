------------------------------ MODULE MC_SIPMessage ------------------------------
(* Constants for checking SIPMessage.  The header store: as in             *)
(* MC_SIPHeaderStore.  The classification: an INVITE transaction (request, *)
(* its ACK with a lower-case CSeq method, a 180 and a 404 to it), a BYE    *)
(* from an RFC 2543 client without a branch and its 200, a start line that *)
(* passes neither ABNF check, and a packet messageSplit rejects.          *)
EXTENDS SIPMessage, Sequences, TLC

MC_Values == {"x", "y"}
MC_InitLines == << <<1, "x">>, <<2, "">>, <<1, "y">> >>

CONSTANTS Ind, Thr, None

INVITE == <<"I","N","V","I","T","E">>
ACK == <<"A","C","K">>
BYE == <<"B","Y","E">>
SIP == <<"S","I","P","/","2",".","0">>

Req(m) == [kind |-> "request", first |-> m, code |-> 0, c8 |-> "x"]
Status(code) == [kind |-> "status", first |-> SIP, code |-> code, c8 |-> "x"]
Junk == [kind |-> "other", first |-> <<"H","E","L","L","O">>, code |-> 0, c8 |-> "x"]
EmptyLine == [kind |-> "empty", first |-> <<>>, code |-> 0, c8 |-> "ub"]

CSeq(num, m) == <<[num |-> num, method |-> m]>>
Msg(line, cseq, branch, callId, fromTag, toTag) ==
  [line |-> line, cseq |-> cseq, via |-> <<branch>>, callId |-> callId,
   fromTag |-> fromTag, toTag |-> toTag]

Z1 == <<"z","9","1">>
MC_Messages ==
  { Msg(Req(INVITE), CSeq(<<"1">>, INVITE), Z1, <<"a">>, TRUE, FALSE),
    Msg(Req(ACK), CSeq(<<"1">>, <<"A","c","k">>), Z1, <<"a">>, TRUE, TRUE),
    Msg(Status(180), CSeq(<<"1">>, INVITE), Z1, <<"a">>, TRUE, TRUE),
    Msg(Status(404), CSeq(<<"1">>, INVITE), Z1, <<"a">>, TRUE, TRUE),
    Msg(Req(BYE), CSeq(<<"1","2">>, BYE), <<>>, <<"b">>, TRUE, TRUE),
    Msg(Status(200), CSeq(<<"1","2">>, BYE), <<>>, <<"b">>, TRUE, TRUE),
    Msg(Junk, <<>>, <<>>, <<"c">>, FALSE, FALSE),
    [line |-> EmptyLine, cseq |-> <<>>, via |-> <<>>, callId |-> <<>>,
     fromTag |-> FALSE, toTag |-> FALSE] }
MC_Methods == {INVITE, ACK, BYE}
MC_FamilyCodes == {100, 200, 400}
MC_NxxCodes == {0, 404}

(* Reproductions, not in a run: a branch-less BYE whose Call-ID starts     *)
(* with a digit, whose id "bye" + "1" + "2b" is the id of the BYE above    *)
(* ("bye" + "12" + "b"); start lines that pass neither ABNF check but     *)
(* begin like a response ("SIP/2.0 200" without a reason phrase) or a      *)
(* request ("INVITE" without a Request-URI).                               *)
(*                                                                         *)
(* The lock: two threads making two calls each.  Both read the message    *)
(* with getTransactionId and write it with hdrSet; one also answers it     *)
(* with createResponse, the other re-parses it.                            *)
MC_DigitCallIds ==
  MC_Messages \cup {Msg(Req(BYE), CSeq(<<"1">>, BYE), <<>>, <<"2","b">>, TRUE, TRUE)}
MC_MalformedLines ==
  MC_Messages \cup
    {Msg([kind |-> "other", first |-> SIP, code |-> 200, c8 |-> "2"],
         CSeq(<<"1">>, INVITE), Z1, <<"a">>, TRUE, TRUE),
     Msg([kind |-> "other", first |-> INVITE, code |-> 0, c8 |-> "x"],
         CSeq(<<"1">>, INVITE), Z1, <<"a">>, TRUE, FALSE)}

CONSTANTS T1, T2
MC_Threads == {T1, T2}
MC_CallsOf ==
  (T1 :> {"getTransactionId", "createResponse", "hdrSet"}) @@
  (T2 :> {"getTransactionId", "hdrSet", "parse"})

(* Reproductions, not in a run: both threads answering the request (the    *)
(* first isRequest() fills _isRequest under a read lock in both); a       *)
(* thread logging it with createContextId, whose hdrGet copy is made after *)
(* the read lock is released; a thread listing its headers with            *)
(* getHeaderNames, which takes no lock.                                   *)
MC_BothRespond == [t \in MC_Threads |-> MC_CallsOf[T1]]
MC_ContextCalls == [MC_CallsOf EXCEPT ![T1] = @ \cup {"createContextId"}]
MC_HeaderNamesCalls == [MC_CallsOf EXCEPT ![T1] = @ \cup {"getHeaderNames"}]
=============================================================================
