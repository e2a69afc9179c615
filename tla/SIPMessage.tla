------------------------------ MODULE SIPMessage ------------------------------
(***************************************************************************)
(* One SIPMessage object (src/sipparser/SIPMessage.cpp), seen through     *)
(* three of its parts:                                                     *)
(*   - the header store: _headers, the hdr* mutators and commitData        *)
(*     (SIPHeaderStore);                                                   *)
(*   - the classification of the start line and the headers, with its     *)
(*     tribool caches (SIPMessageClass);                                   *)
(*   - the readers-writer lock _rwlock and the calls that take it, run by  *)
(*     several threads (SIPMessageLock).                                   *)
(* Each part abstracts the packet differently (a list of header lines; a  *)
(* record of start line, CSeq, Via and Call-ID; the locations a call      *)
(* reads and writes), so a behaviour follows one part, named by entry,    *)
(* and the other parts stay as the constructor left them.  No call of one *)
(* part reads what a call of another part changes.                        *)
(***************************************************************************)
EXTENDS Naturals

CONSTANTS
  NumKeys, Values, Empty, InitLines, MaxIndex, MaxOps, IndexOnAbsent,
  Messages, Methods, FamilyCodes, NxxCodes, Indet, Throw, NoArg,
  Threads, CallsOf, MaxCalls, WriterPreferring

VARIABLES
  entry,  \* "store", "class" or "lock"
  headers, headerOffSet, finalized, data, created, ops,
  msg, startLine, isReq, isResp, last,
  op, pc, readers, writer, waiting, cached, calls

svars == <<headers, headerOffSet, finalized, data, created, ops>>
cvars == <<msg, startLine, isReq, isResp, last>>
lvars == <<op, pc, readers, writer, waiting, cached, calls>>
vars == <<entry, svars, cvars, lvars>>

Store == INSTANCE SIPHeaderStore
Class == INSTANCE SIPMessageClass
Lock == INSTANCE SIPMessageLock

\* The classification as the constructor leaves it for one packet.
ClassIdle ==
  /\ msg = CHOOSE m \in Messages : TRUE
  /\ startLine = msg.line
  /\ isReq = Indet /\ isResp = Indet
  /\ last = [op |-> "parse", arg |-> NoArg, res |-> NoArg]

Init ==
  \/ entry = "store" /\ Store!Init /\ ClassIdle /\ Lock!Init
  \/ entry = "class" /\ Class!Init /\ Store!Init /\ Lock!Init
  \/ entry = "lock" /\ Lock!Init /\ Store!Init /\ ClassIdle

Next ==
  \/ entry = "store" /\ Store!Next /\ UNCHANGED <<entry, cvars, lvars>>
  \/ entry = "class" /\ Class!Next /\ UNCHANGED <<entry, svars, lvars>>
  \/ entry = "lock" /\ Lock!Next /\ UNCHANGED <<entry, svars, cvars>>

\* The threads of the lock part are scheduled fairly (SIPMessageLock).
Fairness ==
  \A t \in Threads :
    WF_vars(entry = "lock" /\ Lock!ThreadStep(t) /\ UNCHANGED <<entry, svars, cvars>>)

Spec == Init /\ [][Next]_vars /\ Fairness

\* The classification with the public setStartLine as well.
SpecSetStartLine ==
  /\ entry = "class" /\ Class!Init /\ Store!Init
  /\ Lock!Init
  /\ [][Class!NextSetStartLine /\ UNCHANGED <<entry, svars, lvars>>]_vars

------------------------------------------------------------------------------
(* Properties: those of the two parts.                                     *)

TypeOK ==
  /\ entry \in {"store", "class", "lock"}
  /\ Store!TypeOK /\ Class!TypeOK /\ Lock!TypeOK

\* commitData writes each header's non-empty values in the order the
\* headers were created, whatever hdr* calls came before.
CommitMatchesInsertionOrder == Store!CommitMatchesInsertionOrder

\* The cached _isRequest and _isResponse, when definite, are what the ABNF
\* checks say of the current start line.
CacheMatchesStartLine == Class!CacheMatchesStartLine

\* Every definite answer of the classification calls is right for the
\* message as it now is.
AnswersMatchStartLine == Class!AnswersMatchStartLine

\* getTransactionId gives two messages one id exactly when they belong to
\* one transaction (an ACK to its INVITE's).
KeysSeparateTransactions == Class!KeysSeparateTransactions

\* No message is classified both a request and a response.
RequestXorResponse == Class!RequestXorResponse

\* No two threads access one field of the message at once with one of them
\* writing, given where each call takes and releases _rwlock (the calls
\* each thread makes are CallsOf).
NoDataRace == Lock!NoDataRace

\* Every call that takes _rwlock returns.
CallsReturn == Lock!CallsReturn
==============================================================================
