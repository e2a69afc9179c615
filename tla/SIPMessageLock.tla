---------------------------- MODULE SIPMessageLock ----------------------------
(***************************************************************************)
(* The readers-writer lock _rwlock of one SIPMessage                       *)
(* (src/src/sipparser/SIPMessage.cpp) and the calls that take it, run by   *)
(* several threads at once.  Each call is the sequence of its lock steps   *)
(* and of its accesses to the fields the lock guards, in the order the     *)
(* code makes them; a thread takes one step at a time, so every           *)
(* interleaving of the calls is a behaviour.  The fields are abstracted to *)
(* three locations: the header map (_headers, _finalized), the             *)
(* classification cache (_isRequest) and the log context (_logContext).   *)
(*                                                                         *)
(* The lock type is declared outside src/.  A read lock is re-entrant for  *)
(* the thread that holds one only when the lock prefers readers; with      *)
(* WriterPreferring a new read lock also waits while a writer waits, as    *)
(* boost::shared_mutex does.                                               *)
(***************************************************************************)
EXTENDS Naturals, Sequences

CONSTANTS
  Threads,           \* the threads that call into the message
  CallsOf,           \* CallsOf[t]: the calls thread t makes, names of OpNames
  MaxCalls,          \* calls per thread
  WriterPreferring   \* the lock's policy

VARIABLES
  op,       \* op[t]: the call thread t is in, or "idle"
  pc,       \* pc[t]: the index of its next step
  readers,  \* readers[t]: how many read locks t holds
  writer,   \* the thread holding the write lock, or NoThread
  waiting,  \* the threads waiting for the write lock
  cached,   \* _isRequest is determinate
  calls     \* calls[t]: calls t has made

vars == <<op, pc, readers, writer, waiting, cached, calls>>

NoThread == "none"

\* A step of a call: a lock step, or an access to a guarded location.
Lk(o) == [kind |-> o, loc |-> "lock"]
Rd(l) == [kind |-> "rd", loc |-> l]
Wr(l) == [kind |-> "wr", loc |-> l]
\* isRequest() reads _isRequest, and writes it while it is indeterminate.
IsReq == [kind |-> "isReq", loc |-> "cache"]

\* hdrGet takes a read lock around the lookup and returns a reference into
\* _headers; the caller copies the string after the lock is released.
HdrGet == <<Lk("R+"), Lk("R-"), Rd("headers")>>

\* A getTransactionId that takes the write lock around its hdrGet calls.
GetTransactionIdWriteLocked ==
  <<Lk("W+")>> \o HdrGet \o HdrGet \o HdrGet \o <<Lk("W-")>>

\* getTransactionId holds a read lock around three hdrGet calls.
GetTransactionId ==
  <<Lk("R+")>> \o HdrGet \o HdrGet \o HdrGet \o <<Lk("R-")>>

\* createContextId(true): a read of _logContext under a read lock, hdrGet
\* of the Call-ID, then _logContext set under the write lock.
CreateContextId ==
  <<Lk("R+"), Rd("context"), Lk("R-")>> \o HdrGet \o
  <<Lk("W+"), Wr("context"), Lk("W-")>>

\* createResponse: isRequest() and the hdrGet calls under a read lock.
CreateResponse ==
  <<Lk("R+"), IsReq>> \o HdrGet \o HdrGet \o <<Lk("R-")>>

\* An hdr* mutator that writes without the lock.
HdrSetUnlocked == <<Wr("headers")>>

\* hdrSet (and every hdr* mutator): one write under the write lock.
HdrSet == <<Lk("W+"), Wr("headers"), Lk("W-")>>

\* parse(): the header map and both caches reset under the write lock.
Parse == <<Lk("W+"), Wr("headers"), Wr("cache"), Wr("context"), Lk("W-")>>

\* getHeaderNames iterates _headers without the lock.
GetHeaderNames == <<Rd("headers")>>

Prog == [getTransactionId |-> GetTransactionId,
         createContextId |-> CreateContextId,
         createResponse |-> CreateResponse,
         hdrSet |-> HdrSet, parse |-> Parse,
         getHeaderNames |-> GetHeaderNames]

OpNames == DOMAIN Prog

Init ==
  /\ op = [t \in Threads |-> "idle"]
  /\ pc = [t \in Threads |-> 1]
  /\ readers = [t \in Threads |-> 0]
  /\ writer = NoThread
  /\ waiting = {}
  /\ cached = FALSE
  /\ calls = [t \in Threads |-> 0]

Busy(t) == op[t] # "idle"
Step(t) == Prog[op[t]][pc[t]]
AtStep(t, k) == Busy(t) /\ pc[t] <= Len(Prog[op[t]]) /\ Step(t).kind = k
Advance(t) == pc' = [pc EXCEPT ![t] = @ + 1]

Call(t, o) ==
  /\ ~Busy(t) /\ calls[t] < MaxCalls
  /\ op' = [op EXCEPT ![t] = o]
  /\ pc' = [pc EXCEPT ![t] = 1]
  /\ calls' = [calls EXCEPT ![t] = @ + 1]
  /\ UNCHANGED <<readers, writer, waiting, cached>>

\* A read lock is granted while no thread writes and, for a lock that
\* prefers writers, none waits to.
ReadLock(t) ==
  /\ AtStep(t, "R+")
  /\ writer = NoThread
  /\ WriterPreferring => waiting = {}
  /\ readers' = [readers EXCEPT ![t] = @ + 1]
  /\ Advance(t)
  /\ UNCHANGED <<op, writer, waiting, cached, calls>>

ReadUnlock(t) ==
  /\ AtStep(t, "R-")
  /\ readers' = [readers EXCEPT ![t] = @ - 1]
  /\ Advance(t)
  /\ UNCHANGED <<op, writer, waiting, cached, calls>>

\* A writer first queues, then gets the lock when no thread holds it.
WriteWait(t) ==
  /\ AtStep(t, "W+") /\ t \notin waiting
  /\ waiting' = waiting \cup {t}
  /\ UNCHANGED <<op, pc, readers, writer, cached, calls>>

WriteLock(t) ==
  /\ AtStep(t, "W+") /\ t \in waiting
  /\ writer = NoThread /\ \A u \in Threads : readers[u] = 0
  /\ writer' = t
  /\ waiting' = waiting \ {t}
  /\ Advance(t)
  /\ UNCHANGED <<op, readers, cached, calls>>

WriteUnlock(t) ==
  /\ AtStep(t, "W-")
  /\ writer' = NoThread
  /\ Advance(t)
  /\ UNCHANGED <<op, readers, waiting, cached, calls>>

\* An access to a guarded location; isRequest fills the cache, parse()
\* resets it.
Access(t) ==
  /\ AtStep(t, "rd") \/ AtStep(t, "wr") \/ AtStep(t, "isReq")
  /\ cached' = CASE Step(t).kind = "isReq" -> TRUE
                 [] Step(t) = Wr("cache") -> FALSE
                 [] OTHER -> cached
  /\ Advance(t)
  /\ UNCHANGED <<op, readers, writer, waiting, calls>>

Return(t) ==
  /\ Busy(t) /\ pc[t] = Len(Prog[op[t]]) + 1
  /\ op' = [op EXCEPT ![t] = "idle"]
  /\ UNCHANGED <<pc, readers, writer, waiting, cached, calls>>

ThreadStep(t) ==
  \/ ReadLock(t) \/ ReadUnlock(t) \/ WriteWait(t) \/ WriteLock(t)
  \/ WriteUnlock(t) \/ Access(t) \/ Return(t)

\* Every thread has made its calls and returned.
Finished ==
  /\ \A t \in Threads : ~Busy(t) /\ calls[t] = MaxCalls
  /\ UNCHANGED vars

Next ==
  \/ \E t \in Threads : \E o \in CallsOf[t] : Call(t, o)
  \/ \E t \in Threads : ThreadStep(t)
  \/ Finished

\* Each thread is scheduled: a step it can take stays takeable only while
\* other threads leave the lock as it is.
Fairness == \A t \in Threads : WF_vars(ThreadStep(t))

Spec == Init /\ [][Next]_vars /\ Fairness

------------------------------------------------------------------------------
TypeOK ==
  /\ op \in [Threads -> OpNames \cup {"idle"}]
  /\ pc \in [Threads -> Nat]
  /\ readers \in [Threads -> Nat]
  /\ writer \in Threads \cup {NoThread}
  /\ waiting \subseteq Threads
  /\ cached \in BOOLEAN
  /\ calls \in [Threads -> 0..MaxCalls]

\* The access thread t is about to make, and whether it writes.
Accessing(t) ==
  AtStep(t, "rd") \/ AtStep(t, "wr") \/ AtStep(t, "isReq")
Writes(t) == AtStep(t, "wr") \/ (AtStep(t, "isReq") /\ ~cached)

\* No two threads access one location of the message at once with one of
\* them writing.  It depends on how each call nests its lock steps: the
\* reference hdrGet returns is copied after hdrGet's unlock, safe only
\* while the caller's own read lock (getTransactionId, createResponse)
\* keeps writers out; isRequest() fills its cache under a read lock, safe
\* only while no second thread does the same.
NoDataRace ==
  \A t, u \in Threads :
    t # u /\ Accessing(t) /\ Accessing(u) /\ Step(t).loc = Step(u).loc
      => ~Writes(t) /\ ~Writes(u)

\* Every call on the message returns: no thread waits forever for _rwlock,
\* getTransactionId's nested read lock in hdrGet included.
CallsReturn == \A t \in Threads : Busy(t) ~> ~Busy(t)
==============================================================================
