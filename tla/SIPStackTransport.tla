-------------------------- MODULE SIPStackTransport --------------------------
(***************************************************************************)
(* SIPStack::transportInit(udpPortBase, udpPortMax, ..., tlsPortMax)       *)
(* (src/sipfsm/SIPStack.cpp): for each enabled transport, in the order     *)
(* UDP, TCP, WS, TLS, every configured listener walks the port range from  *)
(* base to max with an unsigned short counter until addXTransport binds;   *)
(* a bind that throws moves on to the next port.  It throws "No Listener   *)
(* Address Configured" before the loops when no listener is configured     *)
(* and after them when nothing bound.                                      *)
(*                                                                         *)
(* Ports are PortBits wide, so the counter wraps as the 16-bit one does.   *)
(* A bind fails when the environment holds the port (busy) or a listener   *)
(* on the same address already bound it.                                   *)
(***************************************************************************)
EXTENDS Integers, Sequences, FiniteSets

CONSTANTS
  Order,            \* the transports, in the order transportInit visits them
  PortBits,         \* the width of the port counter (16 in the code)
  Base, Max,        \* the port range of each transport
  WSFeature,        \* ENABLE_FEATURE_WEBSOCKETS
  ListenerConfigs,  \* the listener addresses each transport may be given
  EnabledChoices,   \* the sets of enabled transports (_enableUDP, ...)
  BusyChoices       \* the sets of ports the environment may hold

Transports == {Order[j] : j \in 1..Len(Order)}
Ports == 0..(2^PortBits - 1)
NoPort == -1

ASSUME /\ \A t \in Transports : Base[t] \in Ports /\ Max[t] \in Ports
                                /\ Base[t] <= Max[t]
       /\ WSFeature \in BOOLEAN

VARIABLES
  listeners, \* _udpListeners, ...: transport -> sequence of addresses
  enabled,   \* the transports whose _enableX flag is set
  busy,      \* transport -> the ports another socket holds
  pc,        \* "check", "loop", "final", "ok" or "throw"
  ti,        \* the index in Order of the transport being prepared
  li,        \* the index of the listener being bound
  p,         \* the port counter of the bind loop
  has,       \* hasUDP, hasTCP, hasWS, hasTLS
  port       \* transport -> listener -> the port bound by setPort, or NoPort

vars == <<listeners, enabled, busy, pc, ti, li, p, has, port>>

T == Order[ti]

\* The transport is prepared at all: enabled, and compiled in for WS.
Prepared(t) == t \in enabled /\ (t = "ws" => WSFeature)

\* addXTransport(ip, port) throws: the port is held, or a listener of the
\* same transport on the same address bound it.
BindFails(t, i, q) ==
  \/ q \in busy[t]
  \/ \E j \in DOMAIN listeners[t] :
       j # i /\ listeners[t][j] = listeners[t][i] /\ port[t][j] = q

\* The state of the loops when transport index k is next.
Enter(k) ==
  IF k > Len(Order)
  THEN pc' = "final" /\ UNCHANGED <<ti, li, p>>
  ELSE pc' = "loop" /\ ti' = k /\ li' = 1 /\ p' = Base[Order[k]]

------------------------------------------------------------------------------

\* The first check: a transport has listeners if its vector is non-empty,
\* except that hasTLS is computed from _tcpListeners.  The flags are then
\* reset to false to record what binds.
CheckListeners ==
  /\ pc = "check"
  /\ LET configured == {t \in Transports \ {"tls"} : listeners[t] # <<>>}
                       \cup (IF listeners["tcp"] # <<>> THEN {"tls"} ELSE {})
     IN IF configured = {}
        THEN pc' = "throw" /\ UNCHANGED <<ti, li, p>>
        ELSE Enter(1)
  /\ UNCHANGED <<listeners, enabled, busy, has, port>>

\* A transport not prepared, or whose listeners are all done, is left.
NextTransport ==
  /\ pc = "loop"
  /\ ~Prepared(T) \/ li > Len(listeners[T])
  /\ Enter(ti + 1)
  /\ UNCHANGED <<listeners, enabled, busy, has, port>>

\* Mutant: the listener loop's i < size() condition is not checked.
BindNoListenerBound ==
  /\ pc = "loop" /\ Prepared(T)
  /\ ~BindFails(T, li, p)
  /\ port' = [port EXCEPT ![T][li] = p]
  /\ has' = [has EXCEPT ![T] = TRUE]
  /\ li' = li + 1
  /\ p' = Base[T]
  /\ UNCHANGED <<listeners, enabled, busy, pc, ti>>

\* addXTransport binds port p: setPort(p), hasX = true, break to the next
\* listener.
Bind ==
  /\ pc = "loop" /\ Prepared(T) /\ li <= Len(listeners[T])
  /\ ~BindFails(T, li, p)
  /\ port' = [port EXCEPT ![T][li] = p]
  /\ has' = [has EXCEPT ![T] = TRUE]
  /\ li' = li + 1
  /\ p' = Base[T]
  /\ UNCHANGED <<listeners, enabled, busy, pc, ti>>

\* Mutant: the catch leaves the port loop instead of continuing it.
BindFailBreak ==
  /\ pc = "loop" /\ Prepared(T) /\ li <= Len(listeners[T])
  /\ BindFails(T, li, p)
  /\ li' = li + 1 /\ p' = Base[T]
  /\ UNCHANGED <<listeners, enabled, busy, pc, ti, has, port>>

\* addXTransport throws: continue with p++ (an unsigned short, so it wraps
\* to 0 after the largest port), and the loop goes on while p <= max.
BindFail ==
  /\ pc = "loop" /\ Prepared(T) /\ li <= Len(listeners[T])
  /\ BindFails(T, li, p)
  /\ IF (p + 1) % 2^PortBits <= Max[T]
     THEN p' = (p + 1) % 2^PortBits /\ UNCHANGED li
     ELSE li' = li + 1 /\ p' = Base[T]
  /\ UNCHANGED <<listeners, enabled, busy, pc, ti, has, port>>

\* The second check: nothing bound throws "No Listener Address Configured".
Finish ==
  /\ pc = "final"
  /\ pc' = IF \E t \in Transports : has[t] THEN "ok" ELSE "throw"
  /\ UNCHANGED <<listeners, enabled, busy, ti, li, p, has, port>>

Init ==
  /\ listeners \in ListenerConfigs
  /\ enabled \in EnabledChoices
  /\ busy \in [Transports -> BusyChoices]
  /\ pc = "check"
  /\ ti = 1 /\ li = 1 /\ p = Base[Order[1]]
  /\ has = [t \in Transports |-> FALSE]
  /\ port = [t \in Transports |-> [i \in DOMAIN listeners[t] |-> NoPort]]

Next == CheckListeners \/ NextTransport \/ Bind \/ BindFail \/ Finish

Spec == Init /\ [][Next]_vars /\ WF_vars(Next)

------------------------------------------------------------------------------
(* Properties.                                                             *)

TypeOK ==
  /\ pc \in {"check", "loop", "final", "ok", "throw"}
  /\ ti \in 1..Len(Order)
  /\ li \in 1..(Len(listeners[T]) + 1)
  /\ p \in Ports
  /\ has \in [Transports -> BOOLEAN]
  /\ \A t \in Transports : \A i \in DOMAIN port[t] : port[t][i] \in Ports \cup {NoPort}

\* The range could bind listener i of transport t: a port of its range
\* that the environment does not hold and no other listener on the same
\* address took.
CouldBind(t, i) ==
  \E q \in Base[t]..Max[t] :
    /\ q \notin busy[t]
    /\ \A j \in DOMAIN listeners[t] :
         j # i /\ listeners[t][j] = listeners[t][i] => port[t][j] # q

\* The specification: transportInit walks a port range per listener until
\* a bind succeeds, and reports "no listener configured" only if all ranges
\* are exhausted.  When it has returned, every listener of a prepared
\* transport whose range had a free port is bound, and it threw exactly
\* when nothing bound.
OutcomeMatchesRanges ==
  /\ pc = "ok" =>
       \A t \in Transports : Prepared(t) =>
         \A i \in DOMAIN listeners[t] : port[t][i] = NoPort => ~CouldBind(t, i)
  /\ pc = "throw" =>
       \A t \in Transports : Prepared(t) =>
         \A i \in DOMAIN listeners[t] : ~CouldBind(t, i)

\* transportInit returns or throws: the bind loops end.
Terminates == <>(pc \in {"ok", "throw"})

=============================================================================
