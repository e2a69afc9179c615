------------------------------ MODULE SIPStack ------------------------------
(***************************************************************************)
(* The transport setup of a SIPStack (src/sipfsm/SIPStack.cpp).  An        *)
(* application starts the transports in one of two ways:                   *)
(*   - it fills the listener vectors itself and calls the ranged           *)
(*     transportInit(udpPortBase, udpPortMax, ...): SIPStackTransport;     *)
(*   - it calls initTransportFromConfig(cfgFile), which fills them from    *)
(*     the file and calls transportInit(): SIPStackConfig.                 *)
(* entry records which; the other component's variables stay at an idle   *)
(* value.  The two share no state in the code either: each call starts    *)
(* from the listener vectors it is given or builds.                       *)
(***************************************************************************)
EXTENDS Integers, Sequences

CONSTANTS
  Order, PortBits, WSFeature, EnabledChoices,
  Base, Max, ListenerConfigs, BusyChoices,
  Any, Auto, Invalid, NoAddr, LocalAddrs, IfaceSeqs, Legacies, Carps,
  RangeChoices, Rates, DefaultAddrs, TslReads, ConfigBusyChoices

VARIABLES
  entry,  \* "ranged" or "config"
  listeners, enabled, busy, pc, ti, li, p, has, port,
  cfg, defaultAddr, tlsInit, cpc, ci, found, dflt, dfltFrom, clisteners,
  tcpRange, wsRange, rateLimit, cenabled, cbusy, cti, cli, bound

rvars == <<listeners, enabled, busy, pc, ti, li, p, has, port>>
cvars == <<cfg, defaultAddr, tlsInit, cpc, ci, found, dflt, dfltFrom, clisteners,
           tcpRange, wsRange, rateLimit, cenabled, cbusy, cti, cli, bound>>
vars == <<entry, rvars, cvars>>

Ranged == INSTANCE SIPStackTransport

Config == INSTANCE SIPStackConfig
            WITH pc <- cpc, listeners <- clisteners, enabled <- cenabled,
                 busy <- cbusy, ti <- cti, li <- cli,
                 BusyChoices <- ConfigBusyChoices

Transports == Ranged!Transports

\* The ranged transportInit not called: no listeners, nothing bound.
RangedIdle ==
  /\ listeners = [t \in Transports |-> <<>>]
  /\ enabled = {} /\ busy = [t \in Transports |-> {}]
  /\ pc = "check" /\ ti = 1 /\ li = 1 /\ p = Base[Order[1]]
  /\ has = [t \in Transports |-> FALSE]
  /\ port = [t \in Transports |-> <<>>]

\* initTransportFromConfig not called: an empty file, nothing read.
ConfigIdle ==
  /\ cfg = [ifaces |-> <<>>, legacy |-> <<>>, carp |-> <<>>,
            ranges |-> [tcp |-> <<>>, ws |-> <<>>], rate |-> <<>>]
  /\ defaultAddr = NoAddr /\ tlsInit = FALSE
  /\ cpc = "start" /\ ci = 1 /\ found = FALSE
  /\ dflt = Config!NoListener /\ dfltFrom = "none"
  /\ clisteners = [t \in Transports |-> <<>>]
  /\ tcpRange = <<>> /\ wsRange = <<>> /\ rateLimit = FALSE
  /\ cenabled = {} /\ cbusy = {} /\ cti = 1 /\ cli = 1
  /\ bound = [t \in Transports |-> <<>>]

Init ==
  \/ entry = "ranged" /\ Ranged!Init /\ ConfigIdle
  \/ entry = "config" /\ Config!Init /\ RangedIdle

Next ==
  \/ entry = "ranged" /\ Ranged!Next /\ UNCHANGED <<entry, cvars>>
  \/ entry = "config" /\ Config!Next /\ UNCHANGED <<entry, rvars>>

\* The setup runs on the caller's thread to its end (weak fairness).
Spec == Init /\ [][Next]_vars /\ WF_vars(Next)

------------------------------------------------------------------------------
(* Properties: those of the two components, for the entry taken.         *)

TypeOK == entry \in {"ranged", "config"} /\ Ranged!TypeOK /\ Config!TypeOK

\* The ranged transportInit returns with every listener bound whose range
\* had a free port, and throws exactly when no range had one.
OutcomeMatchesRanges == Ranged!OutcomeMatchesRanges

\* transportInit() after initTransportFromConfig returns only with every
\* registered listener of an enabled transport added, and throws only when
\* none was registered or one could not be added.
PlainOutcome == Config!PlainOutcome

\* The default listener that initTransportFromConfig derives from
\* interfaces[] is a listener it registered.
DefaultIsListener == Config!DefaultIsListener

====
