--------------------------- MODULE SIPStackConfig ---------------------------
(***************************************************************************)
(* SIPStack::initTransportFromConfig(cfgFile) (src/sipfsm/SIPStack.cpp)    *)
(* and the transportInit() without port ranges that it ends with.          *)
(*                                                                         *)
(* The configuration file is abstracted to what the reader branches on:    *)
(* the listeners.interfaces[] entries, the legacy default-interface keys,  *)
(* the carp-ha-interface entry, the port-range keys and the packet-rate    *)
(* ratio.  An address is a model value; "auto" names the system default    *)
(* address and Any is 0.0.0.0.  Ports are numbers, with each interface's   *)
(* defaults (5060, 5061, 5062) already applied by the cfg.  The reader      *)
(* runs on one thread: each step below is one section of the function.    *)
(***************************************************************************)
EXTENDS Integers, Sequences, FiniteSets

CONSTANTS
  Order,          \* the transports, in the order transportInit visits them
  PortBits,       \* the width of an unsigned short
  WSFeature,      \* ENABLE_FEATURE_WEBSOCKETS
  Any,            \* the address 0.0.0.0
  Auto,           \* the ip-address value "auto"
  Invalid,        \* an address string IPAddress::isValid rejects
  NoAddr,         \* getDefaultAddress() is not valid
  LocalAddrs,     \* getLocalAddresses(): a sequence of [ip, v4]
  IfaceSeqs,      \* the listeners.interfaces[] lists the file may hold
  Legacies,       \* <<[ip, port]>> for default-interface-address/port, or <<>>
  Carps,          \* the carp-ha-interface[] entries: <<>> or <<entry>>
  RangeChoices,   \* [tcp, ws]: <<[base, max]>> for sip-X-port-base/max, or <<>>
  Rates,          \* packet-rate-ratio: <<[pps, viol]>> when it has 3 tokens
  DefaultAddrs,   \* what getDefaultAddress() may return
  TslReads,       \* what iface["tsl-port"] (a key never written) yields
  EnabledChoices, \* the sets of enabled transports (_enableUDP, ...)
  BusyChoices     \* the sets of ports other sockets hold

NoListener == [ip |-> NoAddr, port |-> 0]

Transports == {Order[j] : j \in 1..Len(Order)}

VARIABLES
  cfg,        \* the parsed file: [ifaces, legacy, carp, ranges, rate]
  defaultAddr,\* IPAddress::getDefaultAddress()
  tlsInit,    \* hasInitializedTLS
  pc,         \* the section being run, or "ok", "throw", "return"
  ci,         \* the interfaces[] index being read
  found,      \* hasFoundDefault
  dflt,       \* transport().defaultListenerAddress()
  dfltFrom,   \* history: the section that set dflt
  listeners,  \* _udpListeners, ...: transport -> sequence of [ip, port]
  tcpRange,   \* what setTCPPortRange received: <<[base, max]>> or <<>>
  wsRange,    \* what setWSPortRange received: <<[base, max]>> or <<>>
  rateLimit,  \* rateLimit().enabled()
  enabled,    \* the transports whose _enableX flag is set
  busy,       \* the ports other sockets hold
  ti, li,     \* transportInit's loop indexes
  bound       \* transport -> listener -> addXTransport succeeded

vars == <<cfg, defaultAddr, tlsInit, pc, ci, found, dflt, dfltFrom, listeners,
          tcpRange, wsRange, rateLimit, enabled, busy, ti, li, bound>>

Listener(ip, port) == [ip |-> ip, port |-> port]

\* The "auto" address resolved, or the address as written.
Resolve(ip) == IF ip = Auto THEN defaultAddr ELSE ip

\* "auto" with no default address: the reader logs and returns early.
Unresolvable(ip) == ip = Auto /\ defaultAddr = NoAddr

V4Locals == SelectSeq(LocalAddrs, LAMBDA a : a.v4)

\* registerConfiguredTransport: a concrete address is one listener; 0.0.0.0
\* is one listener per local IPv4 address, on the same port.
Register(seq, ip, port) ==
  IF ip # Any THEN Append(seq, Listener(ip, port))
  ELSE seq \o [k \in 1..Len(V4Locals) |-> Listener(V4Locals[k].ip, port)]

\* The interface flags: udp-enabled defaults to true, the others to false.
UdpEnabled(f) == ~f.udpKey \/ f.udp
AnyEnabled(f) == UdpEnabled(f) \/ f.tcp \/ f.ws \/ f.tls

Prepared(t) == t \in enabled /\ (t = "ws" => WSFeature)

------------------------------------------------------------------------------
(* The reader.                                                            *)

\* initializeTlsContext: false when a CA file, CA path or the certificate
\* cannot be loaded, which depends on the files; either result.
TlsContextResults == BOOLEAN

\* initTlsContextFromConfig (its result depends on the certificate files),
\* then initVirtualTransportFromConfig: an enabled carp entry with a
\* virtual-ip-address adds one virtual listener per enabled transport,
\* UDP and TCP when none is, whatever the TLS context.
Start ==
  /\ pc = "start"
  /\ tlsInit' \in TlsContextResults
  /\ LET c == cfg.carp[1]
         none == ~(c.udp \/ c.tcp \/ c.tls \/ c.ws)
         on(t) == CASE t = "udp" -> c.udp \/ none
                    [] t = "tcp" -> c.tcp \/ none
                    [] t = "tls" -> c.tls
                    [] OTHER -> c.ws
         port(t) == CASE t = "tls" -> c.tlsPort [] t = "ws" -> c.wsPort
                      [] OTHER -> c.sipPort
     IN listeners' =
          IF cfg.carp = <<>> \/ ~c.enabled \/ c.vip = NoAddr THEN listeners
          ELSE [t \in Transports |->
                  IF on(t) THEN Append(listeners[t], Listener(c.vip, port(t)))
                  ELSE listeners[t]]
  /\ pc' = "iface" /\ ci' = 1
  /\ UNCHANGED <<cfg, defaultAddr, found, dflt, dfltFrom, tcpRange, wsRange,
                 rateLimit, enabled, busy, ti, li, bound>>

\* Mutant: the default entry is taken without the isInaddrAny test.
TakesDefaultAnyToo(f, ip) == ~found /\ f.dflt /\ AnyEnabled(f)

\* The entry becomes the default listener: no default found yet, its
\* default key is true, it enables a transport, and it is not 0.0.0.0.
TakesDefault(f, ip) == ~found /\ f.dflt /\ AnyEnabled(f) /\ ip # Any

\* One pass of the interfaces[] loop.  "auto" without a default address
\* returns from the reader.  The first entry with a default key decides
\* hasFoundDefault; if it is true and the entry enables a transport, its
\* address and sip-port become the default listener, unless the address
\* is 0.0.0.0, which clears hasFoundDefault again.  Then each enabled
\* transport registers the entry (TLS only with a TLS context).
ReadInterface ==
  /\ pc = "iface" /\ ci <= Len(cfg.ifaces)
  /\ LET f == cfg.ifaces[ci]
         ip == Resolve(f.ip)
         take == TakesDefault(f, ip)
         on(t) == CASE t = "udp" -> UdpEnabled(f)
                    [] t = "tcp" -> f.tcp
                    [] t = "ws" -> f.ws
                    [] OTHER -> f.tls /\ tlsInit
         port(t) == CASE t = "tls" -> f.tlsPort [] t = "ws" -> f.wsPort
                      [] OTHER -> f.sipPort
     IN IF Unresolvable(f.ip)
        THEN pc' = "return" /\ UNCHANGED <<ci, found, dflt, dfltFrom, listeners>>
        ELSE /\ found' = IF found THEN TRUE
                         ELSE f.dflt /\ ~(AnyEnabled(f) /\ ip = Any)
             /\ dflt' = IF take THEN Listener(ip, f.sipPort) ELSE dflt
             /\ dfltFrom' = IF take THEN "iface" ELSE dfltFrom
             /\ listeners' = [t \in Transports |->
                                IF on(t) THEN Register(listeners[t], ip, port(t))
                                ELSE listeners[t]]
             /\ ci' = ci + 1
             /\ UNCHANGED pc
  /\ UNCHANGED <<cfg, defaultAddr, tlsInit, tcpRange, wsRange, rateLimit,
                 enabled, busy, ti, li, bound>>

\* After the loop, with no default found: default-interface-address and
\* -port together set it ("auto" resolved; an address that is not valid,
\* or "auto" without a default address, returns from the reader).
LegacyDefault ==
  /\ pc = "iface" /\ ci > Len(cfg.ifaces)
  /\ IF found \/ cfg.legacy = <<>>
     THEN pc' = "first" /\ UNCHANGED <<found, dflt, dfltFrom>>
     ELSE LET ip == Resolve(cfg.legacy[1].ip)
          IN /\ found' = TRUE
             /\ IF Unresolvable(cfg.legacy[1].ip) \/ ip = Invalid
                THEN pc' = "return" /\ UNCHANGED <<dflt, dfltFrom>>
                ELSE /\ dflt' = Listener(ip, cfg.legacy[1].port)
                     /\ dfltFrom' = "legacy"
                     /\ pc' = "first"
  /\ UNCHANGED <<cfg, defaultAddr, tlsInit, ci, listeners, tcpRange, wsRange,
                 rateLimit, enabled, busy, ti, li, bound>>

\* Still no default, and interfaces[] is not empty: the first entry's
\* address, with the port of the first of udp-, tcp-, ws-, tls-enabled
\* that is present and true (the keys are read without their defaults).
\* For TLS the code tests "tls-port" but reads "tsl-port".
FirstDefault ==
  /\ pc = "first"
  /\ IF found \/ cfg.ifaces = <<>>
     THEN pc' = "settings" /\ UNCHANGED <<dflt, dfltFrom>>
     ELSE LET f == cfg.ifaces[1]
              ip == Resolve(f.ip)
          IN IF Unresolvable(f.ip)
             THEN pc' = "return" /\ UNCHANGED <<dflt, dfltFrom>>
             ELSE /\ LET ports == CASE f.udpKey /\ f.udp -> {f.sipPort}
                                      [] f.tcp \/ f.ws -> {f.sipPort}
                                      [] f.tls -> IF f.tlsPortKey THEN TslReads
                                                  ELSE {f.tlsPort}
                                      [] OTHER -> {}
                     IN IF ports = {} THEN UNCHANGED <<dflt, dfltFrom>>
                        ELSE /\ \E port \in ports : dflt' = Listener(ip, port)
                             /\ dfltFrom' = "first"
                  /\ pc' = "settings"
  /\ UNCHANGED <<cfg, defaultAddr, tlsInit, ci, found, listeners, tcpRange,
                 wsRange, rateLimit, enabled, busy, ti, li, bound>>

\* The listeners-level settings: a port range is passed on only when
\* 0 < base < max, then cast to unsigned short; a packet-rate-ratio
\* "violation/aggregate/banlife" calls setTransportThreshold(aggregate,
\* violation, ...), which enables the rate limit when aggregate > violation.
\* Then transportInit() is called.
\* setTransportThreshold: the limit is enforced when the aggregate rate
\* exceeds the per-address rate.
ThresholdEnables(r) == r # <<>> /\ r[1].aggregate > r[1].viol

SetRange(r) ==
  IF r # <<>> /\ 0 < r[1].base /\ r[1].base < r[1].max
  THEN <<[base |-> r[1].base % 2^PortBits, max |-> r[1].max % 2^PortBits]>>
  ELSE <<>>

Settings ==
  /\ pc = "settings"
  /\ LET t == SetRange(cfg.ranges.tcp)
         w == SetRange(cfg.ranges.ws)
     IN /\ tcpRange' = IF t # <<>> THEN t ELSE tcpRange
        /\ wsRange' = IF w # <<>> /\ WSFeature THEN w ELSE wsRange
  /\ rateLimit' = (rateLimit \/ ThresholdEnables(cfg.rate))
  /\ pc' = "check"
  /\ UNCHANGED <<cfg, defaultAddr, tlsInit, ci, found, dflt, dfltFrom, listeners,
                 enabled, busy, ti, li, bound>>

------------------------------------------------------------------------------
(* transportInit(): no listener at all throws "No Listener Address        *)
(* Configured"; otherwise each enabled transport adds each of its         *)
(* listeners once, on its own port, and the first addXTransport that      *)
(* throws ends the call with that exception.                              *)

T == Order[ti]

\* addXTransport throws: the port is held, or an earlier listener of the
\* transport took the same address and port.
BindFails(t, i) ==
  \/ listeners[t][i].port \in busy
  \/ \E j \in 1..(i - 1) : listeners[t][j] = listeners[t][i]

CheckListeners ==
  /\ pc = "check"
  /\ IF \A t \in Transports : listeners[t] = <<>>
     THEN pc' = "throw" /\ UNCHANGED <<ti, li>>
     ELSE pc' = "loop" /\ ti' = 1 /\ li' = 1
  /\ bound' = [t \in Transports |-> [i \in DOMAIN listeners[t] |-> FALSE]]
  /\ UNCHANGED <<cfg, defaultAddr, tlsInit, ci, found, dflt, dfltFrom, listeners,
                 tcpRange, wsRange, rateLimit, enabled, busy>>

\* A transport not enabled, or whose listeners are all added, is left.
NextTransport ==
  /\ pc = "loop"
  /\ ~Prepared(T) \/ li > Len(listeners[T])
  /\ IF ti = Len(Order) THEN pc' = "ok" /\ UNCHANGED <<ti, li>>
     ELSE ti' = ti + 1 /\ li' = 1 /\ UNCHANGED pc
  /\ UNCHANGED <<cfg, defaultAddr, tlsInit, ci, found, dflt, dfltFrom, listeners,
                 tcpRange, wsRange, rateLimit, enabled, busy, bound>>

AddTransport ==
  /\ pc = "loop" /\ Prepared(T) /\ li <= Len(listeners[T])
  /\ ~BindFails(T, li)
  /\ bound' = [bound EXCEPT ![T][li] = TRUE]
  /\ li' = li + 1
  /\ UNCHANGED <<cfg, defaultAddr, tlsInit, pc, ci, found, dflt, dfltFrom,
                 listeners, tcpRange, wsRange, rateLimit, enabled, busy, ti>>

\* Mutant: the exception of addXTransport is caught and the loop goes on.
AddTransportFailsContinue ==
  /\ pc = "loop" /\ Prepared(T) /\ li <= Len(listeners[T])
  /\ BindFails(T, li)
  /\ li' = li + 1
  /\ UNCHANGED <<cfg, defaultAddr, tlsInit, pc, ci, found, dflt, dfltFrom,
                 listeners, tcpRange, wsRange, rateLimit, enabled, busy, ti, bound>>

AddTransportFails ==
  /\ pc = "loop" /\ Prepared(T) /\ li <= Len(listeners[T])
  /\ BindFails(T, li)
  /\ pc' = "throw"
  /\ UNCHANGED <<cfg, defaultAddr, tlsInit, ci, found, dflt, dfltFrom, listeners,
                 tcpRange, wsRange, rateLimit, enabled, busy, ti, li, bound>>

------------------------------------------------------------------------------

Init ==
  /\ cfg \in [ifaces : IfaceSeqs, legacy : Legacies, carp : Carps,
              ranges : RangeChoices, rate : Rates]
  /\ defaultAddr \in DefaultAddrs
  /\ tlsInit = FALSE
  /\ pc = "start" /\ ci = 1
  /\ found = FALSE /\ dflt = NoListener /\ dfltFrom = "none"
  /\ listeners = [t \in Transports |-> <<>>]
  /\ tcpRange = <<>> /\ wsRange = <<>> /\ rateLimit = FALSE
  /\ enabled \in EnabledChoices
  /\ busy \in BusyChoices
  /\ ti = 1 /\ li = 1
  /\ bound = [t \in Transports |-> <<>>]

Next ==
  \/ Start \/ ReadInterface \/ LegacyDefault \/ FirstDefault \/ Settings
  \/ CheckListeners \/ NextTransport \/ AddTransport \/ AddTransportFails

Done == pc \in {"ok", "throw", "return"}

Spec == Init /\ [][Next]_vars /\ WF_vars(Next)

------------------------------------------------------------------------------
(* Properties.                                                             *)

TypeOK ==
  /\ pc \in {"start", "iface", "first", "settings", "check", "loop",
             "ok", "throw", "return"}
  /\ ci \in 1..(Len(cfg.ifaces) + 1)
  /\ found \in BOOLEAN /\ tlsInit \in BOOLEAN /\ rateLimit \in BOOLEAN
  /\ dfltFrom \in {"none", "iface", "legacy", "first"}
  /\ ti \in 1..Len(Order)
  /\ \A t \in Transports : DOMAIN bound[t] \subseteq DOMAIN listeners[t]

\* A listener addXTransport cannot add: its port is held, or another
\* listener of the same transport has the same address and port.
Unbindable(t, i) ==
  \/ listeners[t][i].port \in busy
  \/ \E j \in DOMAIN listeners[t] : j # i /\ listeners[t][j] = listeners[t][i]

\* transportInit() returns only after every listener the reader registered
\* for an enabled transport has been added; it throws only when no
\* listener was registered at all or one of them could not be added.
PlainOutcome ==
  /\ pc = "ok" =>
       \A t \in Transports : Prepared(t) =>
         \A i \in DOMAIN listeners[t] : bound[t][i]
  /\ pc = "throw" =>
       \/ \A t \in Transports : listeners[t] = <<>>
       \/ \E t \in Transports : Prepared(t) /\ \E i \in DOMAIN listeners[t] :
            ~bound[t][i] /\ Unbindable(t, i)

\* The default listener address the reader derives from interfaces[]
\* (a default entry, or the first entry) is the address and port of a
\* listener it registered, so what the transport advertises is listened on.
DefaultIsListener ==
  dfltFrom \in {"iface", "first"} =>
    \E t \in Transports : \E i \in DOMAIN listeners[t] : listeners[t][i] = dflt

\* The reader ends: it returns early, or transportInit returns or throws.
Terminates == <>Done

====
