----------------------------- MODULE MC_SIPStack -----------------------------
(* Constants for SIPStack.  The ranged entry: 2-bit ports (0..3), every     *)
(* range [1, 2], up to two listeners of UDP and TCP on one or two           *)
(* addresses, at most one of WS and TLS.  The config entry: interfaces[]    *)
(* lists of up to two of four kinds of entry, with sip-port 1, tls-port 2   *)
(* and ws-port 3.                                                           *)
EXTENDS SIPStack

CONSTANTS A, B, D, V, L, L6

MC_Order == <<"udp", "tcp", "ws", "tls">>
MC_Base == [t \in {"udp", "tcp", "ws", "tls"} |-> 1]
\* Ranges [1, 2]: the largest port, 3, is outside every range.
MC_Max == [t \in {"udp", "tcp", "ws", "tls"} |-> 2]

MC_AllConfigs ==
  [udp : {<<>>, <<"a">>, <<"a", "a">>},
   tcp : {<<>>, <<"a">>, <<"a", "a">>, <<"a", "b">>},
   ws : {<<>>, <<"a">>}, tls : {<<>>, <<"a">>}]
\* Configurations with a TCP, UDP or WS listener.
MC_Configs ==
  {c \in MC_AllConfigs : c.udp # <<>> \/ c.tcp # <<>> \/ c.ws # <<>>}

MC_Enabled == {{"udp", "tcp", "ws", "tls"}, {"tcp", "ws", "tls"}}
MC_Busy == {{}, {1}, {1, 2}}

Iface(ip, udpKey, udp, tcp, ws, tls, isDefault) ==
  [ip |-> ip, udpKey |-> udpKey, udp |-> udp, tcp |-> tcp, ws |-> ws,
   tls |-> tls, dflt |-> isDefault, sipPort |-> 1, tlsPort |-> 2, wsPort |-> 3,
   tlsPortKey |-> FALSE]

\* default = true on A, udp-enabled left to its default, tcp-enabled.
IfDefault == Iface(A, FALSE, FALSE, TRUE, FALSE, FALSE, TRUE)
\* "auto", udp-enabled = false, TCP, WS and TLS.
IfAuto == Iface(Auto, TRUE, FALSE, TRUE, TRUE, TRUE, FALSE)
\* 0.0.0.0 marked default, UDP by default.
IfAny == Iface(Any, FALSE, FALSE, FALSE, FALSE, FALSE, TRUE)
\* B with udp-enabled = true.
IfUdp == Iface(B, TRUE, TRUE, FALSE, FALSE, FALSE, FALSE)

MC_Ifaces == {IfDefault, IfAuto, IfAny, IfUdp}
MC_IfaceSeqs == {<<>>} \cup {<<f>> : f \in MC_Ifaces}
                \cup {<<f, g>> : f, g \in MC_Ifaces}

\* Entries outside the pass run's set, each on a path where the default
\* listener is not a registered listener: a WS-only default entry, 0.0.0.0
\* with udp-enabled = true as the first entry, and a TLS-only first entry
\* with a tls-port key.
IfWsDefault == Iface(A, TRUE, FALSE, FALSE, TRUE, FALSE, TRUE)
IfAnyUdp == Iface(Any, TRUE, TRUE, FALSE, FALSE, FALSE, FALSE)
IfTlsPort == [Iface(B, TRUE, FALSE, FALSE, FALSE, TRUE, FALSE) EXCEPT !.tlsPortKey = TRUE]
MC_WsDefaultSeqs == {<<IfWsDefault>>}
MC_AnyUdpSeqs == {<<IfAnyUdp>>}
MC_TlsPortSeqs == {<<IfTlsPort>>}

MC_Legacies == {<<>>, <<[ip |-> Auto, port |-> 1]>>, <<[ip |-> Invalid, port |-> 1]>>}

Carp(vip) == [enabled |-> TRUE, vip |-> vip, udp |-> FALSE, tcp |-> FALSE,
              tls |-> TRUE, ws |-> FALSE, sipPort |-> 1, tlsPort |-> 2, wsPort |-> 3]
MC_Carps == {<<>>, <<Carp(V)>>, <<Carp(NoAddr)>>}

MC_Ranges == {[tcp |-> <<>>, ws |-> <<>>],
              [tcp |-> <<[base |-> 1, max |-> 2]>>, ws |-> <<[base |-> 2, max |-> 2]>>]}
MC_Rates == {<<>>, <<[viol |-> 1, aggregate |-> 2]>>}
MC_DefaultAddrs == {NoAddr, D}
MC_LocalAddrs == <<[ip |-> L, v4 |-> TRUE], [ip |-> L6, v4 |-> FALSE]>>
MC_ConfigBusy == {{}, {1}}
MC_TslReads == {0}
====
