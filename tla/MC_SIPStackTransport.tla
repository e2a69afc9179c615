------------------------ MODULE MC_SIPStackTransport ------------------------
(* Constants for SIPStackTransport on its own: 2-bit ports (0..3), every  *)
(* range starting at 1, one UDP listener whose range reaches the largest  *)
(* port, every port held.  MC_SIPStack checks the component in general.   *)
EXTENDS SIPStackTransport

MC_Order == <<"udp", "tcp", "ws", "tls">>
MC_Base == [t \in {"udp", "tcp", "ws", "tls"} |-> 1]
\* Ranges [1, 2]: the largest port, 3, is outside every range.
MC_Max == [t \in {"udp", "tcp", "ws", "tls"} |-> 2]
\* The UDP range reaches the largest port, so the counter wraps.
MC_MaxWrap == [MC_Max EXCEPT !["udp"] = 3]

\* A single UDP listener.
MC_UdpConfig == {[udp |-> <<"a">>, tcp |-> <<>>, ws |-> <<>>, tls |-> <<>>]}

MC_AllEnabled == {{"udp", "tcp", "ws", "tls"}}
MC_AllBusy == {{0, 1, 2, 3}}
=============================================================================
