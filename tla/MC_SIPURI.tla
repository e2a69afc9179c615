-------------------------------- MODULE MC_SIPURI --------------------------------
(***************************************************************************)
(* Model values for SIPURI: URIs with and without userinfo, port,          *)
(* parameters and headers, and the arguments callers pass the setters.     *)
(***************************************************************************)
EXTENDS SIPURI

MC_Chars == {"s", "i", "p", "n", "v", "a", "l", "d", "h", "b", "t", "x", "y",
             "0", "1", "5", ":", "@", ";", "=", "?", "&", ".", "[", "]"}

\* "sip:a@h;x=1?s=b": userinfo, a parameter and a header.
Full == <<"s", "i", "p", ":", "a", "@", "h", ";", "x", "=", "1", "?", "s", "=", "b">>
\* "sip:h:5": a host and a port.
HostPort5 == <<"s", "i", "p", ":", "h", ":", "5">>

MC_InitURIs == {Full, HostPort5, <<>>}
MC_Schemes == {<<"s", "i", "p", "s">>}
MC_UserInfos == {<<"a", ":", "b">>, <<>>}
MC_HostPorts == {<<"h", ":", "1">>, <<"b">>}
MC_Hosts == {<<"b">>}
MC_Ports == {<<"5">>, <<"0">>}
MC_ParamStrings == {<<";", "y", "=", "1">>, <<>>}
MC_HeaderStrings == {<<"?", "t", "=", "a">>}
MC_Names == {<<"x">>}
MC_Values == {<<"0">>}
\* Arguments outside the pass run's domain, for the hazards they show:
\* "[1::1]:5", an IPv6 reference with a port;
MC_V6HostPorts == {<<"[", "1", ":", ":", "1", "]", ":", "5">>}
\* "s:x", which is not a scheme;
MC_BadSchemes == {<<"s", ":", "x">>}
\* ";a=1?x", of which only ";a=1" is uri-parameters.
MC_PartialParams == {<<";", "a", "=", "1", "?", "x">>}
==============================================================================
