---------------------------- MODULE MC_SIPURIObject ----------------------------
(***************************************************************************)
(* Model values for SIPURIObject: URIs with and without userinfo, port,   *)
(* parameters and headers, the arguments callers pass the setters, and    *)
(* the parameter strings getParams returns.                               *)
(***************************************************************************)
EXTENDS SIPURIObject

MC_Chars == {"s", "i", "p", "n", "v", "a", "l", "d", "h", "b", "t", "x", "y",
             "r", "0", "1", "2", "5", ":", "@", ";", "=", "?", "&", "."}

\* "sip:a@h;x=1?s=b": userinfo, a parameter and a header.
Full == <<"s", "i", "p", ":", "a", "@", "h", ";", "x", "=", "1", "?", "s", "=", "b">>
\* "sip:h:5": a host and a port.
HostPort5 == <<"s", "i", "p", ":", "h", ":", "5">>

MC_InitURIs == {Full, HostPort5, <<>>}
MC_Schemes == {<<"s", "i", "p", "s">>}
MC_UserInfos == {<<"a", ":", "b">>, <<>>}
MC_HostPorts == {<<"h", ":", "1">>, <<"b">>}
MC_Hosts == {<<"b">>}
MC_Ports == {<<"5">>, <<"0">>}
MC_ParamStrings == {<<";", "y", "=", "1">>, <<>>}
MC_HeaderStrings == {<<"?", "t", "=", "a">>}
\* "a", "b" and "lr", and values "1" and "2".
MC_Names == {<<"a">>, <<"b">>, <<"l", "r">>}
MC_Values == {<<"1">>, <<"2">>}
\* "", ";a=1", ";lr" and ";lr;a=2": parameters a parsed URI may carry.
MC_InitParams ==
  {<<>>, <<";", "a", "=", "1">>, <<";", "l", "r">>,
   <<";", "l", "r", ";", "a", "=", "2">>}
==============================================================================
