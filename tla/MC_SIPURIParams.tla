-------------------------- MODULE MC_SIPURIParams --------------------------
(* Constants for checking SIPURIParams.  Names and values are strings of  *)
(* one-character strings.                                                 *)
EXTENDS SIPURIParams

\* "a", "b" and "lr", and values "1" and "2".
MC_Names == {<<"a">>, <<"b">>, <<"l", "r">>}
MC_Values == {<<"1">>, <<"2">>}
\* "", ";a=1", ";lr" and ";lr;a=2": parameters a parsed URI may carry.
MC_InitParams ==
  {<<>>, <<";", "a", "=", "1">>, <<";", "l", "r">>,
   <<";", "l", "r", ";", "a", "=", "2">>}
\* "A" is the name "a" in upper case; RFC 3261 compares parameter names
\* case-insensitively.
MC_CaseNames == {<<"A">>}
\* "lrx" starts with "lr".
MC_PrefixNames == {<<"l", "r">>, <<"l", "r", "x">>}
=============================================================================
