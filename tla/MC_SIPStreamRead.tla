--------------------------- MODULE MC_SIPStreamRead ---------------------------
(***************************************************************************)
(* Model values for SIPStreamRead: a few short messages over the byte      *)
(* classes of SIPMessageParse.                                             *)
(***************************************************************************)
EXTENDS SIPStreamRead

\* "a\r\n\r\n": a start line and no headers.
MsgBare == <<"a", CR, LF, CR, LF>>
\* "a\r\nl:1\r\n\r\na": Content-Length 1 and a one byte body.
MsgBody == <<"a", CR, LF, "l", COLON, "1", CR, LF, CR, LF, "a">>
\* "a\r\nl:\r\n 1\r\n\r\na": the Content-Length value on a folded line.
MsgFolded == <<"a", CR, LF, "l", COLON, CR, LF, SP, "1", CR, LF, CR, LF, "a">>
\* "\r\n": a NAT keep-alive.
KeepAlive == <<CR, LF>>
\* "a\r\na:\ta\r\n\r\n": a header value holding a horizontal tab.
MsgTab == <<"a", CR, LF, "a", COLON, HT, "a", CR, LF, CR, LF>>
\* " \r\n\r\n": a start line that begins with a space.
MsgLeadingSpace == <<SP, CR, LF, CR, LF>>

MC_Messages == {MsgBare, MsgBody, MsgFolded, KeepAlive}
MC_TabMessages == {MsgBare, MsgTab}
MC_SpaceMessages == {MsgBare, MsgLeadingSpace}
=============================================================================
