-------------------------------- MODULE SIPURI --------------------------------
(***************************************************************************)
(* OSS::SIP::SIPURI (src/sipparser/SIPURI.cpp): a SIP URI kept as its text *)
(* _data, read and rewritten by the ABNF parsers of RFC 3261.  A string   *)
(* is a sequence of one-character strings; an offset is a char* into it, *)
(* counted in characters from the start (0 is the start itself).         *)
(*                                                                         *)
(* The leaf rules (scheme, userinfo, hostport, uri-parameters, headers)   *)
(* are in the ABNF library, outside the repository; they are modelled     *)
(* from the RFC 3261 grammar as greedy runs over the characters the       *)
(* model's strings use, without the escaped %HH form and the telephone-   *)
(* subscriber alternative.  As in the library, a rule that fails returns  *)
(* the offset it started at, the same as a match of nothing.              *)
(***************************************************************************)
EXTENDS Naturals, Sequences, SequencesExt

CONSTANTS
  Chars,                \* every character the model's strings use
  InitURIs,             \* the strings a SIPURI is constructed from
  Schemes, UserInfos, HostPorts, Hosts, Ports,
  ParamStrings, HeaderStrings,
  Names, Values,        \* setParam and removeParam arguments
  MaxOps                \* how many setter calls are made at most

\* The parameter-string operators of setParam and removeParam.
P == INSTANCE SIPURIParams WITH params <- <<>>, last <- <<>>, ops <- 0,
                                InitParams <- {}

------------------------------------------------------------------------------
(* Character classes of RFC 3261 section 25.1.                            *)

Digit == {"0", "1", "2", "3", "4", "5", "6", "7", "8", "9"}
Mark == {"-", "_", ".", "!", "~", "*", "'", "(", ")"}
Punct == Mark \cup {":", "@", ";", "=", "?", "&", "[", "]", "+", "$", ",", "/"}
Alpha == Chars \ (Digit \cup Punct)
Unreserved == Alpha \cup Digit \cup Mark
SchemeChars == Alpha \cup Digit \cup {"+", "-", "."}
UserChars == Unreserved \cup {"&", "=", "+", "$", ",", ";", "?", "/"}
PasswordChars == Unreserved \cup {"&", "=", "+", "$", ","}
HostChars == Alpha \cup Digit \cup {"-", "."}
V6Chars == Digit \cup {"a", "b", "c", "d", "e", "f", ":", "."}
ParamChars == Unreserved \cup {"[", "]", "/", ":", "&", "+", "$"}
HnvChars == Unreserved \cup {"[", "]", "/", "?", ":", "+", "$"}

\* s[off+1] is c.
At(s, off, c) == off < Len(s) /\ s[off + 1] = c

\* The end of the longest run of characters of cls from off: just before
\* the first character after off that is not in cls.  (Each operator
\* below takes what it computes more than once as an argument: TLC does
\* not cache a LET under coverage.)
RunEndOf(s, off, out) == IF out = {} THEN Max({off, Len(s)}) ELSE Min(out) - 1
RunEnd(s, off, cls) == RunEndOf(s, off, {i \in (off + 1)..Len(s) : s[i] \notin cls})

------------------------------------------------------------------------------
(* The grammar rules: each returns the offset where its match ends.       *)

\* scheme = ALPHA *( ALPHA / DIGIT / "+" / "-" / "." )
SchemeEnd(s, off) ==
  IF off < Len(s) /\ s[off + 1] \in Alpha THEN RunEnd(s, off + 1, SchemeChars)
  ELSE off

\* userinfo = user [ ":" password ] "@"; u is the end of user, p of password.
UserEnd(s, off) == RunEnd(s, off, UserChars)
PasswordEndAt(s, off, u) ==
  IF u > off /\ At(s, u, ":") THEN RunEnd(s, u + 1, PasswordChars) ELSE u
PasswordEnd(s, off) == PasswordEndAt(s, off, UserEnd(s, off))
UserInfoEndAt(s, off, p) == IF p > off /\ At(s, p, "@") THEN p + 1 ELSE off
UserInfoEnd(s, off) == UserInfoEndAt(s, off, PasswordEnd(s, off))

\* hostport = host [ ":" port ];  host = hostname / IPv4address /
\* "[" IPv6address "]";  port = 1*DIGIT.  v ends the IPv6 address, h the
\* host, d the digits after it.
HostEndV6(off, v, s) == IF v > off + 1 /\ At(s, v, "]") THEN v + 1 ELSE off
HostEnd(s, off) ==
  IF At(s, off, "[") THEN HostEndV6(off, RunEnd(s, off + 1, V6Chars), s)
  ELSE RunEnd(s, off, HostChars)
PortEndAt(s, off, h, d) == IF h > off /\ At(s, h, ":") /\ d > h + 1 THEN d ELSE h
HostPortEndAt(s, off, h) == PortEndAt(s, off, h, RunEnd(s, h + 1, Digit))
HostPortEnd(s, off) == HostPortEndAt(s, off, HostEnd(s, off))

\* uri-parameters = *( ";" pname [ "=" pvalue ] ), pname and pvalue
\* 1*paramchar; n ends the name, v the value.
ValueEndAt(s, n, v) == IF At(s, n, "=") /\ v > n + 1 THEN v ELSE n
RECURSIVE ParamsEnd(_, _), ParamsEndAt(_, _, _)
ParamsEndAt(s, off, n) ==
  IF At(s, off, ";") /\ n > off + 1
  THEN ParamsEnd(s, ValueEndAt(s, n, RunEnd(s, n + 1, ParamChars)))
  ELSE off
ParamsEnd(s, off) == ParamsEndAt(s, off, RunEnd(s, off + 1, ParamChars))

\* headers = "?" header *( "&" header );  header = hname "=" hvalue; e
\* ends the header after the separator at off.
HeaderEndAt(s, off, n) ==
  IF n > off /\ At(s, n, "=") THEN RunEnd(s, n + 1, HnvChars) ELSE off
HeaderEnd(s, off) == HeaderEndAt(s, off, RunEnd(s, off, HnvChars))
RECURSIVE MoreHeadersEnd(_, _), MoreHeadersEndAt(_, _, _)
MoreHeadersEndAt(s, off, e) ==
  IF At(s, off, "&") /\ e > off + 1 THEN MoreHeadersEnd(s, e) ELSE off
MoreHeadersEnd(s, off) == MoreHeadersEndAt(s, off, HeaderEnd(s, off + 1))
HeadersEndAt(s, off, e) ==
  IF At(s, off, "?") /\ e > off + 1 THEN MoreHeadersEnd(s, e) ELSE off
HeadersEnd(s, off) == HeadersEndAt(s, off, HeaderEnd(s, off + 1))

\* HostPortParser: scheme ":" [userinfo] hostport, from off.  front is the
\* end of its first token (scheme, colon and userinfo), end the end of the
\* match; a failed match is at off.  sc ends the scheme, ui the userinfo,
\* e the hostport.
HostPortParsed(off, ok, ui, e) ==
  [ok |-> ok, front |-> IF ok THEN ui ELSE off, end |-> IF ok THEN e ELSE off]
HostPortParseAt(s, off, sc, ui) ==
  HostPortParsed(off, sc > off /\ At(s, sc, ":") /\ HostPortEnd(s, ui) > ui,
                 ui, HostPortEnd(s, ui))
HostPortParse(s, off) ==
  HostPortParseAt(s, off, SchemeEnd(s, off), UserInfoEnd(s, SchemeEnd(s, off) + 1))

\* URIParametersParser: HostPortParser [uri-parameters];  URIHeadersParser:
\* URIParametersParser [headers].
UriParamsParseAt(s, off, h) ==
  [ok |-> h.ok, hostPort |-> h.end,
   end |-> IF h.ok THEN ParamsEnd(s, h.end) ELSE off]
UriParamsParse(s, off) == UriParamsParseAt(s, off, HostPortParse(s, off))
UriHeadersParseAt(s, off, p) ==
  [ok |-> p.ok, params |-> p.end,
   end |-> IF p.ok THEN HeadersEnd(s, p.end) ELSE off]
UriHeadersParse(s, off) == UriHeadersParseAt(s, off, UriParamsParse(s, off))

\* ABNFEvaluate<rule>: the rule matches the whole, non-empty string.
Whole(s, end) == s # <<>> /\ end = Len(s)
UserInfoVerify(x) == Whole(x, PasswordEnd(x, 0))
HostPortVerify(x) == Whole(x, HostPortEnd(x, 0))
HeadersVerify(x) == Whole(x, HeadersEnd(x, 0))

------------------------------------------------------------------------------
(* The getters.  Each gives [ok |-> its bool result, value |-> its out    *)
(* string]; a getter that fails leaves the out string empty.              *)

Ans(ok, v) == [ok |-> ok, value |-> IF ok THEN v ELSE <<>>]

\* getScheme(uri, value)
GetScheme(s) == Ans(SchemeEnd(s, 0) > 0, SubSeq(s, 1, SchemeEnd(s, 0)))

\* getUser and getPassword: userInfoParser.parseTokens after the first ':'
\* gives user, ":" password (or nothing) and "@".
UserInfoAt(s) == P!FindNext(<<":">>, s)
HasUserInfo(s) == UserInfoAt(s) > 0 /\ UserInfoEnd(s, UserInfoAt(s)) > UserInfoAt(s)
GetUser(s) ==
  Ans(HasUserInfo(s), SubSeq(s, UserInfoAt(s) + 1, UserEnd(s, UserInfoAt(s))))
\* Mutant: the password keeps the ':' that tokens[1] starts with.
GetPasswordKeepColon(s) ==
  LET v == SubSeq(s, UserEnd(s, UserInfoAt(s)) + 1, PasswordEnd(s, UserInfoAt(s)))
  IN Ans(HasUserInfo(s) /\ v # <<>>, v)
GetPassword(s) ==
  LET v == SubSeq(s, UserEnd(s, UserInfoAt(s)) + 2, PasswordEnd(s, UserInfoAt(s)))
  IN Ans(HasUserInfo(s) /\ v # <<>>, v)

\* getHostPort(uri, value): the second token of HostPortParser.
GetHostPort(s) ==
  LET h == HostPortParse(s, 0) IN Ans(h.ok, SubSeq(s, h.front + 1, h.end))

\* OSS::string_tokenize(s, ":"): the non-empty pieces between the ':'s.
RECURSIVE Pieces(_)
Pieces(s) ==
  LET i == P!FindNext(<<":">>, s)
  IN IF i = 0 THEN <<s>>
     ELSE <<SubSeq(s, 1, i - 1)>> \o Pieces(SubSeq(s, i + 1, Len(s)))
Tokenize(s) == SelectSeq(Pieces(s), LAMBDA t : t # <<>>)

\* getHost(uri, host) and getPort(uri, port): split getHostPort at ':'.
GetHost(s) ==
  LET hp == GetHostPort(s).value
  IN Ans(hp # <<>>, IF Len(Tokenize(hp)) <= 1 THEN hp ELSE Tokenize(hp)[1])
GetPort(s) ==
  LET t == Tokenize(GetHostPort(s).value)
  IN Ans(Len(t) = 2, IF Len(t) = 2 THEN t[2] ELSE <<>>)

\* getParams(uri, params) and getHeaders(uri, headers): the second token
\* of URIParametersParser and URIHeadersParser.
GetParams(s) ==
  LET p == UriParamsParse(s, 0) IN Ans(p.ok, SubSeq(s, p.hostPort + 1, p.end))
GetHeaders(s) ==
  LET h == UriHeadersParse(s, 0) IN Ans(h.ok, SubSeq(s, h.params + 1, h.end))

\* getIdentity(uri, identity, includeScheme, includePort): [scheme ":"]
\* [user "@"] and the hostport or the host.
GetIdentity(s, withScheme, withPort) ==
  LET user == GetUser(s).value
      hp == IF withPort THEN GetHostPort(s) ELSE GetHost(s)
  IN Ans(GetScheme(s).ok /\ hp.ok,
         (IF withScheme THEN GetScheme(s).value \o <<":">> ELSE <<>>)
         \o (IF user # <<>> THEN user \o <<"@">> ELSE <<>>) \o hp.value)

\* getParam(uri, name, value): getParamEx on a non-empty getParams.
GetParam(s, n) == P!GetParam(GetParams(s).value, n)

\* OSS::string_tokenize(s, "&").
RECURSIVE AmpPieces(_)
AmpPieces(s) ==
  LET i == P!FindNext(<<"&">>, s)
  IN IF i = 0 THEN <<s>>
     ELSE <<SubSeq(s, 1, i - 1)>> \o AmpPieces(SubSeq(s, i + 1, Len(s)))

\* getHeader(uri, name, value): the headers without '?', split at '&'.  A
\* single header is taken whatever its name; of several, the first whose
\* first |name| characters are the name.  The value is what follows the
\* first |name| + 1 characters, and must not be empty.
GetHeader(s, n) ==
  LET hs == LET h == GetHeaders(s).value
            IN IF h # <<>> /\ h[1] = "?" THEN Tail(h) ELSE h
      toks == SelectSeq(AmpPieces(hs), LAMBDA t : t # <<>>)
      hits == {i \in 1..Len(toks) : Len(toks[i]) >= Len(n) /\ SubSeq(toks[i], 1, Len(n)) = n}
      v == IF GetHeaders(s).value = <<>> THEN <<>>
           ELSE IF Len(toks) = 1 THEN hs
           ELSE IF hits = {} THEN <<>> ELSE toks[Min(hits)]
  IN Ans(Len(v) > Len(n) + 1, SubSeq(v, Len(n) + 2, Len(v)))

------------------------------------------------------------------------------
(* The setters.  Each gives [ok |-> its result, s |-> the new _data].     *)

\* check_empty: a SIPURI with no text is SIPURI::EMPTY_URI, "sip:invalid".
EmptyURI == <<"s", "i", "p", ":", "i", "n", "v", "a", "l", "i", "d">>
CheckEmpty(s) == IF s = <<>> THEN EmptyURI ELSE s

Fail(s) == [ok |-> FALSE, s |-> s]
Done(s) == [ok |-> TRUE, s |-> s]

\* setScheme(uri, scheme): the new scheme and everything after the old.
SetSchemeEx(s, x) ==
  IF x = <<>> \/ s = <<>> \/ SchemeEnd(s, 0) = 0 THEN Fail(s)
  ELSE Done(x \o P!From(s, SchemeEnd(s, 0)))

\* setUserInfo(uri, userInfo): up to the first ':', then userInfo "@"
\* (nothing for an empty userInfo), then what follows the old userinfo.
SetUserInfoEx(s, x) ==
  LET so == UserInfoAt(s)
  IN IF (x # <<>> /\ ~UserInfoVerify(x)) \/ so = 0 THEN Fail(s)
     ELSE Done(SubSeq(s, 1, so) \o (IF x # <<>> THEN x \o <<"@">> ELSE <<>>)
               \o P!From(s, UserInfoEnd(s, so)))

\* setHostPort(uri, hostPort): the first token of HostPortParser, the new
\* host and port, and what followed the old ones.
SetHostPortEx(s, hp) ==
  LET h == HostPortParse(s, 0)
  IN IF ~HostPortVerify(hp) \/ ~h.ok THEN Fail(s)
     ELSE Done(SubSeq(s, 1, h.front) \o hp \o P!From(s, h.end))

\* setHost(host): the new host with the port getPort finds, if any.
SetHostEx(s, x) ==
  IF GetPort(s).ok THEN SetHostPortEx(s, x \o <<":">> \o GetPort(s).value)
  ELSE SetHostPortEx(s, x)

\* Mutant: setPort without the strcmp(port, "0") test.
SetPortEx0(s, p) == SetHostPortEx(s, GetHost(s).value \o <<":">> \o p)

\* setPort(port): getHost() with ":" port, or alone for port "0".
SetPortEx(s, p) ==
  SetHostPortEx(s, GetHost(s).value
                     \o (IF p # <<"0">> THEN <<":">> \o p ELSE <<>>))

\* setParams(uri, params): refused when the uri-parameters rule matches
\* nothing of a non-empty params.  The text up to the end of hostport is
\* kept; params is appended when URIParametersParser, run from there,
\* matches nothing; then the headers the headers rule matches from where
\* that parser stopped.
SetParamsEx(s, p) ==
  LET hp == HostPortParse(s, 0).end
      up == UriParamsParse(s, hp).end
      front == SubSeq(s, 1, hp) \o (IF up = hp THEN p ELSE <<>>)
  IN IF (p # <<>> /\ ParamsEnd(p, 0) = 0) \/ hp = 0 THEN Fail(s)
     ELSE Done(front \o SubSeq(s, up + 1, HeadersEnd(s, up)))

\* setParam(uri, name, value): setParamEx on getParams, then setParams.
SetParamEx(s, n, v) ==
  LET r == P!SetParamEx(GetParams(s).value, n, v)
  IN IF r.ok THEN SetParamsEx(s, r.s) ELSE Fail(s)

\* removeParam(uri, name): an empty getParams fails; otherwise the key
\* and its value are cut out and the rest written back with setParams.
RemoveParamEx(s, n) ==
  LET r == P!RemoveParamEx(GetParams(s).value, n)
  IN IF r.ok THEN SetParamsEx(s, r.s) ELSE Fail(s)

\* setHeaders(uri, headers): the text up to the end of the parameters,
\* then the new headers.
SetHeadersEx(s, h) ==
  LET p == UriParamsParse(s, 0)
  IN IF ~HeadersVerify(h) \/ ~p.ok THEN Fail(s)
     ELSE Done(SubSeq(s, 1, p.end) \o h)

None == <<>>

------------------------------------------------------------------------------
(* The URI the text stands for, split by the grammar: the refinement     *)
(* mapping to URIRecord.  Text without data is read as check_empty makes  *)
(* it.                                                                     *)

Parts(s0) ==
  LET s == CheckEmpty(s0)
      h == UriHeadersParse(s, 0)
      hp == HostPortParse(s, 0)
      ui == UserInfoAt(s)
      he == HostEnd(s, hp.front)
  IN [scheme |-> SubSeq(s, 1, SchemeEnd(s, 0)),
      user |-> IF hp.front > ui THEN SubSeq(s, ui + 1, UserEnd(s, ui)) ELSE None,
      password |-> IF hp.front > ui THEN SubSeq(s, UserEnd(s, ui) + 2,
                                                 PasswordEnd(s, ui))
                   ELSE None,
      host |-> SubSeq(s, hp.front + 1, he),
      port |-> SubSeq(s, he + 2, hp.end),
      params |-> SubSeq(s, hp.end + 1, h.params),
      headers |-> SubSeq(s, h.params + 1, h.end)]

------------------------------------------------------------------------------

VARIABLES
  data,  \* _data: the text of the URI
  last,  \* the last setter call and what it returned
  ops,   \* how many setter calls were made
  parts  \* Parts(data), below: the URI the text stands for

vars == <<data, last, ops, parts>>


\* A setter call: the call's result r gives the new _data and the result.
Call(op, arg, r) ==
  /\ ops < MaxOps
  /\ ops' = ops + 1
  /\ data' = r.s
  /\ parts' = Parts(r.s)
  /\ last' = [op |-> op, arg |-> arg, ok |-> r.ok, before |-> data]

\* setScheme, setUserInfo, setHostPort, setPort, setParams, setParam and
\* setHeaders start with check_empty(this); setHost checks its argument
\* first; removeParam does not call it.
SetScheme(x) == Call("setScheme", x, SetSchemeEx(CheckEmpty(data), x))
SetUserInfo(x) == Call("setUserInfo", x, SetUserInfoEx(CheckEmpty(data), x))
SetHostPort(x) == Call("setHostPort", x, SetHostPortEx(CheckEmpty(data), x))
SetHost(x) ==
  Call("setHost", x, IF x = None THEN Fail(data) ELSE SetHostEx(CheckEmpty(data), x))
SetPort(x) == Call("setPort", x, SetPortEx(CheckEmpty(data), x))
SetParams(x) == Call("setParams", x, SetParamsEx(CheckEmpty(data), x))
SetParam(n, v) == Call("setParam", <<n, v>>, SetParamEx(CheckEmpty(data), n, v))
RemoveParam(n) == Call("removeParam", n, RemoveParamEx(data, n))
SetHeaders(x) == Call("setHeaders", x, SetHeadersEx(CheckEmpty(data), x))

\* SIPURI(const std::string&): the text as given.
Init ==
  /\ data \in InitURIs
  /\ last = [op |-> "none", arg |-> None, ok |-> TRUE, before |-> data]
  /\ ops = 0
  /\ parts = Parts(data)

Next ==
  \/ \E x \in Schemes : SetScheme(x)
  \/ \E x \in UserInfos : SetUserInfo(x)
  \/ \E x \in HostPorts : SetHostPort(x)
  \/ \E x \in Hosts : SetHost(x)
  \/ \E x \in Ports : SetPort(x)
  \/ \E x \in ParamStrings : SetParams(x)
  \/ \E n \in Names : RemoveParam(n) \/ \E v \in Values : SetParam(n, v)
  \/ \E x \in HeaderStrings : SetHeaders(x)

Spec == Init /\ [][Next]_vars

\* The mapping is the variable parts, which every step sets to Parts of the
\* new text: TLC then evaluates Parts on values, never under a prime.
Record == INSTANCE URIRecord WITH rec <- parts

------------------------------------------------------------------------------
(* Properties.                                                             *)

TypeOK ==
  /\ data \in Seq(Chars)
  /\ ops \in 0..MaxOps
  /\ last.ok \in BOOLEAN

\* What each getter reads after a setter wrote x into s; before is the
\* text the setter started from.
ReadsBack(op, x, s, before) ==
  /\ op = "setScheme" => GetScheme(s).value = x
  /\ op = "setUserInfo" =>
       /\ GetUser(s).value = SubSeq(x, 1, UserEnd(x, 0))
       /\ GetPassword(s).value = SubSeq(x, UserEnd(x, 0) + 2, Len(x))
  /\ op = "setHostPort" => GetHostPort(s).value = x
  /\ op = "setHost" => GetHost(s).value = x /\ GetPort(s) = GetPort(before)
  /\ op = "setPort" =>
       /\ GetPort(s).value = (IF x = <<"0">> THEN <<>> ELSE x)
       /\ GetHost(s) = GetHost(before)
  /\ op = "setParams" => GetParams(s).value = x
  /\ op = "setParam" => GetParam(s, x[1]).ok /\ (x[1] # P!LRName => GetParam(s, x[1]).value = x[2])
  /\ op = "removeParam" => ~GetParam(s, x).ok
  /\ op = "setHeaders" => GetHeaders(s).value = x

\* A setter that returns true has written what its getter then reads: the
\* scheme, user and password, hostport, the host with the old port kept
\* (setHost re-reads getPort), the port with the host kept ("0" meaning
\* no port), the parameter string, the one parameter, and the headers.
RoundTrip ==
  [][last'.ok => ReadsBack(last'.op, last'.arg, data', CheckEmpty(data))]_vars

\* Each getter parses the text on its own (getUser from the first ':',
\* getHost and getPort by splitting getHostPort at ':', getIdentity from
\* three getters); on every text a SIPURI holds they read the scheme,
\* user, password, host, port, parameters and headers that the URI
\* grammar splits the whole text into.
GettersMatchParts ==
  data # None =>
    /\ GetScheme(data).value = parts.scheme
    /\ GetUser(data).value = parts.user
    /\ GetPassword(data).value = parts.password
    /\ GetHost(data).value = parts.host
    /\ GetPort(data).value = parts.port
    /\ GetParams(data).value = parts.params
    /\ GetHeaders(data).value = parts.headers
    /\ GetIdentity(data, TRUE, TRUE).value =
         parts.scheme \o <<":">>
         \o (IF parts.user # None THEN parts.user \o <<"@">> ELSE None)
         \o parts.host \o (IF parts.port # None THEN <<":">> \o parts.port ELSE None)

\* Every setter writes one component of the URI and keeps the others
\* (spec.md, SipUri): setParams and the setParam and removeParam calls
\* that go through it keep the headers, setHeaders keeps the parameters,
\* setHostPort keeps the userinfo.
ImplementsURIRecord == Record!Spec

==============================================================================
