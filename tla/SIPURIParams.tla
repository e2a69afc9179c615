----------------------------- MODULE SIPURIParams -----------------------------
(***************************************************************************)
(* The parameter string of a SIP URI (";name=value;lr...") and the        *)
(* operations of SIPURI on it (src/sipparser/SIPURI.cpp): getParamEx,      *)
(* setParamEx, removeParam, and setParam/removeParam writing the result   *)
(* back with setParams.  A string is a sequence of one-character strings. *)
(*                                                                         *)
(* ABNF::findNextIterFromString(key, s) and the pvalue parser are outside *)
(* the repository; they are modelled from their use here: the first      *)
(* position after key in s (the start of s when key is absent), and the  *)
(* end of the run of parameter characters.                               *)
(***************************************************************************)
EXTENDS Naturals, Sequences

CONSTANTS
  Names,      \* the parameter names callers use, as strings of characters
  Values,     \* the parameter values callers use
  InitParams, \* the parameter strings a parsed URI may start with
  MaxOps      \* how many setParam/removeParam calls are made at most

SEMI == ";"
EQ == "="
LRName == <<"l", "r">>

\* boost::to_lower and ::strcasecmp over the characters used.
Lower(c) == IF c = "A" THEN "a" ELSE c
ToLower(s) == [i \in 1..Len(s) |-> Lower(s[i])]

\* A parameter character (pvalue = 1*paramchar): neither separator.
IsParamChar(c) == c \notin {SEMI, EQ, "?"}

VARIABLES
  params,  \* the parameters of the URI: what getParams returns
  last,    \* the last call and what it returned
  ops      \* the calls made

vars == <<params, last, ops>>

\* Marks outside every value (values are strings of characters too).
Absent == <<"(absent)">>
Flag == <<"(flag)">>

Call(op, n, v, ok) == [op |-> op, name |-> n, value |-> v, ok |-> ok]

------------------------------------------------------------------------------
(* String primitives.                                                     *)

\* findNextIterFromString(key, s + from): the offset (0-based, from the   *)
\* start of s) just past the first key at or after from; 0 if there is none.
FindNextFrom(key, s, from) ==
  LET I == {i \in (from + 1)..(Len(s) - Len(key) + 1) :
              SubSeq(s, i, i + Len(key) - 1) = key}
  IN IF I = {} THEN 0
     ELSE (CHOOSE i \in I : \A j \in I : i <= j) + Len(key) - 1
FindNext(key, s) == FindNextFrom(key, s, 0)

\* std::string::find(pat) # npos
Contains(s, pat) == FindNext(pat, s) # 0

\* pvalueParser.parse(s + off): the offset after the run of paramchars.
RECURSIVE PValueEnd(_, _)
PValueEnd(s, off) ==
  IF off < Len(s) /\ IsParamChar(s[off + 1]) THEN PValueEnd(s, off + 1) ELSE off

\* The characters from offset off to the end: std::string(s + off).
From(s, off) == SubSeq(s, off + 1, Len(s))

------------------------------------------------------------------------------
(* getParamEx(params, name, value): the key is ";name=", or ";lr" for lr; *)
(* lr found is TRUE with no value, otherwise the value is the pvalue     *)
(* after the key and must not be empty.                                  *)
GetParamEx(s, n) ==
  LET key == <<SEMI>> \o (IF n # LRName THEN n \o <<EQ>> ELSE n)
      st == FindNext(key, s)
  IN CASE st = 0 -> [ok |-> FALSE, value |-> <<>>]
       [] key = <<SEMI>> \o LRName -> [ok |-> TRUE, value |-> <<>>]
       [] PValueEnd(s, st) = st -> [ok |-> FALSE, value |-> <<>>]
       [] OTHER -> [ok |-> TRUE, value |-> SubSeq(s, st + 1, PValueEnd(s, st))]

\* getParam / hasParam: getParams, then getParamEx on a non-empty string.
GetParam(s, n) == IF s = <<>> THEN [ok |-> FALSE, value |-> <<>>]
                  ELSE GetParamEx(s, n)

\* Mutant: the value is spliced in without stepping back onto the ';' of
\* the parameter that follows (no tailOffSet--).
SetParamExNoStepBack(s, n, v) ==
  LET key == <<SEMI>> \o ToLower(n) \o <<EQ>>
      off == FindNext(key, s)
      tail == FindNextFrom(<<SEMI>>, s, off)
  IN CASE off = 0 /\ ToLower(n) # LRName ->
            [ok |-> TRUE, s |-> s \o <<SEMI>> \o n \o <<EQ>> \o v]
       [] off = 0 /\ Contains(s, <<SEMI>> \o LRName) -> [ok |-> FALSE, s |-> s]
       [] off = 0 -> [ok |-> TRUE, s |-> s \o <<SEMI>> \o LRName]
       [] OTHER ->
            [ok |-> TRUE, s |-> SubSeq(s, 1, off) \o v
                                 \o (IF tail # 0 THEN From(s, tail) ELSE <<>>)]

\* setParamEx(params, name, value): the key ";name=" is searched with the
\* name lower-cased.  Absent, ";name=value" is appended, or ";lr" when
\* the name is lr (refused when ";lr" is already in the string).  Present,
\* everything after the key up to the next ';' is replaced by the value.
SetParamEx(s, n, v) ==
  LET key == <<SEMI>> \o ToLower(n) \o <<EQ>>
      off == FindNext(key, s)
      tail == FindNextFrom(<<SEMI>>, s, off)
  IN CASE off = 0 /\ ToLower(n) # LRName ->
            [ok |-> TRUE, s |-> s \o <<SEMI>> \o n \o <<EQ>> \o v]
       [] off = 0 /\ Contains(s, <<SEMI>> \o LRName) -> [ok |-> FALSE, s |-> s]
       [] off = 0 -> [ok |-> TRUE, s |-> s \o <<SEMI>> \o LRName]
       [] OTHER ->
            [ok |-> TRUE, s |-> SubSeq(s, 1, off) \o v
                                 \o (IF tail # 0 THEN From(s, tail - 1) ELSE <<>>)]

\* removeParam(uri, name): the key is ";name=" (so lr cannot be removed);
\* the key and its non-empty value are cut out of the string.
RemoveParamEx(s, n) ==
  LET key == <<SEMI>> \o n \o <<EQ>>
      st == FindNext(key, s)
      nv == PValueEnd(s, st)
  IN CASE s = <<>> \/ st = 0 \/ nv = st -> [ok |-> FALSE, s |-> s]
       [] st = Len(key) -> [ok |-> TRUE, s |-> From(s, nv)]
       [] OTHER -> [ok |-> TRUE, s |-> SubSeq(s, 1, st - Len(key)) \o From(s, nv)]

------------------------------------------------------------------------------

\* A call c made on the URI with result r: on success setParams writes the
\* new string back, a refused call leaves the URI as it was.
Apply(c, r) ==
  /\ ops < MaxOps /\ ops' = ops + 1
  /\ params' = IF r.ok THEN r.s ELSE params
  /\ last' = [c EXCEPT !.ok = r.ok]

\* setParam(name, value)
SetParam(n, v) == Apply(Call("set", n, v, TRUE), SetParamEx(params, n, v))

\* removeParam(name)
RemoveParam(n) == Apply(Call("remove", n, Absent, TRUE), RemoveParamEx(params, n))

Init == params \in InitParams /\ last = Call("none", <<>>, Absent, TRUE) /\ ops = 0

Next == \E n \in Names : (\E v \in Values : SetParam(n, v)) \/ RemoveParam(n)

Spec == Init /\ [][Next]_vars

------------------------------------------------------------------------------
(* Properties.                                                             *)

\* The dictionary the string stands for: what getParam and hasParam return.
Dict == [n \in Names |->
           IF ~GetParam(params, n).ok THEN Absent
           ELSE IF n = LRName THEN Flag ELSE GetParam(params, n).value]

Abstract == INSTANCE URIParams WITH LR <- LRName, dict <- Dict

\* Every setParam and removeParam call, seen through getParam and
\* hasParam, sets or removes exactly the one parameter it names, leaves the
\* others as they were, and returns what the dictionary operation returns:
\* the string operations implement a dictionary.
ImplementsParamDict == Abstract!Spec

=============================================================================
