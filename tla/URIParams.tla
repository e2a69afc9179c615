------------------------------ MODULE URIParams ------------------------------
(***************************************************************************)
(* What the parameter operations of SIPURI promise, without the string:   *)
(* a URI's parameters are a dictionary from name to value.  setParam      *)
(* gives a name a value, removeParam takes a name with a value out; the   *)
(* loose-routing parameter LR carries no value and is present or absent.  *)
(* last is the last call, with what it returned.                          *)
(***************************************************************************)
CONSTANTS
  Names,   \* the parameter names
  Values,  \* the parameter values
  LR,      \* the name "lr"
  Absent,  \* a name without a parameter
  Flag     \* LR present

VARIABLES dict, last

Call(op, n, v, ok) == [op |-> op, name |-> n, value |-> v, ok |-> ok]

TypeOK == dict \in [Names -> Values \cup {Absent, Flag}]

\* A value is set; setting LR again is refused.
Set(n, v) ==
  IF n = LR /\ dict[n] = Flag
  THEN last' = Call("set", n, v, FALSE) /\ UNCHANGED dict
  ELSE /\ dict' = [dict EXCEPT ![n] = IF n = LR THEN Flag ELSE v]
       /\ last' = Call("set", n, v, TRUE)

\* A parameter with a value is removed; anything else is refused.
Remove(n) ==
  IF dict[n] \in Values
  THEN dict' = [dict EXCEPT ![n] = Absent] /\ last' = Call("remove", n, Absent, TRUE)
  ELSE last' = Call("remove", n, Absent, FALSE) /\ UNCHANGED dict

Next == \E n \in Names : (\E v \in Values : Set(n, v)) \/ Remove(n)

Spec == TypeOK /\ [][Next]_<<dict, last>>
=============================================================================
