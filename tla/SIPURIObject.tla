----------------------------- MODULE SIPURIObject -----------------------------
(***************************************************************************)
(* The SIPURI class of src/sipparser/SIPURI.cpp as a whole: its getters   *)
(* and setters on the text of a URI (SIPURI) and the parameter-string     *)
(* operations getParamEx, setParamEx and the cut of removeParam           *)
(* (SIPURIParams), which the setters call on getParams.  A behaviour      *)
(* follows one of the two, named by entry; the other stays at its         *)
(* initial, empty state.                                                   *)
(***************************************************************************)
EXTENDS Sequences

CONSTANTS
  Chars, InitURIs, Schemes, UserInfos, HostPorts, Hosts, Ports,
  ParamStrings, HeaderStrings,
  Names, Values,      \* parameter names and values, shared by both parts
  MaxOps,             \* setter calls on a URI
  InitParams,         \* parameter strings getParams may return
  ParamMaxOps         \* operations on a parameter string

VARIABLES
  entry,                   \* "uri" or "params"
  data, last, ops, parts,  \* SIPURI
  params, plast, pops      \* SIPURIParams

vars == <<entry, data, last, ops, parts, params, plast, pops>>

Uri == INSTANCE SIPURI
Par == INSTANCE SIPURIParams WITH last <- plast, ops <- pops,
                                  MaxOps <- ParamMaxOps

Init ==
  \/ entry = "uri" /\ Uri!Init /\ Par!Init /\ params = <<>>
  \/ entry = "params" /\ Par!Init /\ Uri!Init /\ data = <<>>

Next ==
  \/ entry = "uri" /\ Uri!Next /\ UNCHANGED <<entry, params, plast, pops>>
  \/ entry = "params" /\ Par!Next /\ UNCHANGED <<entry, data, last, ops, parts>>

Spec == Init /\ [][Next]_vars

------------------------------------------------------------------------------
(* Properties: those of the two parts, stated in their modules.           *)

TypeOK == entry \in {"uri", "params"} /\ Uri!TypeOK

\* setParam, removeParam and getParam behave as a dictionary of names.
ImplementsParamDict == Par!ImplementsParamDict

\* The getters read what the URI grammar splits the text into.
GettersMatchParts == Uri!GettersMatchParts

\* A setter that returns true is read back by its getter.
RoundTrip == Uri!RoundTrip

==============================================================================
