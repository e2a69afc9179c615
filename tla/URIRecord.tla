------------------------------- MODULE URIRecord -------------------------------
(***************************************************************************)
(* A SIP URI as the specification describes it (spec.md, section 3,       *)
(* SipUri): a scheme, an optional userinfo {user, password}, a host, an    *)
(* optional port, the parameters and the headers.  An update of a URI      *)
(* writes one of its components: the scheme, the userinfo, the host and   *)
(* port, the parameters, or the headers; the others keep their values.    *)
(***************************************************************************)
EXTENDS Sequences

CONSTANTS Chars

VARIABLE rec

Fields == {"scheme", "user", "password", "host", "port", "params", "headers"}

\* The components one update may write together.
Components == {{"scheme"}, {"user", "password"}, {"host", "port"}, {"params"},
               {"headers"}}

Init == rec \in [Fields -> Seq(Chars)]

\* One component takes new values; every other field is as it was.
Update ==
  LET new == rec'
      old == rec
  IN \E c \in Components : \A f \in Fields \ c : new[f] = old[f]

Spec == Init /\ [][Update]_rec

==============================================================================
