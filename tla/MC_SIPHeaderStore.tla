-------------------------- MODULE MC_SIPHeaderStore --------------------------
(* Constants for checking SIPHeaderStore: two header names, key 1 sorting  *)
(* before key 2, and a parsed message whose header 1 has two values and    *)
(* whose header 2 has an empty value ("Name:" with nothing after it).      *)
EXTENDS SIPHeaderStore

MC_Values == {"x", "y"}
MC_InitLines == << <<1, "x">>, <<2, "">>, <<1, "y">> >>
=============================================================================
