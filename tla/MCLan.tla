------------------------------- MODULE MCLan -------------------------------
(* Two daemons with one virtual router between them.                       *)
EXTENDS VrrpLan

OneId == [x \in Host |-> 1]
=============================================================================
