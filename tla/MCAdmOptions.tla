--------------------------- MODULE MCAdmOptions ---------------------------
(* An id and a priority beyond a byte, an interval, an interface like br0, *)
(* an address list and an address.  An address list is invalid where the   *)
(* text of another option is typed after -A.                               *)
EXTENDS AdmOptions

TypedOptions ==
    { [opt |-> "v", val |-> 258, len |-> 3], [opt |-> "i", val |-> 0, len |-> 3],
      [opt |-> "d", val |-> 500, len |-> 3], [opt |-> "p", val |-> 300, len |-> 3],
      [opt |-> "A", val |-> 7, len |-> 7], [opt |-> "j", val |-> 3, len |-> 7] }
=============================================================================
