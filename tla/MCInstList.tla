----------------------------- MODULE MCInstList -----------------------------
(* The instance list for TLC.  No property distinguishes instance objects, *)
(* all are safety properties, so the objects may be permuted.              *)
EXTENDS InstList, TLC

Objects == Permutations(Inst)
=============================================================================
