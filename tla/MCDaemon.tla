------------------------------ MODULE MCDaemon ------------------------------
(* Instances of the daemon for TLC.                                        *)
EXTENDS DaemonHost, TLC

CONSTANTS a, b

SoloVrid == [v \in {a} |-> 1]
PairVrid == [v \in {a, b} |-> IF v = a THEN 1 ELSE 2]
SameVrid == [v \in {a, b} |-> 1]

\* Objects with the same id may be exchanged in a safety property.
Objects == Permutations({a, b})
=============================================================================
