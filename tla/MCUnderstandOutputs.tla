------------------------ MODULE MCUnderstandOutputs ------------------------
(* Small instances of UnderstandOutputs for TLC. *)
EXTENDS UnderstandOutputs, TLC

CONSTANTS a, b, c, t1, t2, t3

Symmetry == Permutations({a, b}) \cup Permutations({t1, t2, t3})
=============================================================================
