--------------------------- MODULE MCJobDelivery ---------------------------
(* Small instances of JobDelivery for TLC. *)
EXTENDS JobDeliveryProps, TLC

CONSTANTS w1, w2, a, b, c

WorkerSymmetry == Permutations({w1, w2})
=============================================================================
