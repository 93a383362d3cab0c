----------------------------- MODULE MCUploads -----------------------------
(* Uploads for TLC: requests are interchangeable. *)
EXTENDS Uploads, TLC

Symmetry == Permutations(Request)
=============================================================================
