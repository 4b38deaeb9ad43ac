------------------------------ MODULE MCMedia ------------------------------
(* Media for TLC. *)
EXTENDS Media, TLC

CONSTANTS c1, c2, m1

Cameras == Permutations(Camera)
=============================================================================
