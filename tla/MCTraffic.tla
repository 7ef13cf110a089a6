------------------------------ MODULE MCTraffic -------------------------------
(* A small instance of Traffic for TLC. *)
EXTENDS Traffic, TLC

Symmetry == Permutations(Boxes)

===============================================================================
