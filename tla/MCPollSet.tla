------------------------------ MODULE MCPollSet -------------------------------
(* Small instances of PollSet for TLC.                                          *)
EXTENDS PollSet, TLC

Symmetry == Permutations(Virtual) \cup Permutations(Physical)
=============================================================================
