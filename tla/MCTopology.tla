---------------------------- MODULE MCTopology ----------------------------
(* Small instances of Topology for TLC. *)
EXTENDS Topology, TLC

Symmetry == Permutations(Boxes)

\* The careful operator of DSpec, who also types "destroy s0".
DestroySwitch == \E b \in Boxes : DestroyEther(b)
SwitchSpec == Init /\ [][DNext \/ DestroySwitch]_vars

===========================================================================
