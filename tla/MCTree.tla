-------------------------------- MODULE MCTree --------------------------------
(* Small networks for TLC. *)
EXTENDS Tree

CONSTANTS SwitchCounts, OtherCounts

CountsDef == [d \in Devices |-> IF d \in Switches THEN SwitchCounts ELSE OtherCounts]

\* The other devices may be renamed at will, so may the switches.
Symmetry == Permutations(Switches) \cup Permutations(Devices \ Switches)

===============================================================================
