------------------------------ MODULE Patching ------------------------------
(***************************************************************************)
(* What the wiring commands of NetEmul promise the operator: a patch panel *)
(* of jacks joined by two-ended cords.  A cord is laid between two free    *)
(* jacks, a jack holds at most one cord, removing a cord frees both of its *)
(* jacks at once, and removing a device leaves its cords hanging by their  *)
(* other end.                                                              *)
(***************************************************************************)
CONSTANTS
  Jacks,    \* the jacks there may be
  Cords,    \* the cords
  Loose     \* the end that hangs in no jack; not one of Jacks

VARIABLES
  jacks,    \* the jacks present
  cord      \* each cord's two ends, or Loose when the cord is not in use

panel == <<jacks, cord>>

Ends == (Jacks \union {Loose}) \X (Jacks \union {Loose})

PanelOK == jacks \subseteq Jacks /\ cord \in [Cords -> Ends \union {Loose}]

Holds(c, j) == cord[c] # Loose /\ (cord[c][1] = j \/ cord[c][2] = j)
FreeJack(j) == j \in jacks /\ \A c \in Cords : ~ Holds(c, j)

Start == jacks = {} /\ cord = [c \in Cords |-> Loose]

AddDevice ==
  /\ jacks' \in SUBSET Jacks /\ jacks \subseteq jacks'
  /\ UNCHANGED cord

Lay(c, x, y) ==
  /\ cord[c] = Loose
  /\ FreeJack(x) /\ FreeJack(y) /\ x # y
  /\ cord' = [cord EXCEPT ![c] = <<x, y>>]
  /\ UNCHANGED jacks

PullCord(c) ==
  /\ cord[c] # Loose
  /\ cord' = [cord EXCEPT ![c] = Loose]
  /\ UNCHANGED jacks

\* The end of a cord after the jacks of J are gone.
EndWithout(e, J) == IF e \in J THEN Loose ELSE e

RemoveDevice ==
  LET J == jacks \ jacks' IN
  /\ jacks' \in SUBSET jacks
  /\ cord' = [c \in Cords |->
                IF cord[c] = Loose THEN Loose
                ELSE <<EndWithout(cord[c][1], J), EndWithout(cord[c][2], J)>>]

Change ==
  \/ AddDevice
  \/ \E c \in Cords : PullCord(c) \/ \E x, y \in jacks : Lay(c, x, y)
  \/ RemoveDevice

Panel == Start /\ [][Change]_panel

\* No jack ever holds two cords, nor both ends of one, and cords only ever
\* hang on jacks that are present (the promise behind connect_cable and the
\* destroy methods of components).
OneCordPerJack ==
  /\ \A c \in Cords, j \in Jacks : Holds(c, j) =>
       j \in jacks /\ \A d \in Cords : Holds(d, j) => d = c
  /\ \A c \in Cords : cord[c] # Loose /\ cord[c][1] # Loose =>
       cord[c][1] # cord[c][2]

=============================================================================
