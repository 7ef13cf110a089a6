--------------------------------- MODULE Tree ---------------------------------
(***************************************************************************)
(* The tree command: a walk over the links, starting at a device, builds a  *)
(* tree; sketch gives every tree node a pixel of a fixed canvas; render     *)
(* prints names and the lines between them.                                 *)
(*                                                                          *)
(* The walk goes by names.  A link has two ends, an end the name of the     *)
(* device its port was made for, Nil if the port was destroyed.  An         *)
(* Ethernet switch leaves its ports behind, wired and named after it; when  *)
(* a new switch takes the name, the walk finds those of them at it whose    *)
(* number the new one also has.                                             *)
(*                                                                          *)
(* A tree is the sequence of its nodes in the order of tree_add, a node     *)
(* knows the place of its parent in it.  check_node and _sketch call        *)
(* themselves: a step is what one call does up to the next call or return,  *)
(* at is the tree node it is about, and the parents of at are the calls     *)
(* that wait below it.                                                      *)
(***************************************************************************)
EXTENDS Integers, Sequences, FiniteSetsExt, TLC

CONSTANTS
  Devices,      \* the names of hosts, hubs and switches
  Switches,     \* those of Ethernet switches
  Counts,       \* the numbers of ports the operator asks for, for each of them
  MaxLinks,     \* links there may be
  MaxLeft,      \* ends of links that destroyed switches may leave behind
  MaxChildren,  \* MAX_CHILDRUN_COUNT
  Rows, Columns,  \* ROW and COLUMN, the size of the canvas
  Nil

ASSUME TreeAssumption ==
  /\ Counts \in [Devices -> SUBSET (Nat \ {0})]
  /\ MaxLinks \in Nat /\ MaxLeft \in Nat /\ MaxChildren \in Nat \ {0}
  /\ Rows \in Nat \ {0} /\ Columns \in Nat \ {0}
  /\ Nil \notin Devices /\ Switches \subseteq Devices

VARIABLES
  links,    \* the links of manager->nodes, by their place in its iteration: two ends each
  left,     \* the ends whose port outlived its switch, and the least of Counts that a switch
            \* of its name must have to have a port of that number
  known,    \* the devices get_node finds
  ports,    \* and the node_count of each
  phase,    \* what the tree command is at; "null" and "wild" end the program
  list,     \* the places of the links the walk has not used
  tree,     \* the tree nodes
  round,    \* the i of check_node at each of them
  at,       \* the tree node the running call is about
  drawn,    \* the tree nodes that have a pixel,
  row,      \* its row,
  level,    \* its column,
  rows      \* and how many rows the children drawn so far have used

net == <<links, left, known, ports>>
walk == <<phase, list, tree, round, at>>
canvas == <<drawn, row, level, rows>>
vars == <<net, walk, canvas>>

Ends(l) == {l[1], l[2]}
Half(l) == Nil \in Ends(l)

\* The link at k is connected to a port of d itself, or to one that was left under its
\* name and has a number d also has: check_link compares names.
Own(k, d) == \E j \in 1..2 : links[k][j] = d /\ <<k, j>> \notin DOMAIN left
Shown(k, d) ==
  \E j \in 1..2 : links[k][j] = d /\ (<<k, j>> \in DOMAIN left => left[<<k, j>>] <= ports[d])

\* The ports of d itself that the links at the places of L are connected to.
OwnEnds(L, d, j) == {k \in L : links[k][j] = d /\ <<k, j>> \notin DOMAIN left}
Used(L, d) == Cardinality(OwnEnds(L, d, 1)) + Cardinality(OwnEnds(L, d, 2))

TypeOK ==
  /\ DOMAIN links \subseteq 1..MaxLinks
  /\ links \in [DOMAIN links -> (Devices \cup {Nil}) \X (Devices \cup {Nil})]
  /\ DOMAIN left \subseteq (DOMAIN links) \X (1..2) /\ left \in [DOMAIN left -> Nat]
  /\ known \subseteq Devices /\ ports \in [known -> Nat \ {0}]
  /\ \A d \in known : Used(DOMAIN links, d) <= ports[d]
  /\ phase \in {"idle", "walk", "sketch", "drawn", "null", "wild"}
  /\ list \subseteq DOMAIN links
  /\ tree \in Seq([self : Devices, parent : Nat])
  /\ round \in Seq(Nat) /\ Len(round) = Len(tree)
  /\ phase # "idle" => at \in DOMAIN tree
  /\ drawn \subseteq DOMAIN tree
  /\ drawn # {} => {row, level, rows} \subseteq [DOMAIN tree -> Nat]

Init ==
  /\ links = << >> /\ left = << >> /\ known = {} /\ ports = << >>
  /\ phase = "idle" /\ list = {} /\ tree = << >> /\ round = << >> /\ at = 0
  /\ drawn = {} /\ row = << >> /\ level = << >> /\ rows = << >>

-----------------------------------------------------------------------------
(* The other commands, as far as the walk can tell *)

\* A new device takes a name that get_node does not find (switch_create), which may be
\* that of one that was destroyed.
Create(d, n) ==
  /\ phase = "idle" /\ d \notin known
  /\ known' = known \cup {d}
  /\ ports' = [x \in known \cup {d} |-> IF x = d THEN n ELSE ports[x]]
  /\ UNCHANGED <<links, left, walk, canvas>>

\* Two ports are free, and the operator names them or leaves the choice to is_available,
\* which takes a free one; a link from a port to itself is Topology's matter.
Available(a, b) ==
  LET used(d) == Used(DOMAIN links, d) IN
  /\ used(a) < ports[a] /\ used(b) < ports[b]
  /\ a = b => used(a) + 1 < ports[a]

\* Its name decides which place a link takes among the others.
CreateLink(k, a, b) ==
  /\ phase = "idle" /\ k \notin DOMAIN links
  /\ {a, b} \subseteq known
  /\ Available(a, b)
  /\ links' = [x \in DOMAIN links \cup {k} |-> IF x = k THEN <<a, b>> ELSE links[x]]
  /\ UNCHANGED <<left, known, ports, walk, canvas>>

DestroyLink(k) ==
  /\ phase = "idle" /\ k \in DOMAIN links
  /\ links' = [x \in DOMAIN links \ {k} |-> links[x]]
  /\ left' = [e \in {e \in DOMAIN left : e[1] # k} |-> left[e]]
  /\ UNCHANGED <<known, ports, walk, canvas>>

\* A host or a hub goes with its ports.
DestroyDevice(d) ==
  /\ phase = "idle" /\ d \in known \ Switches
  /\ known' = known \ {d} /\ ports' = [x \in known \ {d} |-> ports[x]]
  /\ links' = [k \in DOMAIN links |->
                 <<IF links[k][1] = d THEN Nil ELSE links[k][1],
                   IF links[k][2] = d THEN Nil ELSE links[k][2]>>]
  /\ UNCHANGED <<left, walk, canvas>>

\* The ends of links at ports of d itself.
Connected(d) ==
  {e \in (DOMAIN links) \X (1..2) : links[e[1]][e[2]] = d /\ e \notin DOMAIN left}

\* An Ethernet switch leaves its ports behind (ether_switch_destroy).  From here on it
\* matters which of them a link is connected to: no more than n of them have a number
\* below n.
DestroySwitch(d) ==
  /\ phase = "idle" /\ d \in known \cap Switches
  /\ known' = known \ {d} /\ ports' = [x \in known \ {d} |-> ports[x]]
  /\ Cardinality(DOMAIN left \cup Connected(d)) <= MaxLeft
  /\ \E least \in [Connected(d) -> {n \in Counts[d] : n <= ports[d]}] :
       /\ \A n \in Counts[d] : Cardinality({e \in Connected(d) : least[e] <= n}) <= n
       /\ left' = [e \in DOMAIN left \cup Connected(d) |->
                     IF e \in Connected(d) THEN least[e] ELSE left[e]]
  /\ UNCHANGED <<links, walk, canvas>>

-----------------------------------------------------------------------------
(* The walk: check_node and check_link *)

Kids(n) == {m \in DOMAIN tree : tree[m].parent = n}
Full(n) == Cardinality(Kids(n)) >= MaxChildren

First(S) == {k \in S : \A m \in S : k <= m}

\* Variant: a link that hangs is passed over.
FoundWhole(L, d) == First({k \in L : ~ Half(links[k]) /\ Shown(k, d)})

\* The link check_link comes upon, if any: the first with an end that has the name of a
\* port of d, unless a hanging one, whose null end it asks for its name, comes before.
Found(L, d) == First({k \in L : Half(links[k]) \/ Shown(k, d)})
OtherEnd(l, d) == IF l[1] = d THEN l[2] ELSE l[1]

\* Variant: the link removed is the first of the list, not the one that was found.
TakeFirst(k) == list \ First(list)

\* list_remove_data
Take(k) == list \ {k}

Here == tree[at].self
NextRound == [round EXCEPT ![at] = @ + 1]

\* cmd_tree, down to the first check_node
Start(r) ==
  /\ phase = "idle" /\ r \in known
  /\ phase' = "walk" /\ list' = DOMAIN links /\ at' = 1
  /\ tree' = <<[self |-> r, parent |-> 0]>> /\ round' = <<0>>
  /\ UNCHANGED <<net, canvas>>

\* tree_add, and check_node for the other end of the link found.
Descend(k, e) ==
  /\ ~ Half(links[k]) /\ e \in known /\ ~ Full(at)
  /\ list' = Take(k) /\ round' = Append(NextRound, 0)
  /\ tree' = Append(tree, [self |-> e, parent |-> at])
  /\ at' = Len(tree) + 1
  /\ UNCHANGED <<net, phase, canvas>>

\* tree_add finds no room and returns null.  check_node goes on below the null: there
\* check_link takes one more link out of the list and returns the null it was given.
Refuse(k, e) ==
  /\ ~ Half(links[k]) /\ e \in known /\ Full(at)
  /\ \A x \in Found(Take(k), e) : ~ Half(links[x])
  /\ list' = Take(k) \ Found(Take(k), e) /\ round' = NextRound
  /\ UNCHANGED <<net, phase, tree, at, canvas>>

\* The link found hangs, get_node finds no device at its other end, or the second one
\* below a null hangs.
Crash(k, e) ==
  /\ Half(links[k]) \/ e \notin known
       \/ (Full(at) /\ \E x \in Found(Take(k), e) : Half(links[x]))
  /\ phase' = "null"
  /\ UNCHANGED <<net, list, tree, round, at, canvas>>

CheckLink ==
  /\ phase = "walk" /\ round[at] < ports[Here]
  /\ \E k \in Found(list, Here) : LET e == OtherEnd(links[k], Here) IN
       Descend(k, e) \/ Refuse(k, e) \/ Crash(k, e)

\* check_node has no more rounds, or there is no link: it returns.
Ended == phase = "walk" /\ (round[at] >= ports[Here] \/ Found(list, Here) = {})

Ascend ==
  /\ Ended /\ at # 1
  /\ at' = tree[at].parent
  /\ UNCHANGED <<net, phase, list, tree, round, canvas>>

-----------------------------------------------------------------------------
(* The layout: sketch *)

\* The whole walk is done: the canvas is cleared, and the root is drawn.
Sketch ==
  /\ Ended /\ at = 1
  /\ phase' = "sketch" /\ drawn' = {1}
  /\ LET zero == [n \in DOMAIN tree |-> 0] IN row' = zero /\ level' = zero /\ rows' = zero
  /\ UNCHANGED <<net, list, tree, round, at>>

\* Variant: every child starts on the row below the last one's.
RowBelow == row[at] + Cardinality(Kids(at) \cap drawn)

\* The row and the column of the next child: its arguments sequence and level.
NextRow == row[at] + rows[at]
NextLevel == level[at] + 1
Undrawn == Kids(at) \ drawn

DrawChild ==
  /\ phase = "sketch" /\ NextRow < Rows /\ NextLevel < Columns
  /\ \E m \in First(Undrawn) :
       /\ at' = m /\ drawn' = drawn \cup {m}
       /\ row' = [row EXCEPT ![m] = NextRow] /\ level' = [level EXCEPT ![m] = NextLevel]
  /\ UNCHANGED <<net, phase, list, tree, round, rows>>

\* _sketch returns the rows it has used: those of the children, or one.
Height(n) == IF Kids(n) = {} THEN 1 ELSE rows[n]

Return ==
  /\ phase = "sketch" /\ Undrawn = {} /\ ~ Full(at)
  /\ IF at = 1 THEN phase' = "drawn" /\ UNCHANGED <<at, rows>>
     ELSE /\ at' = tree[at].parent
          /\ rows' = [rows EXCEPT ![at'] = @ + Height(at)] /\ UNCHANGED phase
  /\ UNCHANGED <<net, list, tree, round, drawn, row, level>>

\* A write leaves the canvas, or sketch reads past the children of a full node.
RunWild ==
  /\ phase = "sketch"
  /\ IF Undrawn = {} THEN Full(at) ELSE NextRow >= Rows \/ NextLevel >= Columns
  /\ phase' = "wild"
  /\ UNCHANGED <<net, list, tree, round, at, canvas>>

\* tree_destroy and list_destroy, after sketch_render
Free ==
  /\ phase = "drawn"
  /\ phase' = "idle" /\ list' = {} /\ tree' = << >> /\ round' = << >> /\ at' = 0
  /\ drawn' = {} /\ row' = << >> /\ level' = << >> /\ rows' = << >>
  /\ UNCHANGED net

Next ==
  \/ \E d \in Devices : \E n \in Counts[d] : Create(d, n)
  \/ \E k \in 1..MaxLinks : DestroyLink(k) \/ \E a, b \in Devices : CreateLink(k, a, b)
  \/ \E d \in Devices : DestroyDevice(d) \/ DestroySwitch(d) \/ Start(d)
  \/ CheckLink \/ Ascend \/ Sketch \/ DrawChild \/ Return \/ RunWild \/ Free

Spec == Init /\ [][Next]_vars

-----------------------------------------------------------------------------
(* The lines: sketch and sketch_render *)

Siblings(n) == Kids(tree[n].parent)

\* Variant: an only child is not told from a last one.
PipeOfLast(n) ==
  IF tree[n].self = tree[Max(Siblings(n))].self THEN " +-"
  ELSE IF tree[n].self = tree[Min(Siblings(n))].self THEN "-+-"
  ELSE " +-"

\* The line to the left of a node, by comparison with what the last and the first of
\* its siblings show.
Pipe(n) ==
  IF Cardinality(Siblings(n)) = 1 THEN "---"
  ELSE IF tree[n].self = tree[Max(Siblings(n))].self THEN " +-"
  ELSE IF tree[n].self = tree[Min(Siblings(n))].self THEN "-+-"
  ELSE " +-"

\* The nearest pixel in use at or above a place of the canvas.
Nearest(i, j) ==
  LET column == {n \in drawn : level[n] = j /\ row[n] <= i} IN
  {n \in column : \A m \in column : row[m] <= row[n]}

\* The children a pixel has left to print once the rows above i are done: each one
\* that is printed counts down at the pixel nearest to its left.
Left(n, i) ==
  Cardinality(Kids(n))
  - Cardinality({m \in drawn : level[m] = level[n] + 1 /\ row[m] < i
                               /\ n \in Nearest(row[m], level[n])})

Empty(i, j) == ~ \E m \in drawn : row[m] = i /\ level[m] = j

\* Variant: no pixel counts down.
BarStays(i, j) == Empty(i, j + 1) /\ \E n \in Nearest(i, j) : Kids(n) # {}

\* A bar is printed to the right of a place.
Bar(i, j) == Empty(i, j + 1) /\ \E n \in Nearest(i, j) : Left(n, i) > 0

-----------------------------------------------------------------------------
(* Properties *)

Drawn == phase = "drawn"

\* The part of the network joined to r; the walk does not go on from a device it
\* cannot find.
Closed(S) == \A k \in DOMAIN links : \A d \in S \cap known \cap Ends(links[k]) :
               OtherEnd(links[k], d) \in S
Part(r) == {d \in Devices \cup {Nil} :
              \A S \in SUBSET (Devices \cup {Nil}) : r \in S /\ Closed(S) => d \in S}

\* Some device of the part joined to r has the name of one whose ports are left: the
\* walk cannot tell the links of the two apart, and may have too few rounds for both.
Mixed(r) == \E e \in DOMAIN left : links[e[1]][e[2]] \in Part(r) \cap known

\* The command uses a null pointer only if some link of the whole emulator has lost an
\* end, be it nowhere near the device that was asked for, or the walk comes to the name
\* of a destroyed switch that no new one has taken.  Unless names have been mixed up
\* a lost end is always met, and such a name is missed only below a full tree node
\* (check_link, check_node).
NullByHalfLinks ==
  phase \in {"drawn", "null", "wild"} =>
    LET half == \E k \in DOMAIN links : Half(links[k])
        lost == ~ Part(tree[1].self) \subseteq known
    IN  /\ phase = "null" => half \/ lost
        /\ ~ Mixed(tree[1].self) =>
             /\ half => phase = "null"
             /\ lost => phase = "null" \/ \E n \in DOMAIN tree : Full(n)

\* What the tree shows is links of the connected part, between the names they join, none
\* twice: cycles and parallel links repeat a device and end.  It shows all of them, a link
\* is not lost to a device that was visited before, unless a device has taken the name of
\* another one's ports: then the walk may run out of rounds.
TreeExact ==
  Drawn =>
    LET part == Part(tree[1].self)
        shown(a, b) ==
          Cardinality({n \in 2..Len(tree) : {tree[n].self, tree[tree[n].parent].self} = {a, b}})
        joining(a, b) ==
          Cardinality({k \in DOMAIN links : Ends(links[k]) = {a, b} /\ a \in part})
        devices == {tree[n].self : n \in DOMAIN tree}
    IN  /\ devices \subseteq part /\ \A a, b \in Devices : shown(a, b) <= joining(a, b)
        /\ ~ Mixed(tree[1].self) =>
             devices = part /\ \A a, b \in Devices : shown(a, b) = joining(a, b)

\* Every tree node has a pixel and no two share one, and there is a row for every leaf,
\* so that the writes stay on the canvas unless there are more leaves than rows, a tree
\* deeper than the columns or a full node.
RowPerLeaf ==
  LET leaves == {n \in DOMAIN tree : Kids(n) = {}} IN
  /\ Drawn =>
       /\ drawn = DOMAIN tree
       /\ \A m, n \in drawn : m # n => <<row[m], level[m]>> # <<row[n], level[n]>>
       /\ {row[n] : n \in leaves} = 0..(Cardinality(leaves) - 1)
       /\ Height(1) = Cardinality(leaves) /\ Cardinality(leaves) <= Rows
  /\ phase = "wild" =>
       \/ Cardinality(leaves) > Rows
       \/ \E n \in drawn : Full(n) \/ (Kids(n) # {} /\ level[n] + 1 >= Columns)

\* render finds the parent of a pixel as the nearest one up the column to its left, and
\* prints a bar on exactly the rows between an earlier and a later child of one node,
\* although it only counts.
BarsJoinSiblings ==
  Drawn =>
    /\ \A n \in drawn \ {1} : Nearest(row[n], level[n] - 1) = {tree[n].parent}
    /\ \A i \in 0..(Rows - 1), j \in 0..(Columns - 1) :
         Bar(i, j) <=> \E n \in drawn : \E k, m \in Kids(n) :
                         level[n] = j /\ row[k] < i /\ i < row[m]
                         /\ \A x \in Kids(n) : row[x] # i

\* The line before a child is that of its place among its siblings: although _sketch
\* compares devices and a tree shows a device many times, no two siblings show the same,
\* unless one of the part has the name of another one's ports.
PipesByPlace ==
  Drawn /\ ~ Mixed(tree[1].self) =>
    \A n \in drawn \ {1} :
      Pipe(n) = IF Siblings(n) = {n} THEN "---"
                ELSE IF \A m \in Siblings(n) : n <= m THEN "-+-" ELSE " +-"

=============================================================================
