------------------------------ MODULE TreeProofs ------------------------------
(***************************************************************************)
(* What the tree command draws, for every network, any numbers of ports and *)
(* any canvas: proofs that IInv is an invariant of Spec, and what follows   *)
(* from it.  The walk keeps its tree in the order in which it is drawn      *)
(* (Preorder); from that order alone the picture follows.  That no link is  *)
(* missed needs names that have not been mixed up (Plain).                  *)
(***************************************************************************)
EXTENDS Tree, FiniteSetTheorems, WellFoundedInduction, TLAPS

P(n) == tree[n].parent
Self(n) == tree[n].self

\* A node comes before its children, and all that hangs below it before anything that
\* hangs further up: the order of tree_add is the order of the drawing.
Preorder ==
  /\ \A n \in DOMAIN tree : IF n = 1 THEN P(n) = 0 ELSE P(n) \in 1..(n - 1)
  /\ \A m, n \in DOMAIN tree : m < n /\ P(n) < m => P(m) >= P(n)

\* The nodes whose calls have not returned.
OnPath(m) == m <= at /\ \A x \in (m + 1)..at : P(x) >= m

\* What was added since the running call began hangs below it.
Waiting == \A m \in DOMAIN tree : m > at => P(m) >= at

\* The tree shows devices that can be found and are joined to the first.
FromPart == \A n \in DOMAIN tree : Self(n) \in known /\ Self(n) \in Part(Self(1))

\* Names have not been mixed up in the part of the network the tree shows.
Plain == ~ Mixed(Self(1))

\* No two siblings show the same device.
Apart == Plain => \A m, n \in DOMAIN tree : m # n /\ P(m) = P(n) => Self(m) # Self(n)

\* No link of L hangs.
Whole(L) == \A k \in L : ~ Half(links[k])

\* The tree shows links that are gone from the list, each once, and all of them unless a
\* full node refused one.
Edges(a, b) == {n \in 2..Len(tree) : {Self(n), Self(P(n))} = {a, b}}
Gone(a, b) == {k \in (DOMAIN links) \ list : Ends(links[k]) = {a, b}}
Tally ==
  /\ \A a, b \in Devices : Cardinality(Edges(a, b)) <= Cardinality(Gone(a, b))
  /\ (\A n \in DOMAIN tree : ~ Full(n)) =>
       /\ \A a, b \in Devices : Cardinality(Edges(a, b)) = Cardinality(Gone(a, b))
       /\ \A k \in (DOMAIN links) \ list : \A d \in Ends(links[k]) :
            \E n \in DOMAIN tree : Self(n) = d

\* No link is left at the device of a node.
Clean(m) == \A k \in list : Self(m) \notin Ends(links[k])

\* A call returns when no link is left at its device and none that hangs in the list.
Returned ==
  Plain => \A m \in DOMAIN tree : ~ OnPath(m) => Clean(m) /\ Whole(list)

\* A node has rounds left for the links left at its device; one more than that below the
\* first, since the link it was reached by is gone.
Limit(n) == IF n = 1 THEN ports[Self(n)] ELSE ports[Self(n)] - 1
Rounds ==
  Plain =>
    \A n \in DOMAIN tree :
      /\ Used(list, Self(n)) + round[n] <= Limit(n)
      /\ round[n] > 0 => Kids(n) # {}

\* The walk is done.
Walked == Plain => Whole(list) /\ \A m \in DOMAIN tree : Clean(m)

\* The row of a node is the number of leaves before it.
LeavesBefore(n) == Cardinality({m \in DOMAIN tree : m < n /\ Kids(m) = {}})

Placed(k) ==
  \A x \in 1..k :
    /\ row[x] = LeavesBefore(x) /\ row[x] < Rows
    /\ level[x] = IF x = 1 THEN 0 ELSE level[P(x)] + 1

\* The layout has come to node k: the rows that the calls still waiting have counted are
\* those above the child they wait for.
LaidTo(k) ==
  /\ drawn = 1..k /\ at <= k
  /\ \A x \in (at + 1)..k : P(x) >= at /\ Kids(x) \subseteq 1..k
  /\ Placed(k)
  /\ \A x \in 1..k : ~ OnPath(x) => ~ Full(x)
  /\ \A x \in (k + 1)..Len(tree) : rows[x] = 0
  /\ \A y \in 2..at : OnPath(y) => row[P(y)] + rows[P(y)] = row[y]
  /\ row[at] + rows[at] = IF Kids(at) \cap 1..k = {} THEN row[at] ELSE LeavesBefore(k + 1)

Leaves == {n \in DOMAIN tree : Kids(n) = {}}

\* The layout is done.
Picture ==
  /\ drawn = DOMAIN tree /\ Placed(Len(tree))
  /\ \A n \in DOMAIN tree : ~ Full(n)
  /\ Height(1) = Cardinality(Leaves)

\* An end that has no port left behind is at a device, or its port was destroyed.
Owned ==
  \A k \in DOMAIN links : \A j \in 1..2 :
    <<k, j>> \notin DOMAIN left => links[k][j] \in known \cup {Nil}

IInv ==
  /\ TypeOK
  /\ phase = "idle" => list = {}
  /\ phase \in {"idle", "walk", "null"} => drawn = {}
  /\ phase # "idle" => Preorder /\ FromPart /\ Apart /\ Tally /\ Whole((DOMAIN links) \ list)
  /\ phase = "walk" => Waiting /\ Returned /\ Rounds
  /\ phase \in {"sketch", "drawn", "wild"} => Walked
  /\ phase = "sketch" => \E k \in DOMAIN tree : LaidTo(k)
  /\ phase = "drawn" => Picture
  /\ NullByHalfLinks /\ RowPerLeaf

-----------------------------------------------------------------------------
(* Facts about finite sets and least elements *)

LEMMA Least ==
  ASSUME NEW T, T \subseteq Nat, T # {}
  PROVE  \E x \in T : \A y \in T : x <= y
  <1> DEFINE R == OpToRel(<, Nat)
  <1>1. IsWellFoundedOn(R, Nat)
    BY NatLessThanWellFounded
  <1>2. \A x, y \in Nat : x < y => <<x, y>> \in R
    BY DEF OpToRel
  <1> HIDE DEF R
  <1>3. PICK x \in T : \A y \in T : ~ (<<y, x>> \in R)
    BY <1>1, WFMin
  <1>4. ASSUME NEW y \in T PROVE x <= y
    <2>1. x \in Nat /\ y \in Nat /\ ~ (y < x)
      BY <1>2, <1>3
    <2> QED BY <2>1
  <1> QED BY <1>4

\* A set of numbers up to a bound has a greatest element.
LEMMA Greatest ==
  ASSUME NEW N \in Nat, NEW T, T \subseteq 1..N, T # {}
  PROVE  \E x \in T : \A y \in T : y <= x
  <1> DEFINE U == {N - x : x \in T}
  <1>1. U \subseteq Nat /\ U # {}
    <2>1. \A x \in T : x \in Nat /\ N - x \in Nat
      OBVIOUS
    <2> QED BY <2>1
  <1>2. PICK u \in U : \A v \in U : u <= v
    BY <1>1, Least
  <1>3. PICK x \in T : u = N - x
    BY <1>2
  <1>4. ASSUME NEW y \in T PROVE y <= x
    <2>1. N - y \in U
      OBVIOUS
    <2>2. u <= N - y /\ x \in Nat /\ y \in Nat
      BY <1>2, <2>1
    <2> QED BY <1>3, <2>2
  <1> QED BY <1>4

LEMMA CardSub ==
  ASSUME NEW A, NEW B, A \subseteq B, IsFiniteSet(B)
  PROVE  /\ IsFiniteSet(A) /\ Cardinality(A) \in Nat /\ Cardinality(B) \in Nat
         /\ Cardinality(A) <= Cardinality(B)
         /\ A # B => Cardinality(A) < Cardinality(B)
  BY FS_Subset, FS_CardinalityType

LEMMA CardAdd ==
  ASSUME NEW A, NEW x, IsFiniteSet(A), x \notin A
  PROVE  /\ IsFiniteSet(A \cup {x}) /\ Cardinality(A) \in Nat
         /\ Cardinality(A \cup {x}) = Cardinality(A) + 1
  BY FS_AddElement, FS_CardinalityType

LEMMA CardNone ==
  ASSUME NEW A, IsFiniteSet(A)
  PROVE  Cardinality(A) \in Nat /\ (Cardinality(A) = 0 <=> A = {})
  BY FS_EmptySet, FS_CardinalityType

-----------------------------------------------------------------------------
(* The links *)

LEMMA LinksShape ==
  ASSUME TypeOK
  PROVE  /\ \A k \in DOMAIN links : /\ links[k][1] \in Devices \cup {Nil}
                                    /\ links[k][2] \in Devices \cup {Nil}
         /\ IsFiniteSet(DOMAIN links)
         /\ \A L : L \subseteq DOMAIN links => IsFiniteSet(L) /\ L \subseteq Nat
         /\ list \subseteq DOMAIN links
  <1>1. /\ DOMAIN links \subseteq 1..MaxLinks /\ MaxLinks \in Nat
        /\ \A k \in DOMAIN links : links[k] \in (Devices \cup {Nil}) \X (Devices \cup {Nil})
        /\ list \subseteq DOMAIN links
    BY TreeAssumption DEF TypeOK
  <1>2. IsFiniteSet(DOMAIN links) /\ DOMAIN links \subseteq Nat
    <2>1. IsFiniteSet(1..MaxLinks) /\ 1..MaxLinks \subseteq Nat
      BY <1>1, FS_Interval
    <2> QED BY <1>1, <2>1, FS_Subset
  <1>3. ASSUME NEW L, L \subseteq DOMAIN links PROVE IsFiniteSet(L) /\ L \subseteq Nat
    BY <1>2, <1>3, FS_Subset
  <1> QED BY <1>1, <1>2, <1>3

\* Links taken away free ports, and the link that is taken a port at each of its ends.
LEMMA UsedLess ==
  ASSUME TypeOK, NEW L, L \subseteq DOMAIN links, NEW M, M \subseteq L, NEW d
  PROVE  /\ Used(M, d) \in Nat /\ Used(L, d) \in Nat /\ Used(M, d) <= Used(L, d)
         /\ \A k \in L \ M : Own(k, d) => Used(M, d) < Used(L, d)
         /\ Used(L, d) = 0 => \A k \in L : ~ Own(k, d)
  <1> DEFINE A(X) == OwnEnds(X, d, 1)
             B(X) == OwnEnds(X, d, 2)
  <1>1. IsFiniteSet(L)
    BY LinksShape
  <1>2. /\ IsFiniteSet(A(L)) /\ IsFiniteSet(B(L)) /\ A(M) \subseteq A(L) /\ B(M) \subseteq B(L)
    <2>1. A(L) \subseteq L /\ B(L) \subseteq L /\ A(M) \subseteq A(L) /\ B(M) \subseteq B(L)
      BY DEF OwnEnds
    <2> QED BY <1>1, <2>1, FS_Subset
  <1>3. /\ Used(M, d) = Cardinality(A(M)) + Cardinality(B(M))
        /\ Used(L, d) = Cardinality(A(L)) + Cardinality(B(L))
    BY DEF Used
  <1>4. /\ \A k \in L \ M : Own(k, d) => A(M) # A(L) \/ B(M) # B(L)
        /\ A(L) = {} /\ B(L) = {} => \A k \in L : ~ Own(k, d)
    <2>1. ASSUME NEW k \in L, Own(k, d) PROVE k \in A(L) \/ k \in B(L)
      BY <2>1 DEF Own, OwnEnds
    <2>2. ASSUME NEW k \in L \ M PROVE k \notin A(M) /\ k \notin B(M)
      BY DEF OwnEnds
    <2> QED BY <2>1, <2>2
  <1> HIDE DEF A, B
  <1>5. /\ Cardinality(A(M)) \in Nat /\ Cardinality(A(L)) \in Nat
        /\ Cardinality(A(M)) <= Cardinality(A(L))
        /\ A(M) # A(L) => Cardinality(A(M)) < Cardinality(A(L))
    BY <1>2, CardSub
  <1>6. /\ Cardinality(B(M)) \in Nat /\ Cardinality(B(L)) \in Nat
        /\ Cardinality(B(M)) <= Cardinality(B(L))
        /\ B(M) # B(L) => Cardinality(B(M)) < Cardinality(B(L))
    BY <1>2, CardSub
  <1>7. /\ Cardinality(A(L)) = 0 <=> A(L) = {}
        /\ Cardinality(B(L)) = 0 <=> B(L) = {}
    BY <1>2, CardNone
  <1> DEFINE a == Cardinality(A(M))  b == Cardinality(A(L))
             e == Cardinality(B(M))  f == Cardinality(B(L))
  <1> HIDE DEF a, b, e, f
  <1>8. /\ a \in Nat /\ b \in Nat /\ a <= b /\ (A(M) # A(L) => a < b)
        /\ e \in Nat /\ f \in Nat /\ e <= f /\ (B(M) # B(L) => e < f)
        /\ Used(M, d) = a + e /\ Used(L, d) = b + f
        /\ (b = 0 <=> A(L) = {}) /\ (f = 0 <=> B(L) = {})
    BY <1>3, <1>5, <1>6, <1>7 DEF a, b, e, f
  <1>9. /\ Used(M, d) \in Nat /\ Used(L, d) \in Nat /\ Used(M, d) <= Used(L, d)
        /\ (a < b \/ e < f) => Used(M, d) < Used(L, d)
        /\ Used(L, d) = 0 => b = 0 /\ f = 0
    BY <1>8
  <1> QED BY <1>4, <1>8, <1>9

\* check_link finds nothing only if there is nothing to find, and what it finds is in
\* the list, hangs or ends at the device.
LEMMA FoundIs ==
  ASSUME TypeOK, NEW L, L \subseteq DOMAIN links, NEW d
  PROVE  /\ Found(L, d) = {} => \A k \in L : ~ Half(links[k]) /\ ~ Shown(k, d)
         /\ \A k \in Found(L, d) : k \in L /\ (Half(links[k]) \/ d \in Ends(links[k]))
  <1> DEFINE S == {k \in L : Half(links[k]) \/ Shown(k, d)}
  <1>1. S \subseteq Nat
    BY LinksShape
  <1>2. S # {} => First(S) # {}
    BY <1>1, Least DEF First
  <1>3. Found(L, d) = First(S)
    BY DEF Found
  <1>4. \A k : Shown(k, d) => d \in Ends(links[k])
    BY DEF Shown, Ends
  <1> QED BY <1>2, <1>3, <1>4 DEF First

\* Where names have not been mixed up, a link that ends at a name ends at a port of the
\* device that has it, and the walk sees that it does.
LEMMA PlainEnds ==
  ASSUME TypeOK, Plain, NEW d \in known, d \in Part(Self(1)),
         NEW k \in DOMAIN links, d \in Ends(links[k])
  PROVE  Own(k, d) /\ Shown(k, d)
  <1>1. PICK j \in 1..2 : links[k][j] = d
    BY DEF Ends
  <1>2. <<k, j>> \notin DOMAIN left
    <2> SUFFICES ASSUME <<k, j>> \in DOMAIN left PROVE FALSE
      OBVIOUS
    <2> DEFINE e == <<k, j>>
    <2>1. e \in DOMAIN left /\ links[e[1]][e[2]] = d
      BY <1>1
    <2> HIDE DEF e
    <2> QED BY <2>1 DEF Plain, Mixed
  <1> QED BY <1>1, <1>2 DEF Own, Shown

\* Where nothing changes, nothing is mixed up.
LEMMA PlainStays ==
  ASSUME UNCHANGED <<links, left, known>>, tree'[1] = tree[1]
  PROVE  Plain' <=> Plain
  BY DEF Plain, Mixed, Part, Closed, Self

\* A link that does not hang joins two devices.
LEMMA WholeEnds ==
  ASSUME TypeOK, NEW k \in DOMAIN links, ~ Half(links[k]), NEW d, d \in Ends(links[k])
  PROVE  /\ d \in Devices /\ OtherEnd(links[k], d) \in Devices
         /\ Ends(links[k]) = {d, OtherEnd(links[k], d)}
  BY LinksShape DEF Half, Ends, OtherEnd

-----------------------------------------------------------------------------
(* The part of the network *)

LEMMA PartOf ==
  ASSUME TypeOK, NEW r \in Devices
  PROVE  /\ r \in Part(r)
         /\ \A k \in DOMAIN links : \A d \in Part(r) \cap known \cap Ends(links[k]) :
              OtherEnd(links[k], d) \in Part(r)
         /\ \A S \in SUBSET (Devices \cup {Nil}) : r \in S /\ Closed(S) => Part(r) \subseteq S
  <1>1. ASSUME NEW k \in DOMAIN links, NEW d \in Part(r) \cap known \cap Ends(links[k])
        PROVE  OtherEnd(links[k], d) \in Part(r)
    <2>1. OtherEnd(links[k], d) \in Devices \cup {Nil}
      BY LinksShape DEF OtherEnd
    <2>2. ASSUME NEW S \in SUBSET (Devices \cup {Nil}), r \in S, Closed(S)
          PROVE  OtherEnd(links[k], d) \in S
      <3>1. d \in S
        BY <2>2 DEF Part
      <3> QED BY <2>2, <3>1 DEF Closed
    <2> QED BY <2>1, <2>2 DEF Part
  <1>2. r \in Part(r)
    BY DEF Part
  <1>3. ASSUME NEW S \in SUBSET (Devices \cup {Nil}), r \in S, Closed(S)
        PROVE  Part(r) \subseteq S
    BY <1>3 DEF Part
  <1> QED BY <1>1, <1>2, <1>3

-----------------------------------------------------------------------------
(* The tree and its order *)

LEMMA Nodes ==
  ASSUME TypeOK
  PROVE  /\ Len(tree) \in Nat /\ DOMAIN tree = 1..Len(tree) /\ IsFiniteSet(DOMAIN tree)
         /\ \A n \in DOMAIN tree : P(n) \in Nat /\ Self(n) \in Devices
         /\ \A n : IsFiniteSet(Kids(n)) /\ Kids(n) \subseteq DOMAIN tree
         /\ \A n, m : m \in Kids(n) <=> m \in DOMAIN tree /\ P(m) = n
  <1> DEFINE E == [self : Devices, parent : Nat]
  <1>1. /\ Len(tree) \in Nat /\ DOMAIN tree = 1..Len(tree)
        /\ \A n \in DOMAIN tree : tree[n] \in E
    <2>1. tree \in Seq(E)
      BY DEF TypeOK
    <2> HIDE DEF E
    <2> QED BY <2>1
  <1>2. IsFiniteSet(DOMAIN tree)
    <2>1. \A m \in Nat : IsFiniteSet(1..m)
      BY FS_Interval
    <2> QED BY <1>1, <2>1
  <1>3. \A n, m : m \in Kids(n) <=> m \in DOMAIN tree /\ P(m) = n
    BY DEF Kids, P
  <1>4. \A n : IsFiniteSet(Kids(n)) /\ Kids(n) \subseteq DOMAIN tree
    BY <1>2, <1>3, FS_Subset
  <1>5. \A n \in DOMAIN tree : P(n) \in Nat /\ Self(n) \in Devices
    BY <1>1 DEF P, Self
  <1> QED BY <1>1, <1>2, <1>3, <1>4, <1>5

\* The order once more, for use without the definitions it is made of.
LEMMA Order ==
  ASSUME TypeOK, Preorder
  PROVE  /\ \A n \in 1..Len(tree) : n = 1 => P(n) = 0
         /\ \A n \in 2..Len(tree) : P(n) \in 1..(n - 1)
         /\ \A n \in 2..Len(tree) : \A x \in (P(n) + 1)..n : P(x) >= P(n) /\ P(x) \in Nat
  <1>1. Len(tree) \in Nat /\ DOMAIN tree = 1..Len(tree)
    BY Nodes
  <1>2. \A n \in 2..Len(tree) : P(n) \in 1..(n - 1)
    BY <1>1 DEF Preorder
  <1>3. ASSUME NEW n \in 2..Len(tree), NEW x \in (P(n) + 1)..n
        PROVE  P(x) >= P(n) /\ P(x) \in Nat
    <2>1. P(n) \in 1..(n - 1) /\ x \in DOMAIN tree /\ n \in DOMAIN tree /\ P(x) \in Nat
      BY <1>1, <1>2, Nodes
    <2>2. P(n) < x /\ (x < n \/ x = n)
      BY <2>1
    <2> QED BY <2>1, <2>2 DEF Preorder
  <1> QED BY <1>1, <1>2, <1>3 DEF Preorder

\* The first child of a node comes right behind it.
LEMMA FirstKid ==
  ASSUME TypeOK, Preorder, NEW n \in DOMAIN tree, NEW c \in Kids(n)
  PROVE  n + 1 \in Kids(n) /\ n < c /\ c \in 2..Len(tree) /\ n + 1 <= c
  <1>1. /\ Len(tree) \in Nat /\ n \in 1..Len(tree) /\ c \in 1..Len(tree) /\ P(c) = n
    BY Nodes
  <1>2. c \in 2..Len(tree) /\ n < c
    <2>1. c # 1
      BY <1>1, Order
    <2>2. c \in 2..Len(tree)
      BY <1>1, <2>1
    <2>3. P(c) \in 1..(c - 1)
      BY <2>2, Order
    <2> QED BY <1>1, <2>2, <2>3
  <1>3. n + 1 \in (P(c) + 1)..c /\ n + 1 \in 2..Len(tree)
    BY <1>1, <1>2
  <1>4. P(n + 1) >= n /\ P(n + 1) \in 1..((n + 1) - 1)
    BY <1>1, <1>2, <1>3, Order
  <1>5. P(n + 1) = n
    BY <1>1, <1>4
  <1> QED BY <1>1, <1>2, <1>3, <1>5, Nodes

\* The leaves before a node, counted node by node.
LEMMA LeavesStep ==
  ASSUME TypeOK
  PROVE  /\ LeavesBefore(1) = 0
         /\ \A n \in 1..(Len(tree) + 1) : LeavesBefore(n) \in Nat
         /\ \A n \in DOMAIN tree :
              LeavesBefore(n + 1) = IF Kids(n) = {} THEN LeavesBefore(n) + 1 ELSE LeavesBefore(n)
         /\ LeavesBefore(Len(tree) + 1) = Cardinality(Leaves)
         /\ \A m, n \in 1..(Len(tree) + 1) : m <= n => LeavesBefore(m) <= LeavesBefore(n)
  <1> DEFINE B(n) == {m \in DOMAIN tree : m < n /\ Kids(m) = {}}
  <1>1. /\ DOMAIN tree = 1..Len(tree) /\ Len(tree) \in Nat
        /\ \A n : IsFiniteSet(B(n)) /\ Cardinality(B(n)) \in Nat
        /\ \A n : LeavesBefore(n) = Cardinality(B(n))
    <2>1. \A n : B(n) \subseteq DOMAIN tree
      OBVIOUS
    <2> QED BY <2>1, Nodes, FS_Subset, FS_CardinalityType DEF LeavesBefore
  <1>2. LeavesBefore(1) = 0
    <2>1. B(1) = {}
      BY <1>1
    <2> QED BY <1>1, <2>1, FS_EmptySet
  <1>3. ASSUME NEW n \in DOMAIN tree
        PROVE  LeavesBefore(n + 1) = IF Kids(n) = {} THEN LeavesBefore(n) + 1 ELSE LeavesBefore(n)
    <2>1. CASE Kids(n) = {}
      <3>1. n \notin B(n) /\ B(n + 1) = B(n) \cup {n}
        BY <1>1, <2>1
      <3> HIDE DEF B
      <3> QED BY <1>1, <2>1, <3>1, CardAdd
    <2>2. CASE Kids(n) # {}
      <3>1. B(n + 1) = B(n)
        BY <1>1, <2>2
      <3> QED BY <1>1, <2>2, <3>1
    <2> QED BY <2>1, <2>2
  <1>4. LeavesBefore(Len(tree) + 1) = Cardinality(Leaves)
    <2>1. B(Len(tree) + 1) = Leaves
      BY <1>1 DEF Leaves
    <2> QED BY <1>1, <2>1
  <1>5. ASSUME NEW m \in 1..(Len(tree) + 1), NEW n \in 1..(Len(tree) + 1), m <= n
        PROVE  LeavesBefore(m) <= LeavesBefore(n)
    <2>1. B(m) \subseteq B(n)
      BY <1>1, <1>5
    <2> HIDE DEF B
    <2> QED BY <1>1, <2>1, CardSub
  <1> QED BY <1>1, <1>2, <1>3, <1>4, <1>5

-----------------------------------------------------------------------------
(* The picture, from the order and the place of each node *)

LEMMA PlaceOf ==
  ASSUME TypeOK, Preorder, drawn = DOMAIN tree, drawn # {}, Placed(Len(tree))
  PROVE  /\ \A x \in 1..Len(tree) : row[x] \in Nat /\ level[x] \in Nat /\ row[x] < Rows
         /\ \A x \in 1..Len(tree) : row[x] = LeavesBefore(x)
         /\ level[1] = 0 /\ 1 \in 1..Len(tree)
         /\ \A x \in 2..Len(tree) : level[x] = level[P(x)] + 1 /\ P(x) \in 1..(x - 1)
         /\ \A x, y \in 1..Len(tree) : x <= y => row[x] <= row[y]
  <1>1. Len(tree) \in Nat /\ DOMAIN tree = 1..Len(tree)
    BY Nodes
  <1>2. \A x \in 1..Len(tree) : row[x] \in Nat /\ level[x] \in Nat
    BY <1>1 DEF TypeOK
  <1>3. \A x \in 1..Len(tree) : row[x] = LeavesBefore(x) /\ row[x] < Rows
    BY <1>1 DEF Placed
  <1>4. 1 \in 1..Len(tree) /\ level[1] = 0
    BY <1>1 DEF Placed
  <1>5. \A x \in 2..Len(tree) : level[x] = level[P(x)] + 1 /\ P(x) \in 1..(x - 1)
    BY <1>1, Order DEF Placed
  <1>6. ASSUME NEW x \in 1..Len(tree), NEW y \in 1..Len(tree), x <= y
        PROVE  row[x] <= row[y]
    <2>1. x \in 1..(Len(tree) + 1) /\ y \in 1..(Len(tree) + 1)
      BY <1>1
    <2> QED BY <1>3, <1>6, <2>1, LeavesStep
  <1> QED BY <1>2, <1>3, <1>4, <1>5, <1>6

\* On one row the nodes go from parent to child.
LEMMA SameRow ==
  ASSUME TypeOK, Preorder, drawn = DOMAIN tree, drawn # {}, Placed(Len(tree)),
         NEW x \in 1..Len(tree), NEW y \in 1..Len(tree), x < y, row[x] = row[y]
  PROVE  level[x] < level[y]
  <1> DEFINE T == {z \in (x + 1)..Len(tree) : row[z] = row[x] /\ ~ (level[x] < level[z])}
  <1>1. Len(tree) \in Nat /\ DOMAIN tree = 1..Len(tree)
    BY Nodes
  <1>2. SUFFICES ASSUME T # {} PROVE FALSE
    <2>1. T = {} => y \notin T
      OBVIOUS
    <2>2. y \in (x + 1)..Len(tree)
      OBVIOUS
    <2> QED BY <2>1, <2>2
  <1>3. PICK z \in T : \A w \in T : z <= w
    <2>1. T \subseteq Nat
      OBVIOUS
    <2> QED BY <1>2, <2>1, Least
  <1>4. /\ z \in 2..Len(tree) /\ z - 1 \in 1..Len(tree) /\ x <= z - 1
        /\ row[z] = row[x] /\ ~ (level[x] < level[z]) /\ z - 1 \notin T
    BY <1>3
  <1>5. row[z - 1] = row[x]
    <2>1. row[x] <= row[z - 1] /\ row[z - 1] <= row[z]
      BY <1>4, PlaceOf
    <2>2. row[x] \in Nat /\ row[z - 1] \in Nat /\ row[z] \in Nat
      BY <1>4, PlaceOf
    <2> QED BY <1>4, <2>1, <2>2
  <1>6. Kids(z - 1) # {}
    <2>1. /\ row[z - 1] = LeavesBefore(z - 1) /\ row[z] = LeavesBefore(z)
          /\ row[z - 1] \in Nat
      BY <1>4, PlaceOf
    <2>2. Kids(z - 1) = {} => LeavesBefore((z - 1) + 1) = LeavesBefore(z - 1) + 1
      BY <1>1, <1>4, LeavesStep
    <2>3. (z - 1) + 1 = z
      BY <1>4
    <2> QED BY <1>4, <1>5, <2>1, <2>2, <2>3
  <1>7. P(z) = z - 1
    <2>1. (z - 1) + 1 \in Kids(z - 1) /\ (z - 1) + 1 = z
      BY <1>1, <1>4, <1>6, FirstKid
    <2> QED BY <2>1, Nodes
  <1>8. level[z] = level[z - 1] + 1 /\ level[z - 1] \in Nat /\ level[x] \in Nat
    BY <1>4, <1>7, PlaceOf
  <1>9. z - 1 = x \/ level[x] < level[z - 1]
    <2>1. z - 1 \in (x + 1)..Len(tree) \/ z - 1 = x
      BY <1>1, <1>4
    <2> QED BY <1>4, <1>5, <2>1
  <1> QED BY <1>4, <1>8, <1>9

\* Between a node and its child are only nodes that hang below the node.
LEMMA Deeper ==
  ASSUME TypeOK, Preorder, drawn = DOMAIN tree, drawn # {}, Placed(Len(tree)),
         NEW n \in 2..Len(tree), NEW x \in (P(n) + 1)..n
  PROVE  level[x] > level[P(n)]
  <1> DEFINE p == P(n)
             T == {z \in (p + 1)..n : ~ (level[z] > level[p])}
  <1>1. p \in 1..(n - 1) /\ p \in Nat /\ Len(tree) \in Nat
    BY Order, Nodes
  <1>2. SUFFICES ASSUME T # {} PROVE FALSE
    <2>1. T = {} => x \notin T
      OBVIOUS
    <2> QED BY <2>1
  <1>3. PICK z \in T : \A w \in T : z <= w
    <2>1. T \subseteq Nat
      BY <1>1
    <2> QED BY <1>2, <2>1, Least
  <1>4. z \in (P(n) + 1)..n /\ z \in 2..Len(tree) /\ ~ (level[z] > level[p])
    BY <1>1, <1>3
  <1>5. P(z) >= p /\ P(z) \in 1..(z - 1)
    BY <1>4, Order
  <1>6. level[z] = level[P(z)] + 1
    BY <1>4, PlaceOf
  <1>7. P(z) = p \/ level[P(z)] > level[p]
    <2>1. CASE P(z) # p
      <3>1. P(z) \in (p + 1)..n /\ ~ (z <= P(z))
        BY <1>1, <1>4, <1>5, <2>1
      <3> QED BY <1>3, <3>1
    <2> QED BY <2>1
  <1>8. level[P(z)] \in Nat /\ level[p] \in Nat
    <2>1. P(z) \in 1..Len(tree) /\ p \in 1..Len(tree)
      BY <1>1, <1>4, <1>5
    <2> QED BY <2>1, PlaceOf
  <1> QED BY <1>4, <1>6, <1>7, <1>8

\* render finds the parent of a pixel where it looks for it.
LEMMA NearestIsParent ==
  ASSUME TypeOK, Preorder, drawn = DOMAIN tree, drawn # {}, Placed(Len(tree)),
         NEW n \in 2..Len(tree)
  PROVE  Nearest(row[n], level[n] - 1) = {P(n)}
  <1> DEFINE p == P(n)
             j == level[n] - 1
             C == {m \in drawn : level[m] = j /\ row[m] <= row[n]}
  <1>1. /\ p \in 1..(n - 1) /\ p \in 1..Len(tree) /\ n \in 1..Len(tree)
        /\ drawn = 1..Len(tree) /\ Len(tree) \in Nat
    <2>1. Len(tree) \in Nat /\ DOMAIN tree = 1..Len(tree) /\ P(n) \in 1..(n - 1)
      BY Order, Nodes
    <2> QED BY <2>1
  <1>2. j = level[p] /\ level[n] = level[p] + 1 /\ level[p] \in Nat
    <2>1. level[n] = level[p] + 1 /\ level[p] \in Nat
      BY <1>1, PlaceOf
    <2> QED BY <2>1
  <1>3. p \in C
    <2>1. row[p] <= row[n]
      <3>1. p <= n
        BY <1>1
      <3> QED BY <1>1, <3>1, PlaceOf
    <2> QED BY <1>1, <1>2, <2>1
  <1>4. ASSUME NEW m \in C, m # p PROVE row[m] < row[p]
    <2>1. /\ m \in 1..Len(tree) /\ level[m] = level[p] /\ row[m] <= row[n]
          /\ row[m] \in Nat /\ row[p] \in Nat /\ row[n] \in Nat
          /\ level[m] \in Nat /\ level[n] \in Nat
      BY <1>1, <1>2, PlaceOf
    <2>2. CASE m < p
      <3>1. row[m] <= row[p]
        <4>1. m <= p
          BY <1>1, <2>1, <2>2
        <4> QED BY <1>1, <2>1, <4>1, PlaceOf
      <3>2. row[m] # row[p]
        <4>1. row[m] = row[p] => level[m] < level[p]
          BY <1>1, <2>1, <2>2, SameRow
        <4> QED BY <2>1, <4>1
      <3> QED BY <2>1, <3>1, <3>2
    <2>3. CASE p < m /\ m <= n
      <3>1. m \in (P(n) + 1)..n
        BY <1>1, <2>1, <2>3
      <3>2. level[m] > level[p]
        BY <3>1, Deeper
      <3> QED BY <2>1, <3>2
    <2>4. CASE n < m
      <3>1. row[n] <= row[m]
        <4>1. n <= m
          BY <1>1, <2>1, <2>4
        <4> QED BY <1>1, <2>1, <4>1, PlaceOf
      <3>2. row[n] = row[m]
        BY <2>1, <3>1
      <3>3. level[n] < level[m]
        BY <1>1, <2>1, <2>4, <3>2, SameRow
      <3> QED BY <1>2, <2>1, <3>3
    <2>5. m < p \/ (p < m /\ m <= n) \/ n < m
      BY <1>1, <1>4, <2>1
    <2> QED BY <2>2, <2>3, <2>4, <2>5
  <1>5. \A m \in C : row[m] \in Nat /\ row[p] \in Nat
    BY <1>1, PlaceOf
  <1>6. Nearest(row[n], level[n] - 1) = {m \in C : \A x \in C : row[x] <= row[m]}
    BY DEF Nearest
  <1> HIDE DEF C, j, p
  <1>7. ASSUME NEW m \in C, \A x \in C : row[x] <= row[m] PROVE m = p
    <2>1. row[p] <= row[m]
      BY <1>3, <1>7
    <2>2. m # p => row[m] < row[p]
      BY <1>4
    <2> QED BY <1>5, <2>1, <2>2
  <1>8. \A x \in C : row[x] <= row[p]
    <2>1. ASSUME NEW x \in C PROVE row[x] <= row[p]
      <3>1. x # p => row[x] < row[p]
        BY <1>4
      <3>2. row[x] \in Nat /\ row[p] \in Nat
        BY <1>5
      <3> QED BY <3>1, <3>2
    <2> QED BY <2>1
  <1> QED BY <1>3, <1>6, <1>7, <1>8 DEF p

\* So what a pixel has left to print are its children further down.
LEMMA LeftIsBelow ==
  ASSUME TypeOK, Preorder, drawn = DOMAIN tree, drawn # {}, Placed(Len(tree)),
         NEW n \in 1..Len(tree), NEW i \in Nat
  PROVE  Left(n, i) > 0 <=> \E m \in Kids(n) : row[m] >= i
  <1> DEFINE A == {m \in drawn : level[m] = level[n] + 1 /\ row[m] < i
                                   /\ n \in Nearest(row[m], level[n])}
             B == {m \in Kids(n) : row[m] < i}
  <1>1. Len(tree) \in Nat /\ drawn = 1..Len(tree) /\ level[n] \in Nat
    BY Nodes, PlaceOf
  <1>2. ASSUME NEW m PROVE m \in A <=> m \in B
    <2>1. CASE m \in A
      <3>1. m \in 1..Len(tree) /\ level[m] = level[n] + 1
        BY <1>1, <2>1
      <3>2. m # 1
        BY <1>1, <3>1, PlaceOf
      <3>3. m \in 2..Len(tree) /\ level[m] - 1 = level[n]
        BY <1>1, <3>1, <3>2
      <3>4. n \in {P(m)}
        BY <2>1, <3>3, NearestIsParent
      <3> QED BY <2>1, <3>1, <3>4, <1>1, Nodes
    <2>2. CASE m \in B
      <3>1. m \in 1..Len(tree) /\ P(m) = n /\ row[m] < i
        BY <2>2, Nodes
      <3>2. m \in 2..Len(tree)
        BY <2>2, <1>1, FirstKid, Nodes
      <3>3. level[m] = level[n] + 1
        BY <3>1, <3>2, PlaceOf
      <3>4. level[m] - 1 = level[n]
        BY <1>1, <3>3
      <3>5. n \in Nearest(row[m], level[n])
        BY <3>1, <3>2, <3>4, NearestIsParent
      <3> QED BY <1>1, <2>2, <3>1, <3>3, <3>5
    <2> QED BY <2>1, <2>2
  <1>3. A = B
    BY <1>2
  <1>4. Left(n, i) = Cardinality(Kids(n)) - Cardinality(B)
    BY <1>3 DEF Left
  <1>5. B \subseteq Kids(n) /\ IsFiniteSet(Kids(n))
    BY Nodes
  <1>6. /\ Cardinality(B) \in Nat /\ Cardinality(Kids(n)) \in Nat
        /\ B # Kids(n) => Cardinality(B) < Cardinality(Kids(n))
    BY <1>5, CardSub
  <1>7. Left(n, i) > 0 <=> B # Kids(n)
    <2> DEFINE b == Cardinality(B)  c == Cardinality(Kids(n))
    <2>1. /\ b \in Nat /\ c \in Nat /\ Left(n, i) = c - b
          /\ B # Kids(n) => b < c
          /\ B = Kids(n) => b = c
      BY <1>4, <1>6
    <2> HIDE DEF b, c, B
    <2> QED BY <2>1
  <1>8. \A m \in Kids(n) : row[m] \in Nat
    BY <1>1, Nodes, PlaceOf
  <1>9. B # Kids(n) <=> \E m \in Kids(n) : row[m] >= i
    <2>1. B # Kids(n) <=> \E m \in Kids(n) : ~ (row[m] < i)
      OBVIOUS
    <2> QED BY <1>8, <2>1
  <1> QED BY <1>7, <1>9

\* A bar between two children of one node: to its right nothing is drawn, and the pixel
\* it finds is their parent.
LEMMA BarIsFound ==
  ASSUME TypeOK, Preorder, drawn = DOMAIN tree, drawn # {}, Placed(Len(tree)),
         NEW i \in Nat, NEW j \in Nat,
         NEW n \in 1..Len(tree), NEW k \in Kids(n), NEW m \in Kids(n),
         level[n] = j, row[k] < i, i < row[m], \A x \in Kids(n) : row[x] # i
  PROVE  Bar(i, j)
  <1>1. /\ Len(tree) \in Nat /\ drawn = 1..Len(tree)
        /\ k \in 2..Len(tree) /\ m \in 2..Len(tree) /\ n < k /\ n < m
        /\ P(k) = n /\ P(m) = n /\ k \in 1..Len(tree) /\ m \in 1..Len(tree)
    <2>1. Len(tree) \in Nat /\ drawn = 1..Len(tree) /\ P(k) = n /\ P(m) = n
      BY Nodes
    <2>2. k \in 2..Len(tree) /\ m \in 2..Len(tree) /\ n < k /\ n < m
      BY <2>1, FirstKid
    <2> QED BY <2>1, <2>2
  <1>2. \A x \in 1..Len(tree) : row[x] \in Nat /\ level[x] \in Nat
    BY PlaceOf
  <1>3. \A x, y \in 1..Len(tree) : row[x] < row[y] => x < y
    <2>1. ASSUME NEW x \in 1..Len(tree), NEW y \in 1..Len(tree), row[x] < row[y], ~ (x < y)
          PROVE  FALSE
      <3>1. y <= x
        BY <1>1, <2>1
      <3>2. row[y] <= row[x]
        BY <3>1, PlaceOf
      <3> QED BY <1>2, <2>1, <3>2
    <2> QED BY <2>1
  <1>4. ASSUME NEW y \in 1..Len(tree), n < y, y < m PROVE level[y] > level[n]
    <2>1. y \in (P(m) + 1)..m
      BY <1>1, <1>4
    <2> QED BY <1>1, <2>1, Deeper
  <1>5. Empty(i, j + 1)
    <2>1. SUFFICES ASSUME NEW x \in 1..Len(tree), row[x] = i, level[x] = j + 1
                   PROVE  FALSE
      BY <1>1 DEF Empty
    <2>2. x # 1
      BY <2>1, PlaceOf
    <2>3. x \in 2..Len(tree)
      BY <1>1, <2>2
    <2> DEFINE q == P(x)
    <2>4. q \in 1..(x - 1) /\ q \in 1..Len(tree) /\ level[x] = level[q] + 1
      <3>1. q \in 1..(x - 1) /\ level[x] = level[q] + 1
        BY <2>3, PlaceOf
      <3> QED BY <1>1, <2>3, <3>1
    <2>5. level[q] = level[n]
      BY <1>2, <2>1, <2>4
    <2>6. q # n
      <3>1. q = n => x \in Kids(n)
        BY <1>1, Nodes
      <3> QED BY <2>1, <3>1
    <2>7. k < x /\ x < m
      <3>1. row[k] < row[x] /\ row[x] < row[m]
        BY <2>1
      <3> QED BY <1>1, <1>3, <3>1
    <2>8. x \in (P(m) + 1)..m
      BY <1>1, <2>7
    <2>9. q >= n
      BY <1>1, <2>8, Order
    <2>10. n < q /\ q < m
      BY <1>1, <2>4, <2>6, <2>7, <2>9
    <2>11. level[q] > level[n]
      BY <1>4, <2>4, <2>10
    <2> QED BY <1>2, <2>4, <2>5, <2>11
  <1>6. n \in Nearest(i, j)
    <2>1. row[n] <= row[k]
      <3>1. n <= k
        BY <1>1
      <3> QED BY <1>1, <3>1, PlaceOf
    <2>2. row[n] <= i
      BY <1>1, <1>2, <2>1
    <2>3. ASSUME NEW y \in 1..Len(tree), level[y] = j, row[y] <= i PROVE row[y] <= row[n]
      <3>1. y < m
        <4>1. row[y] < row[m]
          BY <1>1, <1>2, <2>3
        <4> QED BY <1>1, <1>3, <4>1
      <3>2. ~ (n < y)
        <4>1. n < y => level[y] > level[n]
          BY <1>4, <3>1
        <4> QED BY <1>2, <2>3, <4>1
      <3>3. y <= n
        BY <3>2
      <3> QED BY <3>3, PlaceOf
    <2> QED BY <1>1, <2>2, <2>3 DEF Nearest
  <1>7. Left(n, i) > 0
    <2>1. row[m] >= i
      BY <1>1, <1>2
    <2> QED BY <2>1, LeftIsBelow
  <1> QED BY <1>5, <1>6, <1>7 DEF Bar

\* And every bar is one of these.
LEMMA BarIsBetween ==
  ASSUME TypeOK, Preorder, drawn = DOMAIN tree, drawn # {}, Placed(Len(tree)),
         NEW i \in Nat, NEW j \in Nat, Bar(i, j)
  PROVE  \E n \in drawn : \E k, m \in Kids(n) :
           level[n] = j /\ row[k] < i /\ i < row[m] /\ \A x \in Kids(n) : row[x] # i
  <1>1. Len(tree) \in Nat /\ drawn = 1..Len(tree)
    BY Nodes
  <1>2. PICK n \in Nearest(i, j) : Left(n, i) > 0
    BY DEF Bar
  <1>3. n \in 1..Len(tree) /\ level[n] = j /\ row[n] <= i
    BY <1>1, <1>2 DEF Nearest
  <1>4. PICK m \in Kids(n) : row[m] >= i
    BY <1>2, <1>3, LeftIsBelow
  <1>5. n + 1 \in Kids(n)
    BY <1>1, <1>3, FirstKid, Nodes
  <1>6. ASSUME NEW x \in Kids(n) PROVE row[x] # i /\ row[x] \in Nat
    <2>1. x \in 2..Len(tree) /\ P(x) = n /\ x \in 1..Len(tree)
      BY <1>1, <1>3, FirstKid, Nodes
    <2>2. level[x] = j + 1
      BY <1>3, <2>1, PlaceOf
    <2>3. ~ (row[x] = i /\ level[x] = j + 1)
      BY <1>1, <2>1 DEF Bar, Empty
    <2> QED BY <2>1, <2>2, <2>3, PlaceOf
  <1>7. row[n + 1] = row[n]
    <2>1. n \in DOMAIN tree /\ n + 1 \in 1..Len(tree)
      BY <1>1, <1>3, <1>5, Nodes
    <2>2. LeavesBefore(n + 1) = LeavesBefore(n)
      BY <1>5, <2>1, LeavesStep
    <2>3. row[n + 1] = LeavesBefore(n + 1) /\ row[n] = LeavesBefore(n)
      BY <1>3, <2>1, PlaceOf
    <2> QED BY <2>2, <2>3
  <1>8. row[n + 1] < i
    BY <1>3, <1>5, <1>6, <1>7
  <1>9. i < row[m]
    <2>1. row[m] # i /\ row[m] \in Nat /\ row[m] >= i
      BY <1>4, <1>6
    <2> QED BY <2>1
  <1> QED BY <1>1, <1>3, <1>4, <1>5, <1>6, <1>8, <1>9

\* There is a leaf on every row above the last, and no two on one.
LEMMA LeafRows ==
  ASSUME TypeOK, Preorder, drawn = DOMAIN tree, drawn # {}, Placed(Len(tree))
  PROVE  {row[n] : n \in Leaves} = 0..(Cardinality(Leaves) - 1)
  <1> DEFINE N == Len(tree)
             H == Cardinality(Leaves)
  <1>1. /\ N \in Nat /\ DOMAIN tree = 1..N /\ LeavesBefore(1) = 0 /\ LeavesBefore(N + 1) = H
        /\ \A n \in 1..(N + 1) : LeavesBefore(n) \in Nat
        /\ H \in Nat /\ N + 1 \in 1..(N + 1) /\ 1 \in 1..(N + 1)
    <2>1. N \in Nat /\ DOMAIN tree = 1..N
      BY Nodes
    <2>2. N + 1 \in 1..(N + 1) /\ 1 \in 1..(N + 1)
      BY <2>1
    <2>3. /\ LeavesBefore(1) = 0 /\ LeavesBefore(N + 1) = H
          /\ \A n \in 1..(N + 1) : LeavesBefore(n) \in Nat
      BY LeavesStep
    <2> QED BY <2>1, <2>2, <2>3
  <1>2. ASSUME NEW n \in Leaves PROVE row[n] \in 0..(H - 1)
    <2>1. n \in 1..N /\ Kids(n) = {} /\ n + 1 \in 1..(N + 1) /\ n + 1 <= N + 1 /\ n \in 1..(N + 1)
      BY <1>1 DEF Leaves
    <2>2. LeavesBefore(n + 1) = LeavesBefore(n) + 1
      BY <1>1, <2>1, LeavesStep
    <2>3. LeavesBefore(n + 1) <= LeavesBefore(N + 1)
      BY <1>1, <2>1, LeavesStep
    <2>4. row[n] = LeavesBefore(n)
      BY <2>1, PlaceOf
    <2> HIDE DEF N, H
    <2> QED BY <1>1, <2>1, <2>2, <2>3, <2>4
  <1>3. ASSUME NEW i \in 0..(H - 1) PROVE \E n \in Leaves : row[n] = i
    <2> DEFINE T == {n \in 1..(N + 1) : LeavesBefore(n) > i}
    <2> HIDE DEF H
    <2>1. N + 1 \in T
      BY <1>1
    <2>2. PICK n \in T : \A m \in T : n <= m
      <3>1. T \subseteq Nat /\ T # {}
        BY <1>1, <2>1
      <3> HIDE DEF T
      <3> QED BY <3>1, Least
    <2>3. /\ n \in 1..(N + 1) /\ LeavesBefore(n) > i /\ n # 1
          /\ n - 1 \in 1..N /\ n - 1 \in 1..(N + 1) /\ n - 1 \notin T /\ (n - 1) + 1 = n
      BY <1>1, <2>2
    <2>4. ~ (LeavesBefore(n - 1) > i) /\ LeavesBefore(n - 1) \in Nat
      BY <1>1, <2>3
    <2>5. LeavesBefore((n - 1) + 1) = IF Kids(n - 1) = {} THEN LeavesBefore(n - 1) + 1
                                      ELSE LeavesBefore(n - 1)
      BY <1>1, <2>3, LeavesStep
    <2>6. Kids(n - 1) = {} /\ LeavesBefore(n) = LeavesBefore(n - 1) + 1
      BY <2>3, <2>4, <2>5
    <2>7. LeavesBefore(n - 1) = i
      BY <2>3, <2>4, <2>6
    <2>8. n - 1 \in Leaves
      BY <1>1, <2>3, <2>6 DEF Leaves
    <2>9. row[n - 1] = i
      BY <2>3, <2>7, PlaceOf
    <2> QED BY <2>8, <2>9
  <1> HIDE DEF H
  <1>4. \A i : i \in {row[n] : n \in Leaves} <=> i \in 0..(H - 1)
    BY <1>2, <1>3
  <1>5. {row[n] : n \in Leaves} = 0..(H - 1)
    BY <1>4
  <1> QED BY <1>5 DEF H

LEMMA OwnPixels ==
  ASSUME TypeOK, Preorder, drawn = DOMAIN tree, drawn # {}, Placed(Len(tree)),
         NEW m \in drawn, NEW n \in drawn, m # n
  PROVE  <<row[m], level[m]>> # <<row[n], level[n]>>
  <1>1. Len(tree) \in Nat /\ m \in 1..Len(tree) /\ n \in 1..Len(tree)
    BY Nodes
  <1>2. level[m] \in Nat /\ level[n] \in Nat /\ (m < n \/ n < m)
    BY <1>1, PlaceOf
  <1>3. m < n /\ row[m] = row[n] => level[m] < level[n]
    BY <1>1, SameRow
  <1>4. n < m /\ row[n] = row[m] => level[n] < level[m]
    BY <1>1, SameRow
  <1> QED BY <1>2, <1>3, <1>4

-----------------------------------------------------------------------------
(* What the inductive invariant says of the picture that is printed *)

LEMMA PictureShape ==
  ASSUME IInv, phase = "drawn"
  PROVE  /\ TypeOK /\ Preorder /\ drawn = DOMAIN tree /\ drawn # {} /\ Placed(Len(tree))
         /\ drawn = 1..Len(tree) /\ Len(tree) \in Nat
         /\ drawn \ {1} = 2..Len(tree)
  <1>1. TypeOK /\ Preorder /\ drawn = DOMAIN tree /\ Placed(Len(tree))
    BY DEF IInv, Picture
  <1>2. Len(tree) \in Nat /\ DOMAIN tree = 1..Len(tree) /\ at \in DOMAIN tree
    BY <1>1, Nodes DEF TypeOK
  <1> QED BY <1>1, <1>2

LEMMA BarsHold == IInv => BarsJoinSiblings
  <1> SUFFICES ASSUME IInv, phase = "drawn" PROVE BarsJoinSiblings
    BY DEF BarsJoinSiblings, Drawn
  <1>1. ASSUME NEW n \in drawn \ {1} PROVE Nearest(row[n], level[n] - 1) = {tree[n].parent}
    BY PictureShape, NearestIsParent DEF P
  <1>2. ASSUME NEW i \in 0..(Rows - 1), NEW j \in 0..(Columns - 1)
        PROVE  Bar(i, j) <=> \E n \in drawn : \E k, m \in Kids(n) :
                 level[n] = j /\ row[k] < i /\ i < row[m] /\ \A x \in Kids(n) : row[x] # i
    <2>1. i \in Nat /\ j \in Nat
      BY TreeAssumption
    <2>2. Bar(i, j) => \E n \in drawn : \E k, m \in Kids(n) :
            level[n] = j /\ row[k] < i /\ i < row[m] /\ \A x \in Kids(n) : row[x] # i
      BY <2>1, PictureShape, BarIsBetween
    <2>3. ASSUME NEW n \in drawn, NEW k \in Kids(n), NEW m \in Kids(n),
                 level[n] = j, row[k] < i, i < row[m], \A x \in Kids(n) : row[x] # i
          PROVE  Bar(i, j)
      BY <2>1, <2>3, PictureShape, BarIsFound
    <2> QED BY <2>2, <2>3
  <1> QED BY <1>1, <1>2 DEF BarsJoinSiblings

LEMMA PipesHold == IInv => PipesByPlace
  <1> SUFFICES ASSUME IInv, phase = "drawn", Plain, NEW n \in drawn \ {1}
               PROVE  Pipe(n) = IF Siblings(n) = {n} THEN "---"
                                ELSE IF \A m \in Siblings(n) : n <= m THEN "-+-" ELSE " +-"
    BY DEF PipesByPlace, Drawn, Plain, Self
  <1> DEFINE S == Siblings(n)
  <1>1. /\ S \subseteq 1..Len(tree) /\ Len(tree) \in Nat /\ n \in S /\ S \subseteq Nat
        /\ \A m \in S : P(m) = P(n) /\ m \in DOMAIN tree
    BY PictureShape, Nodes DEF Siblings, P
  <1>2. PICK hi \in S : \A y \in S : y <= hi
    BY <1>1, Greatest
  <1>3. PICK lo \in S : \A y \in S : lo <= y
    BY <1>1, Least
  <1>4. Max(S) \in S /\ \A y \in S : y <= Max(S)
    BY <1>1, <1>2 DEF Max
  <1>5. Min(S) \in S /\ \A y \in S : Min(S) <= y
    BY <1>1, <1>3 DEF Min
  <1>6. \A m \in S : tree[n].self = tree[m].self => m = n
    <2>1. Apart
      BY DEF IInv
    <2> QED BY <1>1, <2>1 DEF Apart, Self
  <1>7. Cardinality(S) = 1 <=> S = {n}
    <2>1. IsFiniteSet(S)
      BY PictureShape, Nodes DEF Siblings
    <2>2. S = {n} => Cardinality(S) = 1
      BY FS_Singleton
    <2>3. Cardinality(S) = 1 => \E x : S = {x}
      BY <2>1, FS_Singleton
    <2> QED BY <1>1, <2>2, <2>3
  <1> HIDE DEF S
  <1>8. /\ tree[n].self = tree[Max(S)].self <=> n = Max(S)
        /\ tree[n].self = tree[Min(S)].self <=> n = Min(S)
    BY <1>4, <1>5, <1>6
  <1>9. n = Min(S) <=> \A m \in S : n <= m
    <2>1. n \in Nat /\ Min(S) \in Nat
      BY <1>1, <1>5
    <2> QED BY <1>1, <1>5, <2>1
  <1>10. n = Max(S) /\ n = Min(S) => S = {n}
    <2>1. ASSUME n = Max(S), n = Min(S), NEW y \in S PROVE y = n
      <3>1. y <= n /\ n <= y /\ y \in Nat /\ n \in Nat
        BY <1>1, <1>4, <1>5, <2>1
      <3> QED BY <3>1
    <2> QED BY <1>1, <2>1
  <1>11. Pipe(n) = IF Cardinality(S) = 1 THEN "---"
                   ELSE IF tree[n].self = tree[Max(S)].self THEN " +-"
                   ELSE IF tree[n].self = tree[Min(S)].self THEN "-+-"
                   ELSE " +-"
    BY DEF Pipe, S
  <1>12. Pipe(n) = IF S = {n} THEN "---" ELSE IF \A m \in S : n <= m THEN "-+-" ELSE " +-"
    BY <1>7, <1>8, <1>9, <1>10, <1>11
  <1> QED BY <1>12 DEF S

-----------------------------------------------------------------------------
(* The start, and the commands that change the network                         *)

\* Between two tree commands the invariant only says that ports are not used twice.
LEMMA IdleIs ==
  ASSUME TypeOK', phase' = "idle", drawn' = {}, list' = {}
  PROVE  IInv'
  BY DEF IInv, NullByHalfLinks, RowPerLeaf, Drawn

LEMMA InitIInv == Init => IInv
  <1> SUFFICES ASSUME Init PROVE IInv
    OBVIOUS
  <1>1. /\ links = << >> /\ DOMAIN links = {} /\ left = << >> /\ DOMAIN left = {} /\ known = {}
        /\ ports = << >> /\ DOMAIN ports = {}
        /\ tree = << >> /\ round = << >> /\ DOMAIN tree = {}
    BY DEF Init
  <1>2. TypeOK
    <2>1. /\ links \in [DOMAIN links -> (Devices \cup {Nil}) \X (Devices \cup {Nil})]
          /\ left \in [DOMAIN left -> Nat] /\ ports \in [known -> Nat \ {0}]
      BY <1>1
    <2>2. tree \in Seq([self : Devices, parent : Nat]) /\ round \in Seq(Nat)
          /\ Len(round) = Len(tree)
      BY <1>1
    <2> QED BY <1>1, <2>1, <2>2 DEF Init, TypeOK
  <1> QED BY <1>2 DEF Init, IInv, NullByHalfLinks, RowPerLeaf, Drawn

\* Only the network is different.
LEMMA NetworkKeeps ==
  ASSUME IInv, phase = "idle", UNCHANGED <<walk, canvas>>,
         DOMAIN links' \subseteq 1..MaxLinks,
         links' \in [DOMAIN links' -> (Devices \cup {Nil}) \X (Devices \cup {Nil})],
         DOMAIN left' \subseteq (DOMAIN links') \X (1..2), left' \in [DOMAIN left' -> Nat],
         known' \subseteq Devices, ports' \in [known' -> Nat \ {0}],
         \A d \in known' : Used(DOMAIN links, d)' <= ports'[d]
  PROVE  IInv'
  <1>1. /\ TypeOK /\ drawn = {} /\ list = {} /\ phase' = "idle" /\ list' = list /\ tree' = tree
        /\ round' = round /\ at' = at /\ drawn' = drawn
    BY DEF IInv, walk, canvas
  <1>2. TypeOK'
    BY <1>1 DEF TypeOK
  <1> QED BY <1>1, <1>2, IdleIs

\* A device that no link was added to has no more of its ports in use.
LEMMA NoneAdded ==
  ASSUME TypeOK, NEW d \in known,
         \A j \in 1..2 : OwnEnds(DOMAIN links, d, j)' \subseteq OwnEnds(DOMAIN links, d, j)
  PROVE  Used(DOMAIN links, d)' <= ports[d]
  <1> DEFINE A(j) == OwnEnds(DOMAIN links, d, j)
  <1>1. /\ Used(DOMAIN links, d) = Cardinality(A(1)) + Cardinality(A(2))
        /\ Used(DOMAIN links, d) <= ports[d] /\ ports[d] \in Nat
    BY DEF Used, TypeOK
  <1>2. PICK B, C : /\ B = OwnEnds(DOMAIN links, d, 1)' /\ C = OwnEnds(DOMAIN links, d, 2)'
                    /\ B \subseteq A(1) /\ C \subseteq A(2)
    OBVIOUS
  <1>3. Used(DOMAIN links, d)' = Cardinality(B) + Cardinality(C)
    BY <1>2 DEF Used
  <1>4. \A j \in 1..2 : IsFiniteSet(A(j))
    <2>1. \A j \in 1..2 : A(j) \subseteq DOMAIN links
      BY DEF OwnEnds
    <2> QED BY <2>1, LinksShape
  <1> HIDE DEF A
  <1>5. /\ Cardinality(B) \in Nat /\ Cardinality(A(1)) \in Nat
        /\ Cardinality(B) <= Cardinality(A(1))
    BY <1>2, <1>4, CardSub
  <1>6. /\ Cardinality(C) \in Nat /\ Cardinality(A(2)) \in Nat
        /\ Cardinality(C) <= Cardinality(A(2))
    BY <1>2, <1>4, CardSub
  <1> QED BY <1>1, <1>3, <1>5, <1>6

LEMMA CreateKeeps ==
  ASSUME IInv, Owned, NEW d \in Devices, NEW n \in Counts[d], Create(d, n)
  PROVE  IInv'
  <1>1. /\ TypeOK /\ phase = "idle" /\ d \notin known /\ known' = known \cup {d}
        /\ ports' = [x \in known \cup {d} |-> IF x = d THEN n ELSE ports[x]]
        /\ links' = links /\ left' = left /\ UNCHANGED <<walk, canvas>>
    BY DEF IInv, Create
  <1>2. n \in Nat \ {0}
    BY TreeAssumption
  <1>3. ports' \in [known' -> Nat \ {0}]
    BY <1>1, <1>2 DEF TypeOK
  <1>4. ASSUME NEW x \in known' PROVE Used(DOMAIN links, x)' <= ports'[x]
    <2>1. Used(DOMAIN links, x)' = Used(DOMAIN links, x)
      BY <1>1 DEF Used, OwnEnds
    <2>2. CASE x = d
      <3>1. OwnEnds(DOMAIN links, d, 1) = {} /\ OwnEnds(DOMAIN links, d, 2) = {}
        <4>1. ASSUME NEW j \in 1..2, NEW k \in OwnEnds(DOMAIN links, d, j) PROVE FALSE
          <5>1. k \in DOMAIN links /\ links[k][j] = d /\ <<k, j>> \notin DOMAIN left
            BY DEF OwnEnds
          <5>2. links[k][j] \in known \cup {Nil}
            BY <5>1 DEF Owned
          <5> QED BY <1>1, <5>1, <5>2, TreeAssumption
        <4> QED BY <4>1
      <3>2. Used(DOMAIN links, d) = 0
        BY <3>1, FS_EmptySet DEF Used
      <3>3. ports'[d] = n
        BY <1>1
      <3> QED BY <1>2, <2>1, <2>2, <3>2, <3>3
    <2>3. CASE x # d
      <3>1. x \in known /\ ports'[x] = ports[x]
        BY <1>1, <2>3
      <3> QED BY <1>1, <2>1, <3>1 DEF TypeOK
    <2> QED BY <2>2, <2>3
  <1>5. /\ DOMAIN links' \subseteq 1..MaxLinks
        /\ links' \in [DOMAIN links' -> (Devices \cup {Nil}) \X (Devices \cup {Nil})]
        /\ DOMAIN left' \subseteq (DOMAIN links') \X (1..2) /\ left' \in [DOMAIN left' -> Nat]
        /\ known' \subseteq Devices
    BY <1>1 DEF TypeOK
  <1> QED BY <1>1, <1>3, <1>4, <1>5, NetworkKeeps

LEMMA CreateLinkKeeps ==
  ASSUME IInv, NEW k \in 1..MaxLinks, NEW a \in Devices, NEW b \in Devices, CreateLink(k, a, b)
  PROVE  IInv'
  <1> DEFINE E == (Devices \cup {Nil}) \X (Devices \cup {Nil})
             A(d, j) == OwnEnds(DOMAIN links, d, j)
  <1>1. /\ TypeOK /\ phase = "idle" /\ k \notin DOMAIN links /\ a \in known /\ b \in known
        /\ links' = [x \in DOMAIN links \cup {k} |-> IF x = k THEN <<a, b>> ELSE links[x]]
        /\ left' = left /\ known' = known /\ ports' = ports /\ UNCHANGED <<walk, canvas>>
    BY DEF IInv, CreateLink
  <1>2. /\ DOMAIN links' = DOMAIN links \cup {k} /\ links'[k] = <<a, b>>
        /\ \A x \in DOMAIN links : links'[x] = links[x]
        /\ \A j : <<k, j>> \notin DOMAIN left
    BY <1>1 DEF TypeOK
  <1>3. links' \in [DOMAIN links' -> E]
    BY <1>1 DEF TypeOK
  <1>4. ASSUME NEW d \in known PROVE Used(DOMAIN links, d)' <= ports[d]
    <2>1. /\ Used(DOMAIN links, d) = Cardinality(A(d, 1)) + Cardinality(A(d, 2))
          /\ Used(DOMAIN links, d) <= ports[d] /\ ports[d] \in Nat
          /\ d \in {a, b} => Used(DOMAIN links, d) < ports[d]
          /\ d = a /\ d = b => Used(DOMAIN links, d) + 1 < ports[d]
      BY <1>1 DEF Used, TypeOK, CreateLink, Available
    <2>2. PICK B, C : /\ B = OwnEnds(DOMAIN links, d, 1)' /\ C = OwnEnds(DOMAIN links, d, 2)'
      OBVIOUS
    <2>3. Used(DOMAIN links, d)' = Cardinality(B) + Cardinality(C)
      BY <2>2 DEF Used
    <2>4. /\ B = IF a = d THEN A(d, 1) \cup {k} ELSE A(d, 1)
          /\ C = IF b = d THEN A(d, 2) \cup {k} ELSE A(d, 2)
      <3>1. ASSUME NEW x PROVE x \in B <=> x \in A(d, 1) \/ (x = k /\ a = d)
        BY <1>1, <1>2, <2>2 DEF OwnEnds
      <3>2. ASSUME NEW x PROVE x \in C <=> x \in A(d, 2) \/ (x = k /\ b = d)
        BY <1>1, <1>2, <2>2 DEF OwnEnds
      <3> HIDE DEF A
      <3> QED BY <3>1, <3>2
    <2>5. /\ IsFiniteSet(A(d, 1)) /\ IsFiniteSet(A(d, 2))
          /\ k \notin A(d, 1) /\ k \notin A(d, 2)
      <3>1. A(d, 1) \subseteq DOMAIN links /\ A(d, 2) \subseteq DOMAIN links
        BY DEF OwnEnds
      <3> HIDE DEF A
      <3> QED BY <1>1, <3>1, LinksShape
    <2> DEFINE f == Cardinality(A(d, 1))  g == Cardinality(A(d, 2))
    <2> HIDE DEF A
    <2>6. /\ f \in Nat /\ g \in Nat
          /\ Cardinality(B) = IF a = d THEN f + 1 ELSE f
          /\ Cardinality(C) = IF b = d THEN g + 1 ELSE g
      BY <2>4, <2>5, CardAdd, FS_CardinalityType
    <2>7. Used(DOMAIN links, d) = f + g
      BY <2>1
    <2> HIDE DEF f, g
    <2> QED BY <2>1, <2>3, <2>6, <2>7
  <1>5. /\ DOMAIN links' \subseteq 1..MaxLinks
        /\ DOMAIN left' \subseteq (DOMAIN links') \X (1..2) /\ left' \in [DOMAIN left' -> Nat]
        /\ known' \subseteq Devices /\ ports' \in [known' -> Nat \ {0}]
    BY <1>1, <1>2 DEF TypeOK
  <1> QED BY <1>1, <1>3, <1>4, <1>5, NetworkKeeps

LEMMA DestroyLinkKeeps ==
  ASSUME IInv, NEW k \in 1..MaxLinks, DestroyLink(k)
  PROVE  IInv'
  <1>1. /\ TypeOK /\ phase = "idle" /\ k \in DOMAIN links
        /\ links' = [x \in DOMAIN links \ {k} |-> links[x]]
        /\ left' = [e \in {e \in DOMAIN left : e[1] # k} |-> left[e]]
        /\ known' = known /\ ports' = ports /\ UNCHANGED <<walk, canvas>>
    BY DEF IInv, DestroyLink
  <1>2. /\ DOMAIN links' = DOMAIN links \ {k} /\ DOMAIN left' = {e \in DOMAIN left : e[1] # k}
        /\ \A x \in DOMAIN links' : links'[x] = links[x]
    BY <1>1
  <1>3. ASSUME NEW d \in known PROVE Used(DOMAIN links, d)' <= ports[d]
    <2>1. ASSUME NEW j \in 1..2
          PROVE  OwnEnds(DOMAIN links, d, j)' \subseteq OwnEnds(DOMAIN links, d, j)
      <3>1. ASSUME NEW x \in OwnEnds(DOMAIN links, d, j)'
            PROVE  x \in OwnEnds(DOMAIN links, d, j)
        <4>1. x \in DOMAIN links' /\ links'[x][j] = d /\ <<x, j>> \notin DOMAIN left'
          BY DEF OwnEnds
        <4>2. x # k /\ x \in DOMAIN links /\ links[x][j] = d
          BY <1>2, <4>1
        <4>3. <<x, j>> \notin DOMAIN left
          <5> DEFINE e == <<x, j>>
          <5>1. e[1] # k
            BY <4>2
          <5>2. e \notin DOMAIN left'
            BY <4>1
          <5> HIDE DEF e
          <5>3. e \notin DOMAIN left
            BY <1>2, <5>1, <5>2
          <5> QED BY <5>3 DEF e
        <4> QED BY <4>2, <4>3 DEF OwnEnds
      <3> QED BY <3>1
    <2> QED BY <1>1, <2>1, NoneAdded
  <1>4. /\ DOMAIN links' \subseteq 1..MaxLinks
        /\ links' \in [DOMAIN links' -> (Devices \cup {Nil}) \X (Devices \cup {Nil})]
        /\ left' \in [DOMAIN left' -> Nat]
        /\ known' \subseteq Devices /\ ports' \in [known' -> Nat \ {0}]
    BY <1>1, <1>2 DEF TypeOK
  <1>5. DOMAIN left' \subseteq (DOMAIN links') \X (1..2)
    <2>1. ASSUME NEW e \in DOMAIN left' PROVE e \in (DOMAIN links') \X (1..2)
      <3>1. e \in (DOMAIN links) \X (1..2) /\ e[1] # k
        BY <1>1, <1>2 DEF TypeOK
      <3> QED BY <1>2, <3>1
    <2> QED BY <2>1
  <1> QED BY <1>1, <1>3, <1>4, <1>5, NetworkKeeps

LEMMA DestroyDeviceKeeps ==
  ASSUME IInv, NEW d \in Devices, DestroyDevice(d)
  PROVE  IInv'
  <1> DEFINE E == (Devices \cup {Nil}) \X (Devices \cup {Nil})
  <1>1. /\ TypeOK /\ phase = "idle" /\ known' = known \ {d} /\ left' = left
        /\ ports' = [x \in known \ {d} |-> ports[x]] /\ UNCHANGED <<walk, canvas>>
        /\ links' = [k \in DOMAIN links |->
                       <<IF links[k][1] = d THEN Nil ELSE links[k][1],
                         IF links[k][2] = d THEN Nil ELSE links[k][2]>>]
    BY DEF IInv, DestroyDevice
  <1>2. DOMAIN links' = DOMAIN links
        /\ \A k \in DOMAIN links :
             /\ links'[k] \in E
             /\ \A j \in 1..2 : links'[k][j] = IF links[k][j] = d THEN Nil ELSE links[k][j]
    BY <1>1, LinksShape
  <1>3. links' \in [DOMAIN links' -> E]
    <2> HIDE DEF E
    <2>1. links' = [k \in DOMAIN links' |-> links'[k]]
      BY <1>1
    <2> QED BY <1>2, <2>1
  <1>4. ASSUME NEW x \in known' PROVE Used(DOMAIN links, x)' <= ports'[x]
    <2>1. x \in known /\ ports'[x] = ports[x] /\ x # Nil
      BY <1>1, TreeAssumption DEF TypeOK
    <2>2. ASSUME NEW j \in 1..2
          PROVE  OwnEnds(DOMAIN links, x, j)' \subseteq OwnEnds(DOMAIN links, x, j)
      <3>1. ASSUME NEW k \in OwnEnds(DOMAIN links, x, j)'
            PROVE  k \in OwnEnds(DOMAIN links, x, j)
        <4>1. k \in DOMAIN links' /\ links'[k][j] = x /\ <<k, j>> \notin DOMAIN left'
          BY DEF OwnEnds
        <4>2. k \in DOMAIN links /\ links[k][j] = x
          BY <1>2, <2>1, <4>1
        <4> QED BY <1>1, <4>1, <4>2 DEF OwnEnds
      <3> QED BY <3>1
    <2>3. Used(DOMAIN links, x)' <= ports[x]
      BY <1>1, <2>1, <2>2, NoneAdded
    <2> QED BY <2>1, <2>3
  <1>5. /\ DOMAIN links' \subseteq 1..MaxLinks
        /\ DOMAIN left' \subseteq (DOMAIN links') \X (1..2) /\ left' \in [DOMAIN left' -> Nat]
        /\ known' \subseteq Devices /\ ports' \in [known' -> Nat \ {0}]
    BY <1>1, <1>2 DEF TypeOK
  <1> QED BY <1>1, <1>3, <1>4, <1>5, NetworkKeeps

LEMMA DestroySwitchKeeps ==
  ASSUME IInv, NEW d \in Devices, DestroySwitch(d)
  PROVE  IInv'
  <1>1. /\ TypeOK /\ phase = "idle" /\ known' = known \ {d} /\ links' = links
        /\ ports' = [x \in known \ {d} |-> ports[x]] /\ UNCHANGED <<walk, canvas>>
    BY DEF IInv, DestroySwitch
  <1>2. PICK least \in [Connected(d) -> {n \in Counts[d] : n <= ports[d]}] :
          left' = [e \in DOMAIN left \cup Connected(d) |->
                     IF e \in Connected(d) THEN least[e] ELSE left[e]]
    BY DEF DestroySwitch
  <1>3. /\ DOMAIN left' = DOMAIN left \cup Connected(d)
        /\ \A e \in Connected(d) : least[e] \in Nat
        /\ \A e \in DOMAIN left : left[e] \in Nat
    BY <1>1, <1>2, TreeAssumption DEF TypeOK
  <1>4. left' \in [DOMAIN left' -> Nat]
    <2>1. \A e \in DOMAIN left' : left'[e] \in Nat
      BY <1>2, <1>3
    <2>2. left' = [e \in DOMAIN left' |-> left'[e]]
      BY <1>2
    <2> QED BY <2>1, <2>2
  <1>5. DOMAIN left' \subseteq (DOMAIN links') \X (1..2)
    BY <1>1, <1>3 DEF Connected, TypeOK
  <1>6. ASSUME NEW x \in known' PROVE Used(DOMAIN links, x)' <= ports'[x]
    <2>1. x \in known /\ ports'[x] = ports[x]
      BY <1>1
    <2>2. ASSUME NEW j \in 1..2
          PROVE  OwnEnds(DOMAIN links, x, j)' \subseteq OwnEnds(DOMAIN links, x, j)
      BY <1>1, <1>3 DEF OwnEnds
    <2>3. Used(DOMAIN links, x)' <= ports[x]
      BY <1>1, <2>1, <2>2, NoneAdded
    <2> QED BY <2>1, <2>3
  <1>7. /\ DOMAIN links' \subseteq 1..MaxLinks
        /\ links' \in [DOMAIN links' -> (Devices \cup {Nil}) \X (Devices \cup {Nil})]
        /\ known' \subseteq Devices /\ ports' \in [known' -> Nat \ {0}]
    BY <1>1 DEF TypeOK
  <1> QED BY <1>1, <1>4, <1>5, <1>6, <1>7, NetworkKeeps

LEMMA FreeKeeps ==
  ASSUME IInv, Free
  PROVE  IInv'
  <1>1. /\ TypeOK /\ links' = links /\ left' = left /\ known' = known /\ ports' = ports
        /\ phase' = "idle" /\ list' = {} /\ tree' = << >> /\ round' = << >> /\ drawn' = {}
    BY DEF IInv, Free, net
  <1>2. tree' \in Seq([self : Devices, parent : Nat]) /\ round' \in Seq(Nat)
        /\ Len(round') = Len(tree')
    BY <1>1
  <1>3. TypeOK'
    BY <1>1, <1>2 DEF TypeOK, Used, OwnEnds
  <1> QED BY <1>1, <1>3, IdleIs

\* Every port that is left behind is known to be: a name no device has is on no other.
LEMMA StepOwned == TypeOK /\ Owned /\ [Next]_vars => Owned'
  <1> SUFFICES ASSUME TypeOK, Owned, [Next]_vars, NEW k \in DOMAIN links', NEW j \in 1..2,
                      <<k, j>> \notin DOMAIN left'
               PROVE  links'[k][j] \in known' \cup {Nil}
    BY DEF Owned
  <1>1. ASSUME NEW d \in Devices, NEW n \in Counts[d], Create(d, n)
        PROVE  links'[k][j] \in known' \cup {Nil}
    BY <1>1 DEF Create, Owned
  <1>2. ASSUME NEW l \in 1..MaxLinks, DestroyLink(l)
        PROVE  links'[k][j] \in known' \cup {Nil}
    <2>1. /\ k \in DOMAIN links \ {l} /\ links'[k] = links[k] /\ known' = known
          /\ left' = [e \in {e \in DOMAIN left : e[1] # l} |-> left[e]]
      BY <1>2 DEF DestroyLink
    <2> DEFINE e == <<k, j>>
    <2>2. e[1] # l /\ e \notin DOMAIN left'
      BY <2>1
    <2> HIDE DEF e
    <2>3. e \notin DOMAIN left
      BY <2>1, <2>2
    <2> QED BY <2>1, <2>3 DEF Owned, e
  <1>3. ASSUME NEW l \in 1..MaxLinks, NEW a \in Devices, NEW b \in Devices, CreateLink(l, a, b)
        PROVE  links'[k][j] \in known' \cup {Nil}
    <2>1. CASE k = l
      BY <1>3, <2>1 DEF CreateLink
    <2>2. CASE k # l
      BY <1>3, <2>2 DEF CreateLink, Owned
    <2> QED BY <2>1, <2>2
  <1>4. ASSUME NEW d \in Devices, DestroyDevice(d)
        PROVE  links'[k][j] \in known' \cup {Nil}
    <2>1. /\ k \in DOMAIN links /\ known' = known \ {d} /\ left' = left
          /\ links'[k] = <<IF links[k][1] = d THEN Nil ELSE links[k][1],
                           IF links[k][2] = d THEN Nil ELSE links[k][2]>>
      BY <1>4 DEF DestroyDevice
    <2>2. links'[k][j] = IF links[k][j] = d THEN Nil ELSE links[k][j]
      BY <2>1
    <2> QED BY <2>1, <2>2 DEF Owned
  <1>5. ASSUME NEW d \in Devices, DestroySwitch(d)
        PROVE  links'[k][j] \in known' \cup {Nil}
    <2>1. /\ links' = links /\ known' = known \ {d}
          /\ DOMAIN left' = DOMAIN left \cup Connected(d)
      BY <1>5 DEF DestroySwitch
    <2>2. links[k][j] # d
      <3> DEFINE e == <<k, j>>
      <3>1. e \in (DOMAIN links) \X (1..2) /\ e \notin DOMAIN left /\ e \notin Connected(d)
            /\ e[1] = k /\ e[2] = j
        BY <2>1
      <3> HIDE DEF e
      <3> QED BY <3>1 DEF Connected
    <2> QED BY <2>1, <2>2 DEF Owned
  <1>6. CASE UNCHANGED <<links, left, known>>
    BY <1>6 DEF Owned
  <1>7. CASE \/ \E d \in Devices : Start(d)
             \/ CheckLink \/ Ascend \/ Sketch \/ DrawChild \/ Return \/ RunWild \/ Free
             \/ UNCHANGED vars
    BY <1>6, <1>7 DEF Start, CheckLink, Descend, Refuse, Crash, Ascend, Sketch, DrawChild,
                      Return, RunWild, Free, net, vars
  <1> QED BY <1>1, <1>2, <1>3, <1>4, <1>5, <1>7 DEF Next

-----------------------------------------------------------------------------
(* The walk                                                                    *)

LEMMA WalkIs ==
  ASSUME TypeOK', phase' = "walk", drawn' = {}, Preorder', FromPart', Apart', Tally',
         Whole((DOMAIN links) \ list)', Waiting', Returned', Rounds'
  PROVE  IInv'
  BY DEF IInv, NullByHalfLinks, RowPerLeaf, Drawn

LEMMA StartKeeps ==
  ASSUME IInv, NEW r \in Devices, Start(r)
  PROVE  IInv'
  <1>1. /\ TypeOK /\ phase = "idle" /\ drawn = {} /\ r \in known
        /\ phase' = "walk" /\ list' = DOMAIN links /\ at' = 1
        /\ tree' = <<[self |-> r, parent |-> 0]>> /\ round' = <<0>>
        /\ UNCHANGED <<links, left, known, ports>> /\ drawn' = {}
    BY DEF IInv, Start, canvas, net
  <1>2. /\ DOMAIN tree' = {1} /\ Len(tree') = 1 /\ tree'[1].self = r /\ tree'[1].parent = 0
        /\ round'[1] = 0 /\ Len(round') = 1
    BY <1>1
  <1>3. TypeOK'
    <2>1. tree' \in Seq([self : Devices, parent : Nat])
      <3> DEFINE t == [self |-> r, parent |-> 0]
                 T == [self : Devices, parent : Nat]
      <3>1. t \in T
        OBVIOUS
      <3>2. tree' = <<t>>
        BY <1>1
      <3> HIDE DEF t, T
      <3>3. tree' \in Seq(T)
        BY <3>1, <3>2
      <3> QED BY <3>3 DEF T
    <2>2. round' \in Seq(Nat)
      BY <1>1
    <2> QED BY <1>1, <1>2, <2>1, <2>2 DEF TypeOK, Used, OwnEnds
  <1>4. Preorder' /\ Apart' /\ Waiting'
    BY <1>1, <1>2 DEF Preorder, Apart, Waiting, P, Self
  <1>5. FromPart'
    <2>1. Part(r)' = Part(r)
      BY <1>1 DEF Part, Closed
    <2>2. r \in Part(r)
      BY <1>1, PartOf
    <2> QED BY <1>1, <1>2, <2>1, <2>2 DEF FromPart, Self
  <1>6. Tally' /\ Whole((DOMAIN links) \ list)'
    <2>1. ASSUME NEW a \in Devices, NEW b \in Devices
          PROVE  Cardinality(Edges(a, b))' = Cardinality(Gone(a, b))'
      <3>1. Edges(a, b)' = {}
        BY <1>2 DEF Edges
      <3>2. Gone(a, b)' = {}
        BY <1>1 DEF Gone
      <3> QED BY <3>1, <3>2
    <2>2. \A a, b \in Devices : Cardinality(Edges(a, b))' <= Cardinality(Gone(a, b))'
      <3>1. ASSUME NEW a \in Devices, NEW b \in Devices
            PROVE  Edges(a, b)' = {} /\ Gone(a, b)' = {}
        BY <1>1, <1>2 DEF Edges, Gone
      <3> QED BY <3>1, FS_EmptySet
    <2> QED BY <1>1, <2>1, <2>2 DEF Tally, Whole
  <1>7. Returned'
    BY <1>1, <1>2 DEF Returned, OnPath
  <1>8. Rounds'
    <2>1. Used(DOMAIN links, r) <= ports[r] /\ Used(DOMAIN links, r) \in Nat
      BY <1>1, UsedLess DEF TypeOK
    <2>2. Used(list, Self(1))' = Used(DOMAIN links, r)
      BY <1>1, <1>2 DEF Used, Self, OwnEnds
    <2>3. Limit(1)' = ports[r]
      BY <1>1, <1>2 DEF Limit, Self
    <2>4. Used(DOMAIN links, r) + 0 <= ports[r]
      BY <2>1
    <2> QED BY <1>2, <2>2, <2>3, <2>4 DEF Rounds
  <1> QED BY <1>1, <1>3, <1>4, <1>5, <1>6, <1>7, <1>8, WalkIs

\* Steps that do not change the tree keep what the invariant says of it.
LEMMA TreeStays ==
  ASSUME Preorder, FromPart, Apart, Tally, Whole((DOMAIN links) \ list),
         links' = links, left' = left, known' = known, ports' = ports, list' = list, tree' = tree
  PROVE  /\ Preorder' /\ FromPart' /\ Apart' /\ Tally' /\ Whole((DOMAIN links) \ list)'
         /\ \A n : Kids(n)' = Kids(n) /\ Full(n)' = Full(n) /\ LeavesBefore(n)' = LeavesBefore(n)
         /\ Leaves' = Leaves
         /\ \A r : Part(r)' = Part(r)
  <1>1. \A n : P(n)' = P(n) /\ Self(n)' = Self(n) /\ Kids(n)' = Kids(n)
    BY DEF P, Self, Kids
  <1>2. \A n : Full(n)' = Full(n)
    BY <1>1 DEF Full
  <1>3. \A n : LeavesBefore(n)' = LeavesBefore(n)
    BY <1>1 DEF LeavesBefore
  <1>4. Leaves' = Leaves
    BY <1>1 DEF Leaves
  <1>5. \A r : Part(r)' = Part(r)
    BY DEF Part, Closed
  <1>6. Preorder' /\ Apart'
    <2>1. Plain' <=> Plain
      BY PlainStays
    <2> QED BY <1>1, <2>1 DEF Preorder, Apart
  <1>7. FromPart'
    BY <1>1, <1>5 DEF FromPart
  <1>8. Whole((DOMAIN links) \ list)'
    BY DEF Whole
  <1>9. Tally'
    <2>1. \A a, b : Edges(a, b)' = Edges(a, b)
      BY <1>1 DEF Edges
    <2>2. \A a, b : Gone(a, b)' = Gone(a, b)
      BY DEF Gone
    <2> QED BY <1>1, <1>2, <2>1, <2>2 DEF Tally
  <1> QED BY <1>1, <1>2, <1>3, <1>4, <1>5, <1>6, <1>7, <1>8, <1>9

\* The link that is found, when it does not hang.
LEMMA FoundHere ==
  ASSUME IInv, phase = "walk", NEW k \in Found(list, Here), ~ Half(links[k])
  PROVE  /\ TypeOK /\ at \in DOMAIN tree /\ Here = Self(at) /\ Here \in Devices
         /\ k \in list /\ k \in DOMAIN links /\ Here \in Ends(links[k])
         /\ OtherEnd(links[k], Here) \in Devices
         /\ Ends(links[k]) = {Here, OtherEnd(links[k], Here)}
         /\ OtherEnd(links[k], Here) \in Part(Self(1))
  <1>1. TypeOK /\ at \in DOMAIN tree /\ Here = Self(at) /\ list \subseteq DOMAIN links
    BY DEF IInv, TypeOK, Here, Self
  <1>2. k \in list /\ Here \in Ends(links[k]) /\ k \in DOMAIN links
    BY <1>1, FoundIs
  <1>3. /\ Here \in Devices /\ OtherEnd(links[k], Here) \in Devices
        /\ Ends(links[k]) = {Here, OtherEnd(links[k], Here)}
    BY <1>1, <1>2, WholeEnds
  <1>4. FromPart /\ 1 \in DOMAIN tree
    <2>1. DOMAIN tree = 1..Len(tree) /\ Len(tree) \in Nat
      BY <1>1, Nodes
    <2>2. 1 \in DOMAIN tree
      BY <1>1, <2>1
    <2> QED BY <2>2 DEF IInv
  <1>5. Here \in Part(Self(1)) \cap known /\ Self(1) \in Devices
    BY <1>1, <1>4, Nodes DEF FromPart
  <1>6. OtherEnd(links[k], Here) \in Part(Self(1))
    BY <1>1, <1>2, <1>5, PartOf
  <1> QED BY <1>1, <1>2, <1>3, <1>6

LEMMA CrashKeeps ==
  ASSUME IInv, phase = "walk", NEW k \in Found(list, Here),
         Crash(k, OtherEnd(links[k], Here))
  PROVE  IInv'
  <1> DEFINE e == OtherEnd(links[k], Here)
             half == \E x \in DOMAIN links : Half(links[x])
             lost == ~ Part(Self(1)) \subseteq known
  <1>1. /\ TypeOK /\ drawn = {} /\ phase' = "null" /\ UNCHANGED <<links, left, known, ports>>
        /\ list' = list /\ tree' = tree /\ round' = round /\ at' = at /\ drawn' = drawn
    BY DEF IInv, Crash, canvas, net
  <1>2. list \subseteq DOMAIN links /\ k \in list
    BY <1>1, LinksShape, FoundIs
  <1>3. half \/ lost
    <2>1. CASE Half(links[k])
      BY <1>2, <2>1
    <2>2. CASE ~ Half(links[k]) /\ e \notin known
      BY <2>2, FoundHere
    <2>3. CASE \E x \in Found(Take(k), e) : Half(links[x])
      <3>1. Take(k) \subseteq DOMAIN links
        BY <1>2 DEF Take
      <3>2. \A x \in Found(Take(k), e) : x \in DOMAIN links
        BY <1>1, <3>1, FoundIs
      <3> QED BY <2>3, <3>2
    <2> QED BY <2>1, <2>2, <2>3 DEF Crash, net
  <1>4. TypeOK'
    BY <1>1 DEF TypeOK, Used, OwnEnds
  <1>5. Preorder' /\ FromPart' /\ Apart' /\ Tally' /\ Whole((DOMAIN links) \ list)'
    BY <1>1, TreeStays DEF IInv
  <1>6. NullByHalfLinks'
    <2>1. half' = half /\ lost' = lost
      BY <1>1 DEF Part, Closed, Self
    <2> QED BY <1>1, <1>3, <2>1 DEF NullByHalfLinks, Self
  <1> QED BY <1>1, <1>4, <1>5, <1>6 DEF IInv, RowPerLeaf, Drawn

\* The tree with one more child of the node the walk is at, and the rounds with it.
LEMMA Grown ==
  ASSUME TypeOK, phase = "walk", NEW d \in Devices, round[at] < ports[Here],
         tree' = Append(tree, [self |-> d, parent |-> at]),
         round' = Append(NextRound, 0)
  PROVE  /\ tree' \in Seq([self : Devices, parent : Nat])
         /\ round' \in Seq(Nat) /\ Len(round') = Len(tree')
         /\ Len(tree') = Len(tree) + 1 /\ DOMAIN tree' = 1..(Len(tree) + 1)
         /\ \A n \in 1..Len(tree) : tree'[n] = tree[n]
         /\ tree'[Len(tree) + 1] = [self |-> d, parent |-> at]
         /\ \A n \in 1..Len(tree) : round'[n] = IF n = at THEN round[n] + 1 ELSE round[n]
         /\ round'[Len(tree) + 1] = 0
  <1> DEFINE N == Len(tree)
             p == at
  <1> HIDE DEF N, p
  <1> DEFINE T == [self : Devices, parent : Nat]
             t == [self |-> d, parent |-> p]
  <1>1. /\ tree \in Seq(T) /\ N \in Nat /\ p \in 1..N /\ t \in T
        /\ round \in Seq(Nat) /\ Len(round) = N
    <2>1. tree \in Seq(T) /\ at \in DOMAIN tree /\ round \in Seq(Nat) /\ Len(round) = N
      BY DEF TypeOK, N
    <2>2. N \in Nat /\ DOMAIN tree = 1..N
      BY Nodes DEF N
    <2> QED BY <2>1, <2>2 DEF p
  <1>2. /\ tree' \in Seq(T) /\ Len(tree') = N + 1 /\ DOMAIN tree' = 1..(N + 1)
        /\ tree'[N + 1] = t /\ \A n \in 1..N : tree'[n] = tree[n]
    <2>1. tree' = Append(tree, t)
      BY DEF p
    <2> HIDE DEF t, T
    <2> QED BY ONLY <1>1, <2>1 DEF N
  <1> DEFINE q == [round EXCEPT ![p] = @ + 1]
  <1>4. /\ q \in Seq(Nat) /\ Len(q) = N
        /\ \A n \in 1..N : q[n] = IF n = p THEN round[n] + 1 ELSE round[n]
    <2>1. round[p] \in Nat
      BY <1>1
    <2>2. round[p] + 1 \in Nat
      BY <2>1
    <2> QED BY <1>1, <2>2
  <1>5. round' = Append(q, 0)
    BY DEF NextRound, p
  <1> HIDE DEF q
  <1>6. /\ round' \in Seq(Nat) /\ Len(round') = N + 1 /\ round'[N + 1] = 0
        /\ \A n \in 1..N : round'[n] = q[n]
    <2>1. q \in Seq(Nat) /\ Len(q) = N /\ N \in Nat /\ round' = Append(q, 0)
      BY <1>1, <1>4, <1>5
    <2> QED BY ONLY <2>1
  <1> QED BY <1>2, <1>4, <1>6 DEF N, p

LEMMA LimitIs ==
  ASSUME TypeOK, FromPart, NEW n \in DOMAIN tree
  PROVE  round[n] \in Nat /\ Limit(n) \in Int
  <1>1. round \in Seq(Nat) /\ Len(round) = Len(tree) /\ DOMAIN tree = 1..Len(tree)
    BY Nodes DEF TypeOK
  <1>2. ports[Self(n)] \in Nat
    BY DEF FromPart, TypeOK
  <1> QED BY <1>1, <1>2 DEF Limit

LEMMA DescendKeeps ==
  ASSUME IInv, phase = "walk", round[at] < ports[Here], NEW k \in Found(list, Here),
         Descend(k, OtherEnd(links[k], Here)),
         NEW N, N = Len(tree), NEW p, p = at, NEW h, h = Here,
         NEW e, e = OtherEnd(links[k], Here)
  PROVE  IInv'
  <1>1. /\ TypeOK /\ Preorder /\ FromPart /\ Apart /\ Tally /\ Whole((DOMAIN links) \ list)
        /\ Waiting /\ Returned /\ Rounds /\ drawn = {}
    BY DEF IInv
  <1>2. /\ ~ Half(links[k]) /\ e \in known /\ ~ Full(at)
        /\ list' = list \ {k} /\ round' = Append(NextRound, 0)
        /\ tree' = Append(tree, [self |-> e, parent |-> at])
        /\ at' = N + 1 /\ UNCHANGED <<links, left, known, ports>> /\ phase' = "walk" /\ drawn' = {}
    BY <1>1 DEF Descend, Take, canvas, net
  <1>3. /\ at \in DOMAIN tree /\ h = Self(p) /\ p \in DOMAIN tree /\ e \in Devices /\ k \in list
        /\ k \in DOMAIN links /\ h \in Devices
        /\ Ends(links[k]) = {h, e} /\ e \in Part(Self(1))
    BY <1>2, FoundHere
  <1>4. /\ N \in Nat /\ DOMAIN tree = 1..N /\ p \in 1..N /\ 1 \in 1..N
        /\ \A n \in 1..N : P(n) \in Nat /\ Self(n) \in Devices
        /\ \A n \in 2..N : P(n) \in 1..(n - 1)
        /\ P(1) = 0
    <2>1. /\ N \in Nat /\ DOMAIN tree = 1..N /\ p \in 1..N
          /\ \A n \in 1..N : P(n) \in Nat /\ Self(n) \in Devices
      BY <1>1, <1>3, Nodes
    <2>2. 1 \in 1..N
      BY <2>1
    <2>3. P(1) = 0 /\ \A n \in 2..N : P(n) \in 1..(n - 1)
      BY <1>1, <2>2, Order
    <2> QED BY <2>1, <2>2, <2>3
  <1>5. /\ tree' \in Seq([self : Devices, parent : Nat])
        /\ round' \in Seq(Nat) /\ Len(round') = Len(tree')
        /\ Len(tree') = N + 1 /\ DOMAIN tree' = 1..(N + 1)
        /\ \A n \in 1..N : P(n)' = P(n) /\ Self(n)' = Self(n)
        /\ P(N + 1)' = p /\ Self(N + 1)' = e
        /\ \A n \in 1..N : round'[n] = IF n = p THEN round[n] + 1 ELSE round[n]
        /\ round'[N + 1] = 0
    <2>1. /\ tree' \in Seq([self : Devices, parent : Nat])
          /\ round' \in Seq(Nat) /\ Len(round') = Len(tree')
          /\ Len(tree') = N + 1 /\ DOMAIN tree' = 1..(N + 1)
          /\ \A n \in 1..N : tree'[n] = tree[n]
          /\ tree'[N + 1] = [self |-> e, parent |-> p]
          /\ \A n \in 1..N : round'[n] = IF n = p THEN round[n] + 1 ELSE round[n]
          /\ round'[N + 1] = 0
      BY <1>1, <1>2, <1>3, Grown
    <2> QED BY <2>1 DEF P, Self
  <1>6. TypeOK'
    <2>1. at' \in DOMAIN tree' /\ list' \subseteq DOMAIN links'
      BY <1>1, <1>2, <1>4, <1>5 DEF TypeOK
    <2> QED BY <1>1, <1>2, <1>5, <2>1 DEF TypeOK, Used, OwnEnds
  <1>7. Preorder'
    <2>1. ASSUME NEW n \in 1..(N + 1)
          PROVE  IF n = 1 THEN P(n)' = 0 ELSE P(n)' \in 1..(n - 1)
      <3>1. n \in 1..N \/ n = N + 1
        BY <1>4
      <3> QED BY <1>4, <1>5, <3>1
    <2>2. ASSUME NEW m \in 1..(N + 1), NEW n \in 1..(N + 1), m < n, P(n)' < m
          PROVE  P(m)' >= P(n)'
      <3>1. m \in 1..N /\ (n \in 1..N \/ n = N + 1)
        BY <1>4, <2>2
      <3>2. CASE n \in 1..N
        <4>1. P(m)' = P(m) /\ P(n)' = P(n)
          BY <1>5, <3>1, <3>2
        <4>2. P(n) < m => P(m) >= P(n)
          BY <1>1, <1>4, <2>2, <3>1, <3>2 DEF Preorder
        <4> QED BY <2>2, <4>1, <4>2
      <3>3. CASE n = N + 1
        <4>1. P(m)' = P(m) /\ P(n)' = p
          BY <1>5, <3>1, <3>3
        <4>2. m > p => P(m) >= p
          BY <1>1, <1>4, <3>1 DEF Waiting
        <4> QED BY <1>4, <2>2, <3>1, <4>1, <4>2
      <3> QED BY <3>1, <3>2, <3>3
    <2> QED BY <1>5, <2>1, <2>2 DEF Preorder
  <1>8. Waiting'
    BY <1>2, <1>5 DEF Waiting
  <1>9. FromPart'
    <2>1. \A r : Part(r)' = Part(r)
      BY <1>2 DEF Part, Closed
    <2>2. Self(1)' = Self(1)
      BY <1>4, <1>5
    <2>3. ASSUME NEW n \in 1..(N + 1)
          PROVE  Self(n)' \in known' /\ Self(n)' \in Part(Self(1))
      <3>1. n \in 1..N \/ n = N + 1
        BY <1>4
      <3>2. CASE n \in 1..N
        <4>1. Self(n)' = Self(n)
          BY <1>5, <3>2
        <4>2. Self(n) \in known /\ Self(n) \in Part(Self(1))
          BY <1>1, <1>4, <3>2 DEF FromPart
        <4> QED BY <1>2, <4>1, <4>2
      <3>3. CASE n = N + 1
        BY <1>2, <1>3, <1>5, <3>3
      <3> QED BY <3>1, <3>2, <3>3
    <2> QED BY <1>5, <2>1, <2>2, <2>3 DEF FromPart
  <1>10. ASSUME Plain, NEW m \in 1..N, ~ OnPath(m) PROVE Clean(m) /\ Whole(list)
    BY <1>1, <1>4, <1>10 DEF Returned
  <1>17. Plain' <=> Plain
    <2>1. tree'[1] = tree[1]
      BY <1>1, <1>2, <1>3, <1>4, Grown
    <2> QED BY <1>2, <2>1, PlainStays
  <1>11. Apart'
    <2> SUFFICES ASSUME Plain
                 PROVE  \A m, n \in DOMAIN tree' : m # n /\ P(m)' = P(n)' => Self(m)' # Self(n)'
      BY <1>17 DEF Apart
    <2>1. ASSUME NEW n \in 1..N, P(n) = p PROVE Self(n) # e
      <3>1. n # 1 /\ n \in 2..N
        BY <1>4, <2>1
      <3>2. p < n
        BY <1>4, <2>1, <3>1
      <3>3. ~ OnPath(n)
        BY <1>4, <3>2 DEF OnPath
      <3>4. Clean(n)
        BY <1>10, <3>3
      <3> QED BY <1>3, <3>4 DEF Clean
    <2>2. ASSUME NEW m \in 1..(N + 1), NEW n \in 1..(N + 1), m # n, P(m)' = P(n)'
          PROVE  Self(m)' # Self(n)'
      <3>1. (m \in 1..N \/ m = N + 1) /\ (n \in 1..N \/ n = N + 1)
        BY <1>4
      <3>2. CASE m \in 1..N /\ n \in 1..N
        <4>1. P(m)' = P(m) /\ P(n)' = P(n) /\ Self(m)' = Self(m) /\ Self(n)' = Self(n)
          BY <1>5, <3>2
        <4>2. P(m) = P(n) => Self(m) # Self(n)
          BY <1>1, <1>4, <2>2, <3>2 DEF Apart
        <4> QED BY <2>2, <4>1, <4>2
      <3>3. CASE m \in 1..N /\ n = N + 1
        BY <1>5, <2>1, <2>2, <3>3
      <3>4. CASE m = N + 1 /\ n \in 1..N
        BY <1>5, <2>1, <2>2, <3>4
      <3> QED BY <2>2, <3>1, <3>2, <3>3, <3>4
    <2> QED BY <1>5, <2>2
  <1>12. /\ \A n : Kids(n) \subseteq Kids(n)' /\ IsFiniteSet(Kids(n)')
         /\ N + 1 \in Kids(p)'
    <2>1. \A n, m : m \in Kids(n)' <=> m \in DOMAIN tree' /\ P(m)' = n
      BY DEF Kids, P
    <2>2. IsFiniteSet(DOMAIN tree')
      BY <1>4, <1>5, FS_Interval
    <2>3. \A n : Kids(n)' \subseteq DOMAIN tree'
      BY <2>1
    <2>4. ASSUME NEW n, NEW m \in Kids(n) PROVE m \in Kids(n)'
      <3>1. m \in 1..N /\ P(m) = n
        BY <1>1, <1>4, Nodes
      <3>2. m \in 1..(N + 1)
        BY <1>4, <3>1
      <3> QED BY <1>5, <2>1, <3>1, <3>2
    <2>5. N + 1 \in 1..(N + 1)
      BY <1>4
    <2> QED BY <1>5, <2>1, <2>2, <2>3, <2>4, <2>5, FS_Subset
  <1>13. Whole((DOMAIN links) \ list)'
    BY <1>1, <1>2 DEF Whole
  <1>18. ASSUME NEW a \in Devices, NEW b \in Devices
         PROVE  \E x \in {0, 1} :
                  /\ Cardinality(Edges(a, b)') = Cardinality(Edges(a, b)) + x
                  /\ Cardinality(Gone(a, b)') = Cardinality(Gone(a, b)) + x
                  /\ Cardinality(Edges(a, b)) \in Nat /\ Cardinality(Gone(a, b)) \in Nat
    <2>2. Edges(a, b)' = IF {e, h} = {a, b} THEN Edges(a, b) \cup {N + 1} ELSE Edges(a, b)
      <3>1. ASSUME NEW n PROVE n \in Edges(a, b)' <=>
                      n \in Edges(a, b) \/ (n = N + 1 /\ {e, h} = {a, b})
        <4>1. n \in Edges(a, b)' <=> n \in 2..(N + 1) /\ {Self(n)', Self(P(n))'} = {a, b}
          BY <1>5 DEF Edges, Self, P
        <4>2. n \in Edges(a, b) <=> n \in 2..N /\ {Self(n), Self(P(n))} = {a, b}
          BY DEF Edges
        <4>3. n \in 2..(N + 1) <=> n \in 2..N \/ n = N + 1
          BY <1>4
        <4>4. CASE n \in 2..N
          <5>1. n \in 1..N /\ P(n) \in 1..N /\ n # N + 1
            BY <1>4, <4>4
          <5>2. PICK q \in 1..N : q = P(n)
            BY <5>1
          <5>3. Self(n)' = Self(n) /\ P(n)' = q /\ Self(q)' = Self(q)
            BY <1>5, <5>1, <5>2
          <5>4. Self(P(n))' = Self(P(n))
            <6>1. Self(P(n))' = tree'[P(n)'].self /\ Self(q)' = tree'[q].self
              BY DEF Self
            <6> QED BY <5>2, <5>3, <6>1
          <5> QED BY <4>1, <4>2, <4>3, <4>4, <5>1, <5>3, <5>4
        <4>5. CASE n = N + 1
          <5>1. Self(n)' = e /\ P(n)' = p /\ n \notin 2..N /\ Self(p)' = h
            BY <1>3, <1>4, <1>5, <4>5
          <5>2. Self(P(n))' = h
            <6>1. Self(P(n))' = tree'[P(n)'].self /\ Self(p)' = tree'[p].self
              BY DEF Self
            <6> QED BY <5>1, <6>1
          <5> QED BY <4>1, <4>2, <4>3, <4>5, <5>1, <5>2
        <4>6. CASE n \notin 2..N /\ n # N + 1
          BY <4>1, <4>2, <4>3, <4>6
        <4> QED BY <4>4, <4>5, <4>6
      <3> QED BY <3>1
    <2>3. Gone(a, b)' = IF {e, h} = {a, b} THEN Gone(a, b) \cup {k} ELSE Gone(a, b)
      <3>1. ASSUME NEW x PROVE x \in Gone(a, b)' <=>
                      x \in Gone(a, b) \/ (x = k /\ {e, h} = {a, b})
        <4>1. {e, h} = Ends(links[k])
          BY <1>3
        <4> QED BY <1>2, <1>3, <4>1 DEF Gone
      <3> QED BY <3>1
    <2>4. IsFiniteSet(Edges(a, b)) /\ N + 1 \notin Edges(a, b)
      <3>1. Edges(a, b) \subseteq 1..N /\ IsFiniteSet(1..N)
        <4>1. IsFiniteSet(1..N)
          BY <1>4, FS_Interval
        <4>2. \A n \in Edges(a, b) : n \in 2..N
          BY DEF Edges
        <4> QED BY <1>4, <4>1, <4>2
      <3>2. N + 1 \notin 1..N
        BY <1>4
      <3> QED BY <3>1, <3>2, FS_Subset
    <2>5. IsFiniteSet(Gone(a, b)) /\ k \notin Gone(a, b)
      <3>1. Gone(a, b) \subseteq DOMAIN links /\ k \notin Gone(a, b)
        BY <1>3 DEF Gone
      <3> QED BY <1>1, <3>1, LinksShape
    <2>6. /\ Cardinality(Edges(a, b) \cup {N + 1}) = Cardinality(Edges(a, b)) + 1
          /\ Cardinality(Gone(a, b) \cup {k}) = Cardinality(Gone(a, b)) + 1
          /\ Cardinality(Edges(a, b)) \in Nat /\ Cardinality(Gone(a, b)) \in Nat
      BY <2>4, <2>5, CardAdd
    <2>7. CASE {e, h} = {a, b}
      BY <2>2, <2>3, <2>6, <2>7
    <2>8. CASE {e, h} # {a, b}
      BY <2>2, <2>3, <2>6, <2>8
    <2> QED BY <2>7, <2>8
  <1>14. Tally'
    <2>0. \A a, b \in Devices : Cardinality(Edges(a, b)') <= Cardinality(Gone(a, b)')
      <3>1. ASSUME NEW a \in Devices, NEW b \in Devices
            PROVE  Cardinality(Edges(a, b)') <= Cardinality(Gone(a, b)')
        <4>1. Cardinality(Edges(a, b)) <= Cardinality(Gone(a, b))
          BY <1>1 DEF Tally
        <4> QED BY <1>18, <4>1
      <3> QED BY <3>1
    <2>1. SUFFICES ASSUME \A n \in DOMAIN tree' : ~ Full(n)'
                   PROVE  /\ \A a, b \in Devices :
                               Cardinality(Edges(a, b)') = Cardinality(Gone(a, b)')
                          /\ \A x \in (DOMAIN links') \ list' : \A d \in Ends(links'[x]) :
                               \E n \in DOMAIN tree' : Self(n)' = d
      BY <2>0 DEF Tally
    <2>2. ASSUME NEW n \in DOMAIN tree PROVE ~ Full(n)
      <3>1. n \in DOMAIN tree'
        BY <1>4, <1>5
      <3>2. ~ (Cardinality(Kids(n)') >= MaxChildren)
        BY <2>1, <3>1 DEF Full
      <3>3. /\ Cardinality(Kids(n)) <= Cardinality(Kids(n)')
            /\ Cardinality(Kids(n)) \in Nat /\ Cardinality(Kids(n)') \in Nat
        BY <1>12, CardSub
      <3>4. ~ (Cardinality(Kids(n)) >= MaxChildren)
        BY <3>2, <3>3, TreeAssumption
      <3> QED BY <3>4 DEF Full
    <2>3. ASSUME NEW a \in Devices, NEW b \in Devices
          PROVE  Cardinality(Edges(a, b)') = Cardinality(Gone(a, b)')
      <3>1. Cardinality(Edges(a, b)) = Cardinality(Gone(a, b))
        BY <1>1, <2>2, <2>3 DEF Tally
      <3> QED BY <1>18, <3>1
    <2>4. ASSUME NEW x \in (DOMAIN links') \ list', NEW d \in Ends(links'[x])
          PROVE  \E n \in DOMAIN tree' : Self(n)' = d
      <3>1. CASE x = k
        <4>1. d = h \/ d = e
          BY <1>2, <1>3, <2>4, <3>1
        <4>2. /\ p \in DOMAIN tree' /\ Self(p)' = h
              /\ N + 1 \in DOMAIN tree' /\ Self(N + 1)' = e
          BY <1>3, <1>4, <1>5
        <4> QED BY <4>1, <4>2
      <3>2. CASE x # k
        <4>1. x \in (DOMAIN links) \ list /\ d \in Ends(links[x])
          BY <1>2, <2>4, <3>2
        <4>2. PICK n \in DOMAIN tree : Self(n) = d
          BY <1>1, <2>2, <4>1 DEF Tally
        <4>3. n \in DOMAIN tree' /\ Self(n)' = d
          BY <1>4, <1>5, <4>2
        <4> QED BY <4>3
      <3> QED BY <3>1, <3>2
    <2> QED BY <2>3, <2>4
  <1>15. Returned'
    <2>1. ASSUME NEW m \in 1..N, OnPath(m) PROVE OnPath(m)'
      <3>1. m <= p /\ \A x \in (m + 1)..p : P(x) >= m
        BY <2>1 DEF OnPath
      <3>2. ASSUME NEW x \in (m + 1)..(N + 1) PROVE P(x)' >= m
        <4>1. x \in (m + 1)..p \/ (x \in 1..N /\ x > p) \/ x = N + 1
          <5>1. x \in Int /\ m + 1 <= x /\ x <= N + 1 /\ m \in Int /\ 1 <= m
            BY <1>4
          <5>2. N \in Nat /\ p \in Int
            BY <1>4
          <5> QED BY <5>1, <5>2
        <4>2. CASE x \in (m + 1)..p
          <5>1. x \in 1..N
            BY <1>4, <4>2
          <5> QED BY <1>5, <3>1, <4>2, <5>1
        <4>3. CASE x \in 1..N /\ x > p
          <5>1. P(x) >= p /\ P(x) \in Nat /\ P(x)' = P(x)
            BY <1>1, <1>4, <1>5, <4>3 DEF Waiting
          <5> QED BY <1>4, <3>1, <5>1
        <4>4. CASE x = N + 1
          BY <1>4, <1>5, <3>1, <4>4
        <4> QED BY <4>1, <4>2, <4>3, <4>4
      <3>3. m <= N + 1
        BY <1>4
      <3> QED BY <1>2, <3>2, <3>3 DEF OnPath
    <2>2. OnPath(N + 1)'
      BY <1>2, <1>4 DEF OnPath
    <2>3. ASSUME Plain, NEW m \in 1..(N + 1), ~ OnPath(m)' PROVE Clean(m)' /\ Whole(list)'
      <3>1. m \in 1..N /\ ~ OnPath(m)
        BY <1>4, <2>1, <2>2, <2>3
      <3>2. Clean(m) /\ Whole(list) /\ Self(m)' = Self(m)
        BY <1>5, <1>10, <2>3, <3>1
      <3> QED BY <1>2, <3>2 DEF Clean, Whole
    <2> QED BY <1>5, <1>17, <2>3 DEF Returned
  <1>16. Rounds'
    <2> SUFFICES ASSUME Plain
                 PROVE  \A n \in DOMAIN tree' :
                          /\ Used(list, Self(n))' + round'[n] <= Limit(n)'
                          /\ round'[n] > 0 => Kids(n)' # {}
      BY <1>17 DEF Rounds
    <2>1. /\ list \subseteq DOMAIN links /\ list' \subseteq list /\ list' \subseteq DOMAIN links
          /\ k \in list \ list'
      BY <1>1, <1>2, <1>3, LinksShape
    <2>2. \A d : Used(list, d)' = Used(list', d)
      BY <1>2 DEF Used, OwnEnds
    <2>3. ASSUME NEW d
          PROVE  /\ Used(list', d) \in Nat /\ Used(list, d) \in Nat
                 /\ Used(list', d) <= Used(list, d)
                 /\ d \in {h, e} => Used(list', d) < Used(list, d)
      <3>1. d \in {h, e} => d \in known /\ d \in Part(Self(1)) /\ d \in Ends(links[k])
        BY <1>1, <1>2, <1>3 DEF FromPart
      <3>2. d \in {h, e} => Own(k, d)
        BY <1>1, <1>3, <3>1, PlainEnds
      <3> QED BY <1>1, <1>3, <2>1, <3>2, UsedLess
    <2>4. ASSUME NEW n \in 1..N
          PROVE  /\ Used(list', Self(n)) + round'[n] <= Limit(n)
                 /\ round'[n] > 0 => Kids(n)' # {}
      <3>1. /\ Used(list, Self(n)) + round[n] <= Limit(n)
            /\ round[n] > 0 => Kids(n) # {}
        BY <1>1, <1>4 DEF Rounds
      <3>2. round[n] \in Nat /\ Limit(n) \in Int
        BY <1>1, <1>4, LimitIs
      <3>3. CASE n = p
        <4>1. Used(list', Self(n)) < Used(list, Self(n)) /\ round'[n] = round[n] + 1
          BY <1>3, <1>5, <2>3, <3>3
        <4>2. Kids(n)' # {}
          BY <1>12, <3>3
        <4>3. Used(list', Self(n)) \in Nat /\ Used(list, Self(n)) \in Nat
          BY <2>3
        <4>4. Used(list', Self(n)) + round'[n] <= Limit(n)
          BY <3>1, <3>2, <4>1, <4>3
        <4> QED BY <4>2, <4>4
      <3>4. CASE n # p
        <4>1. Used(list', Self(n)) <= Used(list, Self(n)) /\ round'[n] = round[n]
          BY <1>5, <2>3, <3>4
        <4>2. Used(list', Self(n)) \in Nat /\ Used(list, Self(n)) \in Nat
          BY <2>3
        <4>3. Used(list', Self(n)) + round'[n] <= Limit(n)
          BY <3>1, <3>2, <4>1, <4>2
        <4>4. Kids(n) # {} => Kids(n)' # {}
          BY <1>12
        <4> QED BY <3>1, <4>1, <4>3, <4>4
      <3> QED BY <3>3, <3>4
    <2>5. Used(list', e) + 0 <= ports[e] - 1
      <3>1. /\ DOMAIN links \subseteq DOMAIN links /\ list' \subseteq DOMAIN links
            /\ k \in (DOMAIN links) \ list'
        BY <1>3, <2>1
      <3>2. Used(list', e) < Used(DOMAIN links, e) /\ Used(list', e) \in Nat
            /\ Used(DOMAIN links, e) \in Nat
        <4>1. Own(k, e)
          BY <1>1, <1>2, <1>3, PlainEnds
        <4> QED BY <1>1, <1>3, <3>1, <4>1, UsedLess
      <3>3. Used(DOMAIN links, e) <= ports[e] /\ ports[e] \in Nat
        BY <1>1, <1>2 DEF TypeOK
      <3> QED BY <3>2, <3>3
    <2>6. ASSUME NEW n \in 1..(N + 1)
          PROVE  /\ Used(list, Self(n))' + round'[n] <= Limit(n)'
                 /\ round'[n] > 0 => Kids(n)' # {}
      <3>1. n \in 1..N \/ (n = N + 1 /\ n # 1)
        BY <1>4
      <3>2. Used(list, Self(n))' = Used(list', Self(n)')
        BY <1>2 DEF Used, OwnEnds
      <3>3. CASE n \in 1..N
        <4>1. Limit(n)' = Limit(n)
          BY <1>2, <1>5, <3>3 DEF Limit
        <4> QED BY <1>5, <2>4, <3>2, <3>3, <4>1
      <3>4. CASE n = N + 1 /\ n # 1
        <4>1. Limit(n)' = ports[e] - 1
          BY <1>2, <1>5, <3>4 DEF Limit
        <4> QED BY <1>5, <2>5, <3>2, <3>4, <4>1
      <3> QED BY <3>1, <3>3, <3>4
    <2> QED BY <1>5, <2>6
  <1> QED BY <1>2, <1>6, <1>7, <1>8, <1>9, <1>11, <1>13, <1>14, <1>15, <1>16, WalkIs

LEMMA RefuseKeeps ==
  ASSUME IInv, phase = "walk", round[at] < ports[Here], NEW k \in Found(list, Here),
         Refuse(k, OtherEnd(links[k], Here)),
         NEW p, p = at, NEW h, h = Here, NEW e, e = OtherEnd(links[k], Here)
  PROVE  IInv'
  <1> DEFINE F == Found(list \ {k}, e)
  <1>1. /\ TypeOK /\ Preorder /\ FromPart /\ Apart /\ Whole((DOMAIN links) \ list)
        /\ Tally /\ Waiting /\ Returned /\ Rounds /\ drawn = {}
    BY DEF IInv
  <1>2. /\ ~ Half(links[k]) /\ Full(p) /\ \A x \in F : ~ Half(links[x])
        /\ list' = (list \ {k}) \ F /\ round' = [round EXCEPT ![p] = @ + 1]
        /\ tree' = tree /\ at' = p /\ UNCHANGED <<links, left, known, ports>>
        /\ phase' = "walk" /\ drawn' = {}
    BY <1>1 DEF Refuse, Take, NextRound, canvas, net
  <1> HIDE DEF F
  <1>3. /\ p \in DOMAIN tree /\ h = Self(p) /\ k \in list /\ h \in Ends(links[k])
    BY <1>2, FoundHere
  <1>4. /\ list \subseteq DOMAIN links /\ list' \subseteq list /\ k \in list \ list'
    BY <1>1, <1>2, <1>3, LinksShape
  <1>5. /\ \A n : P(n)' = P(n) /\ Self(n)' = Self(n) /\ Kids(n)' = Kids(n)
        /\ \A r : Part(r)' = Part(r)
    BY <1>2 DEF P, Self, Kids, Part, Closed
  <1>6. /\ DOMAIN tree = 1..Len(tree) /\ Len(tree) \in Nat /\ IsFiniteSet(Kids(p))
        /\ DOMAIN tree' = 1..Len(tree)
    BY <1>1, <1>2, Nodes
  <1>7. TypeOK'
    <2>1. round \in Seq(Nat) /\ Len(round) = Len(tree) /\ p \in 1..Len(tree)
      BY <1>1, <1>3, <1>6 DEF TypeOK
    <2>2. round[p] + 1 \in Nat
      BY <1>6, <2>1
    <2>5. round' \in Seq(Nat) /\ Len(round') = Len(tree')
      BY <1>2, <2>1, <2>2
    <2> QED BY <1>1, <1>2, <1>3, <1>4, <2>5 DEF TypeOK, Used, OwnEnds
  <1>13. Plain' <=> Plain
    BY <1>2, PlainStays
  <1>8. Preorder' /\ Apart' /\ FromPart' /\ Waiting'
    BY <1>1, <1>2, <1>5, <1>13 DEF Preorder, Apart, FromPart, Waiting
  <1>9. Whole((DOMAIN links) \ list)'
    <2>1. ASSUME NEW x \in DOMAIN links, x \notin list' PROVE ~ Half(links[x])
      <3>1. x \in (DOMAIN links) \ list \/ x = k \/ x \in F
        BY <1>2, <2>1
      <3> QED BY <1>1, <1>2, <3>1 DEF Whole
    <2> QED BY <1>2, <2>1 DEF Whole
  <1>10. Tally'
    <2>1. Full(p)'
      BY <1>2, <1>5 DEF Full
    <2>2. ASSUME NEW a \in Devices, NEW b \in Devices
          PROVE  Cardinality(Edges(a, b)') <= Cardinality(Gone(a, b)')
      <3>1. Edges(a, b)' = Edges(a, b)
        BY <1>2, <1>5 DEF Edges
      <3>2. Gone(a, b) \subseteq Gone(a, b)'
        BY <1>2, <1>4 DEF Gone
      <3>3. IsFiniteSet(Gone(a, b)')
        <4>1. Gone(a, b)' \subseteq DOMAIN links
          BY <1>2 DEF Gone
        <4> QED BY <1>1, <4>1, LinksShape
      <3>4. IsFiniteSet(Edges(a, b))
        <4>1. Edges(a, b) \subseteq DOMAIN tree
          BY <1>6 DEF Edges
        <4> QED BY <1>1, <4>1, Nodes, FS_Subset
      <3>5. Cardinality(Edges(a, b)) \in Nat
        BY <3>4, FS_CardinalityType
      <3>6. Cardinality(Edges(a, b)) <= Cardinality(Gone(a, b))
        BY <1>1 DEF Tally
      <3>7. PICK G : G = Gone(a, b)'
        OBVIOUS
      <3>8. /\ Cardinality(Gone(a, b)) <= Cardinality(G)
            /\ Cardinality(Gone(a, b)) \in Nat /\ Cardinality(G) \in Nat
        BY <3>2, <3>3, <3>7, CardSub
      <3> QED BY <3>1, <3>5, <3>6, <3>7, <3>8
    <2> QED BY <1>2, <1>3, <2>1, <2>2 DEF Tally
  <1>11. Returned'
    <2>1. ASSUME Plain, NEW m \in DOMAIN tree, ~ OnPath(m)' PROVE Clean(m)' /\ Whole(list)'
      <3>1. ~ OnPath(m)
        BY <1>2, <1>5, <2>1 DEF OnPath
      <3>2. Clean(m) /\ Whole(list)
        BY <1>1, <2>1, <3>1 DEF Returned
      <3> QED BY <1>2, <1>4, <1>5, <3>2 DEF Clean, Whole
    <2> QED BY <1>2, <1>13, <2>1 DEF Returned
  <1>12. Rounds'
    <2> SUFFICES ASSUME Plain
                 PROVE  \A n \in DOMAIN tree' :
                          /\ Used(list, Self(n))' + round'[n] <= Limit(n)'
                          /\ round'[n] > 0 => Kids(n)' # {}
      BY <1>13 DEF Rounds
    <2>1. \A d : Used(list, d)' = Used(list', d)
      BY <1>2 DEF Used, OwnEnds
    <2>2. ASSUME NEW d
          PROVE  /\ Used(list', d) \in Nat /\ Used(list, d) \in Nat
                 /\ Used(list', d) <= Used(list, d)
                 /\ d = h => Used(list', d) < Used(list, d)
      <3>1. Own(k, h)
        <4>1. h \in known /\ h \in Part(Self(1)) /\ k \in DOMAIN links
          BY <1>1, <1>3, <1>4 DEF FromPart
        <4> QED BY <1>1, <1>3, <4>1, PlainEnds
      <3> QED BY <1>1, <1>3, <1>4, <3>1, UsedLess
    <2>3. ASSUME NEW n \in DOMAIN tree
          PROVE  /\ Used(list', Self(n)) + round'[n] <= Limit(n)
                 /\ round'[n] > 0 => Kids(n) # {}
      <3>1. /\ Used(list, Self(n)) + round[n] <= Limit(n)
            /\ round[n] > 0 => Kids(n) # {}
        BY <1>1 DEF Rounds
      <3>2. round[n] \in Nat /\ Limit(n) \in Int /\ n \in DOMAIN round
        <4>1. round \in Seq(Nat) /\ Len(round) = Len(tree)
          BY <1>1 DEF TypeOK
        <4> QED BY <1>1, <1>6, <4>1, LimitIs
      <3>3. Used(list', Self(n)) \in Nat /\ Used(list, Self(n)) \in Nat
        BY <2>2
      <3>4. CASE n = p
        <4>1. Used(list', Self(n)) < Used(list, Self(n)) /\ round'[n] = round[n] + 1
          BY <1>2, <1>3, <2>2, <3>2, <3>4
        <4>2. Kids(n) # {}
          <5>1. Cardinality(Kids(p)) >= MaxChildren
            BY <1>2 DEF Full
          <5> QED BY <1>6, <3>4, <5>1, CardNone, TreeAssumption
        <4>3. Used(list', Self(n)) + round'[n] <= Limit(n)
          BY <3>1, <3>2, <3>3, <4>1
        <4> QED BY <4>2, <4>3
      <3>5. CASE n # p
        <4>1. Used(list', Self(n)) <= Used(list, Self(n)) /\ round'[n] = round[n]
          BY <1>2, <2>2, <3>2, <3>5
        <4>2. Used(list', Self(n)) + round'[n] <= Limit(n)
          BY <3>1, <3>2, <3>3, <4>1
        <4> QED BY <3>1, <4>1, <4>2
      <3> QED BY <3>4, <3>5
    <2>4. ASSUME NEW n \in DOMAIN tree
          PROVE  /\ Used(list, Self(n))' + round'[n] <= Limit(n)'
                 /\ round'[n] > 0 => Kids(n)' # {}
      <3>1. Used(list, Self(n))' = Used(list', Self(n)')
        BY <1>2 DEF Used, OwnEnds
      <3>2. Limit(n)' = Limit(n)
        BY <1>2, <1>5 DEF Limit
      <3> QED BY <1>5, <2>3, <3>1, <3>2
    <2> QED BY <1>2, <2>4
  <1> QED BY <1>2, <1>7, <1>8, <1>9, <1>10, <1>11, <1>12, WalkIs

\* When a call returns, no link is left at its device and none that hangs.
LEMMA Done ==
  ASSUME IInv, Ended
  PROVE  TypeOK /\ at \in DOMAIN tree /\ (Plain => Clean(at) /\ Whole(list))
  <1>1. /\ TypeOK /\ Preorder /\ Returned /\ Rounds /\ FromPart /\ phase = "walk"
        /\ at \in DOMAIN tree /\ list \subseteq DOMAIN links /\ Here = Self(at)
    BY DEF IInv, TypeOK, Ended, Here, Self
  <1>2. SUFFICES ASSUME Plain PROVE Clean(at) /\ Whole(list)
    BY <1>1
  <1>3. \A k \in list : Self(at) \in Ends(links[k]) => Own(k, Self(at)) /\ Shown(k, Self(at))
    BY <1>1, <1>2, PlainEnds DEF FromPart
  <1>4. /\ Used(list, Self(at)) + round[at] <= Limit(at)
        /\ round[at] > 0 => Kids(at) # {}
    BY <1>1, <1>2 DEF Rounds
  <1>5. Used(list, Self(at)) \in Nat /\ (Used(list, Self(at)) = 0 => Clean(at))
    BY <1>1, <1>3, UsedLess DEF Clean
  <1>6. CASE Found(list, Here) = {}
    BY <1>1, <1>3, <1>6, FoundIs DEF Clean, Whole
  <1>7. CASE round[at] >= ports[Here]
    <2>1. ports[Self(at)] \in Nat \ {0} /\ round[at] \in Nat
      BY <1>1, LimitIs DEF FromPart, TypeOK
    <2>2. at = 1 /\ Used(list, Self(at)) = 0 /\ round[at] > 0
      <3>1. Limit(at) = IF at = 1 THEN ports[Self(at)] ELSE ports[Self(at)] - 1
        BY DEF Limit
      <3> QED BY <1>1, <1>4, <1>5, <1>7, <2>1, <3>1
    <2>3. PICK c \in Kids(at) : TRUE
      BY <1>4, <2>2
    <2>4. c \in DOMAIN tree /\ at < c /\ at \in Nat /\ c \in Nat
      BY <1>1, <2>3, FirstKid, Nodes
    <2>5. ~ OnPath(c)
      BY <2>4 DEF OnPath
    <2>6. Whole(list)
      BY <1>1, <1>2, <2>4, <2>5 DEF Returned
    <2> QED BY <1>5, <2>2, <2>6
  <1> QED BY <1>6, <1>7 DEF Ended

LEMMA AscendKeeps ==
  ASSUME IInv, Ascend, NEW o, o = at, NEW p, p = P(at)
  PROVE  IInv'
  <1>1. /\ TypeOK /\ Preorder /\ FromPart /\ Apart /\ Tally /\ Whole((DOMAIN links) \ list)
        /\ Waiting /\ Returned /\ Rounds /\ drawn = {} /\ phase = "walk" /\ Ended
    BY DEF IInv, Ascend, Ended, net
  <1>2. /\ o # 1 /\ at' = p /\ UNCHANGED <<links, left, known, ports>> /\ phase' = "walk"
        /\ list' = list /\ tree' = tree /\ round' = round /\ drawn' = {}
    BY <1>1 DEF Ascend, canvas, P, net
  <1>3. o \in DOMAIN tree /\ (Plain => Clean(o) /\ Whole(list))
    BY <1>1, Done
  <1>11. Plain' <=> Plain
    BY <1>2, PlainStays
  <1>4. /\ Len(tree) \in Nat /\ DOMAIN tree = 1..Len(tree) /\ p \in 1..(o - 1)
        /\ o \in 2..Len(tree) /\ p \in DOMAIN tree
        /\ \A x \in 1..Len(tree) : P(x) \in Nat
        /\ \A x \in (p + 1)..o : P(x) >= p
    <2>1. Len(tree) \in Nat /\ DOMAIN tree = 1..Len(tree) /\ \A x \in 1..Len(tree) : P(x) \in Nat
      BY <1>1, Nodes
    <2>2. o \in 2..Len(tree) /\ p = P(o)
      BY <1>2, <1>3, <2>1
    <2>3. p \in 1..(o - 1) /\ \A x \in (p + 1)..o : P(x) >= p
      BY <1>1, <2>2, Order
    <2> QED BY <2>1, <2>2, <2>3
  <1>5. TypeOK'
    BY <1>1, <1>2, <1>4 DEF TypeOK, Used, OwnEnds
  <1>6. Preorder' /\ FromPart' /\ Apart' /\ Tally' /\ Whole((DOMAIN links) \ list)'
    BY <1>1, <1>2, TreeStays
  <1>7. \A n : P(n)' = P(n) /\ Self(n)' = Self(n)
    BY <1>2 DEF P, Self
  <1>8. Waiting'
    <2>1. ASSUME NEW m \in DOMAIN tree, m > p PROVE P(m) >= p
      <3>1. CASE m > o
        <4>1. P(m) >= o /\ P(m) \in Nat
          BY <1>1, <1>4, <3>1 DEF Waiting
        <4> QED BY <1>4, <4>1
      <3>2. CASE m <= o
        BY <1>4, <2>1, <3>2
      <3> QED BY <1>4, <3>1, <3>2
    <2> QED BY <1>2, <1>7, <2>1 DEF Waiting
  <1>9. Returned'
    <2>1. ASSUME NEW m \in DOMAIN tree, OnPath(m), m # o PROVE OnPath(m)'
      <3>1. m <= o /\ \A x \in (m + 1)..o : P(x) >= m
        BY <2>1 DEF OnPath
      <3>2. m <= p
        <4>1. o \in (m + 1)..o
          BY <1>4, <2>1, <3>1
        <4> QED BY <3>1, <4>1
      <3>3. \A x \in (m + 1)..p : P(x) >= m
        BY <1>4, <3>1
      <3> QED BY <1>2, <1>7, <3>2, <3>3 DEF OnPath
    <2>2. ASSUME Plain, NEW m \in DOMAIN tree, ~ OnPath(m)' PROVE Clean(m)' /\ Whole(list)'
      <3>1. Clean(m)
        BY <1>1, <1>3, <2>1, <2>2 DEF Returned
      <3> QED BY <1>2, <1>3, <1>7, <2>2, <3>1 DEF Clean, Whole
    <2> QED BY <1>2, <1>11, <2>2 DEF Returned
  <1>10. Rounds'
    <2>1. \A n : Kids(n)' = Kids(n) /\ Used(list, Self(n))' = Used(list, Self(n))
      BY <1>2 DEF Kids, Used, Self, OwnEnds
    <2>2. \A n : Limit(n)' = Limit(n)
      BY <1>2, <1>7 DEF Limit
    <2> QED BY <1>1, <1>2, <1>11, <2>1, <2>2 DEF Rounds
  <1> QED BY <1>2, <1>5, <1>6, <1>8, <1>9, <1>10, WalkIs

-----------------------------------------------------------------------------
(* What is known when the walk is done                                         *)

\* The walk has seen every link of the part, unless a full node refused some.
LEMMA WholeTree ==
  ASSUME TypeOK, Plain, FromPart, Tally, Whole((DOMAIN links) \ list), Walked, tree # << >>
  PROVE  /\ \A k \in DOMAIN links : ~ Half(links[k])
         /\ (\A n \in DOMAIN tree : ~ Full(n)) =>
              /\ {Self(n) : n \in DOMAIN tree} = Part(Self(1))
              /\ Part(Self(1)) \subseteq known
  <1>1. \A k \in DOMAIN links : ~ Half(links[k])
    BY DEF Walked, Whole
  <1>2. SUFFICES ASSUME \A n \in DOMAIN tree : ~ Full(n)
                 PROVE  /\ {Self(n) : n \in DOMAIN tree} = Part(Self(1))
                        /\ Part(Self(1)) \subseteq known
    BY <1>1
  <1> DEFINE S == {Self(n) : n \in DOMAIN tree}
  <1>3. /\ 1 \in DOMAIN tree /\ \A n \in DOMAIN tree : Self(n) \in Devices
        /\ Self(1) \in Devices
    <2>1. /\ Len(tree) \in Nat /\ DOMAIN tree = 1..Len(tree)
          /\ \A n \in DOMAIN tree : Self(n) \in Devices
      BY Nodes
    <2>2. Len(tree) # 0
      BY DEF TypeOK
    <2> QED BY <2>1, <2>2
  <1>4. S \in SUBSET (Devices \cup {Nil}) /\ Self(1) \in S
    BY <1>3
  <1>5. Closed(S)
    <2>1. ASSUME NEW k \in DOMAIN links, NEW d \in S \cap known \cap Ends(links[k])
          PROVE  OtherEnd(links[k], d) \in S
      <3>1. PICK n \in DOMAIN tree : d = Self(n)
        BY <2>1
      <3>2. k \in (DOMAIN links) \ list
        BY <2>1, <3>1 DEF Walked, Clean
      <3>3. OtherEnd(links[k], d) \in Ends(links[k])
        BY DEF OtherEnd, Ends
      <3>4. PICK m \in DOMAIN tree : Self(m) = OtherEnd(links[k], d)
        BY <1>2, <3>2, <3>3 DEF Tally
      <3> QED BY <3>4
    <2> QED BY <2>1 DEF Closed
  <1>6. Part(Self(1)) \subseteq S
    BY <1>3, <1>4, <1>5, PartOf
  <1>7. S \subseteq Part(Self(1)) /\ S \subseteq known
    BY DEF FromPart
  <1> QED BY <1>6, <1>7

LEMMA DoneIs ==
  ASSUME TypeOK, FromPart, Tally, Whole((DOMAIN links) \ list), Walked, tree # << >>,
         phase' \in {"drawn", "wild"}, UNCHANGED <<links, left, known, ports>>, tree' = tree
  PROVE  NullByHalfLinks'
  <1>1. Plain => /\ \A k \in DOMAIN links : ~ Half(links[k])
                 /\ Part(Self(1)) \subseteq known \/ \E n \in DOMAIN tree : Full(n)
    BY WholeTree
  <1>2. \A n : Full(n)' = Full(n)
    BY DEF Full, Kids
  <1>3. Part(Self(1))' = Part(Self(1)) /\ (Plain' <=> Plain)
    BY PlainStays DEF Part, Closed, Self
  <1>4. Plain' => \A k \in DOMAIN links' : ~ Half(links'[k])
    BY <1>1, <1>3
  <1>5. Plain' => Part(Self(1))' \subseteq known' \/ \E n \in DOMAIN tree' : Full(n)'
    BY <1>1, <1>2, <1>3
  <1> QED BY <1>4, <1>5 DEF NullByHalfLinks, Self, Plain

LEMMA ExactHolds == IInv => TreeExact
  <1> SUFFICES ASSUME IInv, phase = "drawn" PROVE TreeExact
    BY DEF TreeExact, Drawn
  <1>1. /\ TypeOK /\ FromPart /\ Tally /\ Whole((DOMAIN links) \ list) /\ Walked /\ Picture
        /\ tree # << >> /\ \A n \in DOMAIN tree : ~ Full(n)
    <2>1. DOMAIN tree # {}
      BY PictureShape
    <2>2. tree # << >>
      BY <2>1
    <2> QED BY <2>2 DEF IInv, Picture
  <1> DEFINE part == Part(Self(1))
             J(a, b) == {k \in DOMAIN links : Ends(links[k]) = {a, b} /\ a \in part}
  <1>2. {Self(n) : n \in DOMAIN tree} \subseteq part
    BY <1>1 DEF FromPart
  <1>3. ASSUME NEW a \in Devices, NEW b \in Devices
        PROVE  Cardinality(Edges(a, b)) <= Cardinality(J(a, b))
    <2>1. /\ IsFiniteSet(J(a, b)) /\ IsFiniteSet(Gone(a, b))
      <3>1. J(a, b) \subseteq DOMAIN links /\ Gone(a, b) \subseteq DOMAIN links
        BY DEF Gone
      <3> QED BY <1>1, <3>1, LinksShape
    <2>2. CASE a \in part
      <3>1. Gone(a, b) \subseteq J(a, b)
        BY <2>2 DEF Gone
      <3>2. Cardinality(Edges(a, b)) <= Cardinality(Gone(a, b))
        BY <1>1 DEF Tally
      <3>3. Edges(a, b) \subseteq DOMAIN tree /\ IsFiniteSet(DOMAIN tree)
        <4>1. Len(tree) \in Nat /\ DOMAIN tree = 1..Len(tree) /\ IsFiniteSet(DOMAIN tree)
          BY <1>1, Nodes
        <4> QED BY <4>1 DEF Edges
      <3>4. Cardinality(Edges(a, b)) \in Nat
        BY <3>3, FS_Subset, FS_CardinalityType
      <3> HIDE DEF J
      <3>5. /\ Cardinality(Gone(a, b)) <= Cardinality(J(a, b))
            /\ Cardinality(Gone(a, b)) \in Nat /\ Cardinality(J(a, b)) \in Nat
        BY <2>1, <3>1, CardSub
      <3> QED BY <3>2, <3>4, <3>5
    <2>3. CASE a \notin part
      <3>1. ASSUME NEW n \in Edges(a, b) PROVE FALSE
        <4>1. n \in 2..Len(tree) /\ a \in {Self(n), Self(P(n))}
          BY DEF Edges
        <4>2. n \in DOMAIN tree /\ P(n) \in DOMAIN tree
          <5>1. Len(tree) \in Nat /\ DOMAIN tree = 1..Len(tree) /\ P(n) \in 1..(n - 1)
            BY <1>1, <4>1, Nodes, Order DEF IInv
          <5> QED BY <4>1, <5>1
        <4> QED BY <1>2, <2>3, <4>1, <4>2
      <3>2. Cardinality(Edges(a, b)) = 0
        BY <3>1, FS_EmptySet
      <3>3. Cardinality(J(a, b)) \in Nat
        BY <2>1, FS_CardinalityType
      <3> QED BY <3>2, <3>3
    <2> QED BY <2>2, <2>3
  <1>4. ASSUME Plain
        PROVE  /\ {Self(n) : n \in DOMAIN tree} = part
               /\ \A a, b \in Devices : Cardinality(Edges(a, b)) = Cardinality(J(a, b))
    <2>1. {Self(n) : n \in DOMAIN tree} = part
      BY <1>1, <1>4, WholeTree
    <2>2. ASSUME NEW a \in Devices, NEW b \in Devices,
                 NEW k \in DOMAIN links, Ends(links[k]) = {a, b}
          PROVE  k \notin list <=> a \in part
      <3>1. ASSUME k \notin list PROVE a \in part
        <4>1. PICK n \in DOMAIN tree : Self(n) = a
          BY <1>1, <2>2, <3>1 DEF Tally
        <4> QED BY <1>2, <4>1
      <3>2. ASSUME a \in part PROVE k \notin list
        <4>1. PICK n \in DOMAIN tree : Self(n) = a
          BY <2>1, <3>2
        <4> QED BY <1>1, <1>4, <2>2, <4>1 DEF Walked, Clean
      <3> QED BY <3>1, <3>2
    <2>3. ASSUME NEW a \in Devices, NEW b \in Devices
          PROVE  Cardinality(Edges(a, b)) = Cardinality(J(a, b))
      <3>1. Gone(a, b) = J(a, b)
        BY <2>2 DEF Gone
      <3>2. Cardinality(Edges(a, b)) = Cardinality(Gone(a, b))
        BY <1>1 DEF Tally
      <3> QED BY <3>1, <3>2
    <2> QED BY <2>1, <2>3
  <1> QED BY <1>2, <1>3, <1>4 DEF TreeExact, Edges, Self, P, Plain

-----------------------------------------------------------------------------
(* The layout                                                                  *)

\* The walk is over, and the tree stays as it is.
LEMMA Settled ==
  ASSUME IInv, phase \in {"sketch", "drawn", "wild"},
         links' = links, left' = left, known' = known, ports' = ports, list' = list, tree' = tree
  PROVE  /\ TypeOK /\ Preorder /\ FromPart /\ Apart /\ Tally /\ Whole((DOMAIN links) \ list)
         /\ Walked
         /\ Preorder' /\ FromPart' /\ Apart' /\ Tally' /\ Whole((DOMAIN links) \ list)' /\ Walked'
  <1>1. /\ TypeOK /\ Preorder /\ FromPart /\ Apart /\ Tally /\ Whole((DOMAIN links) \ list)
        /\ Walked
    BY DEF IInv
  <1>2. Walked'
    <2>1. Plain' <=> Plain
      BY PlainStays
    <2> QED BY <1>1, <2>1 DEF Walked, Whole, Clean, Self
  <1> QED BY <1>1, <1>2, TreeStays

LEMMA SketchIs ==
  ASSUME TypeOK', phase' = "sketch", Preorder', FromPart', Apart', Tally',
         Whole((DOMAIN links) \ list)', Walked', \E k \in DOMAIN tree' : LaidTo(k)'
  PROVE  IInv'
  BY DEF IInv, NullByHalfLinks, RowPerLeaf, Drawn

LEMMA SketchKeeps ==
  ASSUME IInv, Sketch
  PROVE  IInv'
  <1>1. /\ TypeOK /\ Preorder /\ FromPart /\ Apart /\ Tally /\ Whole((DOMAIN links) \ list)
        /\ Returned /\ phase = "walk" /\ Ended /\ at = 1
    BY DEF IInv, Sketch, Ended, net
  <1>2. /\ phase' = "sketch" /\ drawn' = {1} /\ UNCHANGED <<links, left, known, ports>>
        /\ list' = list /\ tree' = tree /\ round' = round /\ at' = 1
        /\ row' = [n \in DOMAIN tree |-> 0] /\ level' = [n \in DOMAIN tree |-> 0]
        /\ rows' = [n \in DOMAIN tree |-> 0]
    BY <1>1 DEF Sketch, net
  <1>3. 1 \in DOMAIN tree /\ (Plain => Clean(1) /\ Whole(list))
    BY <1>1, Done
  <1>4. Len(tree) \in Nat /\ DOMAIN tree = 1..Len(tree)
    BY <1>1, Nodes
  <1>5. TypeOK'
    <2>1. {row', level', rows'} \subseteq [DOMAIN tree' -> Nat] /\ drawn' \subseteq DOMAIN tree'
      BY <1>2, <1>3
    <2> QED BY <1>1, <1>2, <1>3, <2>1 DEF TypeOK, Used, OwnEnds
  <1>6. Preorder' /\ FromPart' /\ Apart' /\ Tally' /\ Whole((DOMAIN links) \ list)'
    BY <1>1, <1>2, TreeStays
  <1>7. Walked'
    <2>0. Plain' <=> Plain
      BY <1>2, PlainStays
    <2>1. ASSUME Plain, NEW m \in DOMAIN tree PROVE Clean(m)
      <3>1. CASE m = 1
        BY <1>3, <2>1, <3>1
      <3>2. CASE m # 1
        <4>1. ~ OnPath(m)
          BY <1>1, <1>4, <3>2 DEF OnPath
        <4> QED BY <1>1, <2>1, <4>1 DEF Returned
      <3> QED BY <3>1, <3>2
    <2> QED BY <1>2, <1>3, <2>0, <2>1 DEF Walked, Whole, Clean, Self
  <1>8. LaidTo(1)'
    <2>1. \A n : LeavesBefore(n)' = LeavesBefore(n) /\ P(n)' = P(n) /\ Kids(n)' = Kids(n)
      BY <1>2 DEF LeavesBefore, P, Kids
    <2>2. LeavesBefore(1) = 0
      BY <1>1, LeavesStep
    <2>3. Placed(1)'
      <3>1. ASSUME NEW x \in 1..1
            PROVE  /\ row'[x] = LeavesBefore(x)' /\ row'[x] < Rows
                   /\ level'[x] = IF x = 1 THEN 0 ELSE level'[P(x)'] + 1
        BY <1>2, <1>3, <2>1, <2>2, TreeAssumption
      <3> QED BY <3>1 DEF Placed
    <2>4. Kids(1)' \cap 1..1 = {}
      <3>1. 1 \notin Kids(1)
        BY <1>1, <1>3, <1>4, FirstKid
      <3> QED BY <2>1, <3>1
    <2>5. OnPath(1)'
      BY <1>2 DEF OnPath
    <2>6. row'[1] = 0 /\ rows'[1] = 0 /\ \A x \in 2..Len(tree) : rows'[x] = 0
      BY <1>2, <1>3, <1>4
    <2> QED BY <1>2, <2>3, <2>4, <2>5, <2>6 DEF LaidTo
  <1> QED BY <1>2, <1>3, <1>5, <1>6, <1>7, <1>8, SketchIs

\* What the layout has come to.
LEMMA LaidIs ==
  ASSUME IInv, phase = "sketch", NEW k \in DOMAIN tree, LaidTo(k)
  PROVE  /\ TypeOK /\ Preorder /\ Len(tree) \in Nat /\ DOMAIN tree = 1..Len(tree)
         /\ k \in 1..Len(tree) /\ at \in 1..k /\ drawn = 1..k /\ drawn # {}
         /\ \A n : n \in DOMAIN row <=> n \in 1..Len(tree)
         /\ \A n \in 1..Len(tree) : row[n] \in Nat /\ level[n] \in Nat /\ rows[n] \in Nat
         /\ row \in [1..Len(tree) -> Nat] /\ level \in [1..Len(tree) -> Nat]
         /\ rows \in [1..Len(tree) -> Nat]
         /\ P(1) = 0 /\ \A n \in 2..Len(tree) : P(n) \in 1..(n - 1)
  <1>1. TypeOK /\ Preorder
    BY DEF IInv
  <1>2. /\ Len(tree) \in Nat /\ DOMAIN tree = 1..Len(tree) /\ k \in 1..Len(tree)
    BY <1>1, Nodes
  <1>3. at \in 1..k /\ drawn = 1..k /\ drawn # {}
    <2>1. at \in 1..Len(tree) /\ at <= k /\ drawn = 1..k
      BY <1>1, <1>2 DEF TypeOK, LaidTo
    <2>2. 1 \in 1..k
      BY <1>2
    <2> QED BY <1>2, <2>1, <2>2
  <1>4. /\ row \in [1..Len(tree) -> Nat] /\ level \in [1..Len(tree) -> Nat]
        /\ rows \in [1..Len(tree) -> Nat]
    BY <1>1, <1>2, <1>3 DEF TypeOK
  <1>5. 1 \in 1..Len(tree)
    BY <1>2
  <1>6. P(1) = 0 /\ \A n \in 2..Len(tree) : P(n) \in 1..(n - 1)
    BY <1>1, <1>5, Order
  <1> QED BY <1>1, <1>2, <1>3, <1>4, <1>6

\* The next child to draw is the next node of the tree, and it is drawn in the row of
\* the next leaf.
LEMMA NextChild ==
  ASSUME IInv, phase = "sketch", NEW k \in DOMAIN tree, LaidTo(k), Undrawn # {}
  PROVE  /\ k + 1 \in 2..Len(tree) /\ P(k + 1) = at /\ k + 1 \in Kids(at)
         /\ \A m \in First(Undrawn) : m = k + 1
         /\ NextRow = LeavesBefore(k + 1) /\ NextRow \in Nat
  <1>1. /\ TypeOK /\ Preorder /\ Len(tree) \in Nat /\ DOMAIN tree = 1..Len(tree)
        /\ k \in 1..Len(tree) /\ at \in 1..k /\ drawn = 1..k
        /\ row[at] \in Nat /\ rows[at] \in Nat
    BY LaidIs
  <1>2. \A n, m : m \in Kids(n) <=> m \in 1..Len(tree) /\ P(m) = n
    BY <1>1, Nodes
  <1>3. PICK u \in Undrawn : TRUE
    OBVIOUS
  <1>4. u \in 1..Len(tree) /\ P(u) = at /\ u > k /\ u \in 2..Len(tree)
    <2>1. u \in Kids(at) /\ u \notin 1..k
      BY <1>1, <1>3 DEF Undrawn
    <2> QED BY <1>1, <1>2, <2>1
  <1>5. k + 1 \in 2..Len(tree) /\ k + 1 \in 1..Len(tree) /\ k + 1 <= u
    BY <1>1, <1>4
  <1>6. P(k + 1) = at
    <2>1. P(k + 1) >= at /\ P(k + 1) \in 1..k
      <3>1. k + 1 \in (P(u) + 1)..u
        BY <1>1, <1>4, <1>5
      <3>2. P(k + 1) >= P(u)
        BY <1>1, <1>4, <3>1, Order
      <3>3. P(k + 1) \in 1..((k + 1) - 1)
        BY <1>1, <1>5, Order
      <3> QED BY <1>1, <1>4, <3>2, <3>3
    <2>2. ~ P(k + 1) > at
      <3>1. SUFFICES ASSUME P(k + 1) > at PROVE FALSE
        OBVIOUS
      <3>2. P(k + 1) \in (at + 1)..k
        BY <1>1, <2>1, <3>1
      <3>3. k + 1 \in Kids(P(k + 1))
        BY <1>2, <1>5
      <3>4. k + 1 \in 1..k
        BY <3>2, <3>3 DEF LaidTo
      <3> QED BY <1>1, <3>4
    <2> QED BY <1>1, <2>1, <2>2
  <1>7. k + 1 \in Kids(at) /\ k + 1 \in Undrawn
    <2>1. k + 1 \in Kids(at)
      BY <1>2, <1>5, <1>6
    <2>2. k + 1 \notin 1..k
      BY <1>1
    <2> QED BY <1>1, <2>1, <2>2 DEF Undrawn
  <1>8. ASSUME NEW m \in First(Undrawn) PROVE m = k + 1
    <2>1. m \in Undrawn /\ m <= k + 1
      BY <1>7 DEF First
    <2>2. m \in Kids(at) /\ m \notin 1..k
      BY <1>1, <2>1 DEF Undrawn
    <2>3. m \in 1..Len(tree)
      BY <1>2, <2>2
    <2> QED BY <1>1, <2>1, <2>2, <2>3
  <1>9. NextRow = LeavesBefore(k + 1)
    <2>1. NextRow = IF Kids(at) \cap 1..k = {} THEN row[at] ELSE LeavesBefore(k + 1)
      BY DEF LaidTo, NextRow
    <2>2. CASE Kids(at) \cap 1..k = {}
      <3>1. at + 1 \in Kids(at) /\ at + 1 <= k + 1
        BY <1>1, <1>7, FirstKid
      <3>2. at = k
        BY <1>1, <2>2, <3>1
      <3>3. row[at] = LeavesBefore(at)
        BY <1>1 DEF LaidTo, Placed
      <3>4. LeavesBefore(at + 1) = LeavesBefore(at)
        <4>1. at \in DOMAIN tree /\ Kids(at) # {}
          BY <1>1, <1>7
        <4> QED BY <1>1, <4>1, LeavesStep
      <3> QED BY <2>1, <2>2, <3>2, <3>3, <3>4
    <2>3. CASE Kids(at) \cap 1..k # {}
      BY <2>1, <2>3
    <2> QED BY <2>2, <2>3
  <1>10. NextRow \in Nat
    BY <1>1 DEF NextRow
  <1> QED BY <1>5, <1>6, <1>7, <1>8, <1>9, <1>10

LEMMA DrawChildKeeps ==
  ASSUME IInv, DrawChild, NEW o, o = at, NEW N, N = Len(tree)
  PROVE  IInv'
  <1>1. phase = "sketch" /\ NextRow < Rows
    BY DEF DrawChild, net
  <1>2. PICK k \in DOMAIN tree : LaidTo(k)
    BY <1>1 DEF IInv
  <1>3. /\ TypeOK /\ Preorder /\ N \in Nat /\ DOMAIN tree = 1..N
        /\ k \in 1..N /\ o \in 1..k /\ drawn = 1..k
        /\ row \in [1..N -> Nat] /\ level \in [1..N -> Nat] /\ rows \in [1..N -> Nat]
        /\ \A n \in 2..N : P(n) \in 1..(n - 1)
    BY <1>1, <1>2, LaidIs
  <1>4. PICK c \in First(Undrawn) :
          /\ at' = c /\ drawn' = drawn \cup {c}
          /\ row' = [row EXCEPT ![c] = NextRow] /\ level' = [level EXCEPT ![c] = NextLevel]
          /\ UNCHANGED <<links, left, known, ports, phase, list, tree, round, rows>>
    BY DEF DrawChild, net
  <1>5. Undrawn # {}
    BY <1>4 DEF First
  <1>6. /\ c = k + 1 /\ c \in 2..N /\ c \in 1..N /\ P(c) = o /\ c \in Kids(o)
        /\ NextRow = LeavesBefore(c) /\ NextRow \in Nat /\ NextLevel = level[o] + 1
    <2>1. /\ c = k + 1 /\ k + 1 \in 2..N /\ P(k + 1) = o /\ k + 1 \in Kids(o)
          /\ NextRow = LeavesBefore(k + 1) /\ NextRow \in Nat
      BY <1>1, <1>2, <1>4, <1>5, NextChild
    <2>2. k + 1 \in 1..N
      BY <1>3, <2>1
    <2> QED BY <2>1, <2>2 DEF NextLevel
  <1>60. /\ o \in Int /\ k \in Int /\ c \in Int /\ N \in Int
         /\ 1 <= o /\ o <= k /\ c = k + 1 /\ c <= N
    BY <1>3, <1>6
  <1>7. /\ phase' = "sketch" /\ UNCHANGED <<links, left, known, ports>> /\ list' = list
        /\ tree' = tree /\ round' = round /\ rows' = rows /\ at' = c /\ drawn' = 1..c
        /\ row' \in [1..N -> Nat] /\ level' \in [1..N -> Nat]
        /\ row'[c] = LeavesBefore(c) /\ level'[c] = level[o] + 1
        /\ \A x \in 1..k : row'[x] = row[x] /\ level'[x] = level[x]
    <2>1. drawn' = 1..c
      <3>1. 1..k \cup {k + 1} = 1..(k + 1)
        BY <1>3
      <3> QED BY <1>3, <1>4, <1>6, <3>1
    <2>2. row' \in [1..N -> Nat] /\ level' \in [1..N -> Nat]
      <3>1. NextLevel \in Nat
        <4>1. o \in 1..N
          BY <1>3, <1>60
        <4>2. level[o] \in Nat
          BY <1>3, <4>1
        <4> QED BY <1>6, <4>2
      <3> QED BY <1>3, <1>4, <1>6, <3>1
    <2>3. row'[c] = LeavesBefore(c) /\ level'[c] = level[o] + 1
      BY <1>3, <1>4, <1>6
    <2>4. \A x \in 1..k : x \in 1..N /\ x # c
      BY <1>60
    <2> QED BY <1>1, <1>3, <1>4, <2>1, <2>2, <2>3, <2>4
  <1>8. TypeOK'
    <2>1. drawn' \subseteq DOMAIN tree' /\ at' \in DOMAIN tree'
          /\ {row', level', rows'} \subseteq [DOMAIN tree' -> Nat]
      <3>1. DOMAIN tree' = 1..N /\ 1..c \subseteq 1..N
        BY <1>3, <1>7, <1>60
      <3> QED BY <1>3, <1>6, <1>7, <3>1
    <2> QED BY <1>3, <1>7, <2>1 DEF TypeOK, Used, OwnEnds
  <1>9. Preorder' /\ FromPart' /\ Apart' /\ Tally' /\ Whole((DOMAIN links) \ list)' /\ Walked'
    BY <1>1, <1>7, Settled
  <1>10. /\ \A n : LeavesBefore(n)' = LeavesBefore(n) /\ P(n)' = P(n) /\ Kids(n)' = Kids(n)
         /\ \A n : Full(n)' = Full(n)
    BY <1>7 DEF LeavesBefore, P, Kids, Full
  <1>11. ASSUME NEW x \in (o + 1)..k PROVE P(x) >= o /\ Kids(x) \subseteq 1..k
    BY <1>2, <1>11 DEF LaidTo
  <1>12. Placed(c)'
    <2>1. ASSUME NEW x \in 1..c
          PROVE  /\ row'[x] = LeavesBefore(x)' /\ row'[x] < Rows
                 /\ level'[x] = IF x = 1 THEN 0 ELSE level'[P(x)'] + 1
      <3>1. CASE x \in 1..k
        <4>1. /\ row[x] = LeavesBefore(x) /\ row[x] < Rows
              /\ level[x] = IF x = 1 THEN 0 ELSE level[P(x)] + 1
          BY <1>2, <3>1 DEF LaidTo, Placed
        <4>2. x # 1 => P(x) \in 1..k
          BY <1>3, <3>1
        <4> QED BY <1>7, <1>10, <3>1, <4>1, <4>2
      <3>2. CASE x = c
        <4>1. x # 1 /\ level'[o] = level[o] /\ P(x)' = o
          <5>1. x # 1 /\ o \in 1..k
            BY <1>60, <3>2
          <5> QED BY <1>6, <1>7, <1>10, <3>2, <5>1
        <4> QED BY <1>1, <1>6, <1>7, <1>10, <3>2, <4>1
      <3> QED BY <1>3, <1>6, <3>1, <3>2
    <2> QED BY <2>1 DEF Placed
  <1>13. ASSUME NEW x \in 1..k, OnPath(x) PROVE OnPath(x)'
    <2>1. x <= o /\ \A y \in (x + 1)..o : P(y) >= x
      BY <1>13 DEF OnPath
    <2>2. ASSUME NEW y \in (x + 1)..c PROVE P(y) >= x
      <3>1. y \in (x + 1)..o \/ y \in (o + 1)..k \/ y = c
        BY <1>3, <1>6, <2>1
      <3>2. CASE y \in (o + 1)..k
        <4>1. P(y) >= o /\ P(y) \in Int
          BY <1>3, <1>11, <3>2
        <4> QED BY <1>3, <2>1, <4>1
      <3> QED BY <1>6, <2>1, <3>1, <3>2
    <2>3. x <= c
      BY <1>3, <1>6
    <2> QED BY <1>7, <1>10, <2>2, <2>3 DEF OnPath
  <1>14. ASSUME NEW y \in 2..k, OnPath(y)' PROVE y \in 2..o /\ OnPath(y)
    <2>1. y <= c /\ \A z \in (y + 1)..c : P(z) >= y
      BY <1>7, <1>10, <1>14 DEF OnPath
    <2>2. c \in (y + 1)..c
      BY <1>14, <1>60
    <2>3. y <= o
      BY <1>6, <2>1, <2>2
    <2>4. \A z \in (y + 1)..o : z \in (y + 1)..c
      BY <1>3, <1>6
    <2> QED BY <1>3, <2>1, <2>3, <2>4 DEF OnPath
  <1>15. LaidTo(c)'
    <2>1. \A x \in (c + 1)..c : FALSE
      BY <1>6
    <2>2. ASSUME NEW x \in 1..c, ~ OnPath(x)' PROVE ~ Full(x)
      <3>1. x # c
        BY <1>3, <1>6, <1>7, <2>2 DEF OnPath
      <3>2. x \in 1..k
        BY <1>3, <1>6, <3>1
      <3> QED BY <1>2, <1>13, <2>2, <3>2 DEF LaidTo
    <2>3. \A x \in (c + 1)..N : rows[x] = 0
      <3>1. \A x \in (k + 1)..N : rows[x] = 0
        BY <1>2 DEF LaidTo
      <3> QED BY <1>3, <1>6, <3>1
    <2>4. ASSUME NEW y \in 2..c, OnPath(y)' PROVE row'[P(y)] + rows[P(y)] = row'[y]
      <3>1. CASE y = c
        <4>1. row'[o] = row[o]
          BY <1>3, <1>7
        <4>2. row[o] + rows[o] = LeavesBefore(c)
          BY <1>6 DEF NextRow
        <4> QED BY <1>6, <1>7, <3>1, <4>1, <4>2
      <3>2. CASE y # c
        <4>1. y \in 2..k /\ y \in 1..k /\ P(y) \in 1..k
          <5>1. y \in 2..k /\ y \in 1..k /\ y \in 2..N /\ y <= k /\ y \in Int
            BY <1>60, <2>4, <3>2
          <5>2. P(y) \in 1..(y - 1)
            BY <1>3, <5>1
          <5> QED BY <1>60, <5>1, <5>2
        <4>2. y \in 2..o /\ OnPath(y)
          BY <1>14, <2>4, <4>1
        <4>3. row[P(y)] + rows[P(y)] = row[y]
          BY <1>2, <4>2 DEF LaidTo
        <4> QED BY <1>7, <4>1, <4>3
      <3> QED BY <3>1, <3>2
    <2>5. /\ rows[c] = 0 /\ Kids(c) \cap 1..c = {}
      <3>1. \A x \in (k + 1)..N : rows[x] = 0
        BY <1>2 DEF LaidTo
      <3>2. ASSUME NEW d \in Kids(c) PROVE d \notin 1..c
        <4>1. c < d /\ d \in 2..N
          BY <1>3, <1>6, FirstKid
        <4> QED BY <1>60, <4>1
      <3>3. c \in (k + 1)..N
        BY <1>60
      <3> QED BY <3>1, <3>2, <3>3
    <2>6. row'[c] + rows[c] = row'[c]
      BY <1>6, <1>7, <2>5
    <2>7. /\ drawn' = 1..c /\ at' <= c
          /\ \A x \in (at' + 1)..c : P(x)' >= at' /\ Kids(x)' \subseteq 1..c
      BY <1>7, <1>60, <2>1
    <2>8. \A x \in 1..c : ~ OnPath(x)' => ~ Full(x)'
      BY <1>10, <2>2
    <2>9. \A x \in (c + 1)..Len(tree') : rows'[x] = 0
      BY <1>7, <2>3
    <2>10. \A y \in 2..at' : OnPath(y)' => row'[P(y)'] + rows'[P(y)'] = row'[y]
      BY <1>7, <1>10, <2>4
    <2>11. row'[at'] + rows'[at']
             = IF Kids(at)' \cap 1..c = {} THEN row'[at'] ELSE LeavesBefore(c + 1)'
      <3>1. Kids(at)' = Kids(c)
        BY <1>7 DEF Kids
      <3> QED BY <1>7, <2>5, <2>6, <3>1
    <2> QED BY <1>12, <2>7, <2>8, <2>9, <2>10, <2>11 DEF LaidTo
  <1>16. \E x \in DOMAIN tree' : LaidTo(x)'
    BY <1>3, <1>6, <1>7, <1>15
  <1> QED BY <1>7, <1>8, <1>9, <1>16, SketchIs

\* Nothing below the running call is left to draw: the rows used reach to the next leaf.
LEMMA RowsUsed ==
  ASSUME IInv, phase = "sketch", NEW k \in DOMAIN tree, LaidTo(k), Undrawn = {},
         NEW o, o = at
  PROVE  /\ Kids(o) \subseteq 1..k
         /\ row[o] + Height(o) = LeavesBefore(k + 1)
         /\ Height(o) \in Nat
         /\ o = 1 => k = Len(tree)
  <1>1. /\ TypeOK /\ Preorder /\ Len(tree) \in Nat /\ DOMAIN tree = 1..Len(tree)
        /\ k \in 1..Len(tree) /\ o \in 1..k /\ drawn = 1..k
        /\ \A n \in 1..Len(tree) : row[n] \in Nat /\ rows[n] \in Nat
        /\ \A n \in 2..Len(tree) : P(n) \in 1..(n - 1)
    BY LaidIs
  <1>2. \A n, m : m \in Kids(n) <=> m \in 1..Len(tree) /\ P(m) = n
    BY <1>1, Nodes
  <1>3. o \in 1..Len(tree) /\ row[o] \in Nat /\ rows[o] \in Nat
    <2>1. o \in 1..Len(tree)
      BY <1>1
    <2> QED BY <1>1, <2>1
  <1>4. Kids(o) \subseteq 1..k
    BY <1>1 DEF Undrawn
  <1>5. /\ \A x \in (o + 1)..k : P(x) >= o /\ Kids(x) \subseteq 1..k
        /\ row[o] + rows[o] = IF Kids(o) \cap 1..k = {} THEN row[o] ELSE LeavesBefore(k + 1)
        /\ row[o] = LeavesBefore(o)
    BY <1>1 DEF LaidTo, Placed
  <1>6. row[o] + Height(o) = LeavesBefore(k + 1)
    <2>1. CASE Kids(o) = {}
      <3>1. o = k
        <4>1. SUFFICES ASSUME o # k PROVE FALSE
          OBVIOUS
        <4>2. o + 1 \in (o + 1)..k /\ o + 1 \in 2..Len(tree) /\ o + 1 \in 1..Len(tree)
          BY <1>1, <4>1
        <4>3. P(o + 1) >= o /\ P(o + 1) \in 1..((o + 1) - 1)
          BY <1>1, <1>5, <4>2
        <4>4. P(o + 1) = o
          BY <1>1, <4>3
        <4> QED BY <1>2, <2>1, <4>2, <4>4
      <3>2. LeavesBefore(o + 1) = LeavesBefore(o) + 1
        BY <1>1, <1>3, <2>1, LeavesStep
      <3>3. Height(o) = 1
        BY <2>1 DEF Height
      <3> QED BY <1>5, <3>1, <3>2, <3>3
    <2>2. CASE Kids(o) # {}
      <3>1. Kids(o) \cap 1..k # {}
        BY <1>4, <2>2
      <3> QED BY <1>5, <2>2, <3>1 DEF Height
    <2> QED BY <2>1, <2>2
  <1>7. ASSUME o = 1 PROVE k = Len(tree)
    <2>1. SUFFICES ASSUME k # Len(tree) PROVE FALSE
      OBVIOUS
    <2>2. k + 1 \in 2..Len(tree) /\ k + 1 \in 1..Len(tree) /\ k + 1 \notin 1..k
      BY <1>1, <2>1
    <2>3. P(k + 1) \in 1..((k + 1) - 1)
      BY <1>1, <2>2
    <2>4. P(k + 1) = 1 \/ P(k + 1) \in (o + 1)..k
      BY <1>1, <1>7, <2>3
    <2>5. k + 1 \in Kids(P(k + 1))
      BY <1>2, <2>2
    <2> QED BY <1>4, <1>5, <1>7, <2>2, <2>4, <2>5
  <1>8. Height(o) \in Nat
    BY <1>3 DEF Height
  <1> QED BY <1>4, <1>6, <1>7, <1>8

LEMMA ReturnKeeps ==
  ASSUME IInv, Return, NEW o, o = at, o # 1, NEW p, p = P(at), NEW N, N = Len(tree)
  PROVE  IInv'
  <1>1. phase = "sketch" /\ Undrawn = {} /\ ~ Full(o)
    BY DEF Return, net
  <1>2. PICK k \in DOMAIN tree : LaidTo(k)
    BY <1>1 DEF IInv
  <1>3. /\ TypeOK /\ Preorder /\ N \in Nat /\ DOMAIN tree = 1..N
        /\ k \in 1..N /\ o \in 1..k /\ drawn = 1..k
        /\ row \in [1..N -> Nat] /\ level \in [1..N -> Nat] /\ rows \in [1..N -> Nat]
        /\ \A n \in 2..N : P(n) \in 1..(n - 1)
    BY <1>1, <1>2, LaidIs
  <1>4. /\ Kids(o) \subseteq 1..k /\ row[o] + Height(o) = LeavesBefore(k + 1) /\ Height(o) \in Nat
    BY <1>1, <1>2, RowsUsed
  <1>5. /\ o \in 2..N /\ p \in 1..(o - 1) /\ p = P(o) /\ \A x \in (p + 1)..o : P(x) >= p
    <2>1. o \in 2..N
      BY <1>3
    <2> QED BY <1>3, <2>1, Order
  <1>6. /\ o \in Int /\ k \in Int /\ p \in Int /\ N \in Int
        /\ 1 <= p /\ p < o /\ o <= k /\ k <= N /\ p \in 1..N /\ o \in 1..N
    BY <1>3, <1>5
  <1>7. /\ phase' = "sketch" /\ UNCHANGED <<links, left, known, ports>> /\ list' = list
        /\ tree' = tree /\ round' = round /\ row' = row /\ level' = level /\ at' = p
        /\ drawn' = 1..k /\ rows' = [rows EXCEPT ![p] = @ + Height(o)]
    BY <1>1, <1>3 DEF Return, P, net
  <1>8. /\ rows' \in [1..N -> Nat] /\ rows'[p] = rows[p] + Height(o)
        /\ \A x \in 1..N : x # p => rows'[x] = rows[x]
    BY <1>3, <1>4, <1>6, <1>7
  <1>9. TypeOK'
    <2>1. drawn' \subseteq DOMAIN tree' /\ at' \in DOMAIN tree'
          /\ {row', level', rows'} \subseteq [DOMAIN tree' -> Nat]
      <3>1. DOMAIN tree' = 1..N /\ 1..k \subseteq 1..N
        BY <1>3, <1>7, <1>6
      <3> QED BY <1>3, <1>6, <1>7, <1>8, <3>1
    <2> QED BY <1>3, <1>7, <2>1 DEF TypeOK, Used, OwnEnds
  <1>10. Preorder' /\ FromPart' /\ Apart' /\ Tally' /\ Whole((DOMAIN links) \ list)' /\ Walked'
    BY <1>1, <1>7, Settled
  <1>11. /\ \A n : LeavesBefore(n)' = LeavesBefore(n) /\ P(n)' = P(n) /\ Kids(n)' = Kids(n)
         /\ \A n : Full(n)' = Full(n)
    BY <1>7 DEF LeavesBefore, P, Kids, Full
  <1>12. ASSUME NEW x \in (p + 1)..k PROVE P(x) >= p /\ Kids(x) \subseteq 1..k
    <2>1. CASE x > o
      <3>1. x \in (o + 1)..k /\ x \in 2..N
        BY <1>6, <2>1
      <3>2. P(x) >= o /\ Kids(x) \subseteq 1..k /\ P(x) \in 1..(x - 1)
        BY <1>2, <1>3, <3>1 DEF LaidTo
      <3> QED BY <1>6, <3>2
    <2>2. CASE x = o
      BY <1>4, <1>5, <1>6, <2>2
    <2>3. CASE x < o
      <3>1. x \in (p + 1)..o /\ x \in 1..N
        BY <1>6, <2>3
      <3>2. ASSUME NEW c \in Kids(x) PROVE c \in 1..k
        <4>1. SUFFICES ASSUME c \notin 1..k PROVE FALSE
          OBVIOUS
        <4>2. c \in 1..N /\ P(c) = x
          BY <1>3, Nodes
        <4>3. o < c
          BY <1>6, <4>1, <4>2
        <4>4. P(c) < o => P(o) >= P(c)
          BY <1>3, <1>6, <4>2, <4>3 DEF Preorder
        <4> QED BY <1>5, <1>6, <2>3, <3>1, <4>2, <4>4
      <3> QED BY <1>5, <3>1, <3>2
    <2> QED BY <1>6, <2>1, <2>2, <2>3
  <1>13. ASSUME NEW x \in 1..k, OnPath(x), x # o PROVE OnPath(x)'
    <2>1. x <= o /\ \A y \in (x + 1)..o : P(y) >= x
      BY <1>13 DEF OnPath
    <2>2. x <= p
      <3>1. o \in (x + 1)..o
        BY <1>6, <1>13, <2>1
      <3> QED BY <1>5, <2>1, <3>1
    <2>3. \A y \in (x + 1)..p : P(y) >= x
      BY <1>6, <2>1
    <2> QED BY <1>7, <1>11, <2>2, <2>3 DEF OnPath
  <1>14. ASSUME NEW y \in 2..p, OnPath(y)' PROVE y \in 2..o /\ OnPath(y)
    <2>1. y <= p /\ \A z \in (y + 1)..p : P(z) >= y
      BY <1>7, <1>11, <1>14 DEF OnPath
    <2>2. ASSUME NEW z \in (y + 1)..o PROVE P(z) >= y
      <3>1. z \in (y + 1)..p \/ z \in (p + 1)..o
        BY <1>6, <2>1
      <3>2. CASE z \in (p + 1)..o
        <4>1. z \in 2..N
          BY <1>6, <3>2
        <4>2. P(z) >= p /\ P(z) \in 1..(z - 1)
          BY <1>3, <1>5, <3>2, <4>1
        <4> QED BY <1>6, <2>1, <4>2
      <3> QED BY <2>1, <3>1, <3>2
    <2>3. y \in 2..o /\ y <= o
      BY <1>6, <2>1
    <2> QED BY <2>2, <2>3 DEF OnPath
  <1>15. row[p] + rows[p] = row[o]
    <2>1. o \in 2..o /\ OnPath(o)
      BY <1>5, <1>6 DEF OnPath
    <2> QED BY <1>2, <1>5, <2>1 DEF LaidTo
  <1>16. LaidTo(k)'
    <2>1. /\ drawn' = 1..k /\ at' <= k
          /\ \A x \in (at' + 1)..k : P(x)' >= at' /\ Kids(x)' \subseteq 1..k
      BY <1>6, <1>7, <1>11, <1>12
    <2>2. Placed(k)'
      <3>1. Placed(k)
        BY <1>2 DEF LaidTo
      <3> QED BY <1>7, <1>11, <3>1 DEF Placed
    <2>3. \A x \in 1..k : ~ OnPath(x)' => ~ Full(x)'
      <3>1. \A x \in 1..k : ~ OnPath(x) => ~ Full(x)
        BY <1>2 DEF LaidTo
      <3> QED BY <1>1, <1>11, <1>13, <3>1
    <2>4. \A x \in (k + 1)..Len(tree') : rows'[x] = 0
      <3>1. \A x \in (k + 1)..N : rows[x] = 0
        BY <1>2 DEF LaidTo
      <3>2. \A x \in (k + 1)..N : x \in 1..N /\ x # p
        BY <1>6
      <3> QED BY <1>7, <1>8, <3>1, <3>2
    <2>5. ASSUME NEW y \in 2..p, OnPath(y)' PROVE row[P(y)] + rows'[P(y)] = row[y]
      <3>1. row[P(y)] + rows[P(y)] = row[y]
        BY <1>2, <1>14, <2>5 DEF LaidTo
      <3>2. y \in 2..N /\ y \in Int /\ y <= p
        BY <1>6
      <3>3. P(y) \in 1..(y - 1)
        BY <1>3, <3>2
      <3>4. P(y) \in 1..N /\ P(y) # p
        BY <1>6, <3>2, <3>3
      <3> QED BY <1>8, <3>1, <3>4
    <2>6. \A y \in 2..at' : OnPath(y)' => row'[P(y)'] + rows'[P(y)'] = row'[y]
      BY <1>7, <1>11, <2>5
    <2>7. row'[at'] + rows'[at']
            = IF Kids(at)' \cap 1..k = {} THEN row'[at'] ELSE LeavesBefore(k + 1)'
      <3>1. Kids(at)' = Kids(p)
        BY <1>7 DEF Kids
      <3>2. o \in Kids(p) \cap 1..k
        BY <1>3, <1>5, <1>6, Nodes
      <3>3. row[p] \in Nat /\ rows[p] \in Nat /\ row[o] \in Nat
        BY <1>3, <1>6
      <3>4. row[p] + rows'[p] = LeavesBefore(k + 1)
        BY <1>4, <1>8, <1>15, <3>3
      <3> QED BY <1>7, <1>11, <3>1, <3>2, <3>4
    <2> QED BY <2>1, <2>2, <2>3, <2>4, <2>6, <2>7 DEF LaidTo
  <1>17. \E x \in DOMAIN tree' : LaidTo(x)'
    BY <1>2, <1>7, <1>16
  <1> QED BY <1>7, <1>9, <1>10, <1>17, SketchIs

\* The call for the root returns: the picture is whole.
LEMMA FinishKeeps ==
  ASSUME IInv, Return, at = 1, NEW N, N = Len(tree)
  PROVE  IInv'
  <1>1. phase = "sketch" /\ Undrawn = {} /\ ~ Full(1)
    BY DEF Return, net
  <1>2. PICK k \in DOMAIN tree : LaidTo(k)
    BY <1>1 DEF IInv
  <1>3. /\ TypeOK /\ Preorder /\ N \in Nat /\ DOMAIN tree = 1..N /\ DOMAIN tree = 1..Len(tree)
        /\ k \in 1..N /\ drawn = 1..k /\ drawn # {}
        /\ \A n \in 1..N : row[n] \in Nat /\ level[n] \in Nat
    BY <1>1, <1>2, LaidIs
  <1>4. k = N /\ row[1] + Height(1) = LeavesBefore(k + 1) /\ Height(1) \in Nat
    BY <1>1, <1>2, RowsUsed
  <1>5. /\ phase' = "drawn" /\ UNCHANGED <<links, left, known, ports>> /\ list' = list
        /\ tree' = tree /\ round' = round /\ row' = row /\ level' = level /\ at' = at
        /\ drawn' = drawn /\ rows' = rows
    BY <1>1 DEF Return, net
  <1>6. TypeOK'
    BY <1>1, <1>3, <1>5 DEF TypeOK, Used, OwnEnds
  <1>7. /\ FromPart /\ Tally /\ Whole((DOMAIN links) \ list) /\ Walked
        /\ Preorder' /\ FromPart' /\ Apart' /\ Tally' /\ Whole((DOMAIN links) \ list)' /\ Walked'
    BY <1>1, <1>5, Settled
  <1>8. /\ \A n : LeavesBefore(n)' = LeavesBefore(n) /\ P(n)' = P(n) /\ Kids(n)' = Kids(n)
        /\ \A n : Full(n)' = Full(n) /\ Height(n)' = Height(n)
        /\ Leaves' = Leaves
    BY <1>5 DEF LeavesBefore, P, Kids, Full, Height, Leaves
  <1>9. drawn = DOMAIN tree /\ Placed(Len(tree))
    BY <1>2, <1>3, <1>4 DEF LaidTo
  <1>10. Height(1) = Cardinality(Leaves) /\ Cardinality(Leaves) \in Nat
    <2>1. 1 \in 1..N /\ N + 1 \in 1..(N + 1)
      BY <1>3
    <2>2. row[1] = LeavesBefore(1)
      BY <1>2, <1>4, <2>1 DEF LaidTo, Placed
    <2>3. LeavesBefore(1) = 0 /\ LeavesBefore(N + 1) = Cardinality(Leaves)
      BY <1>3, LeavesStep
    <2> QED BY <1>4, <2>2, <2>3
  <1>11. Picture'
    <2>1. ASSUME NEW n \in DOMAIN tree PROVE ~ Full(n)
      <3>1. CASE n = 1
        BY <1>1, <3>1
      <3>2. CASE n # 1
        <4>1. ~ OnPath(n)
          BY <1>3, <3>2 DEF OnPath
        <4> QED BY <1>2, <1>3, <1>4, <4>1 DEF LaidTo
      <3> QED BY <3>1, <3>2
    <2>2. Placed(Len(tree))'
      BY <1>5, <1>8, <1>9 DEF Placed
    <2> QED BY <1>5, <1>8, <1>9, <1>10, <2>1, <2>2 DEF Picture
  <1>12. tree # << >>
    BY <1>2
  <1>13. NullByHalfLinks'
    BY <1>3, <1>5, <1>7, <1>12, DoneIs
  <1>14. Cardinality(Leaves) <= Rows
    <2> DEFINE H == Cardinality(Leaves)
    <2>1. H \in Nat /\ {row[n] : n \in Leaves} = 0..(H - 1)
      BY <1>3, <1>9, <1>10, LeafRows
    <2>2. \A n \in Leaves : row[n] \in Nat /\ row[n] < Rows
      BY <1>3, <1>9, PlaceOf DEF Leaves
    <2> HIDE DEF H
    <2>3. H <= Rows
      <3>1. CASE H = 0
        BY <3>1, TreeAssumption
      <3>2. CASE H # 0
        <4>1. H - 1 \in 0..(H - 1)
          BY <2>1, <3>2
        <4>2. PICK n \in Leaves : row[n] = H - 1
          BY <2>1, <4>1
        <4> QED BY <2>1, <2>2, <4>2, TreeAssumption
      <3> QED BY <3>1, <3>2
    <2> QED BY <2>3 DEF H
  <1>15. RowPerLeaf'
    <2>1. \A m, n \in drawn : m # n => <<row[m], level[m]>> # <<row[n], level[n]>>
      BY <1>3, <1>9, OwnPixels
    <2>2. {row[n] : n \in Leaves} = 0..(Cardinality(Leaves) - 1)
      BY <1>3, <1>9, LeafRows
    <2>3. {n \in DOMAIN tree : Kids(n) = {}}' = Leaves
      BY <1>8 DEF Leaves
    <2>4. Height(1)' = Cardinality(Leaves)
      BY <1>8, <1>10
    <2> QED BY <1>5, <1>9, <1>14, <2>1, <2>2, <2>3, <2>4 DEF RowPerLeaf, Drawn
  <1> QED BY <1>5, <1>6, <1>7, <1>11, <1>13, <1>15 DEF IInv

LEMMA RunWildKeeps ==
  ASSUME IInv, RunWild, NEW o, o = at, NEW N, N = Len(tree)
  PROVE  IInv'
  <1>1. phase = "sketch"
    BY DEF RunWild, net
  <1>2. PICK k \in DOMAIN tree : LaidTo(k)
    BY <1>1 DEF IInv
  <1>3. /\ TypeOK /\ Preorder /\ N \in Nat /\ DOMAIN tree = 1..N /\ o \in 1..k
        /\ k \in 1..N /\ drawn = 1..k /\ level[o] \in Nat
    <2>1. /\ TypeOK /\ Preorder /\ N \in Nat /\ DOMAIN tree = 1..N /\ o \in 1..k
          /\ k \in 1..N /\ drawn = 1..k /\ \A n \in 1..N : level[n] \in Nat
      BY <1>1, <1>2, LaidIs
    <2>2. o \in 1..N
      BY <2>1
    <2> QED BY <2>1, <2>2
  <1>4. /\ phase' = "wild" /\ UNCHANGED <<links, left, known, ports>> /\ list' = list
        /\ tree' = tree /\ round' = round /\ row' = row /\ level' = level /\ at' = at
        /\ drawn' = drawn /\ rows' = rows
    BY DEF RunWild, canvas, net
  <1>5. TypeOK'
    BY <1>3, <1>4 DEF TypeOK, Used, OwnEnds
  <1>6. /\ FromPart /\ Tally /\ Whole((DOMAIN links) \ list) /\ Walked
        /\ Preorder' /\ FromPart' /\ Apart' /\ Tally' /\ Whole((DOMAIN links) \ list)' /\ Walked'
    BY <1>1, <1>4, Settled
  <1>7. tree # << >>
    BY <1>2
  <1>8. NullByHalfLinks'
    BY <1>3, <1>4, <1>6, <1>7, DoneIs
  <1>9. \/ Cardinality(Leaves) > Rows
        \/ \E n \in drawn : Full(n) \/ (Kids(n) # {} /\ level[n] + 1 >= Columns)
    <2>1. CASE Undrawn = {}
      BY <1>3, <2>1 DEF RunWild, net
    <2>2. CASE Undrawn # {} /\ NextLevel >= Columns
      <3>1. Kids(o) # {}
        BY <2>2 DEF Undrawn
      <3> QED BY <1>3, <2>2, <3>1 DEF NextLevel
    <2>3. CASE Undrawn # {} /\ NextRow >= Rows
      <3>1. k + 1 \in 2..N /\ NextRow = LeavesBefore(k + 1) /\ NextRow \in Nat
        BY <1>1, <1>2, <2>3, NextChild
      <3>2. N \in DOMAIN tree /\ k + 1 \in 1..(N + 1) /\ N \in 1..(N + 1) /\ k + 1 <= N
        BY <1>3, <3>1
      <3>3. Kids(N) = {}
        <4>1. ASSUME NEW c \in Kids(N) PROVE FALSE
          <5>1. N < c /\ c \in 2..N
            BY <1>3, <3>2, FirstKid
          <5> QED BY <1>3, <5>1
        <4> QED BY <4>1
      <3>4. /\ LeavesBefore(N + 1) = LeavesBefore(N) + 1
            /\ LeavesBefore(k + 1) <= LeavesBefore(N) /\ LeavesBefore(N) \in Nat
            /\ LeavesBefore(N + 1) = Cardinality(Leaves)
        BY <1>3, <3>2, <3>3, LeavesStep
      <3> QED BY <2>3, <3>1, <3>4, TreeAssumption
    <2> QED BY <2>1, <2>2, <2>3 DEF RunWild, net
  <1>10. RowPerLeaf'
    <2>1. /\ {n \in DOMAIN tree : Kids(n) = {}}' = Leaves
          /\ \A n : Full(n)' = Full(n) /\ Kids(n)' = Kids(n)
      BY <1>4 DEF Leaves, Full, Kids
    <2> QED BY <1>4, <1>9, <2>1 DEF RowPerLeaf, Drawn
  <1> QED BY <1>4, <1>5, <1>6, <1>8, <1>10 DEF IInv

-----------------------------------------------------------------------------
(* The theorems                                                                *)

LEMMA CheckLinkKeeps ==
  ASSUME IInv, CheckLink
  PROVE  IInv'
  <1>1. phase = "walk" /\ round[at] < ports[Here]
    BY DEF CheckLink
  <1>2. PICK k \in Found(list, Here) :
          LET e == OtherEnd(links[k], Here) IN Descend(k, e) \/ Refuse(k, e) \/ Crash(k, e)
    BY DEF CheckLink
  <1>3. CASE Descend(k, OtherEnd(links[k], Here))
    BY <1>1, <1>3, DescendKeeps
  <1>4. CASE Refuse(k, OtherEnd(links[k], Here))
    BY <1>1, <1>4, RefuseKeeps
  <1>5. CASE Crash(k, OtherEnd(links[k], Here))
    BY <1>1, <1>5, CrashKeeps
  <1> QED BY <1>2, <1>3, <1>4, <1>5

LEMMA StutterKeeps ==
  ASSUME IInv, UNCHANGED vars
  PROVE  IInv'
  <1>1. /\ UNCHANGED <<links, left, known, ports>> /\ phase' = phase /\ list' = list /\ tree' = tree
        /\ round' = round /\ at' = at /\ drawn' = drawn /\ row' = row /\ level' = level
        /\ rows' = rows
    BY DEF vars, walk, canvas, net
  <1>2. TypeOK'
    BY <1>1 DEF IInv, TypeOK, Used, OwnEnds
  <1>3. /\ \A n : P(n)' = P(n) /\ Self(n)' = Self(n) /\ Kids(n)' = Kids(n)
        /\ \A n : Full(n)' = Full(n) /\ LeavesBefore(n)' = LeavesBefore(n)
        /\ \A n : Height(n)' = Height(n)
        /\ \A r : Part(r)' = Part(r)
        /\ Leaves' = Leaves
    BY <1>1 DEF P, Self, Kids, Full, LeavesBefore, Height, Part, Closed, Leaves
  <1>13. Plain' <=> Plain
    BY <1>1, PlainStays
  <1>4. \A m : OnPath(m)' = OnPath(m)
    BY <1>1, <1>3 DEF OnPath
  <1>5. phase # "idle" =>
          Preorder' /\ FromPart' /\ Apart' /\ Tally' /\ Whole((DOMAIN links) \ list)'
    BY <1>1, TreeStays DEF IInv
  <1>6. phase = "walk" => Waiting' /\ Returned' /\ Rounds'
    <2>1. Waiting => Waiting'
      BY <1>1, <1>3 DEF Waiting
    <2>2. Whole(list)' = Whole(list) /\ \A m : Clean(m)' = Clean(m)
      BY <1>1 DEF Whole, Clean, Self
    <2>3. Returned => Returned'
      BY <1>1, <1>4, <1>13, <2>2 DEF Returned
    <2>4. \A n : Used(list, Self(n))' = Used(list, Self(n)) /\ Limit(n)' = Limit(n)
      BY <1>1 DEF Used, Self, OwnEnds, Limit
    <2>5. Rounds => Rounds'
      BY <1>1, <1>3, <1>13, <2>4 DEF Rounds
    <2> QED BY <2>1, <2>3, <2>5 DEF IInv
  <1>7. phase \in {"sketch", "drawn", "wild"} => Walked'
    BY <1>1, <1>13 DEF IInv, Walked, Whole, Clean, Self
  <1>8. \A k : Placed(k)' = Placed(k)
    BY <1>1, <1>3 DEF Placed
  <1>9. phase = "sketch" => \E k \in DOMAIN tree' : LaidTo(k)'
    <2>1. \A k : LaidTo(k) => LaidTo(k)'
      <3> SUFFICES ASSUME NEW k, LaidTo(k) PROVE LaidTo(k)'
        OBVIOUS
      <3>1. Kids(at)' = Kids(at)
        BY <1>1 DEF Kids
      <3>2. \A y : row'[P(y)'] = row[P(y)] /\ rows'[P(y)'] = rows[P(y)]
        BY <1>1, <1>3
      <3> QED BY <1>1, <1>3, <1>4, <1>8, <3>1, <3>2 DEF LaidTo
    <2> QED BY <1>1, <2>1 DEF IInv
  <1>10. phase = "drawn" => Picture'
    <2>1. Placed(Len(tree))' = Placed(Len(tree)) /\ Height(1)' = Height(1)
      BY <1>1, <1>3 DEF Placed
    <2> QED BY <1>1, <1>3, <2>1 DEF IInv, Picture
  <1>11. NullByHalfLinks'
    <2>1. Part(tree[1].self)' = Part(tree[1].self)
      BY <1>1 DEF Part, Closed
    <2> QED BY <1>1, <1>3, <1>13, <2>1 DEF IInv, NullByHalfLinks, Plain, Self
  <1>12. RowPerLeaf'
    <2>1. {n \in DOMAIN tree : Kids(n) = {}}' = {n \in DOMAIN tree : Kids(n) = {}}
      BY <1>1 DEF Kids
    <2>2. Height(1)' = Height(1)
      BY <1>3
    <2> QED BY <1>1, <1>3, <2>1, <2>2 DEF IInv, RowPerLeaf, Drawn
  <1> QED BY <1>1, <1>2, <1>5, <1>6, <1>7, <1>9, <1>10, <1>11, <1>12 DEF IInv

LEMMA StepIInv == IInv /\ Owned /\ [Next]_vars => IInv'
  <1> SUFFICES ASSUME IInv, Owned, [Next]_vars PROVE IInv'
    OBVIOUS
  <1>1. CASE \E k \in 1..MaxLinks : DestroyLink(k) \/ \E a, b \in Devices : CreateLink(k, a, b)
    BY <1>1, CreateLinkKeeps, DestroyLinkKeeps
  <1>13. CASE \E d \in Devices : \E n \in Counts[d] : Create(d, n)
    BY <1>13, CreateKeeps
  <1>2. CASE \E d \in Devices : DestroyDevice(d)
    BY <1>2, DestroyDeviceKeeps
  <1>3. CASE \E d \in Devices : DestroySwitch(d)
    BY <1>3, DestroySwitchKeeps
  <1>4. CASE \E d \in Devices : Start(d)
    BY <1>4, StartKeeps
  <1>5. CASE CheckLink
    BY <1>5, CheckLinkKeeps
  <1>6. CASE Ascend
    BY <1>6, AscendKeeps
  <1>7. CASE Sketch
    BY <1>7, SketchKeeps
  <1>8. CASE DrawChild
    BY <1>8, DrawChildKeeps
  <1>9. CASE Return
    <2>1. CASE at = 1
      BY <1>9, <2>1, FinishKeeps
    <2>2. CASE at # 1
      BY <1>9, <2>2, ReturnKeeps
    <2> QED BY <2>1, <2>2
  <1>10. CASE RunWild
    BY <1>10, RunWildKeeps
  <1>11. CASE Free
    BY <1>11, FreeKeeps
  <1>12. CASE UNCHANGED vars
    BY <1>12, StutterKeeps
  <1> QED BY <1>1, <1>2, <1>3, <1>4, <1>5, <1>6, <1>7, <1>8, <1>9, <1>10, <1>11, <1>12,
            <1>13 DEF Next

\* The walk and the layout go over the tree in the order it was made in, for any network,
\* numbers of ports and canvas, whatever names have been taken again: check_node and
\* _sketch visit it alike.  Where no device has the name of another one's ports, a call of
\* check_node returns with no link left at its device.
THEOREM TreeInvariant == Spec => []IInv
  <1>1. Init => IInv /\ Owned
    BY InitIInv DEF Init, Owned
  <1>2. IInv /\ Owned /\ [Next]_vars => (IInv /\ Owned)'
    BY StepIInv, StepOwned DEF IInv
  <1> QED BY <1>1, <1>2, PTL DEF Spec

\* The tree, its rounds and the canvas are what they are declared to be, and no device is
\* wired more often than it has ports of its own, whatever is created and destroyed and
\* whatever ports are left under its name.
THEOREM TreeTypes == Spec => []TypeOK
  <1>1. IInv => TypeOK
    BY DEF IInv
  <1> QED BY <1>1, TreeInvariant, PTL

\* The tree command dies on a null pointer only for a link that hangs, anywhere, or for the
\* remains of a destroyed switch in reach whose name is free (check_link, get_node); and it
\* always dies for the former, and for the latter unless a tree node is full, if no switch
\* it comes to has the name of a destroyed one's ports.
THEOREM TreeNull == Spec => []NullByHalfLinks
  <1>1. IInv => NullByHalfLinks
    BY DEF IInv
  <1> QED BY <1>1, TreeInvariant, PTL

\* No edge of the tree that is printed is anything but a link of the part of the network
\* the device is in, or shows one twice, whatever its cycles and whatever names have been
\* taken again: check_link takes a link out of the list when it is found.  And if no device
\* of the part has the name of another one's ports, each of its links is an edge:
\* check_node looks at each device until nothing is left at it.
THEOREM TreeIsExact == Spec => []TreeExact
  BY TreeInvariant, ExactHolds, PTL

\* sketch gives every leaf a row of its own and every node a pixel of its own, and leaves
\* the canvas only for more leaves than rows, a tree deeper than the columns or a full
\* node.
THEOREM RowForEachLeaf == Spec => []RowPerLeaf
  <1>1. IInv => RowPerLeaf
    BY DEF IInv
  <1> QED BY <1>1, TreeInvariant, PTL

\* sketch_render's counting of the children that are left comes out as the bars between
\* the first and the last child of each node.
THEOREM BarsAreBetween == Spec => []BarsJoinSiblings
  BY TreeInvariant, BarsHold, PTL

\* _sketch compares the devices of siblings and not their places, which is the same if no
\* device of the part has the name of another one's ports: check_node has taken every link
\* of a sibling's device out of the list before it goes on to the next.
THEOREM PipesArePlaces == Spec => []PipesByPlace
  BY TreeInvariant, PipesHold, PTL

=============================================================================
