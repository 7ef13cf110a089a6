------------------------------ MODULE Topology ------------------------------
(***************************************************************************)
(* The control plane of NetEmul: composites (physical, host, link, hub,    *)
(* ethernet switch) own an array of components (ports, or the two cables   *)
(* of a link); the manager keeps a name -> composite map and the list of   *)
(* components that network_control scans; links are wired by the in/out    *)
(* pointers of cables and ports.  Every create and destroy command the     *)
(* operator can type is one action, whole.                                 *)
(*                                                                         *)
(* A composite's allocation is a member of Boxes, its i-th component the   *)
(* pair <<box, i>>.  An allocation stays "used" while anything still holds *)
(* a pointer to it, so a dangling pointer is recognised as such.  A run of *)
(* the program ends when it uses freed, null or uninitialised memory:      *)
(* fault says which, and no action is enabled afterwards.                  *)
(***************************************************************************)
EXTENDS Naturals, FiniteSets

CONSTANTS
  Boxes,        \* allocations of composites
  MaxParts,     \* MAX_COMPONENT_COUNT: the most ports a device may have
  MaxNodes,     \* MAX_NODE_COUNT: names of one kind run from 0 to MaxNodes - 1
  DeviceKinds,  \* the kinds of device the operator creates
  PortCounts,   \* the PORT_COUNT arguments the operator gives
  Nil           \* the null pointer

ASSUME CountsAssumption ==
  /\ MaxParts \in Nat /\ MaxParts >= 2
  /\ MaxNodes \in Nat \ {0}
  /\ PortCounts \subseteq 0..MaxParts

ASSUME KindsAssumption ==
  DeviceKinds \subseteq {"physical", "host", "hub", "ether"}

Kinds == DeviceKinds \union {"link"}
Names == Kinds \X (0..(MaxNodes - 1))
Parts == Boxes \X (0..(MaxParts - 1))
Faults == {"none", "freed", "null", "wild"}

ASSUME NilAssumption ==
  /\ Nil \notin Boxes /\ Nil \notin Names /\ Nil \notin Parts
  /\ Nil \notin (Parts \union {Nil}) \X (Parts \union {Nil})

VARIABLES
  registry,     \* manager->nodes
  components,   \* manager->components, as a set
  name,         \* composite->type and name; Nil when the box holds no composite
  count,        \* composite->node_count
  live,         \* the components that are allocated
  in, out,      \* component->in and component->out
  fault         \* what memory the program has misused

vars == <<registry, components, name, count, live, in, out, fault>>

TypeOK ==
  /\ registry \in [Names -> Boxes \union {Nil}]
  /\ components \subseteq Parts
  /\ name \in [Boxes -> Names \union {Nil}]
  /\ count \in [Boxes -> 0..MaxParts]
  /\ live \subseteq Parts
  /\ in \in [Parts -> Parts \union {Nil}]
  /\ out \in [Parts -> Parts \union {Nil}]
  /\ fault \in Faults

Init ==
  /\ registry = [n \in Names |-> Nil]
  /\ components = {}
  /\ name = [b \in Boxes |-> Nil]
  /\ count = [b \in Boxes |-> 0]
  /\ live = {}
  /\ in = [p \in Parts |-> Nil]
  /\ out = [p \in Parts |-> Nil]
  /\ fault = "none"

-----------------------------------------------------------------------------
(* Lookups and allocation *)

\* The first n entries of nodes[] of box b.
NodesOf(b, n) == {p \in Parts : p[1] = b /\ p[2] < n}

Tracked(b) == \E n \in Names : registry[n] = b

\* What get_node finds under "name.index".
Addressable(p) == Tracked(p[1]) /\ p[2] < count[p[1]]

\* malloc may return b: it holds nothing and nothing points into it.
Fresh(b) ==
  /\ name[b] = Nil
  /\ \A p \in Parts : p[1] = b =>
       /\ p \notin live \union components
       /\ \A q \in Parts : in[q] # p /\ out[q] # p

\* Variant: the loop does not ask get_node whether the name is taken.
FirstNameUnasked(k, n) == n = <<k, 0>>

\* The name the creation loop settles on: the first that get_node does not find.
FirstName(k, n) ==
  /\ n \in Names /\ n[1] = k /\ registry[n] = Nil
  /\ \A m \in Names : m[1] = k /\ m[2] < n[2] => registry[m] # Nil

\* The loop ends without finding one, and leaves the last name it tried.
NamesExhausted(k) == \A n \in Names : n[1] = k => registry[n] # Nil
LastName(k) == <<k, MaxNodes - 1>>

PortChoices(k) == IF k = "physical" THEN {1} ELSE PortCounts

-----------------------------------------------------------------------------
(* The pieces the commands are made of *)

Crash(how) ==
  /\ fault' = how
  /\ UNCHANGED <<registry, components, name, count, live, in, out>>

\* Variant: node_register stops one component short.
RegisterShort(b, nm, n) ==
  /\ registry' = [registry EXCEPT ![nm] = b]
  /\ components' = components \union {p \in NodesOf(b, n) : p[2] + 1 < n}
  /\ name' = [name EXCEPT ![b] = nm]
  /\ count' = [count EXCEPT ![b] = n]
  /\ live' = live \union NodesOf(b, n)

\* composite_inherit and node_register.
Register(b, nm, n) ==
  /\ registry' = [registry EXCEPT ![nm] = b]
  /\ components' = components \union NodesOf(b, n)
  /\ name' = [name EXCEPT ![b] = nm]
  /\ count' = [count EXCEPT ![b] = n]
  /\ live' = live \union NodesOf(b, n)

\* Variant: node_unregister forgets the map.
UnregisterComponentsOnly(nm) ==
  /\ UNCHANGED registry
  /\ components' = components \ NodesOf(registry[nm], count[registry[nm]])

\* node_unregister: whatever composite is found under the name.
Unregister(nm) ==
  /\ registry' = [registry EXCEPT ![nm] = Nil]
  /\ components' = components \ NodesOf(registry[nm], count[registry[nm]])

\* Variants: the two "in" assignments of the cables are swapped; cable0 is
\* chained to cable1.
ConnectSwapped(b, s, d) ==
  /\ out' = [out EXCEPT ![s] = <<b, 0>>, ![d] = <<b, 1>>,
                        ![<<b, 0>>] = d, ![<<b, 1>>] = s]
  /\ in' = [in EXCEPT ![s] = <<b, 1>>, ![d] = <<b, 0>>,
                      ![<<b, 0>>] = d, ![<<b, 1>>] = s]

ConnectChained(b, s, d) ==
  /\ out' = [out EXCEPT ![s] = <<b, 0>>, ![d] = <<b, 1>>,
                        ![<<b, 0>>] = <<b, 1>>, ![<<b, 1>>] = s]
  /\ in' = [in EXCEPT ![s] = <<b, 1>>, ![d] = <<b, 0>>,
                      ![<<b, 0>>] = s, ![<<b, 1>>] = d]

\* connect_cable, in the order of its assignments: the later one wins.
Connect(b, s, d) ==
  /\ out' = [out EXCEPT ![s] = <<b, 0>>, ![d] = <<b, 1>>,
                        ![<<b, 0>>] = d, ![<<b, 1>>] = s]
  /\ in' = [in EXCEPT ![s] = <<b, 1>>, ![d] = <<b, 0>>,
                      ![<<b, 0>>] = s, ![<<b, 1>>] = d]

\* The destroy method of every component of D: it may only touch live memory,
\* then clears what its neighbours hold of it.  No component of D points at
\* another one (OwnersApart), so the order does not matter.
MayTouch(D) ==
  \A p \in D : p \in live /\ {in[p], out[p]} \subseteq live \union {Nil}

\* Variants: "src->out = NULL" or "dst->in = NULL" is missing; both pointers of
\* a neighbour are cleared.
SeverTargetOnly(D) ==
  /\ out' = [p \in Parts |-> IF p \in D THEN Nil ELSE out[p]]
  /\ in' = [p \in Parts |->
               IF p \in D \/ \E q \in D : out[q] = p THEN Nil ELSE in[p]]

SeverSourceOnly(D) ==
  /\ out' = [p \in Parts |->
               IF p \in D \/ \E q \in D : in[q] = p THEN Nil ELSE out[p]]
  /\ in' = [p \in Parts |-> IF p \in D THEN Nil ELSE in[p]]

SeverNeighbours(D) ==
  LET gone == D \union {p \in Parts : \E q \in D : p \in {in[q], out[q]}} IN
  /\ out' = [p \in Parts |-> IF p \in gone THEN Nil ELSE out[p]]
  /\ in' = [p \in Parts |-> IF p \in gone THEN Nil ELSE in[p]]

Sever(D) ==
  /\ out' = [p \in Parts |->
               IF p \in D \/ \E q \in D : in[q] = p THEN Nil ELSE out[p]]
  /\ in' = [p \in Parts |->
               IF p \in D \/ \E q \in D : out[q] = p THEN Nil ELSE in[p]]

-----------------------------------------------------------------------------
(* create *)

CreateDevice(b, k, n) ==
  /\ fault = "none"
  /\ n \in PortChoices(k)
  /\ Fresh(b)
  /\ \E nm \in Names : FirstName(k, nm) /\ Register(b, nm, n)
  /\ UNCHANGED <<in, out, fault>>

\* No name is left: the new device is destroyed under the last name tried,
\* which unregisters the device that owns that name.  A host's ports have no
\* network interface yet and port_detach follows an uninitialised pointer; the
\* ports of an ethernet switch are never destroyed.
CreateDeviceNoName(b, k, n) ==
  /\ fault = "none"
  /\ n \in PortChoices(k)
  /\ Fresh(b)
  /\ NamesExhausted(k)
  /\ IF k = "host" /\ n > 0
       THEN Crash("wild")
       ELSE /\ Unregister(LastName(k))
            /\ live' = IF k = "ether" THEN live \union NodesOf(b, n) ELSE live
            /\ UNCHANGED <<name, count, in, out, fault>>

\* A count of 2^31 or more is negative as an int: it passes the check against
\* MAX_COMPONENT_COUNT, malloc refuses it, and the destroy that follows looks up
\* the empty name and uses the null it gets.
CreateDeviceWrapped(k) ==
  /\ fault = "none"
  /\ k # "physical"
  /\ Crash("null")

\* is_available: a composite offers its first component without "in", a
\* component offers itself if it has no "out".
\* Variant: a composite offers its first component, connected or not.
OpenByNodeFirst(p) == p[2] = 0

OpenByNode(p) ==
  /\ in[p] = Nil
  /\ \A q \in NodesOf(p[1], p[2]) : in[q] # Nil

OpenByPort(p) == out[p] = Nil

OpenEnd(p) == Addressable(p) /\ (OpenByNode(p) \/ OpenByPort(p))

CreateLink(b, s, d) ==
  /\ fault = "none"
  /\ OpenEnd(s) /\ OpenEnd(d)
  /\ Fresh(b)
  /\ \E nm \in Names :
       /\ FirstName("link", nm)
       /\ IF {s, d} \subseteq live
            THEN Connect(b, s, d) /\ Register(b, nm, 2) /\ UNCHANGED fault
            ELSE Crash("freed")

\* No name is left: the new link is wired, then destroyed under another's name.
CreateLinkNoName(b, s, d) ==
  /\ fault = "none"
  /\ OpenEnd(s) /\ OpenEnd(d)
  /\ Fresh(b)
  /\ NamesExhausted("link")
  /\ IF {s, d} \subseteq live
       THEN /\ Unregister(LastName("link"))
            /\ out' = [out EXCEPT ![s] = Nil, ![d] = Nil]
            /\ in' = [in EXCEPT ![s] = Nil, ![d] = Nil]
            /\ UNCHANGED <<name, count, live, fault>>
       ELSE Crash("freed")

-----------------------------------------------------------------------------
(* destroy *)

\* A physical, a host, a hub or a link.
DestroyComposite(b) ==
  LET D == NodesOf(b, count[b]) IN
  /\ fault = "none"
  /\ Tracked(b)
  /\ name[b][1] # "ether"
  /\ IF MayTouch(D)
       THEN /\ Unregister(name[b])
            /\ Sever(D)
            /\ live' = live \ D
            /\ name' = [name EXCEPT ![b] = Nil]
            /\ count' = [count EXCEPT ![b] = 0]
            /\ UNCHANGED fault
       ELSE Crash("freed")

\* Variant: node_unregister is not called.
DestroyEtherNamed(b) ==
  /\ fault = "none"
  /\ Tracked(b)
  /\ name[b][1] = "ether"
  /\ name' = [name EXCEPT ![b] = Nil]
  /\ count' = [count EXCEPT ![b] = 0]
  /\ UNCHANGED <<registry, components, live, in, out, fault>>

\* An ethernet switch: its test of nodes[] is inverted and the ports stay.
DestroyEther(b) ==
  /\ fault = "none"
  /\ Tracked(b)
  /\ name[b][1] = "ether"
  /\ Unregister(name[b])
  /\ name' = [name EXCEPT ![b] = Nil]
  /\ count' = [count EXCEPT ![b] = 0]
  /\ UNCHANGED <<live, in, out, fault>>

\* The owner counts one component less.  Variants: twice, or not at all.
CountDownTwice(b) == count' = [count EXCEPT ![b] = @ - 2]
CountKept(b) == b \in Boxes /\ UNCHANGED count
CountDown(b) == count' = [count EXCEPT ![b] = @ - 1]

\* A single component, by "name.index"; the manager is not told.  A port whose
\* interface fails to read is destroyed this way too.
DestroyPart(p) ==
  /\ fault = "none"
  /\ Addressable(p)
  /\ IF MayTouch({p})
       THEN /\ Sever({p})
            /\ live' = live \ {p}
            /\ CountDown(p[1])
            /\ UNCHANGED <<registry, components, name, fault>>
       ELSE Crash("freed")

-----------------------------------------------------------------------------
(* The main loop: network_control pops the queue of every component in turn. *)

ScanComponents ==
  /\ fault = "none"
  /\ ~ components \subseteq live
  /\ Crash("freed")

-----------------------------------------------------------------------------
(* Next is all the program accepts.  DNext is what a careful operator types: *)
(* devices while a name is free, links between two different open device     *)
(* ports, destruction of whole nodes, and ethernet switches are kept.        *)

IsDevicePort(p) == name[p[1]][1] # "link"

DCreateDevice == \E b \in Boxes, k \in DeviceKinds, n \in 0..MaxParts :
                    CreateDevice(b, k, n)
DCreateLink == \E b \in Boxes, s, d \in Parts :
                  /\ s # d
                  /\ CreateLink(b, s, d)
                  /\ IsDevicePort(s) /\ IsDevicePort(d)
DDestroy == \E b \in Boxes : DestroyComposite(b)

DNext == DCreateDevice \/ DCreateLink \/ DDestroy \/ ScanComponents

Next ==
  \/ DCreateDevice
  \/ \E b \in Boxes, k \in DeviceKinds, n \in 0..MaxParts :
        CreateDeviceNoName(b, k, n)
  \/ \E k \in DeviceKinds : CreateDeviceWrapped(k)
  \/ \E b \in Boxes, s, d \in Parts : CreateLink(b, s, d)
  \/ \E b \in Boxes, s, d \in Parts : CreateLinkNoName(b, s, d)
  \/ DDestroy
  \/ \E b \in Boxes : DestroyEther(b)
  \/ \E p \in Parts : DestroyPart(p)
  \/ ScanComponents

Spec == Init /\ [][Next]_vars
DSpec == Init /\ [][DNext]_vars

-----------------------------------------------------------------------------
(* What holds for the careful operator (DSpec) *)

Links == {b \in Boxes : name[b] # Nil /\ name[b][1] = "link"}

\* Every pointer has its partner: p sends into q exactly when q receives from p,
\* whichever of the two ends was created, re-wired or destroyed last
\* (connect_cable, component destroy).
WiringSymmetric ==
  \A p, q \in Parts : out[p] = q <=> in[q] = p

\* The drawing above connect_cable: the two cables of a link carry opposite
\* directions between the same two ends, even after one end is destroyed.
FullDuplex ==
  \A b \in Links :
    /\ in[<<b, 0>>] = out[<<b, 1>>]
    /\ out[<<b, 0>>] = in[<<b, 1>>]

\* Pointers join allocated components, a cable with a device port.
PointersLive ==
  LET L == Links IN
  \A p \in Parts : out[p] # Nil =>
    /\ p \in live /\ out[p] \in live
    /\ p[1] \in L <=> out[p][1] \notin L

\* network_control scans exactly the components that are allocated, and those
\* are exactly the parts of the composites that exist: no command leaves a freed
\* component in manager->components or an unscanned one in a composite.
ComponentsExact ==
  /\ components = live
  /\ live = {p \in Parts : name[p[1]] # Nil /\ p[2] < count[p[1]]}

\* A name finds the composite that carries it, and every composite is found:
\* names are never shared and never lost (node_register, node_unregister).
RegistryExact ==
  \A n \in Names, b \in Boxes : registry[n] = b <=> name[b] = n

LinksHaveTwoCables ==
  \A b \in Links : count[b] = 2

\* The program never touches freed, null or uninitialised memory on behalf of
\* a create, a destroy or a scan of the components.
NoFault == fault = "none"

\* A component that is connected is never re-pointed at another one: create
\* link only takes free ends (is_available), so a wire is dropped before a new
\* one replaces it.
NoRepatch ==
  [][\A p \in Parts :
       /\ out[p] # Nil => out'[p] \in {out[p], Nil}
       /\ in[p] # Nil => in'[p] \in {in[p], Nil}]_vars

\* All of the above in one inductive invariant.
IInv ==
  /\ TypeOK
  /\ NoFault
  /\ RegistryExact
  /\ ComponentsExact
  /\ LinksHaveTwoCables
  /\ WiringSymmetric
  /\ PointersLive
  /\ FullDuplex

\* The pointers implement a patch panel whose jacks are the device ports and
\* whose cords are the links.
Panel == INSTANCE Patching WITH
  Jacks <- Parts, Cords <- Boxes, Loose <- Nil,
  jacks <- LET L == Links IN {p \in live : p[1] \notin L},
  cord <- LET L == Links IN
          [b \in Boxes |->
             IF b \in L THEN <<in[<<b, 0>>], out[<<b, 0>>]>> ELSE Nil]

ImplementsPanel == Panel!Panel

-----------------------------------------------------------------------------
(* What still holds whatever the operator types (Spec), and a claim the code *)
(* does not keep (NothingOrphaned).                                          *)

\* A name never leads to a composite that was freed or renamed, although
\* destroy unregisters by name and not by the node itself.
RegistryLive ==
  \A n \in Names : registry[n] # Nil => name[registry[n]] = n

\* node_count of a composite the operator can name is the number of its
\* components that are still allocated.
CountMatchesLive ==
  \A b \in Boxes : Tracked(b) =>
    count[b] = Cardinality({p \in live : p[1] = b})

\* Every allocated component of such a composite is scanned by network_control.
ScanComplete ==
  \A p \in live : Tracked(p[1]) => p \in components

\* No component outlives the composite that owns it.
NothingOrphaned == \A p \in live : name[p[1]] # Nil

\* Components of one composite never point at each other, which is what makes
\* the order in which a composite destroys them irrelevant.
OwnersApart ==
  \A p \in Parts :
    /\ in[p] # Nil => in[p][1] # p[1]
    /\ out[p] # Nil => out[p][1] # p[1]

=============================================================================
