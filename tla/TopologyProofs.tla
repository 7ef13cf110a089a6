--------------------------- MODULE TopologyProofs ---------------------------
(***************************************************************************)
(* The careful operator's network is always wired correctly: proofs, for   *)
(* every number of boxes, ports and names, that IInv is an invariant of    *)
(* DSpec, and what follows from it.  The second part is about Spec, where  *)
(* the operator types whatever the program accepts: it keeps less, AInv.   *)
(***************************************************************************)
EXTENDS Topology, FiniteSetTheorems, TLAPS

-----------------------------------------------------------------------------
(* Facts about parts and pointers *)

LEMMA PartShape ==
  ASSUME NEW p \in Parts
  PROVE  /\ p[1] \in Boxes
         /\ p[2] \in 0..(MaxParts - 1)
         /\ p = <<p[1], p[2]>>
  BY DEF Parts

LEMMA TwoCables ==
  ASSUME NEW b \in Boxes
  PROVE  /\ <<b, 0>> \in Parts /\ <<b, 1>> \in Parts
         /\ <<b, 0>> # <<b, 1>>
         /\ <<b, 0>>[1] = b /\ <<b, 1>>[1] = b
         /\ <<b, 0>>[2] = 0 /\ <<b, 1>>[2] = 1
  BY CountsAssumption DEF Parts

LEMMA NodesAreParts ==
  ASSUME NEW b, NEW n
  PROVE  NodesOf(b, n) \subseteq Parts
  BY DEF NodesOf

\* A pointer is Nil or a part, and with symmetric wiring each pointer's target
\* points back.
LEMMA Partner ==
  ASSUME TypeOK, WiringSymmetric, NEW p \in Parts
  PROVE  /\ out[p] # Nil => out[p] \in Parts /\ in[out[p]] = p
         /\ in[p] # Nil => in[p] \in Parts /\ out[in[p]] = p
  BY DEF TypeOK, WiringSymmetric

\* With symmetric wiring, destroying D clears exactly the pointers of D and the
\* pointers into D.
LEMMA SeverClears ==
  ASSUME TypeOK, WiringSymmetric, NEW D \in SUBSET Parts, Sever(D)
  PROVE  \A p \in Parts :
           /\ out'[p] = IF p \in D \/ out[p] \in D THEN Nil ELSE out[p]
           /\ in'[p] = IF p \in D \/ in[p] \in D THEN Nil ELSE in[p]
  <1> TAKE p \in Parts
  <1>1. (\E q \in D : in[q] = p) <=> out[p] \in D
    BY DEF WiringSymmetric
  <1>2. (\E q \in D : out[q] = p) <=> in[p] \in D
    BY DEF WiringSymmetric
  <1> QED BY <1>1, <1>2 DEF Sever

-----------------------------------------------------------------------------
(* IInv holds initially *)

LEMMA InitIInv == Init => IInv
  <1> SUFFICES ASSUME Init PROVE IInv
    OBVIOUS
  <1> USE DEF Init
  <1>1. TypeOK
    BY CountsAssumption DEF TypeOK, Faults
  <1>2. NoFault
    BY DEF NoFault
  <1>3. RegistryExact
    BY NilAssumption DEF RegistryExact
  <1>4. ComponentsExact
    BY PartShape DEF ComponentsExact
  <1>5. Links = {}
    BY DEF Links
  <1>6. LinksHaveTwoCables /\ FullDuplex
    BY <1>5 DEF LinksHaveTwoCables, FullDuplex
  <1>7. WiringSymmetric /\ PointersLive
    BY NilAssumption DEF WiringSymmetric, PointersLive
  <1> QED BY <1>1, <1>2, <1>3, <1>4, <1>6, <1>7 DEF IInv

-----------------------------------------------------------------------------
(* Each command of the careful operator keeps IInv *)

\* Registering a fresh box under a free name keeps the registry exact and the
\* components those of the existing composites.
LEMMA RegisterKeeps ==
  ASSUME IInv, NEW b \in Boxes, NEW nm \in Names, NEW n \in 0..MaxParts,
         Fresh(b), registry[nm] = Nil, Register(b, nm, n)
  PROVE  /\ registry' \in [Names -> Boxes \union {Nil}]
         /\ components' \subseteq Parts
         /\ name' \in [Boxes -> Names \union {Nil}]
         /\ count' \in [Boxes -> 0..MaxParts]
         /\ live' \subseteq Parts
         /\ RegistryExact' /\ ComponentsExact'
  <1> USE DEF IInv, TypeOK, Register
  <1>1. name[b] = Nil
    BY DEF Fresh
  <1>2. NodesOf(b, n) \subseteq Parts
    BY NodesAreParts
  <1>3. RegistryExact'
    BY <1>1, NilAssumption DEF RegistryExact
  <1>4. components' = live'
    BY DEF ComponentsExact
  <1>5. ASSUME NEW p \in Parts
        PROVE  p \in live' <=> name'[p[1]] # Nil /\ p[2] < count'[p[1]]
    <2>1. CASE p[1] = b
      <3>1. p \notin live
        BY <2>1 DEF Fresh
      <3>2. p \in live' <=> p[2] < n
        BY <2>1, <3>1 DEF NodesOf
      <3>3. name'[b] = nm /\ count'[b] = n /\ nm # Nil
        BY NilAssumption
      <3> QED BY <2>1, <3>2, <3>3
    <2>2. CASE p[1] # b
      <3>1. p \in live' <=> p \in live
        BY <2>2 DEF NodesOf
      <3>2. name'[p[1]] = name[p[1]] /\ count'[p[1]] = count[p[1]]
        BY <2>2, PartShape
      <3> QED BY <3>1, <3>2 DEF ComponentsExact
    <2> QED BY <2>1, <2>2
  <1>6. ComponentsExact'
    BY <1>2, <1>4, <1>5 DEF ComponentsExact
  <1> QED BY <1>2, <1>3, <1>6

LEMMA CreateDeviceKeeps ==
  ASSUME IInv, NEW b \in Boxes, NEW k \in DeviceKinds, NEW n \in 0..MaxParts,
         CreateDevice(b, k, n)
  PROVE  IInv'
  <1> USE DEF IInv, CreateDevice
  <1>1. PICK nm \in Names : FirstName(k, nm) /\ Register(b, nm, n)
    OBVIOUS
  <1>2. registry[nm] = Nil /\ nm[1] # "link" /\ name[b] = Nil
    BY <1>1, KindsAssumption DEF FirstName, Fresh
  <1>3. TypeOK' /\ RegistryExact' /\ ComponentsExact'
    <2>1. Fresh(b)
      OBVIOUS
    <2> QED BY <1>1, <1>2, <2>1, RegisterKeeps DEF TypeOK
  <1>4. Links' = Links
    BY <1>1, <1>2 DEF TypeOK, Links, Register
  <1>5. \A c \in Links : count'[c] = count[c]
    BY <1>1, <1>2 DEF TypeOK, Links, Register
  <1>6. LinksHaveTwoCables'
    BY <1>4, <1>5 DEF LinksHaveTwoCables
  <1>7. WiringSymmetric' /\ NoFault'
    BY DEF WiringSymmetric, NoFault
  <1>8. FullDuplex'
    BY <1>4 DEF FullDuplex
  <1>9. PointersLive'
    <2>1. live \subseteq live'
      BY <1>1 DEF Register
    <2>2. ASSUME NEW p \in Parts, out[p] # Nil
          PROVE  /\ p[1] \in Boxes /\ out[p][1] \in Boxes
      BY <2>2, PartShape DEF TypeOK
    <2> QED BY <1>4, <2>1, <2>2 DEF PointersLive
  <1> QED BY <1>3, <1>6, <1>7, <1>8, <1>9

\* A device port is connected both ways or not at all.
LEMMA BothOrNeither ==
  ASSUME IInv, NEW p \in Parts, p[1] \notin Links
  PROVE  out[p] = Nil <=> in[p] = Nil
  <1> USE DEF IInv
  <1>1. ASSUME NEW q \in live, q[1] \in Links
        PROVE  /\ q[1] \in Boxes
               /\ q = <<q[1], 0>> \/ q = <<q[1], 1>>
    <2>1. q \in Parts
      BY DEF TypeOK
    <2>2. q[2] < 2
      BY <1>1, <2>1, PartShape DEF ComponentsExact, LinksHaveTwoCables
    <2>3. q[2] = 0 \/ q[2] = 1
      BY <2>1, <2>2, PartShape, CountsAssumption
    <2> QED BY <2>1, <2>3, PartShape
  <1>2. ASSUME out[p] # Nil PROVE in[p] # Nil
    <2> DEFINE q == out[p]
    <2>1. q \in live /\ q[1] \in Links /\ q \in Parts /\ in[q] = p
      BY <1>2, Partner DEF PointersLive
    <2>2. PICK l \in Boxes : l \in Links /\ (q = <<l, 0>> \/ q = <<l, 1>>)
      BY <1>1, <2>1
    <2>3. out[<<l, 0>>] = p \/ out[<<l, 1>>] = p
      BY <2>1, <2>2 DEF FullDuplex
    <2>4. in[p] = <<l, 0>> \/ in[p] = <<l, 1>>
      BY <2>3, TwoCables DEF WiringSymmetric
    <2> QED BY <2>4, TwoCables, NilAssumption
  <1>3. ASSUME in[p] # Nil PROVE out[p] # Nil
    <2> DEFINE q == in[p]
    <2>1. q \in Parts /\ out[q] = p /\ p # Nil
      BY <1>3, Partner, NilAssumption
    <2>2. q \in live /\ q[1] \in Links
      BY <2>1 DEF PointersLive
    <2>3. PICK l \in Boxes : l \in Links /\ (q = <<l, 0>> \/ q = <<l, 1>>)
      BY <1>1, <2>2
    <2>4. in[<<l, 0>>] = p \/ in[<<l, 1>>] = p
      BY <2>1, <2>3 DEF FullDuplex
    <2>5. out[p] = <<l, 0>> \/ out[p] = <<l, 1>>
      BY <2>4, TwoCables DEF WiringSymmetric
    <2> QED BY <2>5, TwoCables, NilAssumption
  <1> QED BY <1>2, <1>3

\* What create link takes as an end on a device is allocated and free both ways.
LEMMA OpenEndIsFree ==
  ASSUME IInv, NEW p \in Parts, OpenEnd(p), IsDevicePort(p)
  PROVE  p \in live /\ p[1] \notin Links /\ out[p] = Nil /\ in[p] = Nil
  <1> USE DEF IInv
  <1>1. name[p[1]] # Nil
    BY PartShape, NilAssumption DEF OpenEnd, Addressable, Tracked, RegistryExact
  <1>2. p \in live
    BY <1>1 DEF OpenEnd, Addressable, ComponentsExact
  <1>3. p[1] \notin Links
    BY DEF IsDevicePort, Links
  <1> QED BY <1>2, <1>3, BothOrNeither DEF OpenEnd, OpenByNode, OpenByPort

\* Nothing points at the cables of a fresh box, and they point nowhere.
LEMMA FreshUnwired ==
  ASSUME IInv, NEW b \in Boxes, Fresh(b), NEW p \in Parts, p[1] = b
  PROVE  p \notin live /\ out[p] = Nil /\ in[p] = Nil
  <1>1. p \notin live /\ \A q \in Parts : out[q] # p
    BY DEF Fresh
  <1>2. out[p] = Nil
    BY <1>1 DEF IInv, PointersLive
  <1>3. in[p] = Nil
    BY <1>1, Partner DEF IInv
  <1> QED BY <1>1, <1>2, <1>3

LEMMA CreateLinkKeeps ==
  ASSUME IInv, NEW b \in Boxes, NEW s \in Parts, NEW d \in Parts, s # d,
         CreateLink(b, s, d), IsDevicePort(s), IsDevicePort(d)
  PROVE  IInv'
  <1> USE DEF IInv
  <1> DEFINE c0 == <<b, 0>>
             c1 == <<b, 1>>
  <1>1. /\ s \in live /\ s[1] \notin Links /\ out[s] = Nil /\ in[s] = Nil
        /\ d \in live /\ d[1] \notin Links /\ out[d] = Nil /\ in[d] = Nil
    BY OpenEndIsFree DEF CreateLink
  <1>2. Fresh(b) /\ name[b] = Nil
    BY DEF CreateLink, Fresh
  <1>3. PICK nm \in Names : /\ FirstName("link", nm)
                            /\ Connect(b, s, d)
                            /\ Register(b, nm, 2)
                            /\ UNCHANGED fault
    BY <1>1 DEF CreateLink
  <1>4. registry[nm] = Nil /\ nm[1] = "link"
    BY <1>3 DEF FirstName
  <1>5. /\ c0 \in Parts /\ c1 \in Parts /\ c0 # c1
        /\ out[c0] = Nil /\ in[c0] = Nil /\ out[c1] = Nil /\ in[c1] = Nil
        /\ c0 # s /\ c0 # d /\ c1 # s /\ c1 # d
    BY <1>1, <1>2, TwoCables, FreshUnwired
  <1>6. \A p \in Parts :
          /\ out'[p] = IF p = s THEN c0 ELSE IF p = d THEN c1
                       ELSE IF p = c0 THEN d ELSE IF p = c1 THEN s ELSE out[p]
          /\ in'[p] = IF p = s THEN c1 ELSE IF p = d THEN c0
                      ELSE IF p = c0 THEN s ELSE IF p = c1 THEN d ELSE in[p]
    BY <1>3, <1>5 DEF Connect, TypeOK
  <1>7. TypeOK' /\ RegistryExact' /\ ComponentsExact' /\ NoFault'
    <2>1. 2 \in 0..MaxParts
      BY CountsAssumption
    <2>2. /\ registry' \in [Names -> Boxes \union {Nil}]
          /\ components' \subseteq Parts
          /\ name' \in [Boxes -> Names \union {Nil}]
          /\ count' \in [Boxes -> 0..MaxParts]
          /\ live' \subseteq Parts
          /\ RegistryExact' /\ ComponentsExact'
      BY <1>2, <1>3, <1>4, <2>1, RegisterKeeps
    <2>3. /\ out' \in [Parts -> Parts \union {Nil}]
          /\ in' \in [Parts -> Parts \union {Nil}]
      BY <1>3, <1>5 DEF Connect, TypeOK
    <2>4. fault' = "none"
      BY <1>3 DEF NoFault
    <2> QED BY <2>2, <2>3, <2>4 DEF TypeOK, Faults, NoFault
  <1>8. Links' = Links \union {b}
    BY <1>2, <1>3, <1>4, NilAssumption DEF TypeOK, Links, Register
  <1>9. LinksHaveTwoCables'
    BY <1>2, <1>3, <1>8 DEF TypeOK, LinksHaveTwoCables, Register
  <1>10. WiringSymmetric'
    BY <1>1, <1>5, <1>6, NilAssumption DEF WiringSymmetric
  <1>11. FullDuplex'
    <2> SUFFICES ASSUME NEW c \in Links'
                 PROVE  /\ in'[<<c, 0>>] = out'[<<c, 1>>]
                        /\ out'[<<c, 0>>] = in'[<<c, 1>>]
      BY DEF FullDuplex
    <2>1. CASE c = b
      BY <1>5, <1>6, <2>1
    <2>2. CASE c # b
      <3>1. c \in Links /\ c \in Boxes
        BY <1>8, <2>2 DEF Links
      <3>2. ASSUME NEW p \in Parts, p[1] = c
            PROVE  out'[p] = out[p] /\ in'[p] = in[p]
        BY <1>1, <1>6, <2>2, <3>1, <3>2, TwoCables
      <3>3. /\ out'[<<c, 0>>] = out[<<c, 0>>] /\ in'[<<c, 0>>] = in[<<c, 0>>]
            /\ out'[<<c, 1>>] = out[<<c, 1>>] /\ in'[<<c, 1>>] = in[<<c, 1>>]
        BY <3>1, <3>2, TwoCables
      <3> QED BY <3>1, <3>3 DEF FullDuplex
    <2> QED BY <2>1, <2>2
  <1>12. PointersLive'
    <2>1. live' = live \union NodesOf(b, 2)
      BY <1>3 DEF Register
    <2>2. c0 \in live' /\ c1 \in live'
      BY <1>5, <2>1 DEF NodesOf
    <2>3. s[1] \notin Links' /\ d[1] \notin Links' /\ b \in Links'
      BY <1>1, <1>2, <1>5, <1>8, PartShape, FreshUnwired
    <2> SUFFICES ASSUME NEW p \in Parts, out'[p] # Nil
                 PROVE  /\ p \in live' /\ out'[p] \in live'
                        /\ (p[1] \in Links' <=> out'[p][1] \notin Links')
      BY DEF PointersLive
    <2>4. CASE p \in {s, d, c0, c1}
      BY <1>1, <1>5, <1>6, <2>1, <2>2, <2>3, <2>4
    <2>5. CASE p \notin {s, d, c0, c1}
      <3>1. out'[p] = out[p]
        BY <1>6, <2>5
      <3>2. p \in live /\ out[p] \in live /\ (p[1] \in Links <=> out[p][1] \notin Links)
        BY <3>1 DEF PointersLive
      <3>3. p[1] \in Boxes \ {b} /\ out[p][1] \in Boxes \ {b}
        BY <1>2, <3>2, PartShape, FreshUnwired DEF TypeOK
      <3> QED BY <1>8, <2>1, <3>1, <3>2, <3>3
    <2> QED BY <2>4, <2>5
  <1> QED BY <1>7, <1>9, <1>10, <1>11, <1>12

\* The nodes a composite destroys are its allocated components, and touching
\* them and their neighbours is safe.
LEMMA DestroyIsSafe ==
  ASSUME IInv, NEW b \in Boxes, Tracked(b)
  PROVE  /\ name[b] \in Names /\ registry[name[b]] = b
         /\ NodesOf(b, count[b]) = {p \in live : p[1] = b}
         /\ MayTouch(NodesOf(b, count[b]))
  <1> USE DEF IInv
  <1> DEFINE D == NodesOf(b, count[b])
  <1>1. name[b] \in Names /\ registry[name[b]] = b
    BY DEF Tracked, RegistryExact
  <1>2. D = {p \in live : p[1] = b}
    BY <1>1, NilAssumption DEF ComponentsExact, NodesOf, TypeOK
  <1>3. ASSUME NEW p \in D
        PROVE  p \in live /\ {in[p], out[p]} \subseteq live \union {Nil}
    <2>1. p \in live /\ p \in Parts
      BY <1>2 DEF TypeOK
    <2>2. out[p] \in live \union {Nil}
      BY <2>1 DEF PointersLive
    <2>3. CASE in[p] = Nil
      BY <2>1, <2>2, <2>3
    <2>4. CASE in[p] # Nil
      <3>1. in[p] \in Parts /\ out[in[p]] = p /\ p # Nil
        BY <2>1, <2>4, Partner, NilAssumption
      <3>2. in[p] \in live
        BY <3>1 DEF PointersLive
      <3> QED BY <2>1, <2>2, <3>2
    <2> QED BY <2>3, <2>4
  <1> QED BY <1>1, <1>2, <1>3 DEF MayTouch

LEMMA DestroyCompositeKeeps ==
  ASSUME IInv, NEW b \in Boxes, DestroyComposite(b)
  PROVE  IInv'
  <1> USE DEF IInv
  <1> DEFINE D == NodesOf(b, count[b])
  <1>1. Tracked(b)
    BY DEF DestroyComposite
  <1>2. /\ name[b] \in Names /\ registry[name[b]] = b
        /\ D = {p \in live : p[1] = b} /\ MayTouch(D)
    BY <1>1, DestroyIsSafe
  <1> HIDE DEF D
  <1>3. /\ registry' = [registry EXCEPT ![name[b]] = Nil]
        /\ components' = components \ D
        /\ Sever(D)
        /\ live' = live \ D
        /\ name' = [name EXCEPT ![b] = Nil]
        /\ count' = [count EXCEPT ![b] = 0]
        /\ fault' = fault
    BY <1>2 DEF DestroyComposite, Unregister, D
  <1>4. D \in SUBSET Parts
    BY <1>2 DEF TypeOK
  <1>5. \A p \in Parts :
          /\ out'[p] = IF p \in D \/ out[p] \in D THEN Nil ELSE out[p]
          /\ in'[p] = IF p \in D \/ in[p] \in D THEN Nil ELSE in[p]
    BY <1>3, <1>4, SeverClears
  <1>6. TypeOK'
    <2>1. 0 \in 0..MaxParts
      BY CountsAssumption
    <2>2. /\ out' \in [Parts -> Parts \union {Nil}]
          /\ in' \in [Parts -> Parts \union {Nil}]
      BY <1>3 DEF Sever, TypeOK
    <2> QED BY <1>3, <2>1, <2>2 DEF TypeOK
  <1>7. RegistryExact'
    BY <1>2, <1>3, NilAssumption DEF RegistryExact, TypeOK
  <1>8. ComponentsExact'
    <2>1. ASSUME NEW p \in Parts
          PROVE  p \in live' <=> name'[p[1]] # Nil /\ p[2] < count'[p[1]]
      BY <1>2, <1>3, PartShape DEF ComponentsExact, TypeOK
    <2> QED BY <1>3, <2>1 DEF ComponentsExact, TypeOK
  <1>9. Links' = Links \ {b}
    BY <1>3 DEF Links, TypeOK
  <1>10. LinksHaveTwoCables' /\ NoFault'
    BY <1>3, <1>9 DEF LinksHaveTwoCables, NoFault, TypeOK, Links
  <1>11. WiringSymmetric'
    BY <1>4, <1>5, NilAssumption DEF WiringSymmetric
  <1>12. FullDuplex'
    <2> SUFFICES ASSUME NEW c \in Links'
                 PROVE  /\ in'[<<c, 0>>] = out'[<<c, 1>>]
                        /\ out'[<<c, 0>>] = in'[<<c, 1>>]
      BY DEF FullDuplex
    <2>1. c \in Links /\ c \in Boxes /\ c # b
      BY <1>9 DEF Links
    <2>2. /\ <<c, 0>> \in Parts \ D /\ <<c, 1>> \in Parts \ D
      BY <1>2, <2>1, TwoCables
    <2> QED BY <1>5, <2>1, <2>2 DEF FullDuplex
  <1>13. PointersLive'
    <2> SUFFICES ASSUME NEW p \in Parts, out'[p] # Nil
                 PROVE  /\ p \in live' /\ out'[p] \in live'
                        /\ (p[1] \in Links' <=> out'[p][1] \notin Links')
      BY DEF PointersLive
    <2>1. p \notin D /\ out[p] \notin D /\ out'[p] = out[p]
      BY <1>5
    <2>2. /\ p \in live /\ out[p] \in live
          /\ (p[1] \in Links <=> out[p][1] \notin Links)
      BY <2>1 DEF PointersLive
    <2>3. p[1] # b /\ out[p][1] # b
      BY <1>2, <2>1, <2>2
    <2> QED BY <1>3, <1>9, <2>1, <2>2, <2>3
  <1> QED BY <1>6, <1>7, <1>8, <1>10, <1>11, <1>12, <1>13

-----------------------------------------------------------------------------
(* The theorems *)

LEMMA StepIInv == IInv /\ [DNext]_vars => IInv'
  <1> SUFFICES ASSUME IInv, [DNext]_vars PROVE IInv'
    OBVIOUS
  <1>1. CASE DCreateDevice
    BY <1>1, CreateDeviceKeeps DEF DCreateDevice
  <1>2. CASE DCreateLink
    BY <1>2, CreateLinkKeeps DEF DCreateLink
  <1>3. CASE DDestroy
    BY <1>3, DestroyCompositeKeeps DEF DDestroy
  <1>4. CASE ScanComponents
    BY <1>4 DEF ScanComponents, IInv, ComponentsExact
  <1>5. CASE UNCHANGED vars
    BY <1>5 DEF vars, IInv, TypeOK, NoFault, RegistryExact, ComponentsExact,
                LinksHaveTwoCables, WiringSymmetric, PointersLive, FullDuplex,
                Links
  <1> QED BY <1>1, <1>2, <1>3, <1>4, <1>5 DEF DNext

\* The careful operator's network keeps every part of IInv, whatever the number
\* of nodes, ports and names.
THEOREM CarefulInvariant == DSpec => []IInv
  <1>1. Init => IInv
    BY InitIInv
  <1>2. IInv /\ [DNext]_vars => IInv'
    BY StepIInv
  <1> QED BY <1>1, <1>2, PTL DEF DSpec

\* The state of the control plane is always of its type.
THEOREM CarefulTypes == DSpec => []TypeOK
  <1>1. IInv => TypeOK
    BY DEF IInv
  <1> QED BY <1>1, CarefulInvariant, PTL

\* in and out pointers always come in pairs, between allocated components.
THEOREM CarefulWiring == DSpec => [](WiringSymmetric /\ PointersLive)
  <1>1. IInv => WiringSymmetric /\ PointersLive
    BY DEF IInv
  <1> QED BY <1>1, CarefulInvariant, PTL

\* The two cables of a link always carry opposite directions between the same ends.
THEOREM CarefulFullDuplex == DSpec => []FullDuplex
  <1>1. IInv => FullDuplex
    BY DEF IInv
  <1> QED BY <1>1, CarefulInvariant, PTL

\* manager->nodes always leads to every composite that exists by its own name.
THEOREM CarefulRegistry == DSpec => []RegistryExact
  <1>1. IInv => RegistryExact
    BY DEF IInv
  <1> QED BY <1>1, CarefulInvariant, PTL

\* manager->components always holds exactly the components that are allocated.
THEOREM CarefulComponents == DSpec => []ComponentsExact
  <1>1. IInv => ComponentsExact
    BY DEF IInv
  <1> QED BY <1>1, CarefulInvariant, PTL

\* Neither the commands nor the scan of the components touch freed memory.
THEOREM CarefulNoFault == DSpec => []NoFault
  <1>1. IInv => NoFault
    BY DEF IInv
  <1> QED BY <1>1, CarefulInvariant, PTL

\* A connected component is never re-pointed while it is connected.
LEMMA StepRepatch ==
  ASSUME IInv, [DNext]_vars, NEW p \in Parts
  PROVE  /\ out[p] # Nil => out'[p] \in {out[p], Nil}
         /\ in[p] # Nil => in'[p] \in {in[p], Nil}
  <1> USE DEF IInv
  <1>1. CASE DCreateLink
    <2>1. PICK b \in Boxes, s \in Parts, d \in Parts :
            CreateLink(b, s, d) /\ IsDevicePort(s) /\ IsDevicePort(d)
      BY <1>1 DEF DCreateLink
    <2>2. /\ s \in live /\ out[s] = Nil /\ in[s] = Nil
          /\ d \in live /\ out[d] = Nil /\ in[d] = Nil
      BY <2>1, OpenEndIsFree DEF CreateLink
    <2>3. /\ <<b, 0>> \in Parts /\ out[<<b, 0>>] = Nil /\ in[<<b, 0>>] = Nil
          /\ <<b, 1>> \in Parts /\ out[<<b, 1>>] = Nil /\ in[<<b, 1>>] = Nil
      BY <2>1, TwoCables, FreshUnwired DEF CreateLink
    <2>4. Connect(b, s, d)
      BY <2>1, <2>2 DEF CreateLink
    <2> QED BY <2>2, <2>3, <2>4 DEF Connect, TypeOK
  <1>2. CASE DDestroy
    BY <1>2 DEF DDestroy, DestroyComposite, Sever, Crash
  <1>3. CASE DCreateDevice \/ ScanComponents \/ UNCHANGED vars
    BY <1>3 DEF DCreateDevice, CreateDevice, ScanComponents, Crash, vars
  <1> QED BY <1>1, <1>2, <1>3 DEF DNext

THEOREM CarefulNoRepatch == DSpec => NoRepatch
  <1>1. IInv /\ [DNext]_vars =>
          [\A p \in Parts :
             /\ out[p] # Nil => out'[p] \in {out[p], Nil}
             /\ in[p] # Nil => in'[p] \in {in[p], Nil}]_vars
    BY StepRepatch
  <1> QED BY <1>1, CarefulInvariant, PTL DEF DSpec, NoRepatch

-----------------------------------------------------------------------------
(* The pointers implement the patch panel *)

jacksBar == {p \in live : p[1] \notin Links}
cordBar == [b \in Boxes |->
              IF b \in Links THEN <<in[<<b, 0>>], out[<<b, 0>>]>> ELSE Nil]

\* The box of a link is a link, the ends of its first cable are device ports.
LEMMA CordEnds ==
  ASSUME IInv, NEW c \in Links
  PROVE  /\ c \in Boxes /\ <<c, 0>> \in Parts
         /\ in[<<c, 0>>] # Nil => in[<<c, 0>>] \in jacksBar
         /\ out[<<c, 0>>] # Nil => out[<<c, 0>>] \in jacksBar
  <1> USE DEF IInv, jacksBar
  <1>1. c \in Boxes /\ <<c, 0>> \in Parts /\ <<c, 0>>[1] = c
    BY TwoCables DEF Links
  <1>2. ASSUME out[<<c, 0>>] # Nil PROVE out[<<c, 0>>] \in jacksBar
    BY <1>1, <1>2 DEF PointersLive
  <1>3. ASSUME in[<<c, 0>>] # Nil PROVE in[<<c, 0>>] \in jacksBar
    <2>1. in[<<c, 0>>] \in Parts /\ out[in[<<c, 0>>]] = <<c, 0>>
      BY <1>1, <1>3, Partner
    <2> QED BY <1>1, <2>1, NilAssumption DEF PointersLive
  <1> QED BY <1>1, <1>2, <1>3

\* A link always shows as a cord, whatever hangs on its ends.
LEMMA LinkIsCord ==
  ASSUME IInv, NEW c \in Links
  PROVE  /\ cordBar[c] = <<in[<<c, 0>>], out[<<c, 0>>]>>
         /\ cordBar[c] # Nil
  <1>1. c \in Boxes /\ <<c, 0>> \in Parts
    BY CordEnds
  <1>2. cordBar[c] = <<in[<<c, 0>>], out[<<c, 0>>]>>
    BY <1>1 DEF cordBar
  <1> QED BY <1>1, <1>2, NilAssumption DEF IInv, TypeOK

LEMMA AddDeviceStep ==
  ASSUME IInv, NEW b \in Boxes, NEW k \in DeviceKinds, NEW n \in 0..MaxParts,
         CreateDevice(b, k, n)
  PROVE  /\ NodesOf(b, n) \in SUBSET Parts
         /\ NodesOf(b, n) \intersect jacksBar = {}
         /\ jacksBar' = jacksBar \union NodesOf(b, n)
         /\ cordBar' = cordBar
  <1> USE DEF IInv
  <1>1. PICK nm \in Names : FirstName(k, nm) /\ Register(b, nm, n)
    BY DEF CreateDevice
  <1>2. nm[1] # "link" /\ name[b] = Nil
    BY <1>1, KindsAssumption DEF FirstName, Fresh, CreateDevice
  <1>3. Links' = Links /\ b \notin Links
    BY <1>1, <1>2 DEF TypeOK, Links, Register
  <1>4. NodesOf(b, n) \intersect live = {}
    BY DEF NodesOf, Fresh, CreateDevice
  <1>5. live' = live \union NodesOf(b, n)
    BY <1>1 DEF Register
  <1>6. jacksBar' = jacksBar \union NodesOf(b, n)
    BY <1>3, <1>5 DEF jacksBar, NodesOf
  <1>7. cordBar' = cordBar
    BY <1>3 DEF cordBar, CreateDevice
  <1> QED BY <1>4, <1>6, <1>7, NodesAreParts DEF jacksBar

LEMMA LayStep ==
  ASSUME IInv, NEW b \in Boxes, NEW s \in Parts, NEW d \in Parts, s # d,
         CreateLink(b, s, d), IsDevicePort(s), IsDevicePort(d)
  PROVE  /\ cordBar[b] = Nil
         /\ s \in jacksBar /\ d \in jacksBar
         /\ \A c \in Boxes : cordBar[c] # Nil =>
              {s, d} \intersect {cordBar[c][1], cordBar[c][2]} = {}
         /\ cordBar' = [cordBar EXCEPT ![b] = <<s, d>>]
         /\ jacksBar' = jacksBar
  <1> USE DEF IInv
  <1>1. /\ s \in live /\ s[1] \notin Links /\ out[s] = Nil /\ in[s] = Nil
        /\ d \in live /\ d[1] \notin Links /\ out[d] = Nil /\ in[d] = Nil
    BY OpenEndIsFree DEF CreateLink
  <1>2. Fresh(b) /\ name[b] = Nil /\ b \notin Links
    BY DEF CreateLink, Fresh, Links
  <1>3. PICK nm \in Names : /\ FirstName("link", nm)
                            /\ Connect(b, s, d)
                            /\ Register(b, nm, 2)
    BY <1>1 DEF CreateLink
  <1>4. Links' = Links \union {b}
    BY <1>2, <1>3, NilAssumption DEF TypeOK, Links, Register, FirstName
  <1>5. /\ <<b, 0>> \in Parts /\ <<b, 1>> \in Parts /\ <<b, 0>> # <<b, 1>>
        /\ {<<b, 0>>, <<b, 1>>} \intersect {s, d} = {}
    BY <1>1, <1>2, TwoCables, FreshUnwired
  <1>6. in'[<<b, 0>>] = s /\ out'[<<b, 0>>] = d
    BY <1>3, <1>5 DEF Connect, TypeOK
  <1>7. ASSUME NEW c \in Links
        PROVE  in'[<<c, 0>>] = in[<<c, 0>>] /\ out'[<<c, 0>>] = out[<<c, 0>>]
    <2>1. c \in Boxes /\ <<c, 0>> \in Parts /\ <<c, 0>>[1] = c /\ c # b
      BY <1>2, TwoCables DEF Links
    <2>2. <<c, 0>> \notin {s, d, <<b, 0>>, <<b, 1>>}
      BY <1>1, <2>1, TwoCables
    <2> QED BY <1>3, <2>1, <2>2 DEF Connect, TypeOK
  <1>8. cordBar' = [cordBar EXCEPT ![b] = <<s, d>>]
    BY <1>2, <1>4, <1>6, <1>7 DEF cordBar
  <1>9. ASSUME NEW c \in Links
        PROVE  {s, d} \intersect {in[<<c, 0>>], out[<<c, 0>>]} = {}
    BY <1>1, CordEnds, NilAssumption DEF WiringSymmetric
  <1>10. \A c \in Boxes : cordBar[c] # Nil =>
           {s, d} \intersect {cordBar[c][1], cordBar[c][2]} = {}
    BY <1>9 DEF cordBar
  <1>11. jacksBar' = jacksBar
    <2>1. live' = live \union NodesOf(b, 2)
      BY <1>3 DEF Register
    <2>2. \A p \in live : p[1] # b
      BY <1>2 DEF Fresh, TypeOK
    <2> QED BY <1>4, <2>1, <2>2 DEF jacksBar, NodesOf
  <1> QED BY <1>1, <1>2, <1>8, <1>10, <1>11 DEF cordBar, jacksBar

LEMMA DestroyStep ==
  ASSUME IInv, NEW b \in Boxes, DestroyComposite(b)
  PROVE  LET D == NodesOf(b, count[b]) IN
         \/ /\ cordBar[b] # Nil
            /\ cordBar' = [cordBar EXCEPT ![b] = Nil]
            /\ jacksBar' = jacksBar
         \/ /\ D \subseteq jacksBar
            /\ jacksBar' = jacksBar \ D
            /\ cordBar' = [c \in Boxes |->
                  IF cordBar[c] = Nil THEN Nil
                  ELSE <<IF cordBar[c][1] \in D THEN Nil ELSE cordBar[c][1],
                         IF cordBar[c][2] \in D THEN Nil ELSE cordBar[c][2]>>]
  <1> USE DEF IInv
  <1> DEFINE D == NodesOf(b, count[b])
  <1>1. Tracked(b)
    BY DEF DestroyComposite
  <1>2. D = {p \in live : p[1] = b} /\ MayTouch(D)
    BY <1>1, DestroyIsSafe
  <1> HIDE DEF D
  <1>3. /\ Sever(D)
        /\ live' = live \ D
        /\ name' = [name EXCEPT ![b] = Nil]
    BY <1>2 DEF DestroyComposite, D
  <1>4. Links' = Links \ {b}
    BY <1>3 DEF Links, TypeOK
  <1>5. D \in SUBSET Parts
    BY <1>2 DEF TypeOK
  <1>6. ASSUME NEW c \in Links, c # b
        PROVE  /\ c \in Boxes
               /\ out'[<<c, 0>>] = IF out[<<c, 0>>] \in D THEN Nil ELSE out[<<c, 0>>]
               /\ in'[<<c, 0>>] = IF in[<<c, 0>>] \in D THEN Nil ELSE in[<<c, 0>>]
    <2>1. c \in Boxes /\ <<c, 0>> \in Parts /\ <<c, 0>>[1] = c
      BY TwoCables DEF Links
    <2>2. <<c, 0>> \notin D
      BY <1>2, <1>6, <2>1
    <2> QED BY <1>3, <1>5, <2>1, <2>2, SeverClears
  <1>7. CASE b \in Links
    <2>1. jacksBar' = jacksBar
      BY <1>2, <1>3, <1>4, <1>7 DEF jacksBar
    <2>2. ASSUME NEW c \in Links, c # b
          PROVE  out'[<<c, 0>>] = out[<<c, 0>>] /\ in'[<<c, 0>>] = in[<<c, 0>>]
      <3>1. out[<<c, 0>>] \notin D
        BY <1>2, <1>7, CordEnds, NilAssumption DEF jacksBar, TypeOK
      <3>2. in[<<c, 0>>] \notin D
        BY <1>2, <1>7, CordEnds, NilAssumption DEF jacksBar, TypeOK
      <3> QED BY <1>6, <2>2, <3>1, <3>2
    <2>3. cordBar' = [cordBar EXCEPT ![b] = Nil]
      BY <1>4, <2>2 DEF cordBar
    <2>4. cordBar[b] # Nil
      BY <1>7, LinkIsCord
    <2> QED BY <2>1, <2>3, <2>4
  <1>8. CASE b \notin Links
    <2>1. D \subseteq jacksBar /\ jacksBar' = jacksBar \ D
      BY <1>2, <1>3, <1>4, <1>8 DEF jacksBar
    <2>2. Links' = Links
      BY <1>4, <1>8
    <2>3. ASSUME NEW c \in Boxes
          PROVE  cordBar'[c] = IF cordBar[c] = Nil THEN Nil
                  ELSE <<IF cordBar[c][1] \in D THEN Nil ELSE cordBar[c][1],
                         IF cordBar[c][2] \in D THEN Nil ELSE cordBar[c][2]>>
      <3>1. CASE c \in Links
        <4>1. cordBar'[c] = <<in'[<<c, 0>>], out'[<<c, 0>>]>>
          BY <2>2, <3>1 DEF cordBar
        <4> QED BY <1>6, <1>8, <3>1, <4>1, LinkIsCord
      <3>2. CASE c \notin Links
        BY <2>2, <3>2 DEF cordBar
      <3> QED BY <3>1, <3>2
    <2>4. cordBar' = [c \in Boxes |->
                  IF cordBar[c] = Nil THEN Nil
                  ELSE <<IF cordBar[c][1] \in D THEN Nil ELSE cordBar[c][1],
                         IF cordBar[c][2] \in D THEN Nil ELSE cordBar[c][2]>>]
      BY <2>3 DEF cordBar
    <2> QED BY <2>1, <2>4 DEF D
  <1> QED BY <1>7, <1>8 DEF D

LEMMA PanelStart == Init => Panel!Start
  <1> SUFFICES ASSUME Init PROVE Panel!Start
    OBVIOUS
  <1>1. Links = {} /\ live = {}
    BY DEF Init, Links
  <1> QED BY <1>1 DEF Panel!Start

LEMMA PanelStep == IInv /\ [DNext]_vars => [Panel!Change]_Panel!panel
  <1> SUFFICES ASSUME IInv, [DNext]_vars PROVE [Panel!Change]_Panel!panel
    OBVIOUS
  <1>1. CASE DCreateDevice
    <2>1. PICK b \in Boxes, k \in DeviceKinds, n \in 0..MaxParts :
            CreateDevice(b, k, n)
      BY <1>1 DEF DCreateDevice
    <2>2. /\ jacksBar' \in SUBSET Parts /\ jacksBar \subseteq jacksBar'
          /\ cordBar' = cordBar
      BY <2>1, AddDeviceStep DEF jacksBar, IInv, TypeOK
    <2>3. Panel!AddDevice
      BY <2>2 DEF Panel!AddDevice, jacksBar, cordBar
    <2> QED BY <2>3 DEF Panel!Change
  <1>2. CASE DCreateLink
    <2>1. PICK b \in Boxes, s \in Parts, d \in Parts :
            s # d /\ CreateLink(b, s, d) /\ IsDevicePort(s) /\ IsDevicePort(d)
      BY <1>2 DEF DCreateLink
    <2>2. \A c \in Boxes : cordBar[c] # Nil =>
            {s, d} \intersect {cordBar[c][1], cordBar[c][2]} = {}
      BY <2>1, LayStep
    <2>3. \A c \in Boxes : ~ Panel!Holds(c, s) /\ ~ Panel!Holds(c, d)
      BY <2>2 DEF Panel!Holds, cordBar
    <2>4. s \in jacksBar /\ d \in jacksBar
      BY <2>1, LayStep
    <2>5. Panel!FreeJack(s) /\ Panel!FreeJack(d)
      BY <2>3, <2>4 DEF Panel!FreeJack, jacksBar
    <2>6. /\ cordBar[b] = Nil
          /\ cordBar' = [cordBar EXCEPT ![b] = <<s, d>>]
          /\ jacksBar' = jacksBar
      BY <2>1, LayStep
    <2>7. Panel!Lay(b, s, d)
      BY <2>1, <2>5, <2>6 DEF Panel!Lay, jacksBar, cordBar
    <2> QED BY <2>4, <2>7 DEF Panel!Change, jacksBar
  <1>3. CASE DDestroy
    <2>1. PICK b \in Boxes : DestroyComposite(b)
      BY <1>3 DEF DDestroy
    <2>2. \/ Panel!PullCord(b)
          \/ Panel!RemoveDevice
      BY <2>1, DestroyStep
         DEF Panel!PullCord, Panel!RemoveDevice, Panel!EndWithout,
             jacksBar, cordBar
    <2> QED BY <2>1, <2>2 DEF Panel!Change
  <1>4. CASE ScanComponents
    BY <1>4 DEF ScanComponents, IInv, ComponentsExact
  <1>5. CASE UNCHANGED vars
    BY <1>5 DEF vars, Panel!panel, Links
  <1> QED BY <1>1, <1>2, <1>3, <1>4, <1>5 DEF DNext

\* Under the careful operator the in/out pointers, names and component list
\* behave as a patch panel of jacks and two-ended cords.
THEOREM CarefulPanel == DSpec => ImplementsPanel
  <1>1. Init => Panel!Start
    BY PanelStart
  <1>2. IInv /\ [DNext]_vars => [Panel!Change]_Panel!panel
    BY PanelStep
  <1> QED BY <1>1, <1>2, CarefulInvariant, PTL
          DEF DSpec, ImplementsPanel, Panel!Panel

\* The port at an end of a link leads back to that link, to its first cable at the one
\* end and to its second at the other.
LEMMA EndLeadsBack ==
  ASSUME IInv, NEW c \in Links, NEW j \in Parts
  PROVE  /\ in[<<c, 0>>] = j => out[j] = <<c, 0>>
         /\ out[<<c, 0>>] = j => in[j] = <<c, 0>> /\ out[j] = <<c, 1>>
  <1>1. c \in Boxes /\ <<c, 0>> \in Parts /\ <<c, 1>> \in Parts
    BY TwoCables DEF Links, IInv
  <1>2. out[<<c, 0>>] = in[<<c, 1>>]
    BY DEF IInv, FullDuplex
  <1> QED BY <1>1, <1>2 DEF IInv, WiringSymmetric

\* However the careful operator makes, joins and destroys: no port is the end of two
\* links, nor both ends of one, and a link's ends are ports that are there.
THEOREM CarefulOneCord == DSpec => []Panel!OneCordPerJack
  <1>1. ASSUME IInv PROVE Panel!OneCordPerJack
    <2>1. ASSUME NEW c \in Boxes, NEW j \in Parts, Panel!Holds(c, j)
          PROVE  c \in Links /\ (in[<<c, 0>>] = j \/ out[<<c, 0>>] = j)
      BY <1>1, <2>1, LinkIsCord DEF Panel!Holds, cordBar
    <2>2. ASSUME NEW c \in Boxes, NEW j \in Parts, Panel!Holds(c, j)
          PROVE  j \in jacksBar
      <3>1. c \in Links /\ (in[<<c, 0>>] = j \/ out[<<c, 0>>] = j)
        BY <2>1, <2>2
      <3> QED BY <1>1, <3>1, CordEnds, NilAssumption
    <2>3. ASSUME NEW c \in Boxes, NEW d \in Boxes, NEW j \in Parts,
                 Panel!Holds(c, j), Panel!Holds(d, j)
          PROVE  d = c
      <3>1. /\ c \in Links /\ (in[<<c, 0>>] = j \/ out[<<c, 0>>] = j)
            /\ d \in Links /\ (in[<<d, 0>>] = j \/ out[<<d, 0>>] = j)
        BY <2>1, <2>3
      <3>2. /\ in[<<c, 0>>] = j => out[j] = <<c, 0>>
            /\ out[<<c, 0>>] = j => in[j] = <<c, 0>> /\ out[j] = <<c, 1>>
            /\ in[<<d, 0>>] = j => out[j] = <<d, 0>>
            /\ out[<<d, 0>>] = j => in[j] = <<d, 0>> /\ out[j] = <<d, 1>>
        BY <1>1, <3>1, EndLeadsBack
      <3> QED BY <3>1, <3>2
    <2>4. ASSUME NEW c \in Boxes, cordBar[c] # Nil, cordBar[c][1] # Nil
          PROVE  cordBar[c][1] # cordBar[c][2]
      <3>1. c \in Links /\ cordBar[c][1] = in[<<c, 0>>] /\ cordBar[c][2] = out[<<c, 0>>]
        BY <1>1, <2>4, LinkIsCord DEF cordBar
      <3>2. in[<<c, 0>>] \in jacksBar
        BY <1>1, <2>4, <3>1, CordEnds
      <3>3. in[<<c, 0>>] \in Parts
        BY <1>1, <3>2 DEF jacksBar, IInv, TypeOK
      <3>4. <<c, 0>> # <<c, 1>>
        OBVIOUS
      <3> QED BY <1>1, <3>1, <3>3, <3>4, EndLeadsBack
    <2> QED BY <2>2, <2>3, <2>4 DEF Panel!OneCordPerJack, jacksBar, cordBar
  <1> QED BY <1>1, CarefulInvariant, PTL


-----------------------------------------------------------------------------
(***************************************************************************)
(* What survives whatever the operator types: proofs, for every number of  *)
(* boxes, ports and names, that the properties of Spec are invariants of   *)
(* it.  The commands of Next leave dangling pointers, orphans and nodes no *)
(* name leads to; what they never break is that a name leads to the node   *)
(* that carries it, and all the rest hangs on that.                        *)
(***************************************************************************)

\* The allocated components of a box.
LiveOf(b) == {p \in live : p[1] = b}

\* The invariant: its parts need each other, RegistryLive above all.
AInv ==
  /\ TypeOK
  /\ RegistryLive
  /\ OwnersApart
  /\ ScanComplete
  /\ CountMatchesLive

\* The entries nodes[0..n-1] of a composite are n components.
LEMMA NodesCount ==
  ASSUME NEW b \in Boxes, NEW n \in 0..MaxParts
  PROVE  IsFiniteSet(NodesOf(b, n)) /\ Cardinality(NodesOf(b, n)) = n
  <1> DEFINE f == [i \in 1..n |-> <<b, i - 1>>]
  <1>1. n \in Nat /\ \A i \in 1..n : i - 1 \in 0..(MaxParts - 1) /\ i - 1 < n
    BY CountsAssumption
  <1>2. f \in [1..n -> NodesOf(b, n)]
    BY <1>1 DEF NodesOf, Parts
  <1>3. ASSUME NEW i \in 1..n, NEW j \in 1..n, f[i] = f[j] PROVE i = j
    BY <1>1, <1>3
  <1>4. ASSUME NEW p \in NodesOf(b, n) PROVE \E i \in 1..n : f[i] = p
    <2>1. p \in Parts /\ p[1] = b /\ p[2] < n
      BY DEF NodesOf
    <2>2. p = <<b, p[2]>> /\ p[2] \in Nat
      BY <2>1, PartShape, CountsAssumption
    <2>3. p[2] + 1 \in 1..n /\ (p[2] + 1) - 1 = p[2]
      BY <1>1, <2>1, <2>2
    <2> QED BY <2>2, <2>3
  <1>5. f \in Bijection(1..n, NodesOf(b, n))
    BY <1>2, <1>3, <1>4 DEF Bijection, Injection, Surjection, IsInjective
  <1> HIDE DEF f
  <1>6. ExistsBijection(1..n, NodesOf(b, n))
    BY <1>5 DEF ExistsBijection
  <1>7. IsFiniteSet(1..n) /\ Cardinality(1..n) = n
    BY <1>1, FS_Interval
  <1> QED BY <1>6, <1>7, FS_Bijection

\* Only MaxParts components can be allocated in a box.
LEMMA LiveOfFinite ==
  ASSUME TypeOK, NEW b \in Boxes
  PROVE  IsFiniteSet(LiveOf(b))
  <1>1. MaxParts \in 0..MaxParts
    BY CountsAssumption
  <1>2. LiveOf(b) \subseteq NodesOf(b, MaxParts)
    BY PartShape, CountsAssumption DEF LiveOf, NodesOf, TypeOK
  <1> QED BY <1>1, <1>2, NodesCount, FS_Subset

\* Two names never lead to the same box, and it knows its own.
LEMMA NameOfTracked ==
  ASSUME TypeOK, RegistryLive, NEW b \in Boxes, Tracked(b)
  PROVE  /\ name[b] \in Names /\ name[b] # Nil
         /\ registry[name[b]] = b
         /\ \A n \in Names : registry[n] = b => n = name[b]
  <1>1. PICK n \in Names : registry[n] = b
    BY DEF Tracked
  <1>2. \A m \in Names : registry[m] = b => name[b] = m
    BY NilAssumption DEF RegistryLive
  <1> QED BY <1>1, <1>2, NilAssumption

\* malloc never gives out a box that a name leads to.
LEMMA FreshUntracked ==
  ASSUME TypeOK, RegistryLive, NEW b \in Boxes, Fresh(b)
  PROVE  ~ Tracked(b) /\ name[b] = Nil /\ LiveOf(b) = {}
  BY NameOfTracked DEF Fresh, LiveOf, TypeOK

\* An end that create link finds is a part of a node that a name leads to.
LEMMA EndIsNamed ==
  ASSUME TypeOK, RegistryLive, NEW p \in Parts, Addressable(p)
  PROVE  p[1] \in Boxes /\ Tracked(p[1]) /\ name[p[1]] # Nil
  BY PartShape, NameOfTracked DEF Addressable

-----------------------------------------------------------------------------
(* The pieces of the commands *)

\* Registering a fresh box under a free name.
LEMMA RegisterNamed ==
  ASSUME AInv, NEW b \in Boxes, NEW nm \in Names, NEW n \in 0..MaxParts,
         Fresh(b), registry[nm] = Nil, Register(b, nm, n)
  PROVE  /\ registry' \in [Names -> Boxes \union {Nil}]
         /\ components' \subseteq Parts
         /\ name' \in [Boxes -> Names \union {Nil}]
         /\ count' \in [Boxes -> 0..MaxParts]
         /\ live' \subseteq Parts
         /\ RegistryLive' /\ ScanComplete' /\ CountMatchesLive'
  <1> USE DEF AInv
  <1>1. ~ Tracked(b) /\ name[b] = Nil /\ LiveOf(b) = {}
    BY FreshUntracked
  <1>2. NodesOf(b, n) \subseteq Parts
    BY NodesAreParts
  <1>3. /\ registry' = [registry EXCEPT ![nm] = b]
        /\ components' = components \union NodesOf(b, n)
        /\ name' = [name EXCEPT ![b] = nm]
        /\ count' = [count EXCEPT ![b] = n]
        /\ live' = live \union NodesOf(b, n)
    BY DEF Register
  <1>4. RegistryLive'
    BY <1>1, <1>3, NilAssumption DEF RegistryLive, TypeOK, Tracked
  <1>5. ASSUME NEW c \in Boxes, c # b
        PROVE  /\ Tracked(c)' => Tracked(c)
               /\ LiveOf(c)' = LiveOf(c)
               /\ count'[c] = count[c]
    BY <1>3, <1>5 DEF Tracked, LiveOf, NodesOf, TypeOK
  <1>6. LiveOf(b)' = NodesOf(b, n) /\ count'[b] = n
    BY <1>1, <1>3 DEF LiveOf, NodesOf, TypeOK
  <1>7. ScanComplete'
    <2> SUFFICES ASSUME NEW p \in live', Tracked(p[1])'
                 PROVE  p \in components'
      BY DEF ScanComplete
    <2>1. p[1] \in Boxes
      BY <1>2, <1>3, PartShape DEF TypeOK
    <2>2. CASE p[1] = b
      BY <1>3, <1>6, <2>2 DEF LiveOf
    <2>3. CASE p[1] # b
      <3>1. Tracked(p[1]) /\ p \in live
        BY <1>5, <2>1, <2>3 DEF LiveOf
      <3> QED BY <1>3, <3>1 DEF ScanComplete
    <2> QED BY <2>2, <2>3
  <1>8. CountMatchesLive'
    <2> SUFFICES ASSUME NEW c \in Boxes, Tracked(c)'
                 PROVE  count'[c] = Cardinality(LiveOf(c)')
      BY DEF CountMatchesLive, LiveOf
    <2>1. CASE c = b
      BY <1>6, <2>1, NodesCount
    <2>2. CASE c # b
      BY <1>5, <2>2 DEF CountMatchesLive, LiveOf
    <2> QED BY <2>1, <2>2
  <1> QED BY <1>2, <1>3, <1>4, <1>7, <1>8 DEF TypeOK

\* Unregistering a name that leads somewhere: what it leads to is no longer
\* tracked, and every other node is tracked as before and keeps its components
\* in the manager's list.
LEMMA UnregisterNamed ==
  ASSUME AInv, NEW nm \in Names, NEW b \in Boxes, registry[nm] = b, Unregister(nm)
  PROVE  /\ registry' \in [Names -> Boxes \union {Nil}]
         /\ components' \subseteq Parts
         /\ ~ Tracked(b)'
         /\ \A n \in Names : registry'[n] # Nil => registry'[n] = registry[n] /\ registry[n] # b
         /\ \A c \in Boxes : Tracked(c)' => Tracked(c) /\ c # b
         /\ \A p \in components : p[1] # b => p \in components'
  <1> USE DEF AInv
  <1>1. Tracked(b) /\ b # Nil
    BY NilAssumption DEF Tracked
  <1>2. \A n \in Names : registry[n] = b => n = nm
    BY <1>1, NameOfTracked
  <1>3. \A n \in Names : registry'[n] = IF n = nm THEN Nil ELSE registry[n]
    BY DEF Unregister, TypeOK
  <1>4. \A n \in Names : registry'[n] # Nil => registry'[n] = registry[n] /\ registry[n] # b
    BY <1>2, <1>3
  <1>5. \A c \in Boxes : Tracked(c)' => Tracked(c) /\ c # b
    BY <1>3, <1>4, NilAssumption DEF Tracked
  <1>6. registry' \in [Names -> Boxes \union {Nil}] /\ components' \subseteq Parts
    BY DEF Unregister, TypeOK
  <1>7. \A p \in components : p[1] # b => p \in components'
    BY DEF Unregister, NodesOf
  <1> QED BY <1>1, <1>4, <1>5, <1>6, <1>7

\* A step that only unregisters a name, and may allocate components of a box that
\* no name leads to.
LEMMA UnregisterKeeps ==
  ASSUME AInv, NEW nm \in Names, NEW b \in Boxes, registry[nm] = b, Unregister(nm),
         live' \subseteq Parts, live \subseteq live',
         \A p \in live' \ live : ~ Tracked(p[1]),
         UNCHANGED <<name, count>>
  PROVE  /\ RegistryLive' /\ ScanComplete' /\ CountMatchesLive'
  <1> USE DEF AInv
  <1>1. /\ \A n \in Names : registry'[n] # Nil => registry'[n] = registry[n]
        /\ \A c \in Boxes : Tracked(c)' => Tracked(c) /\ c # b
        /\ \A p \in components : p[1] # b => p \in components'
    BY UnregisterNamed
  <1>2. RegistryLive'
    BY <1>1 DEF RegistryLive
  <1>3. ASSUME NEW c \in Boxes, Tracked(c)'
        PROVE  LiveOf(c)' = LiveOf(c)
    BY <1>1, <1>3 DEF LiveOf
  <1>4. ScanComplete'
    <2> SUFFICES ASSUME NEW p \in live', Tracked(p[1])'
                 PROVE  p \in components'
      BY DEF ScanComplete
    <2>1. p[1] \in Boxes
      BY PartShape
    <2>2. Tracked(p[1]) /\ p[1] # b /\ p \in live
      BY <1>1, <2>1
    <2> QED BY <1>1, <2>2 DEF ScanComplete
  <1>5. CountMatchesLive'
    BY <1>1, <1>3 DEF CountMatchesLive, LiveOf
  <1> QED BY <1>2, <1>4, <1>5

-----------------------------------------------------------------------------
(* The commands *)

LEMMA AnyCreateDevice ==
  ASSUME AInv, NEW b \in Boxes, NEW k \in DeviceKinds, NEW n \in 0..MaxParts,
         CreateDevice(b, k, n)
  PROVE  AInv'
  <1> USE DEF AInv
  <1>1. PICK nm \in Names : FirstName(k, nm) /\ Register(b, nm, n)
    BY DEF CreateDevice
  <1>2. Fresh(b) /\ registry[nm] = Nil /\ UNCHANGED <<in, out, fault>>
    BY <1>1 DEF CreateDevice, FirstName
  <1>3. /\ registry' \in [Names -> Boxes \union {Nil}]
        /\ components' \subseteq Parts
        /\ name' \in [Boxes -> Names \union {Nil}]
        /\ count' \in [Boxes -> 0..MaxParts]
        /\ live' \subseteq Parts
        /\ RegistryLive' /\ ScanComplete' /\ CountMatchesLive'
    BY <1>1, <1>2, RegisterNamed
  <1> QED BY <1>2, <1>3 DEF TypeOK, OwnersApart

LEMMA LastNameIsName ==
  ASSUME NEW k \in Kinds
  PROVE  LastName(k) \in Names /\ LastName(k)[1] = k
  BY CountsAssumption DEF Names, LastName

LEMMA AnyCreateDeviceNoName ==
  ASSUME AInv, NEW b \in Boxes, NEW k \in DeviceKinds, NEW n \in 0..MaxParts,
         CreateDeviceNoName(b, k, n)
  PROVE  AInv'
  <1> USE DEF AInv
  <1>1. CASE Crash("wild")
    BY <1>1 DEF Crash, TypeOK, Faults, RegistryLive, OwnersApart, ScanComplete,
                CountMatchesLive, Tracked
  <1>2. CASE ~ Crash("wild")
    <2>1. /\ Unregister(LastName(k))
          /\ live' = IF k = "ether" THEN live \union NodesOf(b, n) ELSE live
          /\ UNCHANGED <<name, count, in, out, fault>>
          /\ Fresh(b) /\ NamesExhausted(k)
      BY <1>2 DEF CreateDeviceNoName
    <2>2. LastName(k) \in Names /\ registry[LastName(k)] \in Boxes
      BY <2>1, LastNameIsName DEF NamesExhausted, Kinds, TypeOK
    <2>3. /\ live' \subseteq Parts /\ live \subseteq live'
          /\ \A p \in live' \ live : ~ Tracked(p[1])
      BY <2>1, FreshUntracked, NodesAreParts DEF NodesOf, TypeOK
    <2>4. RegistryLive' /\ ScanComplete' /\ CountMatchesLive'
      BY <2>1, <2>2, <2>3, UnregisterKeeps
    <2>5. registry' \in [Names -> Boxes \union {Nil}] /\ components' \subseteq Parts
      BY <2>1, <2>2, UnregisterNamed
    <2> QED BY <2>1, <2>3, <2>4, <2>5 DEF TypeOK, OwnersApart
  <1> QED BY <1>1, <1>2

LEMMA AnyCreateLink ==
  ASSUME AInv, NEW b \in Boxes, NEW s \in Parts, NEW d \in Parts,
         CreateLink(b, s, d)
  PROVE  AInv'
  <1> USE DEF AInv
  <1>1. CASE Crash("freed")
    BY <1>1 DEF Crash, TypeOK, Faults, RegistryLive, OwnersApart, ScanComplete,
                CountMatchesLive, Tracked
  <1>2. CASE ~ Crash("freed")
    <2>1. PICK nm \in Names : /\ FirstName("link", nm)
                              /\ Connect(b, s, d)
                              /\ Register(b, nm, 2)
                              /\ UNCHANGED fault
      BY <1>2 DEF CreateLink
    <2>2. Fresh(b) /\ registry[nm] = Nil /\ 2 \in 0..MaxParts
      BY <2>1, CountsAssumption DEF CreateLink, FirstName
    <2>3. /\ registry' \in [Names -> Boxes \union {Nil}]
          /\ components' \subseteq Parts
          /\ name' \in [Boxes -> Names \union {Nil}]
          /\ count' \in [Boxes -> 0..MaxParts]
          /\ live' \subseteq Parts
          /\ RegistryLive' /\ ScanComplete' /\ CountMatchesLive'
      BY <2>1, <2>2, RegisterNamed
    <2>4. /\ <<b, 0>> \in Parts /\ <<b, 1>> \in Parts
          /\ <<b, 0>>[1] = b /\ <<b, 1>>[1] = b
      BY TwoCables
    <2>5. s[1] # b /\ d[1] # b
      BY <2>2, EndIsNamed, FreshUntracked DEF CreateLink, OpenEnd
    <2>6. /\ out' \in [Parts -> Parts \union {Nil}]
          /\ in' \in [Parts -> Parts \union {Nil}]
      BY <2>1, <2>4 DEF Connect, TypeOK
    <2>7. ASSUME NEW p \in Parts
          PROVE  /\ \/ out'[p] = out[p]
                    \/ p[1] = b /\ out'[p] \in {s, d}
                    \/ p \in {s, d} /\ out'[p] \in {<<b, 0>>, <<b, 1>>}
                 /\ \/ in'[p] = in[p]
                    \/ p[1] = b /\ in'[p] \in {s, d}
                    \/ p \in {s, d} /\ in'[p] \in {<<b, 0>>, <<b, 1>>}
      BY <2>1, <2>4 DEF Connect, TypeOK
    <2>8. OwnersApart'
      BY <2>4, <2>5, <2>7 DEF OwnersApart
    <2> QED BY <2>1, <2>3, <2>6, <2>8 DEF TypeOK
  <1> QED BY <1>1, <1>2

LEMMA AnyCreateLinkNoName ==
  ASSUME AInv, NEW b \in Boxes, NEW s \in Parts, NEW d \in Parts,
         CreateLinkNoName(b, s, d)
  PROVE  AInv'
  <1> USE DEF AInv
  <1>1. CASE Crash("freed")
    BY <1>1 DEF Crash, TypeOK, Faults, RegistryLive, OwnersApart, ScanComplete,
                CountMatchesLive, Tracked
  <1>2. CASE ~ Crash("freed")
    <2>1. /\ Unregister(LastName("link"))
          /\ out' = [out EXCEPT ![s] = Nil, ![d] = Nil]
          /\ in' = [in EXCEPT ![s] = Nil, ![d] = Nil]
          /\ UNCHANGED <<name, count, live, fault>>
          /\ NamesExhausted("link")
      BY <1>2 DEF CreateLinkNoName
    <2>2. LastName("link") \in Names /\ registry[LastName("link")] \in Boxes
      BY <2>1, LastNameIsName DEF NamesExhausted, Kinds, TypeOK
    <2>3. RegistryLive' /\ ScanComplete' /\ CountMatchesLive'
      BY <2>1, <2>2, UnregisterKeeps DEF TypeOK
    <2>4. registry' \in [Names -> Boxes \union {Nil}] /\ components' \subseteq Parts
      BY <2>1, <2>2, UnregisterNamed
    <2> QED BY <2>1, <2>3, <2>4 DEF TypeOK, OwnersApart
  <1> QED BY <1>1, <1>2

\* Clearing pointers leaves every other pointer where it was.
LEMMA SeverApart ==
  ASSUME TypeOK, OwnersApart, NEW D, Sever(D)
  PROVE  /\ OwnersApart'
         /\ out' \in [Parts -> Parts \union {Nil}]
         /\ in' \in [Parts -> Parts \union {Nil}]
  BY DEF Sever, OwnersApart, TypeOK

LEMMA AnyDestroyComposite ==
  ASSUME AInv, NEW b \in Boxes, DestroyComposite(b)
  PROVE  AInv'
  <1> USE DEF AInv
  <1> DEFINE D == NodesOf(b, count[b])
  <1>1. CASE ~ MayTouch(D)
    BY <1>1 DEF DestroyComposite, Crash, TypeOK, Faults, RegistryLive, OwnersApart,
                ScanComplete, CountMatchesLive, Tracked
  <1>2. CASE MayTouch(D)
    <2>1. Tracked(b)
      BY DEF DestroyComposite
    <2>2. /\ name[b] \in Names /\ registry[name[b]] = b /\ b # Nil
      BY <2>1, NameOfTracked, NilAssumption
    <2>3. \A p \in D : p[1] = b
      BY DEF NodesOf
    <2> HIDE DEF D
    <2>4. /\ Unregister(name[b]) /\ Sever(D)
          /\ live' = live \ D
          /\ name' = [name EXCEPT ![b] = Nil]
          /\ count' = [count EXCEPT ![b] = 0]
          /\ UNCHANGED fault
      BY <1>2 DEF DestroyComposite, D
    <2>5. /\ registry' \in [Names -> Boxes \union {Nil}] /\ components' \subseteq Parts
          /\ \A n \in Names : registry'[n] # Nil => registry'[n] = registry[n] /\ registry[n] # b
          /\ \A c \in Boxes : Tracked(c)' => Tracked(c) /\ c # b
          /\ \A p \in components : p[1] # b => p \in components'
      BY <2>2, <2>4, UnregisterNamed
    <2>6. /\ OwnersApart'
          /\ out' \in [Parts -> Parts \union {Nil}]
          /\ in' \in [Parts -> Parts \union {Nil}]
      BY <2>4, SeverApart
    <2>7. TypeOK'
      BY <2>4, <2>5, <2>6, CountsAssumption DEF TypeOK
    <2>8. RegistryLive'
      BY <2>4, <2>5, NilAssumption DEF RegistryLive, TypeOK
    <2>9. ASSUME NEW c \in Boxes, Tracked(c)'
          PROVE  Tracked(c) /\ c # b /\ LiveOf(c)' = LiveOf(c) /\ count'[c] = count[c]
      BY <2>3, <2>4, <2>5, <2>9 DEF LiveOf, TypeOK
    <2>10. CountMatchesLive'
      BY <2>9 DEF CountMatchesLive, LiveOf
    <2>11. ScanComplete'
      <3> SUFFICES ASSUME NEW p \in live', Tracked(p[1])'
                   PROVE  p \in components'
        BY DEF ScanComplete
      <3>1. p \in live /\ p[1] \in Boxes
        BY <2>4, PartShape DEF TypeOK
      <3> QED BY <2>5, <3>1 DEF ScanComplete
    <2> QED BY <2>6, <2>7, <2>8, <2>10, <2>11
  <1> QED BY <1>1, <1>2

LEMMA AnyDestroyEther ==
  ASSUME AInv, NEW b \in Boxes, DestroyEther(b)
  PROVE  AInv'
  <1> USE DEF AInv
  <1>1. /\ Tracked(b) /\ Unregister(name[b])
        /\ name' = [name EXCEPT ![b] = Nil]
        /\ count' = [count EXCEPT ![b] = 0]
        /\ UNCHANGED <<live, in, out, fault>>
    BY DEF DestroyEther
  <1>2. name[b] \in Names /\ registry[name[b]] = b /\ b # Nil
    BY <1>1, NameOfTracked, NilAssumption
  <1>3. /\ registry' \in [Names -> Boxes \union {Nil}] /\ components' \subseteq Parts
        /\ \A n \in Names : registry'[n] # Nil => registry'[n] = registry[n] /\ registry[n] # b
        /\ \A c \in Boxes : Tracked(c)' => Tracked(c) /\ c # b
        /\ \A p \in components : p[1] # b => p \in components'
    BY <1>1, <1>2, UnregisterNamed
  <1>4. TypeOK' /\ OwnersApart'
    BY <1>1, <1>3, CountsAssumption DEF TypeOK, OwnersApart
  <1>5. RegistryLive'
    BY <1>1, <1>3, NilAssumption DEF RegistryLive, TypeOK
  <1>6. CountMatchesLive'
    BY <1>1, <1>3 DEF CountMatchesLive, TypeOK
  <1>7. ScanComplete'
    BY <1>1, <1>3, PartShape DEF ScanComplete, TypeOK
  <1> QED BY <1>4, <1>5, <1>6, <1>7

LEMMA AnyDestroyPart ==
  ASSUME AInv, NEW p \in Parts, DestroyPart(p)
  PROVE  AInv'
  <1> USE DEF AInv
  <1>1. CASE ~ MayTouch({p})
    BY <1>1 DEF DestroyPart, Crash, TypeOK, Faults, RegistryLive, OwnersApart,
                ScanComplete, CountMatchesLive, Tracked
  <1>2. CASE MayTouch({p})
    <2> DEFINE b == p[1]
    <2>1. /\ Sever({p}) /\ live' = live \ {p}
          /\ count' = [count EXCEPT ![b] = count[b] - 1]
          /\ UNCHANGED <<registry, components, name, fault>>
      BY <1>2 DEF DestroyPart, CountDown
    <2>2. p \in live /\ b \in Boxes /\ Tracked(b) /\ p[2] < count[b]
      BY <1>2, PartShape DEF MayTouch, DestroyPart, Addressable
    <2>3. count[b] \in 0..MaxParts /\ p[2] \in 0..(MaxParts - 1)
      BY <2>2, PartShape DEF TypeOK
    <2>4. count[b] - 1 \in 0..MaxParts
      BY <2>2, <2>3, CountsAssumption
    <2>5. /\ OwnersApart'
          /\ out' \in [Parts -> Parts \union {Nil}]
          /\ in' \in [Parts -> Parts \union {Nil}]
      BY <2>1, SeverApart
    <2>6. TypeOK'
      BY <2>1, <2>2, <2>4, <2>5 DEF TypeOK
    <2>7. \A c : Tracked(c)' <=> Tracked(c)
      BY <2>1 DEF Tracked
    <2>8. RegistryLive' /\ ScanComplete'
      BY <2>1, <2>7 DEF RegistryLive, ScanComplete
    <2>9. CountMatchesLive'
      <3> SUFFICES ASSUME NEW c \in Boxes, Tracked(c)
                   PROVE  count'[c] = Cardinality(LiveOf(c)')
        BY <2>7 DEF CountMatchesLive, LiveOf
      <3>1. count[c] = Cardinality(LiveOf(c))
        BY DEF CountMatchesLive, LiveOf
      <3>2. CASE c = b
        <4>1. LiveOf(c)' = LiveOf(c) \ {p} /\ p \in LiveOf(c)
          BY <2>1, <2>2, <3>2 DEF LiveOf
        <4>2. Cardinality(LiveOf(c) \ {p}) = Cardinality(LiveOf(c)) - 1
          BY <4>1, LiveOfFinite, FS_RemoveElement
        <4>3. count'[c] = count[c] - 1
          BY <2>1, <2>2, <3>2 DEF TypeOK
        <4> QED BY <3>1, <4>1, <4>2, <4>3
      <3>3. CASE c # b
        <4>1. LiveOf(c)' = LiveOf(c) /\ count'[c] = count[c]
          BY <2>1, <3>3 DEF LiveOf, TypeOK
        <4> QED BY <3>1, <4>1
      <3> QED BY <3>2, <3>3
    <2> QED BY <2>5, <2>6, <2>8, <2>9
  <1> QED BY <1>1, <1>2

-----------------------------------------------------------------------------
(* The theorems *)

LEMMA InitAInv == Init => AInv
  <1> SUFFICES ASSUME Init PROVE AInv
    OBVIOUS
  <1>1. TypeOK
    BY CountsAssumption DEF Init, TypeOK, Faults
  <1>2. RegistryLive /\ OwnersApart /\ ScanComplete
    BY DEF Init, RegistryLive, OwnersApart, ScanComplete
  <1>3. \A b \in Boxes : ~ Tracked(b)
    BY NilAssumption DEF Init, Tracked
  <1> QED BY <1>1, <1>2, <1>3 DEF AInv, CountMatchesLive

LEMMA StepAInv == AInv /\ [Next]_vars => AInv'
  <1> SUFFICES ASSUME AInv, [Next]_vars PROVE AInv'
    OBVIOUS
  <1>1. CASE DCreateDevice
    BY <1>1, AnyCreateDevice DEF DCreateDevice
  <1>2. CASE \E b \in Boxes, k \in DeviceKinds, n \in 0..MaxParts :
               CreateDeviceNoName(b, k, n)
    BY <1>2, AnyCreateDeviceNoName
  <1>3. CASE \E b \in Boxes, s, d \in Parts : CreateLink(b, s, d)
    BY <1>3, AnyCreateLink
  <1>4. CASE \E b \in Boxes, s, d \in Parts : CreateLinkNoName(b, s, d)
    BY <1>4, AnyCreateLinkNoName
  <1>5. CASE DDestroy
    BY <1>5, AnyDestroyComposite DEF DDestroy
  <1>6. CASE \E b \in Boxes : DestroyEther(b)
    BY <1>6, AnyDestroyEther
  <1>7. CASE \E p \in Parts : DestroyPart(p)
    BY <1>7, AnyDestroyPart
  <1>8. CASE (\E k \in DeviceKinds : CreateDeviceWrapped(k)) \/ ScanComponents
    BY <1>8 DEF CreateDeviceWrapped, ScanComponents, Crash, AInv, TypeOK, Faults,
                RegistryLive, OwnersApart, ScanComplete, CountMatchesLive, Tracked
  <1>9. CASE UNCHANGED vars
    BY <1>9 DEF vars, AInv, TypeOK, RegistryLive, OwnersApart, ScanComplete,
                CountMatchesLive, Tracked
  <1> QED BY <1>1, <1>2, <1>3, <1>4, <1>5, <1>6, <1>7, <1>8, <1>9 DEF Next

\* Whatever is typed, every part of AInv holds from the first command to the last.
THEOREM AnyInvariant == Spec => []AInv
  <1> QED BY InitAInv, StepAInv, PTL DEF Spec

\* Whatever is typed, the state is of its type: the port count of a node whose
\* ports are destroyed one by one never goes below 0.
THEOREM AnyTypes == Spec => []TypeOK
  <1>1. AInv => TypeOK
    BY DEF AInv
  <1> QED BY <1>1, AnyInvariant, PTL

\* A name leads to the node that carries it or nowhere, over nodes whose creation
\* ran out of names and switches that outlive their destruction.
THEOREM AnyRegistryLive == Spec => []RegistryLive
  <1>1. AInv => RegistryLive
    BY DEF AInv
  <1> QED BY <1>1, AnyInvariant, PTL

\* node_count of a node that can be named is the number of its allocated
\* components, over creation, destruction of single ports and of whole nodes.
THEOREM AnyCounts == Spec => []CountMatchesLive
  <1>1. AInv => CountMatchesLive
    BY DEF AInv
  <1> QED BY <1>1, AnyInvariant, PTL

\* network_control scans every allocated component of every node with a name.
THEOREM AnyScan == Spec => []ScanComplete
  <1>1. AInv => ScanComplete
    BY DEF AInv
  <1> QED BY <1>1, AnyInvariant, PTL

\* No component is ever wired to one of its own node, which is why a composite may
\* destroy its components in any order.
THEOREM AnyOwnersApart == Spec => []OwnersApart
  <1>1. AInv => OwnersApart
    BY DEF AInv
  <1> QED BY <1>1, AnyInvariant, PTL

=============================================================================
