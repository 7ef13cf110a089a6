---------------------------- MODULE TrafficProofs -----------------------------
(***************************************************************************)
(* Packets in flight and the careful operator: what Topology guarantees    *)
(* carries over, and with no haste no packet meets a component that is     *)
(* gone.                                                                   *)
(***************************************************************************)
EXTENDS Traffic, TopologyProofs

TInv == IInv /\ FlightInv /\ OnlyHaste

-----------------------------------------------------------------------------
(* Traffic is Topology, and packets                                          *)

LEMMA TrafficStepIsCareful ==
  ASSUME TNext
  PROVE  [DNext]_vars
  <1>1. CASE TCreate
    BY <1>1 DEF TCreate, DNext, DCreateDevice, DCreateLink
  <1>2. CASE \E b \in Boxes : TDestroy(b)
    BY <1>2 DEF TDestroy, DNext, DDestroy
  <1>3. CASE \E p \in Parts : Turn(p)
    <2>1. PICK p \in Parts : Turn(p)
      BY <1>3
    <2>2. CASE p \in live
      BY <2>1, <2>2 DEF Turn
    <2>3. CASE p \notin live
      BY <2>1, <2>3 DEF Turn, Running, DNext, ScanComponents
    <2> QED BY <2>2, <2>3
  <1>4. CASE \E p \in Parts : Input(p) \/ Fire(p)
    BY <1>4 DEF Input, Fire
  <1> QED BY <1>1, <1>2, <1>3, <1>4 DEF TNext

\* The traffic never makes the control plane do what the operator did not type: the
\* packets see the network of DSpec.
THEOREM TrafficIsCareful == TSpec => DSpec
  <1>1. TInit => Init
    BY DEF TInit
  <1>2. [TNext]_tvars => [DNext]_vars
    BY TrafficStepIsCareful DEF tvars
  <1> QED BY <1>1, <1>2, PTL DEF TSpec, DSpec

\* The whole invariant of the control plane holds under traffic.
THEOREM TrafficControl == TSpec => []IInv
  BY TrafficIsCareful, CarefulInvariant, PTL

-----------------------------------------------------------------------------
(* What the operator does to the packets in flight                           *)

LEMMA TInitInv == TInit => FlightInv /\ OnlyHaste
  BY DEF TInit, Init, FlightInv, OnlyHaste

\* A device is added: what exists stays, and nothing of the new box was known.
LEMMA AddedDevice ==
  ASSUME IInv, NEW b \in Boxes, NEW k \in DeviceKinds, NEW n \in 0..MaxParts,
         CreateDevice(b, k, n)
  PROVE  /\ live \subseteq live' /\ Links' = Links /\ out' = out
         /\ \A p \in live' : p \in live \/ (p[1] = b /\ p[1] \notin Links)
         /\ \A p \in live : p[1] # b
         /\ \A c \in Boxes : c # b => name'[c] = name[c]
  <1>1. PICK nm \in Names : FirstName(k, nm) /\ Register(b, nm, n)
    BY DEF CreateDevice
  <1>2. nm[1] # "link" /\ name[b] = Nil
    BY <1>1, KindsAssumption DEF FirstName, Fresh, CreateDevice
  <1>3. Links' = Links /\ b \notin Links
    BY <1>1, <1>2 DEF IInv, TypeOK, Links, Register
  <1>4. live' = live \union NodesOf(b, n) /\ out' = out
    BY <1>1 DEF Register, CreateDevice
  <1>5. \A p \in live : p[1] # b
    BY DEF CreateDevice, Fresh, IInv, TypeOK
  <1>6. \A c \in Boxes : c # b => name'[c] = name[c]
    BY <1>1 DEF Register, IInv, TypeOK
  <1> QED BY <1>3, <1>4, <1>5, <1>6 DEF NodesOf

\* A link is added: its cables lead somewhere, the others where they did.
LEMMA AddedLink ==
  ASSUME IInv, NEW b \in Boxes, NEW s \in Parts, NEW d \in Parts, s # d,
         CreateLink(b, s, d), IsDevicePort(s), IsDevicePort(d)
  PROVE  /\ live \subseteq live' /\ Links' = Links \union {b}
         /\ \A p \in live' : \/ p \in live /\ (p[1] \in Links => out'[p] = out[p])
                             \/ p[1] = b /\ out'[p] # Nil
         /\ \A p \in live : p[1] # b
         /\ \A c \in Boxes : c # b => name'[c] = name[c]
  <1> USE DEF IInv
  <1>1. /\ s \in live /\ s[1] \notin Links /\ d \in live /\ d[1] \notin Links
    BY OpenEndIsFree DEF CreateLink
  <1>2. Fresh(b) /\ name[b] = Nil
    BY DEF CreateLink, Fresh
  <1>3. PICK nm \in Names : /\ FirstName("link", nm)
                            /\ Connect(b, s, d)
                            /\ Register(b, nm, 2)
    BY <1>1 DEF CreateLink
  <1>4. Links' = Links \union {b}
    BY <1>2, <1>3, NilAssumption DEF TypeOK, Links, Register, FirstName
  <1>5. live' = live \union NodesOf(b, 2)
    BY <1>3 DEF Register
  <1>6. \A p \in live : p[1] # b
    BY <1>2 DEF Fresh, TypeOK
  <1>7. \A c \in Boxes : c # b => name'[c] = name[c]
    BY <1>3 DEF Register, TypeOK
  <1>8. /\ <<b, 0>> \in Parts /\ <<b, 1>> \in Parts /\ <<b, 0>> # <<b, 1>>
        /\ s # <<b, 0>> /\ s # <<b, 1>> /\ d # <<b, 0>> /\ d # <<b, 1>>
        /\ <<b, 0>>[1] = b /\ <<b, 1>>[1] = b
    BY <1>1, <1>6, TwoCables
  <1>9. out'[<<b, 0>>] = d /\ out'[<<b, 1>>] = s
    BY <1>3, <1>8 DEF Connect, TypeOK
  <1>10. ASSUME NEW p \in Parts, p \in live, p[1] \in Links
         PROVE  out'[p] = out[p]
    <2>1. p # s /\ p # d /\ p # <<b, 0>> /\ p # <<b, 1>>
      BY <1>1, <1>6, <1>8, <1>10
    <2> QED BY <1>3, <2>1 DEF Connect, TypeOK
  <1>11. ASSUME NEW p \in NodesOf(b, 2)
         PROVE  p[1] = b /\ out'[p] # Nil
    <2>1. p \in Parts /\ p[1] = b /\ p[2] < 2
      BY DEF NodesOf
    <2>2. p = <<b, 0>> \/ p = <<b, 1>>
      BY <2>1, PartShape, CountsAssumption
    <2> QED BY <1>9, <2>1, <2>2, NilAssumption
  <1>12. live \subseteq Parts
    BY DEF TypeOK
  <1> QED BY <1>4, <1>5, <1>6, <1>7, <1>10, <1>11, <1>12

\* A composite is destroyed: what goes are its components, and a cable that now
\* leads nowhere led to one of them.
LEMMA Removed ==
  ASSUME IInv, NEW b \in Boxes, DestroyComposite(b)
  PROVE  LET D == NodesOf(b, count[b]) IN
         /\ D = {p \in live : p[1] = b} /\ live' = live \ D
         /\ Links' = Links \ {b} /\ name[b][1] # "ether"
         /\ \A c \in Boxes : c # b => name'[c] = name[c]
         /\ \A p \in Parts \ D : out'[p] = IF out[p] \in D THEN Nil ELSE out[p]
  <1> USE DEF IInv
  <1> DEFINE D == NodesOf(b, count[b])
  <1>1. D = {p \in live : p[1] = b} /\ MayTouch(D)
    BY DestroyIsSafe DEF DestroyComposite
  <1> HIDE DEF D
  <1>2. /\ Sever(D) /\ live' = live \ D /\ name' = [name EXCEPT ![b] = Nil]
        /\ name[b][1] # "ether"
    BY <1>1 DEF DestroyComposite, D
  <1>3. Links' = Links \ {b}
    BY <1>2 DEF Links, TypeOK
  <1>4. \A p \in Parts \ D : out'[p] = IF out[p] \in D THEN Nil ELSE out[p]
    BY <1>1, <1>2, SeverClears DEF TypeOK
  <1> QED BY <1>1, <1>2, <1>3, <1>4 DEF TypeOK, D

LEMMA CreateKeepsFlight ==
  ASSUME TInv, TCreate
  PROVE  FlightInv' /\ OnlyHaste'
  <1> USE DEF TInv
  <1>1. UNCHANGED <<queued, held, table, hasty, crash>>
    BY DEF TCreate, flight
  <1>2. PICK b \in Boxes :
          /\ Unheld(b)
          /\ \/ \E k \in DeviceKinds, n \in 0..MaxParts : CreateDevice(b, k, n)
             \/ \E s, d \in Parts : /\ s # d /\ CreateLink(b, s, d)
                                    /\ IsDevicePort(s) /\ IsDevicePort(d)
    BY DEF TCreate
  <1>3. /\ live \subseteq live' /\ Links \subseteq Links'
        /\ \A p \in live : p[1] # b
        /\ \A p \in live' : p \in live \/ p[1] = b
        /\ \A c \in Boxes : c # b => name'[c] = name[c]
        /\ \A p \in live' : p[1] \in Links' =>
             \/ p \in live /\ p[1] \in Links /\ out'[p] = out[p]
             \/ out'[p] # Nil
    BY <1>2, AddedDevice, AddedLink
  <1>4. \A p \in Parts : held[p] > 0 => p[1] # b
    BY <1>2 DEF Unheld, FlightInv
  <1>5. FlightInv'
    BY <1>1, <1>3, <1>4 DEF FlightInv
  <1>6. OnlyHaste'
    BY <1>1 DEF OnlyHaste
  <1> QED BY <1>5, <1>6

LEMMA DestroyKeepsFlight ==
  ASSUME TInv, NEW b \in Boxes, TDestroy(b)
  PROVE  FlightInv' /\ OnlyHaste'
  <1> USE DEF TInv
  <1> DEFINE D == NodesOf(b, count[b])
  <1>1. /\ D = {p \in live : p[1] = b} /\ live' = live \ D
        /\ Links' = Links \ {b} /\ name[b][1] # "ether"
        /\ \A c \in Boxes : c # b => name'[c] = name[c]
        /\ \A p \in Parts \ D : out'[p] = IF out[p] \in D THEN Nil ELSE out[p]
    BY Removed DEF TDestroy
  <1>2. /\ queued' = [p \in Parts |-> IF p \in D THEN 0 ELSE queued[p]]
        /\ hasty' = hasty \union Haste(D)
        /\ UNCHANGED <<held, table, crash>>
    BY DEF TDestroy
  <1>3. live \subseteq Parts
    BY DEF IInv, TypeOK
  <1> HIDE DEF D
  <1>4. /\ queued' \in [Parts -> Nat] /\ held' \in [Parts -> Nat]
        /\ \A p \in Parts : queued'[p] > 0 => p \in live' /\ p[1] \in Links'
    BY <1>1, <1>2 DEF FlightInv
  <1>5. \A c \in Boxes : \A p \in table'[c] :
          p \in live' /\ p[1] = c /\ name'[c][1] = "ether"
    BY <1>1, <1>2 DEF FlightInv
  <1>6. ASSUME NEW p \in Parts, held'[p] > 0
        PROVE  /\ p \in live' => p[1] \in Links'
               /\ "link" \notin hasty' => p \in live'
    <2>1. "link" \notin hasty' => p \notin D
      BY <1>2, <1>6 DEF Haste
    <2> QED BY <1>1, <1>2, <1>6, <2>1 DEF FlightInv
  <1>7. ASSUME "device" \notin hasty', NEW p \in live', p[1] \in Links'
        PROVE  out'[p] # Nil
    <2>1. p \in live /\ p \in Parts \ D /\ p[1] \in Links /\ "device" \notin hasty
      BY <1>1, <1>2, <1>3, <1>7
    <2>2. out[p] # Nil
      BY <2>1 DEF FlightInv
    <2>3. out[p] \in Parts /\ in[out[p]] = p /\ out[p][1] \notin Links /\ p # Nil
      BY <2>1, <2>2, Partner, NilAssumption DEF IInv, PointersLive
    <2>4. out[p] \notin D
      BY <1>2, <1>7, <2>3 DEF Haste
    <2> QED BY <1>1, <2>1, <2>2, <2>4
  <1>8. FlightInv'
    BY <1>4, <1>5, <1>6, <1>7 DEF FlightInv
  <1>9. OnlyHaste'
    BY <1>2 DEF OnlyHaste
  <1> QED BY <1>8, <1>9

-----------------------------------------------------------------------------
(* Where the packets go                                                      *)

\* What the queues may hold, and the tables.
QueuesOK(Q) ==
  /\ Q \in [Parts -> Nat]
  /\ \A p \in Parts : Q[p] > 0 => p \in live /\ p[1] \in Links
TablesOK(T) ==
  \A b \in Boxes : \A p \in T[b] : p \in live /\ p[1] = b /\ name[b][1] = "ether"

LEMMA PushIsSafe ==
  ASSUME IInv, NEW S \in SUBSET live, \A q \in S : q[1] \notin Links,
         NEW Q, QueuesOK(Q), Push(Q, S)
  PROVE  QueuesOK(queued') /\ crash' = crash
  <1> USE DEF IInv
  <1>1. S \subseteq Parts
    BY DEF TypeOK
  <1>2. \A c \in Outs(S) : c \in live /\ c \in Parts /\ c[1] \in Links
    <2> SUFFICES ASSUME NEW q \in S, out[q] # Nil
                 PROVE  out[q] \in live /\ out[q] \in Parts /\ out[q][1] \in Links
      BY DEF Outs
    <2>1. out[q] \in live /\ out[q] \in Parts /\ out[q][1] \in Boxes
      BY <1>1, PartShape DEF PointersLive, TypeOK
    <2> QED BY <1>1, <2>1 DEF PointersLive
  <1>3. queued' = Pushed(Q, S) /\ crash' = crash
    BY <1>2 DEF Push
  <1>4. Pushed(Q, S) \in [Parts -> Nat]
    BY DEF Pushed, QueuesOK
  <1>5. \A p \in Parts : Pushed(Q, S)[p] > 0 => p \in Outs(S) \/ Q[p] > 0
    BY DEF Pushed, QueuesOK
  <1> QED BY <1>2, <1>3, <1>4, <1>5 DEF QueuesOK

\* A packet that comes out of a cable meets an allocated component, or none.
LEMMA ArriveIsSafe ==
  ASSUME TInv, NEW c \in live, c[1] \in Links,
         NEW Q, QueuesOK(Q), Arrive(out[c], Q)
  PROVE  /\ QueuesOK(queued') /\ TablesOK(table')
         /\ crash' = crash \/ (crash' = "null" /\ "device" \in hasty)
  <1> USE DEF TInv, IInv
  <1> DEFINE d == out[c]
  <1>1. QueuesOK(queued) /\ TablesOK(table) /\ c \in Parts
    BY DEF FlightInv, QueuesOK, TablesOK, TypeOK
  <1>2. CASE d = Nil
    <2>1. UNCHANGED <<queued, table>> /\ crash' = "null"
      BY <1>2 DEF Arrive, CrashAs
    <2>2. "device" \in hasty
      BY <1>2 DEF FlightInv
    <2> QED BY <1>1, <2>1, <2>2
  <1>3. CASE d # Nil
    <2>1. d \in live /\ d \in Parts /\ d[1] \in Boxes /\ d[1] \notin Links
      BY <1>1, <1>3, PartShape DEF PointersLive, TypeOK
    <2>2. name[d[1]] \in Names
      BY <2>1 DEF ComponentsExact, TypeOK
    <2>3. Absorb(Q) \/ Flood(d, Q) \/ SendTo(d, Q)
      BY <1>3, <2>1, <2>2, NilAssumption DEF Arrive
    <2> HIDE DEF d
    <2>4. CASE Absorb(Q)
      BY <1>1, <2>4 DEF Absorb
    <2>5. CASE Flood(d, Q)
      <3> DEFINE S == NodesOf(d[1], count[d[1]]) \ {d}
      <3>1. Tracked(d[1])
        BY <2>1, <2>2 DEF RegistryExact, Tracked
      <3>2. S \in SUBSET live /\ \A q \in S : q[1] \notin Links
        BY <2>1, <3>1, DestroyIsSafe
      <3>3. Push(Q, S) /\ table' = table
        BY <2>5 DEF Flood
      <3> HIDE DEF S
      <3> QED BY <1>1, <3>2, <3>3, PushIsSafe
    <2>6. CASE SendTo(d, Q)
      <3>1. PICK T \in SUBSET table[d[1]] :
              /\ table' = [table EXCEPT ![d[1]] = T \union {d}]
              /\ \E e \in T \union {d} : Push(Q, {e} \ {d})
        BY <2>6 DEF SendTo, Learns
      <3>2. name[d[1]][1] = "ether"
        BY <2>6 DEF SendTo
      <3>3. \A p \in T \union {d} : p \in live /\ p[1] = d[1]
        BY <1>1, <2>1 DEF TablesOK
      <3>4. PICK e \in T \union {d} : Push(Q, {e} \ {d})
        BY <3>1
      <3>5. {e} \ {d} \in SUBSET live /\ \A q \in {e} \ {d} : q[1] \notin Links
        BY <2>1, <3>3
      <3>6. TablesOK(table')
        BY <1>1, <2>1, <3>1, <3>2, <3>3 DEF TablesOK
      <3> QED BY <3>4, <3>5, <3>6, PushIsSafe
    <2> QED BY <2>3, <2>4, <2>5, <2>6
  <1> QED BY <1>2, <1>3

\* The other steps change neither the network nor what was done in haste.
LEMMA PacketKeeps ==
  ASSUME TInv, UNCHANGED <<vars, hasty>>,
         QueuesOK(queued'), TablesOK(table'), held' \in [Parts -> Nat],
         \A p \in Parts : held'[p] > 0 =>
           /\ p \in live => p[1] \in Links
           /\ "link" \notin hasty => p \in live,
         \/ crash' = crash
         \/ crash' = "null" /\ "device" \in hasty
         \/ crash' = "freed" /\ "link" \in hasty
  PROVE  FlightInv' /\ OnlyHaste'
  <1>1. /\ UNCHANGED <<live, name, out, hasty>>
        /\ Links' = Links
    BY DEF vars, Links
  <1>2. FlightInv'
    BY <1>1 DEF TInv, FlightInv, QueuesOK, TablesOK
  <1>3. OnlyHaste'
    BY <1>1 DEF TInv, OnlyHaste
  <1> QED BY <1>2, <1>3

LEMMA InputKeepsFlight ==
  ASSUME TInv, NEW p \in Parts, Input(p)
  PROVE  FlightInv' /\ OnlyHaste'
  <1> USE DEF TInv
  <1>1. /\ Push(queued, {p}) /\ UNCHANGED <<vars, held, table, hasty>>
        /\ p \in live /\ p[1] \notin Links
    BY DEF Input, Links
  <1>2. QueuesOK(queued) /\ TablesOK(table)
    BY DEF FlightInv, QueuesOK, TablesOK
  <1>3. QueuesOK(queued') /\ crash' = crash
    BY <1>1, <1>2, PushIsSafe
  <1>4. held' = held /\ TablesOK(table')
    BY <1>1, <1>2
  <1> QED BY <1>1, <1>3, <1>4, PacketKeeps DEF FlightInv

LEMMA TurnKeepsFlight ==
  ASSUME TInv, NEW c \in Parts, Turn(c)
  PROVE  FlightInv' /\ OnlyHaste'
  <1> USE DEF TInv
  <1>1. c \in live
    BY DEF Turn, IInv, ComponentsExact
  <1>2. /\ queued[c] > 0 /\ UNCHANGED <<vars, hasty>>
        /\ Lose(c) \/ Hold(c) \/ PassOn(c)
    BY <1>1 DEF Turn
  <1>3. QueuesOK(queued) /\ TablesOK(table)
    BY DEF FlightInv, QueuesOK, TablesOK
  <1>4. c[1] \in Links /\ QueuesOK(Popped(c))
    BY <1>2, <1>3 DEF QueuesOK, Popped
  <1>5. CASE Lose(c)
    BY <1>2, <1>3, <1>4, <1>5, PacketKeeps DEF Lose, FlightInv
  <1>6. CASE Hold(c)
    <2>1. held' = [held EXCEPT ![c] = @ + 1] /\ queued' = Popped(c)
          /\ UNCHANGED <<table, crash>>
      BY <1>6 DEF Hold
    <2>2. held' \in [Parts -> Nat] /\ \A p \in Parts : held'[p] > 0 => p = c \/ held[p] > 0
      BY <2>1 DEF FlightInv
    <2>3. \A p \in Parts : held'[p] > 0 =>
           /\ p \in live => p[1] \in Links
           /\ "link" \notin hasty => p \in live
      BY <1>1, <1>4, <2>2 DEF FlightInv
    <2> QED BY <1>2, <1>3, <1>4, <2>1, <2>2, <2>3, PacketKeeps
  <1>7. CASE PassOn(c)
    <2>1. Arrive(out[c], Popped(c)) /\ held' = held
      BY <1>7 DEF PassOn
    <2>2. /\ QueuesOK(queued') /\ TablesOK(table')
          /\ crash' = crash \/ (crash' = "null" /\ "device" \in hasty)
      BY <1>1, <1>4, <2>1, ArriveIsSafe
    <2> QED BY <1>2, <2>1, <2>2, PacketKeeps DEF FlightInv
  <1> QED BY <1>2, <1>5, <1>6, <1>7

LEMMA FireKeepsFlight ==
  ASSUME TInv, NEW c \in Parts, Fire(c)
  PROVE  FlightInv' /\ OnlyHaste'
  <1> USE DEF TInv
  <1>1. /\ held[c] > 0 /\ UNCHANGED <<vars, hasty>>
        /\ held' = [held EXCEPT ![c] = @ - 1]
    BY DEF Fire
  <1>2. QueuesOK(queued) /\ TablesOK(table)
    BY DEF FlightInv, QueuesOK, TablesOK
  <1>3. /\ held' \in [Parts -> Nat]
        /\ \A p \in Parts : held'[p] > 0 => held[p] > 0
    BY <1>1 DEF FlightInv
  <1>4. \A p \in Parts : held'[p] > 0 =>
           /\ p \in live => p[1] \in Links
           /\ "link" \notin hasty => p \in live
    BY <1>3 DEF FlightInv
  <1>5. CASE c \in live
    <2>1. Arrive(out[c], queued) /\ c[1] \in Links
      BY <1>1, <1>5 DEF Fire, FlightInv
    <2>2. /\ QueuesOK(queued') /\ TablesOK(table')
          /\ crash' = crash \/ (crash' = "null" /\ "device" \in hasty)
      BY <1>2, <1>5, <2>1, ArriveIsSafe
    <2> QED BY <1>1, <1>3, <1>4, <2>2, PacketKeeps
  <1>6. CASE c \notin live
    <2>1. crash' = "freed" /\ UNCHANGED <<queued, table>>
      BY <1>6 DEF Fire, CrashAs
    <2>2. "link" \in hasty
      BY <1>1, <1>6 DEF FlightInv
    <2> QED BY <1>1, <1>2, <1>3, <1>4, <2>1, <2>2, PacketKeeps
  <1> QED BY <1>5, <1>6

-----------------------------------------------------------------------------
(* The theorems                                                              *)

LEMMA StepTInv == TInv /\ [TNext]_tvars => TInv'
  <1> SUFFICES ASSUME TInv, [TNext]_tvars PROVE TInv'
    OBVIOUS
  <1>1. IInv'
    <2>1. [DNext]_vars
      BY TrafficStepIsCareful DEF tvars
    <2> QED BY <2>1, StepIInv DEF TInv
  <1>2. CASE TCreate
    BY <1>1, <1>2, CreateKeepsFlight DEF TInv
  <1>3. CASE \E b \in Boxes : TDestroy(b)
    BY <1>1, <1>3, DestroyKeepsFlight DEF TInv
  <1>4. CASE \E p \in Parts : Input(p) \/ Turn(p) \/ Fire(p)
    BY <1>1, <1>4, InputKeepsFlight, TurnKeepsFlight, FireKeepsFlight DEF TInv
  <1>5. CASE UNCHANGED tvars
    BY <1>1, <1>5 DEF tvars, flight, vars, TInv, FlightInv, OnlyHaste, Links
  <1> QED BY <1>2, <1>3, <1>4, <1>5 DEF TNext

LEMMA TrafficTInv == TSpec => []TInv
  <1>1. TInit => TInv
    BY TInitInv, InitIInv DEF TInv, TInit
  <1>2. TInv /\ [TNext]_tvars => TInv'
    BY StepTInv
  <1> QED BY <1>1, <1>2, PTL DEF TSpec

\* Queues, tables and timers never outlive what they point to unless the operator was
\* hasty, whatever the number of nodes, ports and packets.
THEOREM TrafficFlight == TSpec => []FlightInv
  <1>1. TInv => FlightInv
    BY DEF TInv
  <1> QED BY <1>1, TrafficTInv, PTL

\* No packet meets a component that is gone, unless the operator was hasty in the way
\* that explains it.
THEOREM TrafficOnlyHaste == TSpec => []OnlyHaste
  <1>1. TInv => OnlyHaste
    BY DEF TInv
  <1> QED BY <1>1, TrafficTInv, PTL

=============================================================================
