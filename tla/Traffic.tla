------------------------------- MODULE Traffic --------------------------------
(***************************************************************************)
(* Packets in flight while the operator changes the network: Topology's     *)
(* careful operator, composed with what the queues, the timers of cables    *)
(* and the tables of switches still hold of the components he destroys.     *)
(*                                                                          *)
(* Packets are counted, not told apart; a cable may lose, hold or pass on   *)
(* whatever it forwards (Cable says when), a lookup may find any entity of  *)
(* the table or none (Forwarding says which), and a node may be off.        *)
(***************************************************************************)
EXTENDS Topology

CONSTANTS
  QueueSize,    \* what a queue holds, PAKCET_QUEUE_SIZE - 1
  MaxFlight     \* packets in the network at one time: a bound of the model

ASSUME TrafficAssumption == QueueSize \in Nat /\ MaxFlight \in Nat

VARIABLES
  queued,   \* of each component: the packets in its queue
  held,     \* of each component: the timers that hold its address
  table,    \* of each box: the ports the entities of its MAC table point to
  hasty,    \* history: what was destroyed too early
  crash     \* what memory was misused on behalf of a packet

flight == <<queued, held, table, hasty, crash>>
tvars == <<vars, flight>>

TInit ==
  /\ Init
  /\ queued = [p \in Parts |-> 0] /\ held = [p \in Parts |-> 0]
  /\ table = [b \in Boxes |-> {}]
  /\ hasty = {} /\ crash = "none"

Running == fault = "none" /\ crash = "none"

\* The bound: no packet enters while some are on their way.
Light == Cardinality({p \in Parts : queued[p] + held[p] > 0}) < MaxFlight

-----------------------------------------------------------------------------
(* Commands *)

\* No timer holds an address within b, which malloc would give out again.
Unheld(b) == \A p \in Parts : p[1] = b => held[p] = 0

TCreate ==
  /\ Running
  /\ \E b \in Boxes :
       /\ Unheld(b)
       /\ \/ \E k \in DeviceKinds, n \in 0..MaxParts : CreateDevice(b, k, n)
          \/ \E s, d \in Parts :
               /\ s # d /\ CreateLink(b, s, d)
               /\ IsDevicePort(s) /\ IsDevicePort(d)
  /\ UNCHANGED flight

\* What is hasty: to destroy a device while a link hangs on it, and a link while a
\* packet it holds waits for its timer.
Haste(D) ==
  {h \in {"device", "link"} :
     \E p \in D : IF h = "link" THEN held[p] > 0
                  ELSE ~ p[1] \in Links /\ {in[p], out[p]} # {Nil}}

\* The queues go with the components, and the packets in them; the timers stay.
TDestroy(b) ==
  LET D == NodesOf(b, count[b]) IN
  /\ Running
  /\ DestroyComposite(b)
  /\ queued' = [p \in Parts |-> IF p \in D THEN 0 ELSE queued[p]]
  /\ hasty' = hasty \union Haste(D)
  /\ UNCHANGED <<held, table, crash>>

-----------------------------------------------------------------------------
(* Packets.  Q is what the queues hold when a packet is handed on.            *)

CrashAs(how) == crash' = how /\ UNCHANGED <<queued, table>>

\* The queues that the ports of S push into.
Outs(S) == {out[q] : q \in S} \ {Nil}

Pushed(Q, S) == [c \in Parts |-> IF c \in Outs(S) /\ Q[c] < QueueSize THEN Q[c] + 1 ELSE Q[c]]

\* switch_broadcast and switch_unicast: the ports of S are looked at, and their queues.
Push(Q, S) ==
  IF S \union Outs(S) \subseteq live
    THEN queued' = Pushed(Q, S) /\ UNCHANGED crash
    ELSE crash' = "freed" /\ UNCHANGED queued

\* Written to an interface, or refused by a node that is off, or sent back.
Absorb(Q) == queued' = Q /\ UNCHANGED <<table, crash>>

Flood(d, Q) ==
  /\ name[d[1]][1] \in {"hub", "ether"}
  /\ Push(Q, NodesOf(d[1], count[d[1]]) \ {d})
  /\ UNCHANGED table

\* Variant: the entity is given the cable the port sends into.
LearnsCable(T, d) == T \union Outs({d})

\* What the table may point to once d is learned.  Entities that expired or were
\* evicted are gone.
Learns(T, d) == T \union {d}

\* ether_switch_send for a known address.
SendTo(d, Q) ==
  /\ name[d[1]][1] = "ether"
  /\ \E T \in SUBSET table[d[1]] :
       LET known == Learns(T, d) IN
       /\ table' = [table EXCEPT ![d[1]] = known]
       /\ \E e \in known : Push(Q, {e} \ {d})

\* packet_forward of the component a cable leads to.
Arrive(d, Q) ==
  IF d = Nil THEN CrashAs("null")
  ELSE IF d \notin live \/ name[d[1]] = Nil THEN CrashAs("freed")
  ELSE Absorb(Q) \/ Flood(d, Q) \/ SendTo(d, Q)

\* network_process
Input(p) ==
  /\ Running /\ Light
  /\ p \in live /\ name[p[1]][1] \in {"host", "physical"}
  /\ out[p] # Nil
  /\ Push(queued, {p})
  /\ UNCHANGED <<vars, held, table, hasty>>

Popped(c) == [queued EXCEPT ![c] = @ - 1]

\* packet_forward of a cable.
Lose(c) ==
  /\ queued' = Popped(c)
  /\ UNCHANGED <<held, table, crash>>

Hold(c) ==
  /\ queued' = Popped(c) /\ held' = [held EXCEPT ![c] = @ + 1]
  /\ UNCHANGED <<table, crash>>

PassOn(c) ==
  /\ Arrive(out[c], Popped(c))
  /\ UNCHANGED held

\* network_control comes to the component c.
Turn(c) ==
  /\ Running /\ c \in components
  /\ IF c \notin live THEN Crash("freed") /\ UNCHANGED flight
     ELSE /\ queued[c] > 0
          /\ Lose(c) \/ Hold(c) \/ PassOn(c)
          /\ UNCHANGED <<vars, hasty>>

\* _packet_forward
Fire(c) ==
  /\ Running /\ held[c] > 0
  /\ held' = [held EXCEPT ![c] = @ - 1]
  /\ IF c \in live THEN Arrive(out[c], queued) ELSE CrashAs("freed")
  /\ UNCHANGED <<vars, hasty>>

TNext ==
  \/ TCreate
  \/ \E b \in Boxes : TDestroy(b)
  \/ \E p \in Parts : Input(p) \/ Turn(p) \/ Fire(p)

TSpec == TInit /\ [][TNext]_tvars

-----------------------------------------------------------------------------
(* Properties *)

\* Nothing outlives what it points to, haste apart: packets are queued in cables that
\* exist, a switch has learned ports of its own, timers hold cables, and cables that
\* exist, and a cable leads somewhere.
FlightInv ==
  LET L == Links IN
  /\ queued \in [Parts -> Nat] /\ held \in [Parts -> Nat]
  /\ \A p \in Parts : queued[p] > 0 => p \in live /\ p[1] \in L
  /\ \A b \in Boxes : \A p \in table[b] : p \in live /\ p[1] = b /\ name[b][1] = "ether"
  /\ \A p \in Parts : held[p] > 0 =>
       /\ p \in live => p[1] \in L
       /\ "link" \notin hasty => p \in live
  /\ "device" \notin hasty => \A p \in live : p[1] \in L => out[p] # Nil

\* With links destroyed only while they hold no packet and devices only after their
\* links, no packet ever meets a component that is gone, in whatever state the network
\* is taken down and built up again; and each kind of misuse has its own kind of haste
\* to blame, however long ago.
OnlyHaste ==
  /\ crash = "null" => "device" \in hasty
  /\ crash = "freed" => "link" \in hasty
  /\ crash \in {"none", "null", "freed"}

=============================================================================
