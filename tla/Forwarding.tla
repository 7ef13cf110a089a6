----------------------------- MODULE Forwarding ------------------------------
(***************************************************************************)
(* How frames cross the network: host ports take them from and give them to *)
(* their interfaces, hubs copy them to every other port, Ethernet switches  *)
(* learn and look up addresses, and network_control forwards one queued     *)
(* frame per turn, from the first component of the manager's list that has  *)
(* one.  The wiring stays as it is (Topology has it changing), a cable      *)
(* loses or holds a frame as it likes (Cable says when), and the operator   *)
(* turns nodes on and off.                                                  *)
(*                                                                          *)
(* A cable goes by the port it starts from, an address by the host port     *)
(* that uses it, and a frame by its place in the sequence sent.             *)
(***************************************************************************)
EXTENDS Integers, FiniteSets, Sequences, SequencesExt

CONSTANTS
  Hosts, Hubs, Switches,  \* the devices
  Owner,        \* of each port: the device it is a port of
  Wire,         \* of each connected port: the port at the other end
  Order,        \* the cables in the order of manager->components
  Away,         \* of each station: the cables its frames can travel along
  Everyone,     \* the broadcast address
  Lossy,        \* the cables with a bandwidth or a drop rate that loses frames
  Slow,         \* the cables with latency or jitter
  Switchable,   \* the devices and ports that are turned on and off
  QueueSize,    \* what a queue holds, PAKCET_QUEUE_SIZE - 1
  TableSize,    \* MAC_TABLE_SIZE
  Age,          \* how long an address stays in the table, 120 seconds
  MaxFrames,    \* frames sent in a run
  MaxTime       \* the end of modelled time

Ports == DOMAIN Owner
Cables == DOMAIN Wire
Stations == {p \in Ports : Owner[p] \in Hosts}
Ids == 1..MaxFrames
Addresses == Stations \cup {Everyone}

ASSUME NetworkAssumption ==
  /\ QueueSize \in Nat /\ TableSize \in Nat \ {0} /\ Age \in Nat
  /\ MaxFrames \in Nat /\ MaxTime \in Nat
  /\ Everyone \notin Stations
  /\ Hosts \cap Hubs = {} /\ Hosts \cap Switches = {} /\ Hubs \cap Switches = {}
  /\ \A p \in Ports : Owner[p] \in Hosts \cup Hubs \cup Switches
  /\ Cables \subseteq Ports
  /\ \A p \in Cables : Wire[p] \in Cables /\ Wire[Wire[p]] = p /\ Wire[p] # p
  /\ Lossy \subseteq Cables /\ Slow \subseteq Cables

ASSUME OrderAssumption ==
  /\ Order \in Seq(Cables)
  /\ \A c \in Cables : \E n \in DOMAIN Order : Order[n] = c

\* Where a frame that comes out of cable c may go on: another cable of the device,
\* unless it has reached a host.
Onward(c, q) == Owner[q] = Owner[Wire[c]] /\ q # Wire[c] /\ Owner[q] \notin Hosts

\* The network is a tree: what a station sends gets away from it by one way only.
ASSUME TreeAssumption ==
  \A m \in Stations :
    /\ Away[m] \subseteq Cables
    /\ m \in Cables => m \in Away[m]
    /\ \A c \in Away[m], q \in Cables : Onward(c, q) => q \in Away[m]
    /\ \A q \in Away[m] \ {m} : \E c \in Away[m] : Onward(c, q)
    /\ \A c, d \in Away[m] : Owner[Wire[c]] = Owner[Wire[d]] => c = d
    /\ \A c \in Away[m] : Wire[c] # m

VARIABLES
  queue,      \* of each cable: cable->queue
  held,       \* of each cable: the frames that wait for its timers
  table,      \* of each switch: the MAC filtering table
  off,        \* the nodes whose is_active is false
  now,        \* the time, in the unit of Age
  allocated,  \* the packets malloc has given out and nobody has freed
  sent,       \* history: the frames read from the interfaces
  got         \* history: of each station, the copies of each frame written to it

network == <<queue, held, table, allocated, got>>
vars == <<queue, held, table, off, now, allocated, sent, got>>

Entities == [mac : Stations, port : Ports, timeout : Nat]
HasOneEach(T) == \A e, f \in T : e.mac = f.mac => e = f

TypeOK ==
  /\ queue \in [Cables -> Seq(Ids)]
  /\ held \in [Cables -> Seq(Ids)]
  /\ table \in [Switches -> SUBSET Entities]
  /\ \A s \in Switches : Cardinality(table[s]) <= TableSize /\ HasOneEach(table[s])
  /\ off \subseteq Switchable
  /\ now \in Nat /\ allocated \in Int
  /\ sent \in Seq([smac : Stations, dmac : Addresses]) /\ Len(sent) <= MaxFrames
  /\ got \in [Stations -> [Ids -> Nat]]

Init ==
  /\ queue = [c \in Cables |-> << >>]
  /\ held = [c \in Cables |-> << >>]
  /\ table = [s \in Switches |-> {}]
  /\ off = {}
  /\ now = 0 /\ allocated = 0
  /\ sent = << >>
  /\ got = [m \in Stations |-> [i \in Ids |-> 0]]

-----------------------------------------------------------------------------
(* The queues *)

Active(p) == p \notin off /\ Owner[p] \notin off

\* Variant: one place of the queue is never used.
TakersShort(Q, S) == {c \in S \cap Cables : Len(Q[c]) + 1 < QueueSize}

\* The ports of a set whose queue takes one more frame; a port that is not
\* connected has none.
Takers(Q, S) == {c \in S \cap Cables : Len(Q[c]) < QueueSize}

\* Variant: the newest frame is the first to leave.
PushedFirst(Q, S, i) == [c \in Cables |-> IF c \in Takers(Q, S) THEN <<i>> \o Q[c] ELSE Q[c]]

Pushed(Q, S, i) == [c \in Cables |-> IF c \in Takers(Q, S) THEN Append(Q[c], i) ELSE Q[c]]

\* Variant: the port itself is not left out.
OthersToo(p) == {q \in Ports : Owner[q] = Owner[p]}

\* The other ports of the device.
Others(p) == {q \in Ports : Owner[q] = Owner[p] /\ q # p}

\* Variant: the original is not freed.
BroadcastKept(p, i, Q) ==
  /\ queue' = Pushed(Q, Others(p), i)
  /\ allocated' = allocated + Cardinality(Takers(Q, Others(p)))

\* switch_broadcast: a copy for each of the other ports, which is freed again when
\* the queue does not take it; then the original is freed.
Broadcast(p, i, Q) ==
  /\ queue' = Pushed(Q, Others(p), i)
  /\ allocated' = allocated + Cardinality(Takers(Q, Others(p))) - 1

\* switch_unicast, and what its caller does when the queue is full.
Unicast(p, i, Q) ==
  /\ queue' = Pushed(Q, {p}, i)
  /\ allocated' = IF p \in Takers(Q, {p}) THEN allocated ELSE allocated - 1

Freed(Q) ==
  /\ queue' = Q
  /\ allocated' = allocated - 1

-----------------------------------------------------------------------------
(* The MAC filtering table *)

Entity(T, m) == {e \in T : e.mac = m}
Entry(m, p) == [mac |-> m, port |-> p, timeout |-> now + Age]

\* Variant: a known address gets a second entity.
LearnsAnew(T, m, p) ==
  IF Cardinality(T) < TableSize
    THEN {T \cup {Entry(m, p)}}
    ELSE {(T \ {e}) \cup {Entry(m, p)} : e \in T}

\* update_table.  A new address goes in, by way of an old one's eviction when the
\* table is full; a known one is renewed, and then the expired ones go.
Learns(T, m, p) ==
  IF Entity(T, m) = {}
    THEN IF Cardinality(T) < TableSize
           THEN {T \cup {Entry(m, p)}}
           ELSE {(T \ {e}) \cup {Entry(m, p)} : e \in T}
    ELSE {{e \in T : e.mac # m /\ e.timeout >= now} \cup {Entry(m, p)}}

-----------------------------------------------------------------------------
(* packet_forward of the port at which the frame comes out of the cable        *)

Refused(p, i, Q) ==
  /\ ~ Active(p)
  /\ Freed(Q)
  /\ UNCHANGED <<table, got>>

\* virtual_port.c and physical_port.c: to the interface.
Written(p, i, Q) ==
  /\ Active(p) /\ Owner[p] \in Hosts
  /\ got' = [got EXCEPT ![p][i] = @ + 1]
  /\ Freed(Q)
  /\ UNCHANGED table

HubSend(p, i, Q) ==
  /\ Active(p) /\ Owner[p] \in Hubs
  /\ Broadcast(p, i, Q)
  /\ UNCHANGED <<table, got>>

EtherSwitchSend(p, i, Q) ==
  LET s == Owner[p] IN
  /\ Active(p) /\ s \in Switches
  /\ \E T \in Learns(table[s], sent[i].smac, p) :
       LET found == Entity(T, sent[i].dmac) IN
       /\ table' = [table EXCEPT ![s] = T]
       /\ \/ found = {} /\ Broadcast(p, i, Q)
          \/ \E e \in found :
               IF e.port = p THEN Freed(Q) ELSE Unicast(e.port, i, Q)
  /\ UNCHANGED got

Arrives(p, i, Q) ==
  \/ Refused(p, i, Q) \/ Written(p, i, Q) \/ HubSend(p, i, Q) \/ EtherSwitchSend(p, i, Q)

-----------------------------------------------------------------------------
(* Actions *)

\* input_process reads a frame from an interface; network_process queues it.
Input(m, d) ==
  /\ Len(sent) < MaxFrames
  /\ sent' = Append(sent, [smac |-> m, dmac |-> d])
  /\ IF Active(m) /\ m \in Takers(queue, {m})
       THEN queue' = Pushed(queue, {m}, Len(sent) + 1) /\ allocated' = allocated + 1
       ELSE UNCHANGED <<queue, allocated>>
  /\ UNCHANGED <<held, table, off, now, got>>

\* Variant: only the first component ever has a turn.
HasTurnFirst(c) == c = Order[1] /\ queue[c] # << >>

\* The component whose turn it is: the first with a frame in its queue.
HasTurn(c) ==
  \E n \in DOMAIN Order :
    /\ Order[n] = c /\ queue[c] # << >>
    /\ \A k \in 1..(n - 1) : queue[Order[k]] = << >>

Popped(c) == [queue EXCEPT ![c] = Tail(@)]

Lose(c) ==
  /\ c \in Lossy /\ HasTurn(c)
  /\ Freed(Popped(c))
  /\ UNCHANGED <<held, table, off, now, sent, got>>

Hold(c) ==
  /\ c \in Slow /\ HasTurn(c)
  /\ queue' = Popped(c)
  /\ held' = [held EXCEPT ![c] = Append(@, Head(queue[c]))]
  /\ UNCHANGED <<table, off, now, allocated, sent, got>>

PassOn(c) ==
  /\ c \notin Slow /\ HasTurn(c)
  /\ Arrives(Wire[c], Head(queue[c]), Popped(c))
  /\ UNCHANGED <<held, off, now, sent>>

\* A timer of the cable fires.
Fire(c, n) ==
  /\ n \in DOMAIN held[c]
  /\ held' = [held EXCEPT ![c] = RemoveAt(@, n)]
  /\ Arrives(Wire[c], held[c][n], queue)
  /\ UNCHANGED <<off, now, sent>>

TurnOn(x) == x \in off /\ off' = off \ {x} /\ UNCHANGED <<network, now, sent>>
TurnOff(x) == x \notin off /\ off' = off \cup {x} /\ UNCHANGED <<network, now, sent>>

Tick ==
  /\ now < MaxTime
  /\ now' = now + 1
  /\ UNCHANGED <<network, off, sent>>

Control == \E c \in Cables : Lose(c) \/ Hold(c) \/ PassOn(c)
Timers == \E c \in Cables : \E n \in DOMAIN held[c] : Fire(c, n)

Next ==
  \/ \E m \in Stations : \E d \in Addresses \ {m} : Input(m, d)
  \/ Control \/ Timers \/ Tick
  \/ \E x \in Switchable : TurnOn(x) \/ TurnOff(x)

\* event_loop calls network_control in every turn and fires the timers that are due.
Spec == Init /\ [][Next]_vars /\ WF_vars(Control) /\ WF_vars(Timers)

-----------------------------------------------------------------------------
(* Properties *)

\* The places at which frames lie in the queues or lists of the cables.
Places(Q) == UNION {{c} \X DOMAIN Q[c] : c \in Cables}

\* Every packet that malloc gave out and nobody freed is in one queue or one timer:
\* no handler frees a packet it passed on or forgets one that was refused, over
\* floods into full queues, deactivated nodes and lossy cables.
Conservation == allocated = Cardinality(Places(queue)) + Cardinality(Places(held))

\* What a switch has learned of an address is the way to the station that uses it,
\* whatever has been flooded, evicted, expired or turned off meanwhile.
Learned ==
  \A s \in Switches : \A e \in table[s] : Owner[e.port] = s /\ Wire[e.port] \in Away[e.mac]

\* The devices together are a LAN: no station receives a frame twice or receives
\* its own, however switches change between flooding and unicast.
LAN == INSTANCE Lan
ImplementsLan == LAN!Ether

\* Once nothing more is sent the network falls silent, floods included.
Quiet == \A c \in Cables : queue[c] = << >> /\ held[c] = << >>
Drains == <>[]Quiet

\* What the properties below need: no cable loses frames, nothing is turned off, a
\* queue takes all there is to send, and each station is connected to each other one.
Faultless ==
  /\ Lossy = {} /\ Switchable = {}
  /\ QueueSize >= MaxFrames
  /\ \A m, w \in Stations : m # w => m \in Cables /\ Wire[m] \in Away[w]

\* The station is one that frame i is for.
Meant(i, m) == sent[i].smac # m /\ sent[i].dmac \in {m, Everyone}

\* Where the network is faultless and quiet, every frame has come to the station it
\* is for and a broadcast to every other one, through all that switches forget.
Reaches ==
  Faultless /\ Quiet =>
    \A m \in Stations : \A i \in 1..Len(sent) : Meant(i, m) => got[m][i] = 1

\* Where moreover nothing is held, the frames from one station to another arrive in
\* the order in which they were sent, though some are flooded and others unicast.
InSequence ==
  Faultless /\ Slow = {} =>
    \A i, j \in 1..Len(sent) : i < j /\ sent[i].smac = sent[j].smac =>
      \A m \in Stations : Meant(i, m) /\ Meant(j, m) => got[m][j] <= got[m][i]

=============================================================================
