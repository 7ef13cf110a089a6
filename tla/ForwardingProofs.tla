--------------------------- MODULE ForwardingProofs ---------------------------
(***************************************************************************)
(* A network without loops brings no frame anywhere twice, learns only ways *)
(* that lead back to the sender and loses no memory; one without faults     *)
(* brings every frame where it is meant to go, and in the order in which    *)
(* they were sent: proofs for every tree of hosts, hubs and switches and    *)
(* all sizes of the queues and tables.                                      *)
(***************************************************************************)
EXTENDS Forwarding, ListLemmas, FiniteSetTheorems

-----------------------------------------------------------------------------
(* The first inductive invariant: where frames are and what tables hold        *)

\* The frames in the queue of a cable or at its timers.
Carried(c) == ToSet(queue[c]) \cup ToSet(held[c])

\* A cable carries only frames that were sent, away from where they were sent.
Travel ==
  \A c \in Cables : \A i \in Carried(c) : i \in 1..Len(sent) /\ c \in Away[sent[i].smac]

\* A table is finite, and what it names is a port with a cable.
TablesFinite ==
  \A s \in Switches : IsFiniteSet(table[s]) /\ \A e \in table[s] : e.port \in Cables

FInv == TypeOK /\ TablesFinite /\ Travel /\ Learned

-----------------------------------------------------------------------------
(* What the operators of the model do                                          *)

\* The constants, as the proofs need them.
LEMMA Network ==
  /\ QueueSize \in Nat /\ TableSize \in Nat \ {0} /\ Age \in Nat /\ MaxFrames \in Nat
  /\ Everyone \notin Stations /\ Stations \subseteq Ports /\ Cables \subseteq Ports
  /\ \A p \in Cables : Wire[p] \in Cables /\ Wire[Wire[p]] = p /\ Wire[p] # p
  /\ \A p \in Ports : p \in Stations <=> Owner[p] \in Hosts
  /\ \A x \in Hubs \cup Switches : x \notin Hosts
  BY NetworkAssumption DEF Stations

\* The queues keep their type, and only those of connected ports take a frame.
LEMMA PushTyped ==
  ASSUME NEW Q \in [Cables -> Seq(Ids)], NEW S, NEW i \in Ids
  PROVE  /\ Pushed(Q, S, i) \in [Cables -> Seq(Ids)]
         /\ Takers(Q, S) \subseteq S \cap Cables
  <1>1. \A c \in Cables : Append(Q[c], i) \in Seq(Ids)
    BY Appended
  <1>2. Takers(Q, S) \subseteq S \cap Cables
    BY DEF Takers
  <1> QED BY <1>1, <1>2 DEF Pushed

\* Pushing a frame nowhere.
LEMMA PushNowhere ==
  ASSUME NEW Q \in [Cables -> Seq(Ids)], NEW i
  PROVE  Pushed(Q, {}, i) = Q /\ Takers(Q, {}) = {} /\ Cardinality(Takers(Q, {})) = 0
  <1>1. Takers(Q, {}) = {}
    BY DEF Takers
  <1>2. Pushed(Q, {}, i) = Q
    BY <1>1 DEF Pushed
  <1> QED BY <1>1, <1>2, FS_EmptySet

\* update_table keeps the table within its size and one entity for an address, and
\* what it adds is the port the frame came in by.
LEMMA TableKeeps ==
  ASSUME NEW T0 \in SUBSET Entities, IsFiniteSet(T0), Cardinality(T0) <= TableSize,
         HasOneEach(T0), now \in Nat,
         NEW m \in Stations, NEW p \in Ports, NEW T \in Learns(T0, m, p)
  PROVE  /\ T \in SUBSET Entities /\ IsFiniteSet(T) /\ Cardinality(T) <= TableSize
         /\ HasOneEach(T)
         /\ \A e \in T : e \in T0 \/ (e.mac = m /\ e.port = p)
  <1> DEFINE n == Entry(m, p)
  <1>1. n \in Entities /\ n.mac = m /\ n.port = p
    BY Network DEF Entry, Entities
  <1>2. Cardinality(T0) \in Nat
    BY FS_CardinalityType
  <1> HIDE DEF n
  <1>3. PICK X \in SUBSET T0 :
          /\ T = X \cup {n}
          /\ Cardinality(T0) < TableSize \/ X # T0
          /\ \A e \in X : e.mac # m
    <2>1. CASE Entity(T0, m) = {} /\ Cardinality(T0) < TableSize
      <3>1. T = T0 \cup {n}
        BY <2>1 DEF Learns, n
      <3> QED BY <2>1, <3>1 DEF Entity
    <2>2. CASE Entity(T0, m) = {} /\ ~ (Cardinality(T0) < TableSize)
      <3>1. PICK e \in T0 : T = (T0 \ {e}) \cup {n}
        BY <2>2 DEF Learns, n
      <3>2. \A x \in T0 \ {e} : x.mac # m
        BY <2>2 DEF Entity
      <3>3. T0 \ {e} \in SUBSET T0 /\ T0 \ {e} # T0
        OBVIOUS
      <3> QED BY <3>1, <3>2, <3>3
    <2>3. CASE Entity(T0, m) # {}
      <3> DEFINE Y == {e \in T0 : e.mac # m /\ e.timeout >= now}
      <3>1. T = Y \cup {n}
        BY <2>3 DEF Learns, n
      <3>2. PICK e \in T0 : e.mac = m
        BY <2>3 DEF Entity
      <3>3. Y \in SUBSET T0 /\ Y # T0
        BY <3>2
      <3> QED BY <3>1, <3>3
    <2> QED BY <2>1, <2>2, <2>3
  <1>4. IsFiniteSet(X) /\ Cardinality(X) <= Cardinality(T0) /\ Cardinality(X) \in Nat
        /\ (Cardinality(X) = Cardinality(T0) => X = T0)
    BY FS_Subset, FS_CardinalityType
  <1>5. Cardinality(X) < TableSize
    BY <1>2, <1>3, <1>4, Network
  <1>6. IsFiniteSet(T) /\ Cardinality(T) <= Cardinality(X) + 1
    <2>1. /\ IsFiniteSet(X \cup {n})
          /\ Cardinality(X \cup {n}) = IF n \in X THEN Cardinality(X) ELSE Cardinality(X) + 1
      BY <1>4, FS_AddElement
    <2> QED BY <1>3, <1>4, <2>1
  <1>7. Cardinality(T) \in Nat
    BY <1>6, FS_CardinalityType
  <1>8. Cardinality(T) <= TableSize
    BY <1>4, <1>5, <1>6, <1>7, Network
  <1>9. HasOneEach(T)
    BY <1>1, <1>3 DEF HasOneEach
  <1> QED BY <1>1, <1>3, <1>6, <1>8, <1>9

-----------------------------------------------------------------------------
(* What becomes of a frame that comes out of a cable                           *)

\* The frame goes on to a set S of ports, all of them onward from the cable, or it
\* is written to the interface at the end, or it is gone.
Outcome(c, i, Q, S) ==
  /\ \A q \in S \cap Cables : Onward(c, q)
  /\ queue' = Pushed(Q, S, i)
  /\ allocated' = allocated + Cardinality(Takers(Q, S)) - 1
  /\ \/ got' = got
     \/ /\ S = {} /\ Wire[c] \in Stations
        /\ got' = [got EXCEPT ![Wire[c]][i] = @ + 1]

\* At the end of the cable lies the way to m.
Towards(c, m) == Wire[c] \in Away[m]

\* A frame that is for m, on the way to m, is written there or stays on the way.
Routed(c, i, S) ==
  \A m \in Stations : sent[i].dmac \in {m, Everyone} /\ Towards(c, m) =>
    \/ \E q \in S \cap Cables : Onward(c, q) /\ Towards(q, m)
    \/ Wire[c] = m /\ got' = [got EXCEPT ![m][i] = @ + 1]

\* The tables, as far as the invariant speaks of them.
Tables ==
  /\ table \in [Switches -> SUBSET Entities]
  /\ \A s \in Switches : Cardinality(table[s]) <= TableSize /\ HasOneEach(table[s])
  /\ TablesFinite
  /\ Learned

\* From a device on the way to m one cable leads towards m, and it is not the one
\* back; what has reached another host is not on the way.
LEMMA WayOn ==
  ASSUME NEW c \in Cables, NEW m \in Stations, Towards(c, m), Wire[c] # m
  PROVE  /\ \E q \in Cables : Onward(c, q) /\ Towards(q, m)
         /\ \A x, y \in Cables : /\ Owner[x] = Owner[Wire[c]] /\ Towards(x, m)
                                /\ Owner[y] = Owner[Wire[c]] /\ Towards(y, m)
                                => x = y
         /\ \A x \in Cables : Owner[x] = Owner[Wire[c]] /\ Towards(x, m) => x # Wire[c]
  <1>1. PICK d \in Away[m] : Onward(d, Wire[c])
    BY TreeAssumption DEF Towards
  <1>2. /\ d \in Cables /\ Wire[d] \in Cables /\ Wire[Wire[d]] = d
        /\ Owner[Wire[c]] = Owner[Wire[d]] /\ Wire[c] # Wire[d] /\ Owner[Wire[c]] \notin Hosts
    BY <1>1, Network, TreeAssumption DEF Onward
  <1>3. Onward(c, Wire[d]) /\ Towards(Wire[d], m)
    BY <1>1, <1>2 DEF Onward, Towards
  <1>4. ASSUME NEW x \in Cables, Owner[x] = Owner[Wire[c]], Towards(x, m) PROVE x = Wire[d]
    <2>1. Wire[x] \in Away[m] /\ Wire[Wire[x]] = x
      BY <1>4, Network DEF Towards
    <2>2. Wire[x] = d
      BY <1>1, <1>2, <1>4, <2>1, TreeAssumption
    <2> QED BY <1>2, <2>1, <2>2
  <1> QED BY <1>2, <1>3, <1>4

\* What is written to a station at the end of a cable is not on the way elsewhere.
LEMMA WayEnds ==
  ASSUME NEW c \in Cables, NEW m \in Stations, Towards(c, m), Wire[c] \in Stations
  PROVE  Wire[c] = m
  <1>1. CASE Wire[c] # m
    <2>1. PICK q \in Cables : Onward(c, q)
      BY <1>1, WayOn
    <2> QED BY <2>1 DEF Onward, Stations
  <1> QED BY <1>1

LEMMA FreedOutcome ==
  ASSUME NEW c \in Cables, NEW i \in Ids, NEW Q \in [Cables -> Seq(Ids)],
         allocated \in Int, Freed(Q),
         \/ got' = got
         \/ Wire[c] \in Stations /\ got' = [got EXCEPT ![Wire[c]][i] = @ + 1]
  PROVE  Outcome(c, i, Q, {})
  <1>1. queue' = Pushed(Q, {}, i) /\ allocated' = allocated + Cardinality(Takers(Q, {})) - 1
    BY PushNowhere DEF Freed
  <1> QED BY <1>1 DEF Outcome

LEMMA UnicastOutcome ==
  ASSUME NEW c \in Cables, NEW i \in Ids, NEW Q \in [Cables -> Seq(Ids)],
         NEW p \in Ports, Onward(c, p), allocated \in Int, Unicast(p, i, Q), got' = got
  PROVE  Outcome(c, i, Q, {p})
  <1>1. queue' = Pushed(Q, {p}, i)
    BY DEF Unicast
  <1>2. allocated' = allocated + Cardinality(Takers(Q, {p})) - 1
    <2>1. CASE p \in Takers(Q, {p})
      <3>1. Takers(Q, {p}) = {p}
        BY <2>1 DEF Takers
      <3>2. Cardinality(Takers(Q, {p})) = 1
        BY <3>1, FS_Singleton
      <3>3. allocated' = allocated
        BY <2>1 DEF Unicast
      <3> QED BY <3>2, <3>3
    <2>2. CASE p \notin Takers(Q, {p})
      <3>1. Takers(Q, {p}) = {}
        BY <2>2 DEF Takers
      <3>2. Cardinality(Takers(Q, {p})) = 0
        BY <3>1, FS_EmptySet
      <3>3. allocated' = allocated - 1
        BY <2>2 DEF Unicast
      <3> QED BY <3>2, <3>3
    <2> QED BY <2>1, <2>2
  <1> QED BY <1>1, <1>2 DEF Outcome

LEMMA BroadcastOutcome ==
  ASSUME NEW c \in Cables, NEW i \in Ids, NEW Q \in [Cables -> Seq(Ids)],
         Owner[Wire[c]] \notin Hosts, Broadcast(Wire[c], i, Q), got' = got
  PROVE  /\ Outcome(c, i, Q, Others(Wire[c]))
         /\ Routed(c, i, Others(Wire[c]))
  <1>1. \A q \in Others(Wire[c]) : Onward(c, q)
    BY DEF Others, Onward
  <1>2. Outcome(c, i, Q, Others(Wire[c]))
    BY <1>1 DEF Broadcast, Outcome
  <1>3. ASSUME NEW m \in Stations, Towards(c, m)
        PROVE  \E q \in Others(Wire[c]) \cap Cables : Onward(c, q) /\ Towards(q, m)
    <2>1. PICK q \in Cables : Onward(c, q) /\ Towards(q, m)
      BY <1>3, Network, WayOn DEF Stations
    <2>2. q \in Others(Wire[c])
      BY <2>1, Network DEF Others, Onward
    <2> QED BY <2>1, <2>2
  <1> QED BY <1>2, <1>3 DEF Routed

\* Every frame that was sent has a number.
LEMMA SentIds ==
  ASSUME sent \in Seq([smac : Stations, dmac : Addresses]), Len(sent) <= MaxFrames
  PROVE  Len(sent) \in Nat /\ 1..Len(sent) \subseteq Ids
  <1> DEFINE F == [smac : Stations, dmac : Addresses]
  <1>1. sent \in Seq(F)
    OBVIOUS
  <1> HIDE DEF F
  <1>2. Len(sent) \in Nat
    BY <1>1, ListShape
  <1> QED BY <1>2, Network DEF Ids

\* A frame that was sent has its addresses.
LEMMA SentFrames ==
  ASSUME sent \in Seq([smac : Stations, dmac : Addresses]), NEW i \in 1..Len(sent)
  PROVE  sent[i].smac \in Stations /\ sent[i].dmac \in Addresses
  <1> DEFINE F == [smac : Stations, dmac : Addresses]
  <1>1. sent \in Seq(F)
    OBVIOUS
  <1>2. \A f \in F : f.smac \in Stations /\ f.dmac \in Addresses
    OBVIOUS
  <1> HIDE DEF F
  <1>3. sent[i] \in F
    BY <1>1, ListShape
  <1> QED BY <1>2, <1>3

\* packet_forward of the port at the end of the cable.
LEMMA ArrivesShape ==
  ASSUME Tables, now \in Nat, allocated \in Int,
         sent \in Seq([smac : Stations, dmac : Addresses]),
         NEW c \in Cables, NEW i \in Ids, i \in 1..Len(sent), c \in Away[sent[i].smac],
         NEW Q \in [Cables -> Seq(Ids)],
         Arrives(Wire[c], i, Q)
  PROVE  /\ Tables'
         /\ \E S : Outcome(c, i, Q, S) /\ (Active(Wire[c]) => Routed(c, i, S))
  <1> DEFINE p == Wire[c]
             s == Owner[p]
             m == sent[i].smac
  <1>1. p \in Cables /\ Wire[p] = c /\ p \in Ports
    BY Network
  <1>2. m \in Stations
    BY SentFrames
  <1>3. table' = table => Tables'
    BY DEF Tables, TablesFinite, Learned
  <1>4. CASE Refused(p, i, Q)
    <2>1. Freed(Q) /\ got' = got /\ table' = table
      BY <1>4 DEF Refused
    <2>2. Outcome(c, i, Q, {})
      BY <2>1, FreedOutcome
    <2> QED BY <1>3, <1>4, <2>1, <2>2 DEF Refused
  <1>5. CASE Written(p, i, Q)
    <2>1. p \in Stations
      BY <1>1, <1>5, Network DEF Written
    <2>2. Outcome(c, i, Q, {}) /\ got' = [got EXCEPT ![p][i] = @ + 1]
      BY <1>5, <2>1, FreedOutcome DEF Written
    <2>3. Routed(c, i, {})
      BY <2>1, <2>2, WayEnds DEF Routed
    <2> QED BY <1>3, <1>5, <2>2, <2>3 DEF Written
  <1>6. CASE HubSend(p, i, Q)
    <2>1. s \notin Hosts
      BY <1>6, Network DEF HubSend
    <2> QED BY <1>3, <1>6, <2>1, BroadcastOutcome DEF HubSend
  <1>7. CASE EtherSwitchSend(p, i, Q)
    <2>1. s \in Switches /\ s \notin Hosts /\ got' = got
      BY <1>7, Network DEF EtherSwitchSend
    <2>2. PICK T \in Learns(table[s], m, p) :
            /\ table' = [table EXCEPT ![s] = T]
            /\ \/ Broadcast(p, i, Q)
               \/ \E e \in T : /\ e.mac = sent[i].dmac
                              /\ IF e.port = p THEN Freed(Q) ELSE Unicast(e.port, i, Q)
      BY <1>7 DEF EtherSwitchSend, Entity
    <2>3. /\ T \in SUBSET Entities /\ IsFiniteSet(T) /\ Cardinality(T) <= TableSize
          /\ HasOneEach(T)
          /\ \A e \in T : e \in table[s] \/ (e.mac = m /\ e.port = p)
      <3>1. /\ table[s] \in SUBSET Entities /\ IsFiniteSet(table[s])
            /\ Cardinality(table[s]) <= TableSize /\ HasOneEach(table[s])
        BY <2>1 DEF Tables, TablesFinite
      <3> QED BY <1>1, <1>2, <2>2, <3>1, TableKeeps
    <2>4. \A e \in T : /\ e.port \in Cables /\ Owner[e.port] = s
                       /\ Wire[e.port] \in Away[e.mac]
      <3>1. \A e \in table[s] : /\ e.port \in Cables /\ Owner[e.port] = s
                                 /\ Wire[e.port] \in Away[e.mac]
        BY <2>1 DEF Tables, TablesFinite, Learned
      <3> QED BY <1>1, <2>3, <3>1
    <2>5. Tables'
      <3>1. \A x \in Switches : table'[x] = IF x = s THEN T ELSE table[x]
        BY <2>2 DEF Tables
      <3>2. table' \in [Switches -> SUBSET Entities]
        BY <2>2, <2>3 DEF Tables
      <3>3. TablesFinite' /\ Learned'
        BY <2>3, <2>4, <3>1 DEF Tables, TablesFinite, Learned
      <3>4. \A x \in Switches : Cardinality(table'[x]) <= TableSize /\ HasOneEach(table'[x])
        BY <2>3, <3>1 DEF Tables
      <3> QED BY <3>2, <3>3, <3>4 DEF Tables
    <2>6. CASE Broadcast(p, i, Q)
      BY <2>1, <2>5, <2>6, BroadcastOutcome
    <2>7. ASSUME NEW e \in T, e.mac = sent[i].dmac, NEW w \in Stations,
                 sent[i].dmac \in {w, Everyone}, Towards(c, w)
          PROVE  Towards(e.port, w) /\ e.port # p
      <3>1. e.mac = w /\ Towards(e.port, w)
        BY <2>3, <2>4, <2>7, Network DEF Entities, Towards
      <3>2. p # w
        BY <2>1 DEF Stations
      <3> QED BY <2>4, <2>7, <3>1, <3>2, WayOn
    <2>8. ASSUME NEW e \in T, e.mac = sent[i].dmac, e.port = p, Freed(Q)
          PROVE  Outcome(c, i, Q, {}) /\ Routed(c, i, {})
      <3>1. Outcome(c, i, Q, {})
        BY <2>1, <2>8, FreedOutcome
      <3>2. Routed(c, i, {})
        BY <2>7, <2>8 DEF Routed
      <3> QED BY <3>1, <3>2
    <2>9. ASSUME NEW e \in T, e.mac = sent[i].dmac, e.port # p, Unicast(e.port, i, Q)
          PROVE  Outcome(c, i, Q, {e.port}) /\ Routed(c, i, {e.port})
      <3>1. e.port \in Ports /\ e.port \in Cables /\ Onward(c, e.port)
        BY <2>1, <2>3, <2>4, <2>9, Network DEF Onward, Entities
      <3>2. Outcome(c, i, Q, {e.port})
        BY <2>1, <2>9, <3>1, UnicastOutcome
      <3>3. Routed(c, i, {e.port})
        BY <2>7, <2>9, <3>1 DEF Routed
      <3> QED BY <3>2, <3>3
    <2> QED BY <2>2, <2>5, <2>6, <2>8, <2>9
  <1> QED BY <1>4, <1>5, <1>6, <1>7 DEF Arrives

-----------------------------------------------------------------------------
(* The steps, as moves of one frame                                            *)

\* The list of one cable loses its n-th frame.
Without(F, c, n) == [F EXCEPT ![c] = RemoveAt(@, n)]

LEMMA WithoutShape ==
  ASSUME NEW F \in [Cables -> Seq(Ids)], NEW c \in Cables, NEW n \in 1..Len(F[c])
  PROVE  /\ Without(F, c, n) \in [Cables -> Seq(Ids)]
         /\ \A d \in Cables : Without(F, c, n)[d] = IF d = c THEN RemoveAt(F[c], n) ELSE F[d]
         /\ \A d \in Cables : ToSet(Without(F, c, n)[d]) \subseteq ToSet(F[d])
         /\ F[c][n] \in ToSet(F[c])
  <1>1. RemoveAt(F[c], n) \in Seq(Ids) /\ ToSet(RemoveAt(F[c], n)) \subseteq ToSet(F[c])
    BY Shortened, ShortenedSubset
  <1>2. F[c][n] \in ToSet(F[c])
    BY ListShape
  <1> QED BY <1>1, <1>2 DEF Without

\* network_control takes the first frame of a queue.
LEMMA PoppedIs ==
  ASSUME queue \in [Cables -> Seq(Ids)], NEW c \in Cables, HasTurn(c)
  PROVE  /\ 1 \in 1..Len(queue[c]) /\ Head(queue[c]) = queue[c][1]
         /\ Popped(c) = Without(queue, c, 1)
  <1>1. queue[c] # << >> /\ queue[c] \in Seq(Ids)
    BY DEF HasTurn
  <1> QED BY <1>1, TailRemoves DEF Popped, Without

\* Frame i is the first of the queue of cable c or one of those at its timers and goes, which leaves Q of
\* the queues; what waits for timers is as it is after the step.
Leaves(c, i, Q) ==
  \/ /\ held' = held
     /\ 1 \in 1..Len(queue[c]) /\ queue[c][1] = i /\ Q = Without(queue, c, 1)
  \/ /\ Q = queue
     /\ \E n \in 1..Len(held[c]) : held[c][n] = i /\ held' = Without(held, c, n)

LEMMA LeavesShape ==
  ASSUME queue \in [Cables -> Seq(Ids)], held \in [Cables -> Seq(Ids)],
         NEW c \in Cables, NEW i, NEW Q, Leaves(c, i, Q)
  PROVE  /\ Q \in [Cables -> Seq(Ids)] /\ held' \in [Cables -> Seq(Ids)]
         /\ i \in Carried(c) /\ i \in Ids
         /\ \A d \in Cables : ToSet(Q[d]) \cup ToSet(held'[d]) \subseteq Carried(d)
  <1>1. ASSUME held' = held, NEW n \in 1..Len(queue[c]), queue[c][n] = i,
               Q = Without(queue, c, n)
        PROVE  /\ Q \in [Cables -> Seq(Ids)] /\ held' \in [Cables -> Seq(Ids)]
               /\ i \in Carried(c) /\ i \in Ids
               /\ \A d \in Cables : ToSet(Q[d]) \cup ToSet(held'[d]) \subseteq Carried(d)
    BY <1>1, WithoutShape, ListShape DEF Carried
  <1>2. ASSUME Q = queue, NEW n \in 1..Len(held[c]), held[c][n] = i,
               held' = Without(held, c, n)
        PROVE  /\ Q \in [Cables -> Seq(Ids)] /\ held' \in [Cables -> Seq(Ids)]
               /\ i \in Carried(c) /\ i \in Ids
               /\ \A d \in Cables : ToSet(Q[d]) \cup ToSet(held'[d]) \subseteq Carried(d)
    BY <1>2, WithoutShape, ListShape DEF Carried
  <1> QED BY <1>1, <1>2 DEF Leaves

\* What becomes of it, and if the port at the end is active, where it goes.
Moves(c, i, Q, S) == Outcome(c, i, Q, S) /\ (Active(Wire[c]) => Routed(c, i, S))

\* A frame passed on by network_control or by a timer.
LEMMA Delivery ==
  ASSUME FInv, NEW c \in Cables,
         PassOn(c) \/ \E n \in DOMAIN held[c] : Fire(c, n)
  PROVE  /\ Tables' /\ UNCHANGED <<off, now, sent>>
         /\ \E i, Q : Leaves(c, i, Q) /\ \E S : Moves(c, i, Q, S)
  <1>1. /\ Tables /\ now \in Nat /\ allocated \in Int
        /\ sent \in Seq([smac : Stations, dmac : Addresses])
        /\ queue \in [Cables -> Seq(Ids)] /\ held \in [Cables -> Seq(Ids)]
    BY DEF FInv, TypeOK, Tables
  <1>2. ASSUME NEW i, NEW Q, Leaves(c, i, Q), Arrives(Wire[c], i, Q)
        PROVE  Tables' /\ \E S : Moves(c, i, Q, S)
    <2>1. Q \in [Cables -> Seq(Ids)] /\ i \in Carried(c) /\ i \in Ids
      BY <1>1, <1>2, LeavesShape
    <2>2. i \in 1..Len(sent) /\ c \in Away[sent[i].smac]
      BY <2>1 DEF FInv, Travel
    <2> QED BY <1>1, <1>2, <2>1, <2>2, ArrivesShape DEF Moves
  <1>3. CASE PassOn(c)
    <2>1. /\ HasTurn(c) /\ UNCHANGED <<held, off, now, sent>>
          /\ Arrives(Wire[c], Head(queue[c]), Popped(c))
      BY <1>3 DEF PassOn
    <2>2. Leaves(c, Head(queue[c]), Popped(c))
      BY <1>1, <2>1, PoppedIs DEF Leaves
    <2> QED BY <1>2, <2>1, <2>2
  <1>4. ASSUME NEW n \in DOMAIN held[c], Fire(c, n)
        PROVE  /\ Tables' /\ UNCHANGED <<off, now, sent>>
               /\ \E i, Q : Leaves(c, i, Q) /\ \E S : Moves(c, i, Q, S)
    <2>1. /\ held' = Without(held, c, n) /\ UNCHANGED <<off, now, sent>>
          /\ Arrives(Wire[c], held[c][n], queue)
      BY <1>4 DEF Fire, Without
    <2>2. n \in 1..Len(held[c])
      <3>1. held[c] \in Seq(Ids)
        BY <1>1
      <3> QED BY <3>1, ListShape
    <2>3. Leaves(c, held[c][n], queue)
      BY <2>1, <2>2 DEF Leaves
    <2> QED BY <1>2, <2>1, <2>3
  <1> QED BY <1>3, <1>4

\* Where a frame can be after such a step.
LEMMA DeliveryCarries ==
  ASSUME queue \in [Cables -> Seq(Ids)], held \in [Cables -> Seq(Ids)],
         NEW c \in Cables, NEW i, NEW Q, NEW S, Leaves(c, i, Q), Outcome(c, i, Q, S)
  PROVE  /\ queue' \in [Cables -> Seq(Ids)] /\ held' \in [Cables -> Seq(Ids)]
         /\ i \in Carried(c) /\ i \in Ids
         /\ \A d \in Cables : Carried(d)' \subseteq Carried(d) \cup (IF Onward(c, d) THEN {i} ELSE {})
  <1>1. /\ Q \in [Cables -> Seq(Ids)] /\ held' \in [Cables -> Seq(Ids)]
        /\ i \in Carried(c) /\ i \in Ids
        /\ \A d \in Cables : ToSet(Q[d]) \cup ToSet(held'[d]) \subseteq Carried(d)
    BY LeavesShape
  <1>2. queue' = Pushed(Q, S, i) /\ \A q \in S \cap Cables : Onward(c, q)
    BY DEF Outcome
  <1>3. queue' \in [Cables -> Seq(Ids)] /\ Takers(Q, S) \subseteq S \cap Cables
    BY <1>1, <1>2, PushTyped
  <1>4. \A d \in Cables : Carried(d)' = ToSet(queue'[d]) \cup ToSet(held'[d])
    BY DEF Carried
  <1>5. ASSUME NEW d \in Cables
        PROVE  Carried(d)' \subseteq Carried(d) \cup (IF Onward(c, d) THEN {i} ELSE {})
    <2>1. d \in Takers(Q, S) => Onward(c, d)
      BY <1>2, <1>3
    <2>2. \A j \in ToSet(queue'[d]) : j \in ToSet(Q[d]) \/ (j = i /\ d \in Takers(Q, S))
      <3>1. Q \in [Cables -> Seq(Ids)] /\ i \in Ids
        BY <1>1
      <3>2. Pushed(Q, S, i)[d] = IF d \in Takers(Q, S) THEN Append(Q[d], i) ELSE Q[d]
        BY DEF Pushed
      <3>3. ToSet(Append(Q[d], i)) = ToSet(Q[d]) \cup {i}
        BY <3>1, Appended
      <3> QED BY <1>2, <3>2, <3>3
    <2> QED BY <1>1, <1>4, <2>1, <2>2
  <1> QED BY <1>1, <1>3, <1>5

\* There are as many cables as the list of components can hold, a finite number.
LEMMA CablesFinite ==
  /\ IsFiniteSet(Cables)
  /\ \A Q, S : IsFiniteSet(Takers(Q, S)) /\ Cardinality(Takers(Q, S)) \in Nat
  <1>1. /\ Order \in [1..Len(Order) -> Cables] /\ Len(Order) \in Nat
        /\ \A c \in Cables : \E n \in 1..Len(Order) : Order[n] = c
    BY OrderAssumption, LenProperties
  <1>2. Order \in Surjection(1..Len(Order), Cables)
    BY <1>1 DEF Surjection
  <1>3. IsFiniteSet(1..Len(Order))
    BY <1>1, FS_Interval
  <1>4. IsFiniteSet(Cables)
    BY <1>2, <1>3, FS_Surjection
  <1>5. ASSUME NEW Q, NEW S
        PROVE  IsFiniteSet(Takers(Q, S)) /\ Cardinality(Takers(Q, S)) \in Nat
    <2>1. Takers(Q, S) \in SUBSET Cables
      BY DEF Takers
    <2> QED BY <1>4, <2>1, FS_Subset, FS_CardinalityType
  <1> QED BY <1>4, <1>5

\* network_process takes a frame from an interface.
LEMMA InputShape ==
  ASSUME TypeOK, NEW m \in Stations, NEW d \in Addresses \ {m}, Input(m, d)
  PROVE  /\ Len(sent) \in Nat /\ Len(sent) + 1 \in Ids /\ Len(sent') = Len(sent) + 1
         /\ sent' \in Seq([smac : Stations, dmac : Addresses])
         /\ \A j \in 1..Len(sent) : sent'[j] = sent[j]
         /\ sent'[Len(sent) + 1] = [smac |-> m, dmac |-> d]
         /\ queue' \in [Cables -> Seq(Ids)] /\ allocated' \in Int
         /\ UNCHANGED <<held, table, off, now, got>>
         /\ \A c \in Cables : \A j \in Carried(c)' :
              j \in Carried(c) \/ (j = Len(sent) + 1 /\ c = m)
  <1> DEFINE n == Len(sent) + 1
             F == [smac : Stations, dmac : Addresses]
             f == [smac |-> m, dmac |-> d]
  <1>1. sent \in Seq(F) /\ f \in F /\ sent' = Append(sent, f)
    BY DEF TypeOK, Input
  <1> HIDE DEF F, f
  <1>2. Len(sent) \in Nat /\ n \in Ids
    BY <1>1, ListShape, Network DEF Input, Ids
  <1>3. /\ Len(sent') = n /\ sent' \in Seq(F)
        /\ \A j \in 1..Len(sent) : sent'[j] = sent[j]
        /\ sent'[n] = f
    BY <1>1, Appended
  <1>4. /\ queue \in [Cables -> Seq(Ids)] /\ allocated \in Int
        /\ UNCHANGED <<held, table, off, now, got>>
        /\ \/ queue' = Pushed(queue, {m}, n) /\ allocated' = allocated + 1
           \/ queue' = queue /\ allocated' = allocated
    BY DEF TypeOK, Input
  <1>5. queue' \in [Cables -> Seq(Ids)] /\ allocated' \in Int
    BY <1>2, <1>4, PushTyped
  <1>6. ASSUME NEW c \in Cables, NEW j \in Carried(c)'
        PROVE  j \in Carried(c) \/ (j = n /\ c = m)
    <2>1. j \in ToSet(queue'[c]) \/ j \in ToSet(held[c])
      BY <1>4, <1>6 DEF Carried
    <2>2. CASE queue' = Pushed(queue, {m}, n)
      <3>1. /\ queue'[c] = IF c \in Takers(queue, {m}) THEN Append(queue[c], n) ELSE queue[c]
            /\ c \in Takers(queue, {m}) => c = m
        BY <2>2 DEF Pushed, Takers
      <3>2. ToSet(Append(queue[c], n)) = ToSet(queue[c]) \cup {n}
        BY <1>2, <1>4, Appended
      <3> QED BY <2>1, <3>1, <3>2 DEF Carried
    <2>3. CASE queue' = queue
      BY <2>1, <2>3 DEF Carried
    <2> QED BY <1>4, <2>2, <2>3
  <1> QED BY <1>2, <1>3, <1>4, <1>5, <1>6 DEF F, f

\* A frame waits for a timer instead of in the queue.
LEMMA HoldShape ==
  ASSUME queue \in [Cables -> Seq(Ids)], held \in [Cables -> Seq(Ids)],
         NEW c \in Cables, Hold(c)
  PROVE  /\ 1 \in 1..Len(queue[c]) /\ queue[c][1] \in Ids
         /\ queue' = Without(queue, c, 1)
         /\ held' = [held EXCEPT ![c] = Append(@, queue[c][1])]
         /\ queue' \in [Cables -> Seq(Ids)] /\ held' \in [Cables -> Seq(Ids)]
         /\ \A d \in Cables : Carried(d)' \subseteq Carried(d)
  <1>1. HasTurn(c)
    BY DEF Hold
  <1>2. /\ 1 \in 1..Len(queue[c]) /\ Head(queue[c]) = queue[c][1]
        /\ Popped(c) = Without(queue, c, 1)
    BY <1>1, PoppedIs
  <1> DEFINE i == queue[c][1]
  <1>3. /\ queue' = Without(queue, c, 1)
        /\ held' = [held EXCEPT ![c] = Append(@, i)]
    BY <1>2 DEF Hold
  <1>4. /\ queue' \in [Cables -> Seq(Ids)]
        /\ \A d \in Cables : ToSet(queue'[d]) \subseteq ToSet(queue[d])
        /\ i \in ToSet(queue[c])
    BY <1>2, <1>3, WithoutShape
  <1>5. i \in Ids
    BY <1>2, ListShape
  <1> HIDE DEF i
  <1>6. /\ Append(held[c], i) \in Seq(Ids)
        /\ ToSet(Append(held[c], i)) = ToSet(held[c]) \cup {i}
    BY <1>5, Appended
  <1>7. held' \in [Cables -> Seq(Ids)]
    BY <1>3, <1>6
  <1>8. ASSUME NEW d \in Cables PROVE Carried(d)' \subseteq Carried(d)
    <2>1. Carried(d)' = ToSet(queue'[d]) \cup ToSet(held'[d])
      BY DEF Carried
    <2>2. CASE d = c
      <3>1. held'[d] = Append(held[c], i)
        BY <1>3, <2>2
      <3> QED BY <1>4, <1>6, <2>1, <2>2, <3>1 DEF Carried
    <2>3. CASE d # c
      <3>1. held'[d] = held[d]
        BY <1>3, <2>3
      <3> QED BY <1>4, <2>1, <3>1 DEF Carried
    <2> QED BY <2>2, <2>3
  <1> QED BY <1>2, <1>3, <1>4, <1>5, <1>7, <1>8 DEF i

\* A frame is lost.
LEMMA LoseShape ==
  ASSUME queue \in [Cables -> Seq(Ids)], held \in [Cables -> Seq(Ids)],
         NEW c \in Cables, Lose(c)
  PROVE  /\ 1 \in 1..Len(queue[c])
         /\ queue' = Without(queue, c, 1) /\ held' = held
         /\ queue' \in [Cables -> Seq(Ids)]
         /\ allocated' = allocated - 1
         /\ UNCHANGED <<held, table, off, now, sent, got>>
         /\ \A d \in Cables : Carried(d)' \subseteq Carried(d)
  <1>1. HasTurn(c)
    BY DEF Lose
  <1>2. 1 \in 1..Len(queue[c]) /\ Popped(c) = Without(queue, c, 1)
    BY <1>1, PoppedIs
  <1>3. /\ queue' = Without(queue, c, 1) /\ allocated' = allocated - 1
        /\ UNCHANGED <<held, table, off, now, sent, got>>
    BY <1>2 DEF Lose, Freed
  <1>4. /\ queue' \in [Cables -> Seq(Ids)]
        /\ \A d \in Cables : ToSet(queue'[d]) \subseteq ToSet(queue[d])
    BY <1>2, <1>3, WithoutShape
  <1>5. \A d \in Cables : Carried(d)' \subseteq Carried(d)
    BY <1>3, <1>4 DEF Carried
  <1> QED BY <1>2, <1>3, <1>4, <1>5

-----------------------------------------------------------------------------
(* The first invariant is inductive                                            *)

\* The parts of the invariant after a step.
LEMMA PartsLater ==
  ASSUME /\ queue' \in [Cables -> Seq(Ids)] /\ held' \in [Cables -> Seq(Ids)]
         /\ Tables'
         /\ off' \subseteq Switchable
         /\ now' \in Nat /\ allocated' \in Int
         /\ sent' \in Seq([smac : Stations, dmac : Addresses]) /\ Len(sent') <= MaxFrames
         /\ got' \in [Stations -> [Ids -> Nat]],
         Travel'
  PROVE  FInv'
  BY DEF TypeOK, Tables, FInv

LEMMA InitFInv == Init => FInv
  <1> SUFFICES ASSUME Init PROVE FInv
    OBVIOUS
  <1>1. /\ queue \in [Cables -> Seq(Ids)] /\ held \in [Cables -> Seq(Ids)]
        /\ \A c \in Cables : queue[c] = << >> /\ held[c] = << >>
    BY DEF Init
  <1>2. sent = << >> /\ Len(sent) = 0
    BY DEF Init
  <1>3. sent \in Seq([smac : Stations, dmac : Addresses]) /\ Len(sent) <= MaxFrames
    BY <1>2, Network
  <1>4. /\ table \in [Switches -> SUBSET Entities] /\ TablesFinite /\ Learned
        /\ \A s \in Switches : Cardinality(table[s]) <= TableSize /\ HasOneEach(table[s])
    <2>1. \A s \in Switches : table[s] = {}
      BY DEF Init
    <2>2. table \in [Switches -> SUBSET Entities]
      BY DEF Init
    <2>3. IsFiniteSet({}) /\ Cardinality({}) = 0 /\ 0 <= TableSize /\ HasOneEach({})
      BY FS_EmptySet, Network DEF HasOneEach
    <2> QED BY <2>1, <2>2, <2>3 DEF TablesFinite, Learned
  <1>5. got \in [Stations -> [Ids -> Nat]]
    BY DEF Init
  <1>6. Travel
    <2>1. \A c \in Cables : Carried(c) = {}
      BY <1>1 DEF Carried, ToSet
    <2> QED BY <2>1 DEF Travel
  <1>7. off \subseteq Switchable /\ now \in Nat /\ allocated \in Int
    BY DEF Init
  <1> QED BY <1>1, <1>3, <1>4, <1>5, <1>6, <1>7 DEF FInv, TypeOK

\* A step that takes a frame to the end of a cable.
LEMMA DeliveryFInv ==
  ASSUME FInv, NEW c \in Cables,
         PassOn(c) \/ \E n \in DOMAIN held[c] : Fire(c, n)
  PROVE  FInv'
  <1>1. /\ Tables' /\ off' = off /\ now' = now /\ sent' = sent
        /\ \E i, Q : Leaves(c, i, Q) /\ \E S : Outcome(c, i, Q, S)
    BY Delivery DEF Moves
  <1>2. PICK i, Q, S : Leaves(c, i, Q) /\ Outcome(c, i, Q, S)
    BY <1>1
  <1>3. /\ queue \in [Cables -> Seq(Ids)] /\ held \in [Cables -> Seq(Ids)]
        /\ off \subseteq Switchable /\ now \in Nat /\ allocated \in Int
        /\ sent \in Seq([smac : Stations, dmac : Addresses]) /\ Len(sent) <= MaxFrames
        /\ got \in [Stations -> [Ids -> Nat]]
    BY DEF FInv, TypeOK
  <1>4. /\ queue' \in [Cables -> Seq(Ids)] /\ held' \in [Cables -> Seq(Ids)]
        /\ i \in Carried(c) /\ i \in Ids
        /\ \A d \in Cables : Carried(d)' \subseteq Carried(d) \cup (IF Onward(c, d) THEN {i} ELSE {})
    BY <1>2, <1>3, DeliveryCarries
  <1>5. i \in 1..Len(sent) /\ c \in Away[sent[i].smac]
    BY <1>4 DEF FInv, Travel
  <1>6. ASSUME NEW d \in Cables, NEW j \in Carried(d)'
        PROVE  j \in 1..Len(sent') /\ d \in Away[sent'[j].smac]
    <2>1. CASE j \in Carried(d)
      BY <1>1, <2>1 DEF FInv, Travel
    <2>2. CASE j = i /\ Onward(c, d)
      <3>1. sent[i].smac \in Stations
        BY <1>3, <1>5, SentFrames
      <3>2. d \in Away[sent[i].smac]
        BY <1>5, <2>2, <3>1, TreeAssumption
      <3> QED BY <1>1, <1>5, <2>2, <3>2
    <2> QED BY <1>4, <1>6, <2>1, <2>2
  <1>7. allocated' \in Int
    <2>1. Cardinality(Takers(Q, S)) \in Nat
      BY CablesFinite
    <2>2. allocated' = allocated + Cardinality(Takers(Q, S)) - 1
      BY <1>2 DEF Outcome
    <2> QED BY <1>3, <2>1, <2>2
  <1>8. got' \in [Stations -> [Ids -> Nat]]
    <2>1. CASE got' = got
      BY <1>3, <2>1
    <2>2. CASE Wire[c] \in Stations /\ got' = [got EXCEPT ![Wire[c]][i] = @ + 1]
      BY <1>3, <1>4, <2>2
    <2> QED BY <1>2, <2>1, <2>2 DEF Outcome
  <1>9. Travel'
    BY <1>6 DEF Travel
  <1> QED BY <1>1, <1>3, <1>4, <1>7, <1>8, <1>9, PartsLater

LEMMA InputFInv ==
  ASSUME FInv, NEW m \in Stations, NEW d \in Addresses \ {m}, Input(m, d)
  PROVE  FInv'
  <1>1. TypeOK
    BY DEF FInv
  <1>2. /\ Len(sent) \in Nat /\ Len(sent) + 1 \in Ids /\ Len(sent') = Len(sent) + 1
        /\ sent' \in Seq([smac : Stations, dmac : Addresses])
        /\ \A j \in 1..Len(sent) : sent'[j] = sent[j]
        /\ sent'[Len(sent) + 1] = [smac |-> m, dmac |-> d]
        /\ queue' \in [Cables -> Seq(Ids)] /\ allocated' \in Int
        /\ UNCHANGED <<held, table, off, now, got>>
        /\ \A c \in Cables : \A j \in Carried(c)' :
             j \in Carried(c) \/ (j = Len(sent) + 1 /\ c = m)
    BY <1>1, InputShape
  <1>3. ASSUME NEW c \in Cables, NEW j \in Carried(c)'
        PROVE  j \in 1..Len(sent') /\ c \in Away[sent'[j].smac]
    <2>1. CASE j \in Carried(c)
      <3>1. j \in 1..Len(sent) /\ c \in Away[sent[j].smac]
        BY <2>1 DEF FInv, Travel
      <3> QED BY <1>2, <3>1
    <2>2. CASE j = Len(sent) + 1 /\ c = m
      <3>1. sent'[j].smac = m
        BY <1>2, <2>2
      <3>2. c \in Away[m]
        BY <2>2, TreeAssumption
      <3> QED BY <1>2, <2>2, <3>1, <3>2
    <2> QED BY <1>2, <1>3, <2>1, <2>2
  <1>4. Travel'
    BY <1>3 DEF Travel
  <1>5. Tables'
    BY <1>2 DEF FInv, TypeOK, Tables, TablesFinite, Learned
  <1>6. Len(sent') <= MaxFrames
    BY <1>2, Network DEF Ids
  <1>7. /\ held' \in [Cables -> Seq(Ids)] /\ off' \subseteq Switchable /\ now' \in Nat
        /\ got' \in [Stations -> [Ids -> Nat]]
    BY <1>1, <1>2 DEF TypeOK
  <1> QED BY <1>2, <1>4, <1>5, <1>6, <1>7, PartsLater

\* What every other step has in common: no frame goes anywhere and nothing is learned.
LEMMA StillFInv ==
  ASSUME FInv,
         queue' \in [Cables -> Seq(Ids)], held' \in [Cables -> Seq(Ids)],
         \A d \in Cables : Carried(d)' \subseteq Carried(d),
         UNCHANGED <<table, sent, got>>,
         off' \subseteq Switchable, now' \in Nat, allocated' \in Int
  PROVE  FInv'
  <1>1. Travel'
    BY DEF FInv, Travel
  <1>2. Tables'
    BY DEF FInv, TypeOK, Tables, TablesFinite, Learned
  <1>3. /\ sent' \in Seq([smac : Stations, dmac : Addresses]) /\ Len(sent') <= MaxFrames
        /\ got' \in [Stations -> [Ids -> Nat]]
    BY DEF FInv, TypeOK
  <1> QED BY <1>1, <1>2, <1>3, PartsLater

LEMMA StepFInv == FInv /\ [Next]_vars => FInv'
  <1> SUFFICES ASSUME FInv, [Next]_vars PROVE FInv'
    OBVIOUS
  <1>1. /\ queue \in [Cables -> Seq(Ids)] /\ held \in [Cables -> Seq(Ids)]
        /\ off \subseteq Switchable /\ now \in Nat /\ allocated \in Int
    BY DEF FInv, TypeOK
  <1>2. ASSUME NEW m \in Stations, NEW d \in Addresses \ {m}, Input(m, d) PROVE FInv'
    BY <1>2, InputFInv
  <1>3. ASSUME NEW c \in Cables, Lose(c) PROVE FInv'
    <2>1. /\ queue' \in [Cables -> Seq(Ids)] /\ allocated' = allocated - 1
          /\ UNCHANGED <<held, table, off, now, sent, got>>
          /\ \A d \in Cables : Carried(d)' \subseteq Carried(d)
      BY <1>1, <1>3, LoseShape
    <2> QED BY <1>1, <2>1, StillFInv
  <1>4. ASSUME NEW c \in Cables, Hold(c) PROVE FInv'
    <2>1. /\ queue' \in [Cables -> Seq(Ids)] /\ held' \in [Cables -> Seq(Ids)]
          /\ \A d \in Cables : Carried(d)' \subseteq Carried(d)
      BY <1>1, <1>4, HoldShape
    <2>2. UNCHANGED <<table, off, now, allocated, sent, got>>
      BY <1>4 DEF Hold
    <2> QED BY <1>1, <2>1, <2>2, StillFInv
  <1>5. ASSUME NEW c \in Cables, PassOn(c) PROVE FInv'
    BY <1>5, DeliveryFInv
  <1>6. ASSUME NEW c \in Cables, NEW n \in DOMAIN held[c], Fire(c, n) PROVE FInv'
    BY <1>6, DeliveryFInv
  <1>7. ASSUME UNCHANGED <<network, sent>>, off' \subseteq Switchable, now' \in Nat
        PROVE  FInv'
    <2>1. UNCHANGED <<queue, held, table, allocated, got, sent>>
      BY <1>7 DEF network
    <2>2. \A d \in Cables : Carried(d)' \subseteq Carried(d)
      BY <2>1 DEF Carried
    <2> QED BY <1>1, <1>7, <2>1, <2>2, StillFInv
  <1>8. CASE Tick
    BY <1>1, <1>7, <1>8 DEF Tick
  <1>9. ASSUME NEW x \in Switchable, TurnOn(x) \/ TurnOff(x) PROVE FInv'
    BY <1>1, <1>7, <1>9 DEF TurnOn, TurnOff
  <1>10. CASE UNCHANGED vars
    BY <1>1, <1>7, <1>10 DEF vars, network
  <1> QED BY <1>2, <1>3, <1>4, <1>5, <1>6, <1>8, <1>9, <1>10 DEF Next, Control, Timers

\* Where the frames are and what the tables hold, for good.
THEOREM ForwardingInvariant == Spec => []FInv
  <1> QED BY InitFInv, StepFInv, PTL DEF Spec

\* Every queue and table keeps its type and every table its size and one entity for
\* an address, whatever update_table evicts or renews.
THEOREM ForwardingTypes == Spec => []TypeOK
  <1>1. FInv => TypeOK
    BY DEF FInv
  <1> QED BY <1>1, ForwardingInvariant, PTL

\* An entity of a MAC filtering table always names the port behind which its station
\* is, over all floods, evictions, lost frames and deactivated nodes.
THEOREM ForwardingLearned == Spec => []Learned
  <1>1. FInv => Learned
    BY DEF FInv
  <1> QED BY <1>1, ForwardingInvariant, PTL

-----------------------------------------------------------------------------
(* The second inductive invariant: where each frame has been                   *)

\* No cable carries a frame twice.
NoTwice ==
  \A c \in Cables : Distinct(queue[c]) /\ Distinct(held[c])
                    /\ ToSet(queue[c]) \cap ToSet(held[c]) = {}

\* Copies of frame i have been on the cables of P, which the first enters from the
\* sender and each other one from a cable before it.  They went on from every cable
\* that no longer carries one, and were written at most once at its end.
Trail(i, P) ==
  /\ P \subseteq Away[sent[i].smac]
  /\ \A c \in P : c = sent[i].smac \/ \E d \in P : Onward(d, c)
  /\ \A c \in Cables : i \in Carried(c) => c \in P /\ \A d \in P : ~ Onward(c, d)
  /\ \A m \in Stations :
       \/ got[m][i] = 0
       \/ got[m][i] = 1 /\ m \in Cables /\ Wire[m] \in P /\ i \notin Carried(Wire[m])

Trails == \A i \in 1..Len(sent) : \E P \in SUBSET Cables : Trail(i, P)

\* Nothing is known of a frame that was not sent.
Unsent ==
  \A i \in Ids : i > Len(sent) => \A m \in Stations : got[m][i] = 0

LInv == FInv /\ NoTwice /\ Trails /\ Unsent

\* Without the frame that leaves it, a cable does not carry it.
LEMMA LeavesOnce ==
  ASSUME queue \in [Cables -> Seq(Ids)], held \in [Cables -> Seq(Ids)], NoTwice,
         NEW c \in Cables, NEW i, NEW Q, Leaves(c, i, Q), NEW d \in Cables
  PROVE  /\ Distinct(Q[d]) /\ Distinct(held'[d]) /\ ToSet(Q[d]) \cap ToSet(held'[d]) = {}
         /\ ToSet(Q[d]) \cup ToSet(held'[d]) \subseteq Carried(d)
         /\ d = c => i \notin ToSet(Q[d]) \cup ToSet(held'[d])
  <1>1. /\ Distinct(queue[d]) /\ Distinct(held[d])
        /\ ToSet(queue[d]) \cap ToSet(held[d]) = {}
        /\ Distinct(queue[c]) /\ Distinct(held[c])
        /\ ToSet(queue[c]) \cap ToSet(held[c]) = {}
    BY DEF NoTwice
  <1>2. ASSUME held' = held, NEW n \in 1..Len(queue[c]), queue[c][n] = i,
               Q = Without(queue, c, n)
        PROVE  /\ Distinct(Q[d]) /\ Distinct(held'[d]) /\ ToSet(Q[d]) \cap ToSet(held'[d]) = {}
               /\ ToSet(Q[d]) \cup ToSet(held'[d]) \subseteq Carried(d)
               /\ d = c => i \notin ToSet(Q[d]) \cup ToSet(held'[d])
    <2>1. Q[d] = IF d = c THEN RemoveAt(queue[c], n) ELSE queue[d]
      BY <1>2, WithoutShape
    <2>2. /\ Distinct(RemoveAt(queue[c], n))
          /\ ToSet(RemoveAt(queue[c], n)) = ToSet(queue[c]) \ {i}
      BY <1>1, <1>2, ShortenedDistinct
    <2>3. i \in ToSet(queue[c])
      BY <1>2, WithoutShape
    <2> QED BY <1>1, <1>2, <2>1, <2>2, <2>3 DEF Carried
  <1>3. ASSUME Q = queue, NEW n \in 1..Len(held[c]), held[c][n] = i,
               held' = Without(held, c, n)
        PROVE  /\ Distinct(Q[d]) /\ Distinct(held'[d]) /\ ToSet(Q[d]) \cap ToSet(held'[d]) = {}
               /\ ToSet(Q[d]) \cup ToSet(held'[d]) \subseteq Carried(d)
               /\ d = c => i \notin ToSet(Q[d]) \cup ToSet(held'[d])
    <2>1. held'[d] = IF d = c THEN RemoveAt(held[c], n) ELSE held[d]
      BY <1>3, WithoutShape
    <2>2. /\ Distinct(RemoveAt(held[c], n))
          /\ ToSet(RemoveAt(held[c], n)) = ToSet(held[c]) \ {i}
      BY <1>1, <1>3, ShortenedDistinct
    <2>3. i \in ToSet(held[c])
      BY <1>3, WithoutShape
    <2> QED BY <1>1, <1>3, <2>1, <2>2, <2>3 DEF Carried
  <1> QED BY <1>2, <1>3 DEF Leaves

\* A frame that goes on to cables that do not carry it is on every cable once.
LEMMA DeliveryOnce ==
  ASSUME queue \in [Cables -> Seq(Ids)], held \in [Cables -> Seq(Ids)], NoTwice,
         NEW c \in Cables, NEW i, NEW Q, NEW S, Leaves(c, i, Q), Outcome(c, i, Q, S),
         \A d \in Cables : Onward(c, d) => i \notin Carried(d)
  PROVE  /\ NoTwice'
         /\ i \notin Carried(c)'
         /\ \A d \in Cables : \A j \in Carried(d)' :
              j \in Carried(d) \/ (j = i /\ d \in S /\ Onward(c, d))
  <1>1. Q \in [Cables -> Seq(Ids)] /\ i \in Ids /\ i \in Carried(c)
    BY LeavesShape
  <1>2. queue' = Pushed(Q, S, i) /\ \A q \in S \cap Cables : Onward(c, q)
    BY DEF Outcome
  <1>3. Takers(Q, S) \subseteq S \cap Cables
    BY <1>1, PushTyped
  <1>4. ASSUME NEW d \in Cables
        PROVE  /\ Distinct(queue'[d]) /\ Distinct(held'[d])
               /\ ToSet(queue'[d]) \cap ToSet(held'[d]) = {}
               /\ d = c => i \notin ToSet(queue'[d]) \cup ToSet(held'[d])
               /\ \A j \in ToSet(queue'[d]) \cup ToSet(held'[d]) :
                    j \in Carried(d) \/ (j = i /\ d \in S /\ Onward(c, d))
    <2>1. /\ Distinct(Q[d]) /\ Distinct(held'[d]) /\ ToSet(Q[d]) \cap ToSet(held'[d]) = {}
          /\ ToSet(Q[d]) \cup ToSet(held'[d]) \subseteq Carried(d)
          /\ d = c => i \notin ToSet(Q[d]) \cup ToSet(held'[d])
      BY LeavesOnce
    <2>2. CASE d \in Takers(Q, S)
      <3>1. Onward(c, d) /\ d \in S /\ i \notin Carried(d) /\ d # c
        BY <1>1, <1>2, <1>3, <2>2
      <3>2. Pushed(Q, S, i)[d] = Append(Q[d], i)
        BY <2>2 DEF Pushed
      <3>3. queue'[d] = Append(Q[d], i)
        BY <1>2, <3>2
      <3>4. Distinct(Append(Q[d], i)) /\ ToSet(Append(Q[d], i)) = ToSet(Q[d]) \cup {i}
        <4>1. Q[d] \in Seq(Ids) /\ i \in Ids /\ i \notin ToSet(Q[d]) /\ Distinct(Q[d])
          BY <1>1, <2>1, <3>1
        <4>2. ToSet(Append(Q[d], i)) = ToSet(Q[d]) \cup {i}
          BY <4>1, Appended
        <4>3. Distinct(Append(Q[d], i))
          BY <4>1, AppendedDistinct
        <4> QED BY <4>2, <4>3
      <3> QED BY <2>1, <3>1, <3>3, <3>4
    <2>3. CASE d \notin Takers(Q, S)
      <3>1. Pushed(Q, S, i)[d] = Q[d]
        BY <2>3 DEF Pushed
      <3>2. queue'[d] = Q[d]
        BY <1>2, <3>1
      <3> QED BY <2>1, <3>2
    <2> QED BY <2>2, <2>3
  <1>5. NoTwice'
    BY <1>4 DEF NoTwice
  <1>6. \A d \in Cables : Carried(d)' = ToSet(queue'[d]) \cup ToSet(held'[d])
    BY DEF Carried
  <1> QED BY <1>4, <1>5, <1>6

\* Away from a station there is one cable into a device, and none into the station.
LEMMA OneWay ==
  ASSUME NEW m \in Stations, NEW c \in Away[m]
  PROVE  /\ c \in Cables /\ Wire[c] # m
         /\ \A d \in Cables : Onward(c, d) => d \in Away[m]
         /\ \A d \in Away[m], x \in Cables : Onward(c, x) /\ Onward(d, x) => c = d
         /\ ~ Onward(c, m)
  <1>1. \A d \in Away[m], x \in Cables : Onward(c, x) /\ Onward(d, x) => c = d
    <2>1. \A d \in Away[m] : Owner[Wire[c]] = Owner[Wire[d]] => c = d
      BY TreeAssumption
    <2> QED BY <2>1 DEF Onward
  <1>2. ~ Onward(c, m)
    BY DEF Onward, Stations
  <1> QED BY <1>1, <1>2, TreeAssumption

\* The trail of the frame that is passed on gets longer by the cables it goes on to.
LEMMA TrailLonger ==
  ASSUME FInv, NEW c \in Cables, NEW i \in 1..Len(sent), NEW S, NEW P, Trail(i, P),
         sent' = sent, i \in Carried(c), i \notin Carried(c)',
         \A q \in S \cap Cables : Onward(c, q),
         \A d \in Cables : i \in Carried(d)' => i \in Carried(d) \/ d \in S,
         \/ got' = got
         \/ /\ S = {} /\ Wire[c] \in Stations
            /\ got' = [got EXCEPT ![Wire[c]][i] = @ + 1]
  PROVE  /\ P \cup (S \cap Cables) \in SUBSET Cables
         /\ Trail(i, P \cup (S \cap Cables))'
         /\ got' # got => sent[i].smac # Wire[c] /\ got[Wire[c]][i] = 0
  <1> DEFINE m == sent[i].smac
             R == P \cup (S \cap Cables)
  <1>1. m \in Stations /\ got \in [Stations -> [Ids -> Nat]] /\ i \in Ids
    <2>1. /\ sent \in Seq([smac : Stations, dmac : Addresses]) /\ Len(sent) <= MaxFrames
          /\ got \in [Stations -> [Ids -> Nat]]
      BY DEF FInv, TypeOK
    <2>2. 1..Len(sent) \subseteq Ids
      BY <2>1, SentIds
    <2>3. sent[i].smac \in Stations
      BY <2>1, SentFrames
    <2> QED BY <2>1, <2>2, <2>3
  <1>2. /\ P \subseteq Away[m] /\ Away[m] \subseteq Cables
        /\ \A d \in P : d = m \/ \E x \in P : Onward(x, d)
        /\ \A d \in Cables : i \in Carried(d) => d \in P /\ \A x \in P : ~ Onward(d, x)
        /\ \A w \in Stations :
             \/ got[w][i] = 0
             \/ got[w][i] = 1 /\ w \in Cables /\ Wire[w] \in P /\ i \notin Carried(Wire[w])
    BY <1>1, TreeAssumption DEF Trail
  <1>3. c \in P /\ c \in Away[m] /\ \A x \in P : ~ Onward(c, x)
    BY <1>2
  <1>4. R \subseteq Away[m]
    BY <1>1, <1>2, <1>3, OneWay
  <1>5. \A d \in R : d = m \/ \E x \in R : Onward(x, d)
    BY <1>2, <1>3
  <1>6. ASSUME NEW d \in Cables, i \in Carried(d)', NEW x \in R, Onward(d, x) PROVE FALSE
    <2>1. CASE d \in S
      <3>1. Onward(c, d) /\ d \in Away[m]
        BY <1>4, <2>1
      <3>2. CASE x \in P
        <4>1. x # m
          BY <1>1, <1>6, <3>1, OneWay
        <4>2. PICK y \in P : Onward(y, x)
          BY <1>2, <3>2, <4>1
        <4>3. y = d
          BY <1>1, <1>2, <1>6, <3>1, <3>2, <4>2, OneWay
        <4> QED BY <1>3, <3>1, <4>2, <4>3
      <3>3. CASE x \in S
        <4>1. Onward(c, x)
          BY <1>2, <1>4, <3>3
        <4>2. c = d
          BY <1>1, <1>2, <1>3, <1>4, <1>6, <3>1, <4>1, OneWay
        <4> QED BY <1>3, <3>1, <4>2
      <3> QED BY <3>2, <3>3
    <2>2. CASE d \notin S
      <3>1. i \in Carried(d) /\ d # c
        BY <1>6, <2>2
      <3>2. d \in P /\ d \in Away[m] /\ x \notin P
        BY <1>2, <1>6, <3>1
      <3>3. Onward(c, x)
        BY <3>2
      <3>4. c = d
        BY <1>1, <1>2, <1>3, <1>4, <1>6, <3>2, <3>3, OneWay
      <3> QED BY <3>1, <3>4
    <2> QED BY <2>1, <2>2
  <1>7. \A d \in Cables : i \in Carried(d)' => d \in R
    BY <1>2
  <1>8. ASSUME got' # got PROVE m # Wire[c] /\ got[Wire[c]][i] = 0
    <2>1. Wire[c] \in Stations /\ Wire[Wire[c]] = c
      BY <1>8, Network
    <2>2. got[Wire[c]][i] = 0
      BY <1>2, <2>1
    <2> QED BY <1>1, <1>3, <2>2, OneWay
  <1>9. ASSUME NEW w \in Stations
        PROVE  \/ got'[w][i] = 0
               \/ got'[w][i] = 1 /\ w \in Cables /\ Wire[w] \in R /\ i \notin Carried(Wire[w])'
    <2>1. CASE got' # got /\ w = Wire[c]
      <3>1. got'[w][i] = 1
        BY <1>1, <1>8, <2>1
      <3>2. w \in Cables /\ Wire[w] = c
        BY <2>1, Network
      <3> QED BY <1>3, <3>1, <3>2
    <2>2. CASE got' = got \/ w # Wire[c]
      <3>1. got'[w][i] = got[w][i]
        BY <1>1, <2>2
      <3>2. CASE got[w][i] = 1
        <4>1. w \in Cables /\ Wire[w] \in P /\ i \notin Carried(Wire[w]) /\ Wire[w] \in Cables
          BY <1>2, <3>2, Network
        <4>2. Wire[w] \notin S
          BY <1>3, <4>1
        <4> QED BY <3>1, <3>2, <4>1, <4>2
      <3> QED BY <1>2, <3>1, <3>2
    <2> QED BY <2>1, <2>2
  <1>10. Trail(i, R)'
    BY <1>4, <1>5, <1>6, <1>7, <1>9 DEF Trail
  <1>11. R \in SUBSET Cables
    BY <1>2
  <1> QED BY <1>8, <1>10, <1>11

\* The trail of a frame that nothing happens to, but that a copy may be lost.
LEMMA TrailSame ==
  ASSUME NEW i, NEW P, Trail(i, P), sent'[i] = sent[i],
         \A d \in Cables : i \in Carried(d)' => i \in Carried(d),
         \A m \in Stations : got'[m][i] = got[m][i]
  PROVE  Trail(i, P)'
  <1>1. \A m \in Stations : m \in Cables => Wire[m] \in Cables
    BY Network
  <1> QED BY <1>1 DEF Trail

\* A step that takes a frame to the end of a cable: at most, the station there
\* receives it for the first time.
LEMMA DeliveryLInv ==
  ASSUME LInv, NEW c \in Cables,
         PassOn(c) \/ \E n \in DOMAIN held[c] : Fire(c, n)
  PROVE  LInv' /\ [LAN!LanNext]_<<sent, got>>
  <1>1. /\ Tables' /\ off' = off /\ now' = now /\ sent' = sent
        /\ \E i, Q : Leaves(c, i, Q) /\ \E S : Outcome(c, i, Q, S)
    BY Delivery DEF LInv, Moves
  <1>2. PICK i, Q, S : Leaves(c, i, Q) /\ Outcome(c, i, Q, S)
    BY <1>1
  <1>3. /\ queue \in [Cables -> Seq(Ids)] /\ held \in [Cables -> Seq(Ids)] /\ NoTwice
        /\ sent \in Seq([smac : Stations, dmac : Addresses])
        /\ got \in [Stations -> [Ids -> Nat]]
        /\ Len(sent) \in Nat /\ 1..Len(sent) \subseteq Ids
    BY SentIds DEF LInv, FInv, TypeOK
  <1>4. i \in Carried(c) /\ i \in Ids /\ i \in 1..Len(sent)
    BY <1>2, <1>3, LeavesShape DEF LInv, FInv, Travel
  <1>5. PICK P \in SUBSET Cables : Trail(i, P)
    BY <1>4 DEF LInv, Trails
  <1>6. \A d \in Cables : Onward(c, d) => i \notin Carried(d)
    BY <1>4, <1>5 DEF Trail
  <1>7. /\ NoTwice' /\ i \notin Carried(c)'
        /\ \A d \in Cables : \A j \in Carried(d)' :
             j \in Carried(d) \/ (j = i /\ d \in S /\ Onward(c, d))
    BY <1>2, <1>3, <1>6, DeliveryOnce
  <1>8. /\ \A q \in S \cap Cables : Onward(c, q)
        /\ \/ got' = got
           \/ /\ S = {} /\ Wire[c] \in Stations
              /\ got' = [got EXCEPT ![Wire[c]][i] = @ + 1]
    BY <1>2 DEF Outcome
  <1> DEFINE N == P \cup (S \cap Cables)
  <1>9. /\ N \in SUBSET Cables /\ Trail(i, N)'
        /\ got' # got => sent[i].smac # Wire[c] /\ got[Wire[c]][i] = 0
    BY <1>1, <1>4, <1>5, <1>7, <1>8, TrailLonger DEF LInv
  <1> HIDE DEF N
  <1>10. ASSUME NEW m \in Stations, NEW j \in Ids, j # i PROVE got'[m][j] = got[m][j]
    <2>1. CASE m = Wire[c] /\ got' = [got EXCEPT ![Wire[c]][i] = @ + 1]
      BY <1>3, <1>4, <1>10, <2>1
    <2>2. CASE m # Wire[c] /\ got' = [got EXCEPT ![Wire[c]][i] = @ + 1]
      BY <1>3, <2>2
    <2> QED BY <1>8, <2>1, <2>2
  <1>11. ASSUME NEW j \in 1..Len(sent), j # i PROVE \E R \in SUBSET Cables : Trail(j, R)'
    <2>1. PICK R \in SUBSET Cables : Trail(j, R)
      BY DEF LInv, Trails
    <2>2. \A d \in Cables : j \in Carried(d)' => j \in Carried(d)
      BY <1>7, <1>11
    <2>3. \A m \in Stations : got'[m][j] = got[m][j]
      BY <1>3, <1>10, <1>11
    <2>4. Trail(j, R)'
      BY <1>1, <2>1, <2>2, <2>3, TrailSame
    <2> QED BY <2>4
  <1>12. Trails'
    BY <1>1, <1>9, <1>11 DEF Trails
  <1>13. Unsent'
    <2>1. ~ (i > Len(sent))
      BY <1>3, <1>4
    <2> QED BY <1>1, <1>10, <2>1 DEF Unsent, LInv
  <1>14. FInv'
    BY DeliveryFInv DEF LInv
  <1>15. [LAN!LanNext]_<<sent, got>>
    <2>1. CASE got' = got
      BY <1>1, <2>1
    <2>2. CASE got' # got
      <3>1. /\ Wire[c] \in Stations /\ sent[i].smac # Wire[c] /\ got[Wire[c]][i] = 0
            /\ got' = [got EXCEPT ![Wire[c]][i] = @ + 1]
        BY <1>8, <1>9, <2>2
      <3>2. got' = [got EXCEPT ![Wire[c]][i] = 1]
        BY <1>3, <1>4, <3>1
      <3>3. i \in LAN!Ids /\ i <= Len(sent)
        BY <1>4 DEF LAN!Ids, Ids
      <3>4. LAN!Receive(Wire[c], i)
        BY <1>1, <3>1, <3>2, <3>3 DEF LAN!Receive
      <3> QED BY <3>1, <3>3, <3>4 DEF LAN!LanNext
    <2> QED BY <2>1, <2>2
  <1> QED BY <1>7, <1>12, <1>13, <1>14, <1>15 DEF LInv

\* A frame is taken from an interface: it starts its trail.
LEMMA InputTrail ==
  ASSUME LInv, NEW m \in Stations, NEW d \in Addresses \ {m}, Input(m, d),
         NEW n, n = Len(sent) + 1
  PROVE  Trail(n, {m} \cap Cables)'
  <1> DEFINE P == {m} \cap Cables
  <1>1. TypeOK
    BY DEF LInv, FInv
  <1>2. /\ Len(sent) \in Nat /\ n \in Ids
        /\ sent'[n] = [smac |-> m, dmac |-> d] /\ got' = got
        /\ \A c \in Cables : \A j \in Carried(c)' : j \in Carried(c) \/ (j = n /\ c = m)
    BY <1>1, InputShape
  <1>3. \A c \in Cables : n \in Carried(c)' => c = m
    BY <1>2 DEF LInv, FInv, Travel
  <1>4. ~ Onward(m, m)
    BY DEF Onward, Stations
  <1>5. \A w \in Stations : got'[w][n] = 0
    <2>1. n \in Ids /\ n > Len(sent)
      BY <1>2
    <2> QED BY <1>2, <2>1 DEF LInv, Unsent
  <1>6. P \subseteq Away[sent'[n].smac] /\ \A c \in P : c = sent'[n].smac
    BY <1>2, TreeAssumption
  <1>7. \A c \in Cables : n \in Carried(c)' => c \in P /\ \A x \in P : ~ Onward(c, x)
    BY <1>3, <1>4
  <1> QED BY <1>5, <1>6, <1>7 DEF Trail

LEMMA InputLInv ==
  ASSUME LInv, NEW m \in Stations, NEW d \in Addresses \ {m}, Input(m, d)
  PROVE  LInv' /\ LAN!Send(m, d)
  <1> DEFINE N == Len(sent) + 1
  <1> SUFFICES ASSUME NEW n, n = N PROVE LInv' /\ LAN!Send(m, d)
    OBVIOUS
  <1>1. /\ TypeOK /\ FInv /\ NoTwice
        /\ queue \in [Cables -> Seq(Ids)] /\ held \in [Cables -> Seq(Ids)]
        /\ 1..Len(sent) \subseteq Ids
    BY SentIds DEF LInv, FInv, TypeOK
  <1>2. /\ Len(sent) \in Nat /\ n \in Ids /\ Len(sent') = n
        /\ \A j \in 1..Len(sent) : sent'[j] = sent[j]
        /\ sent'[n] = [smac |-> m, dmac |-> d]
        /\ UNCHANGED <<held, got>>
        /\ \A c \in Cables : \A j \in Carried(c)' : j \in Carried(c) \/ (j = n /\ c = m)
    BY <1>1, InputShape
  <1>3. FInv'
    BY <1>1, InputFInv
  <1>4. \A c \in Cables : n \notin Carried(c)
    BY <1>1, <1>2 DEF FInv, Travel
  <1>5. NoTwice'
    <2>1. ASSUME NEW c \in Cables
          PROVE  Distinct(queue'[c]) /\ ToSet(queue'[c]) \cap ToSet(held[c]) = {}
      <3>1. /\ Distinct(queue[c]) /\ ToSet(queue[c]) \cap ToSet(held[c]) = {}
            /\ n \notin ToSet(queue[c]) /\ n \notin ToSet(held[c])
        BY <1>1, <1>4 DEF NoTwice, Carried
      <3>2. queue'[c] = queue[c] \/ queue'[c] = Append(queue[c], n)
        BY DEF Input, Pushed
      <3>3. queue[c] \in Seq(Ids) /\ n \in Ids
        BY <1>1, <1>2
      <3>4. ToSet(Append(queue[c], n)) = ToSet(queue[c]) \cup {n}
        BY <3>3, Appended
      <3>5. Distinct(Append(queue[c], n))
        BY <3>1, <3>3, AppendedDistinct
      <3>6. CASE queue'[c] = Append(queue[c], n)
        BY <3>1, <3>4, <3>5, <3>6
      <3>7. CASE queue'[c] = queue[c]
        BY <3>1, <3>7
      <3> QED BY <3>2, <3>6, <3>7
    <2> QED BY <1>1, <1>2, <2>1 DEF NoTwice
  <1>6. ASSUME NEW i \in 1..Len(sent) PROVE \E P \in SUBSET Cables : Trail(i, P)'
    <2>1. PICK P \in SUBSET Cables : Trail(i, P)
      BY DEF LInv, Trails
    <2>2. i # n /\ sent'[i] = sent[i]
      BY <1>2
    <2>3. Trail(i, P)'
      BY <1>2, <2>1, <2>2, TrailSame
    <2> QED BY <2>3
  <1>7. \E P \in SUBSET Cables : Trail(n, P)'
    <2> DEFINE P == {m} \cap Cables
    <2>1. Trail(n, P)'
      BY InputTrail
    <2> HIDE DEF P
    <2> QED BY <2>1, InputTrail DEF P
  <1>8. Trails'
    <2>1. \A i \in 1..n : i \in 1..Len(sent) \/ i = n
      BY <1>2
    <2>2. \A i \in 1..Len(sent') : i \in 1..Len(sent) \/ i = n
      BY <1>2, <2>1
    <2> QED BY <1>6, <1>7, <2>2 DEF Trails
  <1>9. Unsent'
    <2>1. \A i \in Ids : i > n => i > Len(sent)
      BY <1>2 DEF Ids
    <2> QED BY <1>2, <2>1 DEF LInv, Unsent
  <1>10. LAN!Send(m, d)
    BY <1>2 DEF LAN!Send, Input
  <1> QED BY <1>3, <1>5, <1>8, <1>9, <1>10 DEF LInv

\* What every other step has in common: no frame arrives anywhere.
LEMMA StillLInv ==
  ASSUME LInv, FInv', NoTwice', UNCHANGED <<sent, got>>,
         \A d \in Cables : Carried(d)' \subseteq Carried(d)
  PROVE  LInv'
  <1>1. ASSUME NEW i \in 1..Len(sent) PROVE \E P \in SUBSET Cables : Trail(i, P)'
    <2>1. PICK P \in SUBSET Cables : Trail(i, P)
      BY DEF LInv, Trails
    <2>2. Trail(i, P)'
      BY <2>1, TrailSame
    <2> QED BY <2>2
  <1>2. Trails'
    BY <1>1 DEF Trails
  <1>3. Unsent'
    BY DEF LInv, Unsent
  <1> QED BY <1>2, <1>3 DEF LInv

\* A queue without its first frame.
LEMMA LoseOnce ==
  ASSUME queue \in [Cables -> Seq(Ids)], NoTwice, NEW c \in Cables,
         1 \in 1..Len(queue[c]), queue' = Without(queue, c, 1), NEW d \in Cables
  PROVE  /\ Distinct(queue'[d])
         /\ ToSet(queue'[d]) = IF d = c THEN ToSet(queue[c]) \ {queue[c][1]} ELSE ToSet(queue[d])
  <1>1. Distinct(queue[c]) /\ Distinct(queue[d])
    BY DEF NoTwice
  <1>2. queue'[d] = IF d = c THEN RemoveAt(queue[c], 1) ELSE queue[d]
    BY DEF Without
  <1>3. /\ Distinct(RemoveAt(queue[c], 1))
        /\ ToSet(RemoveAt(queue[c], 1)) = ToSet(queue[c]) \ {queue[c][1]}
    BY <1>1, ShortenedDistinct
  <1> QED BY <1>1, <1>2, <1>3

LEMMA LoseLInv ==
  ASSUME LInv, NEW c \in Cables, Lose(c)
  PROVE  LInv' /\ UNCHANGED <<sent, got>>
  <1>1. /\ queue \in [Cables -> Seq(Ids)] /\ held \in [Cables -> Seq(Ids)] /\ NoTwice
    BY DEF LInv, FInv, TypeOK
  <1>2. /\ 1 \in 1..Len(queue[c])
        /\ queue' = Without(queue, c, 1)
        /\ UNCHANGED <<held, sent, got>>
        /\ \A d \in Cables : Carried(d)' \subseteq Carried(d)
    BY <1>1, LoseShape
  <1>3. FInv'
    BY StepFInv DEF LInv, Next, Control
  <1>4. NoTwice'
    <2>1. ASSUME NEW d \in Cables
          PROVE  Distinct(queue'[d]) /\ ToSet(queue'[d]) \subseteq ToSet(queue[d])
      BY <1>1, <1>2, LoseOnce
    <2> QED BY <1>1, <1>2, <2>1 DEF NoTwice
  <1> QED BY <1>2, <1>3, <1>4, StillLInv

LEMMA HoldLInv ==
  ASSUME LInv, NEW c \in Cables, Hold(c)
  PROVE  LInv' /\ UNCHANGED <<sent, got>>
  <1>1. /\ queue \in [Cables -> Seq(Ids)] /\ held \in [Cables -> Seq(Ids)] /\ NoTwice
    BY DEF LInv, FInv, TypeOK
  <1> DEFINE i == queue[c][1]
  <1>2. /\ 1 \in 1..Len(queue[c]) /\ i \in Ids
        /\ queue' = Without(queue, c, 1)
        /\ held' = [held EXCEPT ![c] = Append(@, i)]
        /\ \A d \in Cables : Carried(d)' \subseteq Carried(d)
    BY <1>1, HoldShape
  <1>3. UNCHANGED <<sent, got>>
    BY DEF Hold
  <1>4. FInv'
    BY StepFInv DEF LInv, Next, Control
  <1>5. i \in ToSet(queue[c])
    BY <1>1, <1>2, ListShape
  <1>6. ASSUME NEW d \in Cables
        PROVE  /\ Distinct(queue'[d])
               /\ ToSet(queue'[d]) = IF d = c THEN ToSet(queue[c]) \ {i} ELSE ToSet(queue[d])
    BY <1>1, <1>2, LoseOnce
  <1> HIDE DEF i
  <1>7. /\ i \notin ToSet(held[c]) /\ Distinct(held[c])
        /\ ToSet(Append(held[c], i)) = ToSet(held[c]) \cup {i}
        /\ Distinct(Append(held[c], i))
    <2>1. i \notin ToSet(held[c]) /\ Distinct(held[c]) /\ held[c] \in Seq(Ids)
      BY <1>1, <1>5 DEF NoTwice
    <2>2. ToSet(Append(held[c], i)) = ToSet(held[c]) \cup {i}
      BY <1>2, <2>1, Appended
    <2>3. Distinct(Append(held[c], i))
      BY <1>2, <2>1, AppendedDistinct
    <2> QED BY <2>1, <2>2, <2>3
  <1>8. NoTwice'
    <2>1. ASSUME NEW d \in Cables
          PROVE  /\ Distinct(queue'[d]) /\ Distinct(held'[d])
                 /\ ToSet(queue'[d]) \cap ToSet(held'[d]) = {}
      <3>1. /\ Distinct(queue[d]) /\ Distinct(held[d])
            /\ ToSet(queue[d]) \cap ToSet(held[d]) = {}
        BY <1>1 DEF NoTwice
      <3>2. held'[d] = IF d = c THEN Append(held[c], i) ELSE held[d]
        BY <1>1, <1>2
      <3> QED BY <1>6, <1>7, <3>1, <3>2
    <2> QED BY <2>1 DEF NoTwice
  <1> QED BY <1>2, <1>3, <1>4, <1>8, StillLInv

LEMMA InitLInv == Init => LInv /\ LAN!LanInit
  <1> SUFFICES ASSUME Init PROVE LInv /\ LAN!LanInit
    OBVIOUS
  <1>1. FInv
    BY InitFInv
  <1>2. \A c \in Cables : queue[c] = << >> /\ held[c] = << >>
    BY DEF Init
  <1>3. NoTwice
    <2>1. Distinct(<< >>) /\ ToSet(<< >>) = {}
      BY DEF Distinct, ToSet
    <2> QED BY <1>2, <2>1 DEF NoTwice
  <1>4. Trails
    BY DEF Init, Trails
  <1>5. Unsent /\ LAN!LanInit
    BY DEF Init, Unsent, LAN!LanInit, LAN!Ids, Ids
  <1> QED BY <1>1, <1>3, <1>4, <1>5 DEF LInv

\* A step of the network is a step of the LAN or changes nothing that it shows.
LEMMA StepLInv == LInv /\ [Next]_vars => LInv' /\ [LAN!LanNext]_<<sent, got>>
  <1> SUFFICES ASSUME LInv, [Next]_vars
               PROVE  LInv' /\ [LAN!LanNext]_<<sent, got>>
    OBVIOUS
  <1>1. ASSUME NEW m \in Stations, NEW d \in Addresses \ {m}, Input(m, d)
        PROVE  LInv' /\ [LAN!LanNext]_<<sent, got>>
    <2>1. LInv' /\ LAN!Send(m, d)
      BY <1>1, InputLInv
    <2>2. d \in (Stations \cup {Everyone}) \ {m}
      BY DEF Addresses
    <2> QED BY <2>1, <2>2 DEF LAN!LanNext
  <1>2. ASSUME NEW c \in Cables, Lose(c)
        PROVE  LInv' /\ [LAN!LanNext]_<<sent, got>>
    BY <1>2, LoseLInv
  <1>3. ASSUME NEW c \in Cables, Hold(c)
        PROVE  LInv' /\ [LAN!LanNext]_<<sent, got>>
    BY <1>3, HoldLInv
  <1>4. ASSUME NEW c \in Cables, PassOn(c)
        PROVE  LInv' /\ [LAN!LanNext]_<<sent, got>>
    BY <1>4, DeliveryLInv
  <1>5. ASSUME NEW c \in Cables, NEW n \in DOMAIN held[c], Fire(c, n)
        PROVE  LInv' /\ [LAN!LanNext]_<<sent, got>>
    BY <1>5, DeliveryLInv
  <1>6. ASSUME UNCHANGED <<network, sent>>
        PROVE  LInv' /\ [LAN!LanNext]_<<sent, got>>
    <2>1. UNCHANGED <<queue, held, sent, got>>
      BY <1>6 DEF network
    <2>2. NoTwice' /\ \A d \in Cables : Carried(d)' \subseteq Carried(d)
      BY <2>1 DEF LInv, NoTwice, Carried
    <2>3. FInv'
      BY StepFInv DEF LInv
    <2> QED BY <2>1, <2>2, <2>3, StillLInv
  <1>7. CASE Tick
    BY <1>6, <1>7 DEF Tick
  <1>8. ASSUME NEW x \in Switchable, TurnOn(x) \/ TurnOff(x)
        PROVE  LInv' /\ [LAN!LanNext]_<<sent, got>>
    BY <1>6, <1>8 DEF TurnOn, TurnOff
  <1>9. CASE UNCHANGED vars
    BY <1>6, <1>9 DEF vars, network
  <1> QED BY <1>1, <1>2, <1>3, <1>4, <1>5, <1>7, <1>8, <1>9 DEF Next, Control, Timers

\* Hosts, hubs and switches without a loop implement the LAN of Lan: no station
\* receives a frame twice or its own, whatever is flooded, forgotten or turned off.
THEOREM NetworkIsLan == Spec => ImplementsLan
  <1>1. Init => LInv /\ LAN!LanInit
    BY InitLInv
  <1>2. LInv /\ [Next]_vars => LInv' /\ [LAN!LanNext]_<<sent, got>>
    BY StepLInv
  <1>3. Spec => LAN!LanInit /\ [][LAN!LanNext]_<<sent, got>>
    BY <1>1, <1>2, PTL DEF Spec
  <1> QED BY <1>3 DEF ImplementsLan, LAN!Ether, LAN!lanVars

-----------------------------------------------------------------------------
(* The packets that malloc has given out                                       *)

\* The places are those in the lists, and finite in number.
LEMMA PlacesShape ==
  ASSUME NEW F \in [Cables -> Seq(Ids)]
  PROVE  /\ \A x : x \in Places(F) <=>
               \E c \in Cables : \E n \in 1..Len(F[c]) : x = <<c, n>>
         /\ \A c \in Cables : Len(F[c]) \in Nat
         /\ IsFiniteSet(Places(F)) /\ Cardinality(Places(F)) \in Nat
  <1>1. \A c \in Cables : Len(F[c]) \in Nat /\ DOMAIN F[c] = 1..Len(F[c])
    BY ListShape
  <1>2. \A x : x \in Places(F) <=> \E c \in Cables : \E n \in 1..Len(F[c]) : x = <<c, n>>
    BY <1>1 DEF Places
  <1> DEFINE g == [c \in Cables |-> {c} \X DOMAIN F[c]]
             W == {{c} \X DOMAIN F[c] : c \in Cables}
  <1>3. g \in Surjection(Cables, W)
    BY DEF Surjection
  <1>4. IsFiniteSet(W)
    BY <1>3, CablesFinite, FS_Surjection
  <1>5. ASSUME NEW w \in W PROVE IsFiniteSet(w)
    <2>1. PICK c \in Cables : w = {c} \X DOMAIN F[c]
      OBVIOUS
    <2>2. IsFiniteSet({c})
      BY FS_Singleton
    <2>3. IsFiniteSet(1..Len(F[c]))
      <3>1. 1 \in Int /\ Len(F[c]) \in Int
        BY <1>1
      <3> QED BY <3>1, FS_Interval
    <2>4. IsFiniteSet({c} \X (1..Len(F[c])))
      BY <2>2, <2>3, FS_Product
    <2> QED BY <1>1, <2>1, <2>4
  <1>6. IsFiniteSet(UNION W)
    BY <1>4, <1>5, FS_UNION
  <1>7. IsFiniteSet(Places(F)) /\ Cardinality(Places(F)) \in Nat
    BY <1>6, FS_CardinalityType DEF Places
  <1> QED BY <1>1, <1>2, <1>7

\* One list has lost a frame: one place less.
LEMMA FewerPlaces ==
  ASSUME NEW F \in [Cables -> Seq(Ids)], NEW c \in Cables, NEW n \in 1..Len(F[c])
  PROVE  Cardinality(Places(Without(F, c, n))) = Cardinality(Places(F)) - 1
  <1> DEFINE G == Without(F, c, n)
             last == <<c, Len(F[c])>>
  <1>1. G \in [Cables -> Seq(Ids)] /\ \A d \in Cables \ {c} : G[d] = F[d]
    BY WithoutShape
  <1>2. Len(G[c]) = Len(F[c]) - 1
    <2>1. Len(RemoveAt(F[c], n)) = Len(F[c]) - 1
      BY Shortened
    <2> QED BY <2>1 DEF Without
  <1>3. Len(F[c]) \in Nat /\ Len(F[c]) \in 1..Len(F[c])
    BY PlacesShape
  <1> HIDE DEF G
  <1>4. \A x : x \in Places(G) <=> \E d \in Cables : \E k \in 1..Len(G[d]) : x = <<d, k>>
    BY <1>1, PlacesShape
  <1>5. \A x : x \in Places(F) <=> \E d \in Cables : \E k \in 1..Len(F[d]) : x = <<d, k>>
    BY PlacesShape
  <1>6. \A k : k \in 1..(Len(F[c]) - 1) <=> k \in 1..Len(F[c]) /\ k # Len(F[c])
    BY <1>3
  <1>7. ASSUME NEW x \in Places(G) PROVE x \in Places(F) \ {last}
    <2>1. PICK d \in Cables : \E k \in 1..Len(G[d]) : x = <<d, k>>
      BY <1>4
    <2>2. PICK k \in 1..Len(G[d]) : x = <<d, k>>
      BY <2>1
    <2>3. CASE d = c
      BY <1>2, <1>5, <1>6, <2>2, <2>3
    <2>4. CASE d # c
      BY <1>1, <1>5, <2>2, <2>4
    <2> QED BY <2>3, <2>4
  <1>8. ASSUME NEW x \in Places(F) \ {last} PROVE x \in Places(G)
    <2>1. PICK d \in Cables : \E k \in 1..Len(F[d]) : x = <<d, k>>
      BY <1>5
    <2>2. PICK k \in 1..Len(F[d]) : x = <<d, k>>
      BY <2>1
    <2>3. CASE d = c
      BY <1>2, <1>4, <1>6, <2>2, <2>3
    <2>4. CASE d # c
      BY <1>1, <1>4, <2>2, <2>4
    <2> QED BY <2>3, <2>4
  <1>9. Places(G) = Places(F) \ {last}
    BY <1>7, <1>8
  <1>10. last \in Places(F)
    BY <1>3, <1>5
  <1>11. IsFiniteSet(Places(F))
    BY PlacesShape
  <1>12. Cardinality(Places(F) \ {last}) = Cardinality(Places(F)) - 1
    BY <1>10, <1>11, FS_RemoveElement
  <1> QED BY <1>9, <1>12 DEF G

\* Some lists have one more frame: as many places more.
LEMMA MorePlaces ==
  ASSUME NEW F \in [Cables -> Seq(Ids)], NEW G \in [Cables -> Seq(Ids)],
         NEW T \in SUBSET Cables,
         \A c \in Cables : Len(G[c]) = IF c \in T THEN Len(F[c]) + 1 ELSE Len(F[c])
  PROVE  Cardinality(Places(G)) = Cardinality(Places(F)) + Cardinality(T)
  <1> DEFINE X == {<<c, Len(F[c]) + 1>> : c \in T}
             g == [c \in T |-> <<c, Len(F[c]) + 1>>]
  <1>1. IsFiniteSet(T) /\ Cardinality(T) \in Nat
    BY CablesFinite, FS_Subset, FS_CardinalityType
  <1>2. IsFiniteSet(X) /\ Cardinality(X) = Cardinality(T)
    <2>1. g \in Bijection(T, X)
      BY DEF Bijection, Injection, Surjection, IsInjective
    <2>2. ExistsBijection(T, X)
      BY <2>1 DEF ExistsBijection
    <2> HIDE DEF X
    <2> QED BY <1>1, <2>2, FS_Bijection
  <1>3. \A x : x \in Places(G) <=> \E d \in Cables : \E k \in 1..Len(G[d]) : x = <<d, k>>
    BY PlacesShape
  <1>4. \A x : x \in Places(F) <=> \E d \in Cables : \E k \in 1..Len(F[d]) : x = <<d, k>>
    BY PlacesShape
  <1>5. \A c \in Cables : Len(F[c]) \in Nat
    BY PlacesShape
  <1>6. ASSUME NEW c \in Cables
        PROVE  \A k : k \in 1..(Len(F[c]) + 1) <=> k \in 1..Len(F[c]) \/ k = Len(F[c]) + 1
    BY <1>5
  <1>7. ASSUME NEW x \in Places(G) PROVE x \in Places(F) \cup X
    <2>1. PICK d \in Cables : \E k \in 1..Len(G[d]) : x = <<d, k>>
      BY <1>3
    <2>2. PICK k \in 1..Len(G[d]) : x = <<d, k>>
      BY <2>1
    <2>3. k \in 1..Len(F[d]) \/ (k = Len(F[d]) + 1 /\ d \in T)
      BY <1>6, <2>2
    <2> QED BY <1>4, <2>2, <2>3
  <1>8. ASSUME NEW x \in Places(F) \cup X PROVE x \in Places(G)
    <2>1. CASE x \in Places(F)
      <3>1. PICK d \in Cables : \E k \in 1..Len(F[d]) : x = <<d, k>>
        BY <1>4, <2>1
      <3>2. PICK k \in 1..Len(F[d]) : x = <<d, k>>
        BY <3>1
      <3>3. k \in 1..Len(G[d])
        BY <1>6, <3>2
      <3> QED BY <1>3, <3>2, <3>3
    <2>2. CASE x \in X
      <3>1. PICK d \in T : x = <<d, Len(F[d]) + 1>>
        BY <2>2
      <3>2. Len(F[d]) + 1 \in 1..Len(G[d])
        BY <1>5, <3>1
      <3> QED BY <1>3, <3>1, <3>2
    <2> QED BY <2>1, <2>2
  <1>9. Places(G) = Places(F) \cup X
    BY <1>7, <1>8
  <1>10. Places(F) \cap X = {}
    <2>1. ASSUME NEW x \in Places(F), x \in X PROVE FALSE
      <3>1. PICK d \in Cables : \E k \in 1..Len(F[d]) : x = <<d, k>>
        BY <1>4
      <3>2. PICK k \in 1..Len(F[d]) : x = <<d, k>>
        BY <3>1
      <3>3. PICK e \in T : x = <<e, Len(F[e]) + 1>>
        BY <2>1
      <3>4. e = d /\ k = Len(F[d]) + 1
        BY <3>2, <3>3
      <3> QED BY <1>5, <3>2, <3>4
    <2> QED BY <2>1
  <1>11. IsFiniteSet(Places(F)) /\ Cardinality(Places(F)) \in Nat
    BY PlacesShape
  <1> HIDE DEF X
  <1>12. Cardinality(Places(F) \cup X)
           = Cardinality(Places(F)) + Cardinality(X) - Cardinality(Places(F) \cap X)
    BY <1>2, <1>11, FS_Union
  <1>13. Cardinality(Places(F) \cap X) = 0
    BY <1>10, FS_EmptySet
  <1> QED BY <1>1, <1>2, <1>9, <1>11, <1>12, <1>13

\* One list grown by one frame.
LEMMA OnePlaceMore ==
  ASSUME NEW F \in [Cables -> Seq(Ids)], NEW G \in [Cables -> Seq(Ids)], NEW c \in Cables,
         \A d \in Cables : Len(G[d]) = IF d = c THEN Len(F[d]) + 1 ELSE Len(F[d])
  PROVE  Cardinality(Places(G)) = Cardinality(Places(F)) + 1
  <1> DEFINE T == {c}
  <1>1. T \in SUBSET Cables /\ Cardinality(T) = 1
    BY FS_Singleton
  <1>2. \A d \in Cables : d \in T <=> d = c
    OBVIOUS
  <1> HIDE DEF T
  <1>3. \A d \in Cables : Len(G[d]) = IF d \in T THEN Len(F[d]) + 1 ELSE Len(F[d])
    BY <1>2
  <1>4. Cardinality(Places(G)) = Cardinality(Places(F)) + Cardinality(T)
    BY <1>1, <1>3, MorePlaces
  <1> QED BY <1>1, <1>4

\* What pushing a frame adds.
LEMMA PushPlaces ==
  ASSUME NEW Q \in [Cables -> Seq(Ids)], NEW S, NEW i \in Ids
  PROVE  Cardinality(Places(Pushed(Q, S, i))) = Cardinality(Places(Q)) + Cardinality(Takers(Q, S))
  <1> DEFINE G == Pushed(Q, S, i)
             T == Takers(Q, S)
  <1>1. G \in [Cables -> Seq(Ids)] /\ T \in SUBSET Cables
    BY PushTyped
  <1>2. ASSUME NEW c \in Cables
        PROVE  Len(G[c]) = IF c \in T THEN Len(Q[c]) + 1 ELSE Len(Q[c])
    <2>1. G[c] = IF c \in T THEN Append(Q[c], i) ELSE Q[c]
      BY DEF Pushed
    <2>2. Len(Append(Q[c], i)) = Len(Q[c]) + 1
      BY Appended
    <2> QED BY <2>1, <2>2
  <1> HIDE DEF G, T
  <1>3. Cardinality(Places(G)) = Cardinality(Places(Q)) + Cardinality(T)
    BY <1>1, <1>2, MorePlaces
  <1> QED BY <1>3 DEF G, T

\* Conservation is kept by every step, given what is known of where frames are.
CInv == FInv /\ Conservation

LEMMA DeliveryConserves ==
  ASSUME CInv, NEW c \in Cables,
         PassOn(c) \/ \E n \in DOMAIN held[c] : Fire(c, n)
  PROVE  Conservation'
  <1>1. /\ queue \in [Cables -> Seq(Ids)] /\ held \in [Cables -> Seq(Ids)]
        /\ allocated = Cardinality(Places(queue)) + Cardinality(Places(held))
    BY DEF CInv, FInv, TypeOK, Conservation
  <1>2. PICK i, Q, S : Leaves(c, i, Q) /\ Outcome(c, i, Q, S)
    BY Delivery DEF CInv, Moves
  <1>3. Q \in [Cables -> Seq(Ids)] /\ held' \in [Cables -> Seq(Ids)] /\ i \in Ids
    BY <1>1, <1>2, LeavesShape
  <1>4. /\ Cardinality(Places(queue)) \in Nat /\ Cardinality(Places(held)) \in Nat
        /\ Cardinality(Places(Q)) \in Nat /\ Cardinality(Places(held')) \in Nat
        /\ Cardinality(Takers(Q, S)) \in Nat
    BY <1>1, <1>3, PlacesShape, CablesFinite
  <1>5. Cardinality(Places(Q)) + Cardinality(Places(held'))
          = Cardinality(Places(queue)) + Cardinality(Places(held)) - 1
    <2>1. ASSUME held' = held, NEW n \in 1..Len(queue[c]), Q = Without(queue, c, n)
          PROVE  Cardinality(Places(Q)) = Cardinality(Places(queue)) - 1
      BY <1>1, <2>1, FewerPlaces
    <2>2. ASSUME Q = queue, NEW n \in 1..Len(held[c]), held' = Without(held, c, n)
          PROVE  Cardinality(Places(held')) = Cardinality(Places(held)) - 1
      BY <1>1, <2>2, FewerPlaces
    <2> QED BY <1>2, <1>4, <2>1, <2>2 DEF Leaves
  <1>6. Cardinality(Places(queue')) = Cardinality(Places(Q)) + Cardinality(Takers(Q, S))
    <2>1. queue' = Pushed(Q, S, i)
      BY <1>2 DEF Outcome
    <2> QED BY <1>3, <2>1, PushPlaces
  <1>7. allocated' = allocated + Cardinality(Takers(Q, S)) - 1
    BY <1>2 DEF Outcome
  <1>8. allocated' = Cardinality(Places(queue')) + Cardinality(Places(held'))
    <2> DEFINE q == Cardinality(Places(queue))
               h == Cardinality(Places(held))
               r == Cardinality(Places(Q))
               t == Cardinality(Takers(Q, S))
               qq == Cardinality(Places(queue'))
               hh == Cardinality(Places(held'))
    <2>1. q \in Nat /\ h \in Nat /\ r \in Nat /\ hh \in Nat /\ t \in Nat
      BY <1>4
    <2>2. /\ allocated = q + h /\ r + hh = q + h - 1
          /\ qq = r + t /\ allocated' = allocated + t - 1
      BY <1>1, <1>5, <1>6, <1>7
    <2> HIDE DEF q, h, r, t, qq, hh
    <2>3. allocated' = qq + hh
      BY <2>1, <2>2
    <2> QED BY <2>3 DEF qq, hh
  <1> QED BY <1>8 DEF Conservation, Places

LEMMA InputConserves ==
  ASSUME CInv, NEW m \in Stations, NEW d \in Addresses \ {m}, Input(m, d)
  PROVE  Conservation'
  <1> DEFINE n == Len(sent) + 1
  <1>1. /\ queue \in [Cables -> Seq(Ids)] /\ held \in [Cables -> Seq(Ids)] /\ TypeOK
        /\ allocated = Cardinality(Places(queue)) + Cardinality(Places(held))
    BY DEF CInv, FInv, TypeOK, Conservation
  <1>2. n \in Ids /\ held' = held
    BY <1>1, InputShape
  <1>3. Cardinality(Places(queue)) \in Nat /\ Cardinality(Places(held)) \in Nat
    BY <1>1, PlacesShape
  <1>4. CASE m \in Takers(queue, {m}) /\ queue' = Pushed(queue, {m}, n)
             /\ allocated' = allocated + 1
    <2>1. Takers(queue, {m}) = {m}
      BY <1>4 DEF Takers
    <2>2. Cardinality(Takers(queue, {m})) = 1
      BY <2>1, FS_Singleton
    <2>3. Cardinality(Places(queue')) = Cardinality(Places(queue)) + 1
      BY <1>1, <1>2, <1>4, <2>2, PushPlaces
    <2>4. allocated' = Cardinality(Places(queue')) + Cardinality(Places(held'))
      BY <1>1, <1>2, <1>3, <1>4, <2>3
    <2> QED BY <2>4 DEF Conservation, Places
  <1>5. CASE UNCHANGED <<queue, allocated>>
    <2>1. Places(queue') = Places(queue) /\ Places(held') = Places(held)
      BY <1>2, <1>5
    <2>2. allocated' = Cardinality(Places(queue')) + Cardinality(Places(held'))
      BY <1>1, <1>5, <2>1
    <2> QED BY <2>2 DEF Conservation, Places
  <1>6. \/ /\ m \in Takers(queue, {m}) /\ queue' = Pushed(queue, {m}, n)
           /\ allocated' = allocated + 1
        \/ UNCHANGED <<queue, allocated>>
    BY DEF Input
  <1> QED BY <1>4, <1>5, <1>6

LEMMA StepCInv == CInv /\ [Next]_vars => CInv'
  <1> SUFFICES ASSUME CInv, [Next]_vars PROVE Conservation'
    BY StepFInv DEF CInv
  <1>1. /\ queue \in [Cables -> Seq(Ids)] /\ held \in [Cables -> Seq(Ids)]
        /\ allocated = Cardinality(Places(queue)) + Cardinality(Places(held))
        /\ Cardinality(Places(queue)) \in Nat /\ Cardinality(Places(held)) \in Nat
    BY PlacesShape DEF CInv, FInv, TypeOK, Conservation
  <1>2. ASSUME NEW m \in Stations, NEW d \in Addresses \ {m}, Input(m, d) PROVE Conservation'
    BY <1>2, InputConserves
  <1>3. ASSUME NEW c \in Cables, Lose(c) PROVE Conservation'
    <2>1. /\ 1 \in 1..Len(queue[c]) /\ queue' = Without(queue, c, 1) /\ held' = held
          /\ allocated' = allocated - 1
      BY <1>1, <1>3, LoseShape
    <2>2. Cardinality(Places(queue')) = Cardinality(Places(queue)) - 1
      BY <1>1, <2>1, FewerPlaces
    <2>3. allocated' = Cardinality(Places(queue')) + Cardinality(Places(held'))
      BY <1>1, <2>1, <2>2
    <2> QED BY <2>3 DEF Conservation, Places
  <1>4. ASSUME NEW c \in Cables, Hold(c) PROVE Conservation'
    <2>1. /\ 1 \in 1..Len(queue[c]) /\ queue[c][1] \in Ids
          /\ queue' = Without(queue, c, 1)
          /\ held' = [held EXCEPT ![c] = Append(@, queue[c][1])]
          /\ held' \in [Cables -> Seq(Ids)]
      BY <1>1, <1>4, HoldShape
    <2>2. allocated' = allocated
      BY <1>4 DEF Hold
    <2>3. Cardinality(Places(queue')) = Cardinality(Places(queue)) - 1
      BY <1>1, <2>1, FewerPlaces
    <2>4. Cardinality(Places(held')) = Cardinality(Places(held)) + 1
      <3> DEFINE i == queue[c][1]
      <3>1. held[c] \in Seq(Ids) /\ i \in Ids
        BY <1>1, <2>1
      <3> HIDE DEF i
      <3>2. Len(Append(held[c], i)) = Len(held[c]) + 1
        BY <3>1, Appended
      <3>3. \A d \in Cables : Len(held'[d]) = IF d = c THEN Len(held[d]) + 1 ELSE Len(held[d])
        BY <1>1, <2>1, <3>2 DEF i
      <3>4. ASSUME NEW F \in [Cables -> Seq(Ids)], NEW G \in [Cables -> Seq(Ids)],
                   \A d \in Cables : Len(G[d]) = IF d = c THEN Len(F[d]) + 1 ELSE Len(F[d])
            PROVE  Cardinality(Places(G)) = Cardinality(Places(F)) + 1
        BY <3>4, OnePlaceMore
      <3> QED BY <1>1, <2>1, <3>3, <3>4
    <2>5. allocated' = Cardinality(Places(queue')) + Cardinality(Places(held'))
      BY <1>1, <2>2, <2>3, <2>4
    <2> QED BY <2>5 DEF Conservation, Places
  <1>5. ASSUME NEW c \in Cables, PassOn(c) PROVE Conservation'
    BY <1>5, DeliveryConserves
  <1>6. ASSUME NEW c \in Cables, NEW n \in DOMAIN held[c], Fire(c, n) PROVE Conservation'
    BY <1>6, DeliveryConserves
  <1>7. ASSUME UNCHANGED network PROVE Conservation'
    BY <1>7 DEF network, CInv, Conservation, Places
  <1>8. CASE Tick
    BY <1>7, <1>8 DEF Tick
  <1>9. ASSUME NEW x \in Switchable, TurnOn(x) \/ TurnOff(x) PROVE Conservation'
    BY <1>7, <1>9 DEF TurnOn, TurnOff
  <1>10. CASE UNCHANGED vars
    BY <1>7, <1>10 DEF vars, network
  <1> QED BY <1>2, <1>3, <1>4, <1>5, <1>6, <1>8, <1>9, <1>10 DEF Next, Control, Timers

\* However many copies a broadcast makes and however many of them a full queue, a
\* cable or a node that is off refuses, each packet is freed once or still somewhere.
THEOREM ForwardingConserves == Spec => []Conservation
  <1>1. Init => CInv
    <2> SUFFICES ASSUME Init PROVE Conservation
      BY InitFInv DEF CInv
    <2>1. \A c \in Cables : queue[c] = << >> /\ held[c] = << >>
      BY DEF Init
    <2>2. Places(queue) = {} /\ Places(held) = {}
      BY <2>1 DEF Places
    <2>3. allocated = 0
      BY DEF Init
    <2>4. Cardinality({}) = 0
      BY FS_EmptySet
    <2> HIDE DEF Places
    <2>5. allocated = Cardinality(Places(queue)) + Cardinality(Places(held))
      BY <2>2, <2>3, <2>4
    <2> QED BY <2>5 DEF Conservation
  <1>2. CInv => Conservation
    BY DEF CInv
  <1> QED BY <1>1, <1>2, StepCInv, PTL DEF Spec

-----------------------------------------------------------------------------
(* Without faults: no frame is lost                                            *)

\* A list of frames without repetition that does not have frame i has room for it.
LEMMA Room ==
  ASSUME NEW l \in Seq(Ids), Distinct(l), NEW i \in Ids, i \notin ToSet(l)
  PROVE  Len(l) < MaxFrames
  <1> DEFINE T == Ids \ {i}
  <1>1. /\ Len(l) \in Nat /\ \A k \in 1..Len(l) : l[k] \in T
        /\ \A j, k \in 1..Len(l) : l[j] = l[k] => j = k
    BY ListShape DEF Distinct
  <1>2. IsFiniteSet(Ids) /\ Cardinality(Ids) = MaxFrames
    BY Network, FS_Interval DEF Ids
  <1>3. IsFiniteSet(T) /\ Cardinality(T) = MaxFrames - 1
    BY <1>2, FS_RemoveElement
  <1>4. IsFiniteSet(1..Len(l)) /\ Cardinality(1..Len(l)) = Len(l)
    BY <1>1, FS_Interval
  <1> DEFINE f == [k \in 1..Len(l) |-> l[k]]
  <1>5. f \in Injection(1..Len(l), T)
    BY <1>1 DEF Injection, IsInjective
  <1> HIDE DEF T, f
  <1>6. Cardinality(1..Len(l)) <= Cardinality(T)
    BY <1>3, <1>5, FS_Injection
  <1> QED BY <1>1, <1>3, <1>4, <1>6, Network

\* A frame that leaves a cable leaves everything else where it is.
LEMMA LeavesRest ==
  ASSUME queue \in [Cables -> Seq(Ids)], held \in [Cables -> Seq(Ids)], NoTwice,
         NEW c \in Cables, NEW i, NEW Q, Leaves(c, i, Q), NEW d \in Cables
  PROVE  /\ \A j : j \in ToSet(Q[d]) \cup ToSet(held'[d])
                     <=> j \in Carried(d) /\ ~ (j = i /\ d = c)
         /\ Q[d] = queue[d] \/ (d = c /\ \E n \in 1..Len(queue[c]) :
                                  queue[c][n] = i /\ Q[d] = RemoveAt(queue[c], n))
  <1>1. /\ Distinct(queue[c]) /\ Distinct(held[c])
        /\ ToSet(queue[c]) \cap ToSet(held[c]) = {}
    BY DEF NoTwice
  <1>2. ASSUME held' = held, NEW n \in 1..Len(queue[c]), queue[c][n] = i,
               Q = Without(queue, c, n)
        PROVE  /\ \A j : j \in ToSet(Q[d]) \cup ToSet(held'[d])
                           <=> j \in Carried(d) /\ ~ (j = i /\ d = c)
               /\ Q[d] = queue[d] \/ (d = c /\ Q[d] = RemoveAt(queue[c], n))
    <2>1. Q[d] = IF d = c THEN RemoveAt(queue[c], n) ELSE queue[d]
      BY <1>2, WithoutShape
    <2>2. ToSet(RemoveAt(queue[c], n)) = ToSet(queue[c]) \ {i}
      BY <1>1, <1>2, ShortenedDistinct
    <2>3. i \in ToSet(queue[c])
      BY <1>2, WithoutShape
    <2> QED BY <1>1, <1>2, <2>1, <2>2, <2>3 DEF Carried
  <1>3. ASSUME Q = queue, NEW n \in 1..Len(held[c]), held[c][n] = i,
               held' = Without(held, c, n)
        PROVE  \A j : j \in ToSet(Q[d]) \cup ToSet(held'[d])
                        <=> j \in Carried(d) /\ ~ (j = i /\ d = c)
    <2>1. held'[d] = IF d = c THEN RemoveAt(held[c], n) ELSE held[d]
      BY <1>3, WithoutShape
    <2>2. ToSet(RemoveAt(held[c], n)) = ToSet(held[c]) \ {i}
      BY <1>1, <1>3, ShortenedDistinct
    <2>3. i \in ToSet(held[c])
      BY <1>3, WithoutShape
    <2> QED BY <1>1, <1>3, <2>1, <2>2, <2>3 DEF Carried
  <1> QED BY <1>2, <1>3 DEF Leaves

\* Frame i leaves cable c and is taken by every cable of S, all of them onward from c.
Hops(c, i, S) ==
  /\ i \in 1..Len(sent) /\ i \in Carried(c)
  /\ i \in ToSet(held[c]) \/ (1 \in 1..Len(queue[c]) /\ queue[c][1] = i)
  /\ \A d \in S \cap Cables : Onward(c, d) /\ i \notin Carried(d)
  /\ Routed(c, i, S)
  /\ \A d \in Cables : \A j : j \in Carried(d)' <=>
       (j \in Carried(d) /\ ~ (j = i /\ d = c)) \/ (j = i /\ d \in S)
  /\ \/ got' = got
     \/ S = {} /\ Wire[c] \in Stations /\ got' = [got EXCEPT ![Wire[c]][i] = @ + 1]
  /\ \A d \in Cables :
       \/ d \in S /\ queue'[d] = Append(queue[d], i)
       \/ d \notin S /\ queue'[d] = queue[d]
       \/ /\ d = c /\ d \notin S
          /\ \E n \in 1..Len(queue[c]) : queue[c][n] = i /\ queue'[d] = RemoveAt(queue[c], n)

\* Without faults no queue is full for a frame that it does not have.
LEMMA Delivers ==
  ASSUME LInv, Faultless, NEW c \in Cables,
         PassOn(c) \/ \E n \in DOMAIN held[c] : Fire(c, n)
  PROVE  sent' = sent /\ \E i, S : Hops(c, i, S)
  <1>1. /\ sent' = sent
        /\ \E i, Q : Leaves(c, i, Q) /\ \E S : Moves(c, i, Q, S)
    BY Delivery DEF LInv
  <1>2. PICK i, Q, S : Leaves(c, i, Q) /\ Moves(c, i, Q, S)
    BY <1>1
  <1>3. /\ queue \in [Cables -> Seq(Ids)] /\ held \in [Cables -> Seq(Ids)] /\ NoTwice
        /\ 1..Len(sent) \subseteq Ids /\ off = {}
    BY SentIds DEF LInv, FInv, TypeOK, Faultless
  <1>4. Outcome(c, i, Q, S) /\ Routed(c, i, S)
    BY <1>2, <1>3 DEF Moves, Active
  <1>5. i \in Carried(c) /\ i \in Ids /\ i \in 1..Len(sent) /\ Q \in [Cables -> Seq(Ids)]
    BY <1>2, <1>3, LeavesShape DEF LInv, FInv, Travel
  <1>6. PICK P \in SUBSET Cables : Trail(i, P)
    BY <1>5 DEF LInv, Trails
  <1>7. ASSUME NEW d \in S \cap Cables PROVE Onward(c, d) /\ i \notin Carried(d) /\ d # c
    BY <1>4, <1>5, <1>6 DEF Trail, Outcome
  <1>8. ASSUME NEW d \in Cables
        PROVE  /\ \A j : j \in ToSet(Q[d]) \cup ToSet(held'[d])
                           <=> j \in Carried(d) /\ ~ (j = i /\ d = c)
               /\ Q[d] = queue[d] \/ (d = c /\ \E n \in 1..Len(queue[c]) :
                                        queue[c][n] = i /\ Q[d] = RemoveAt(queue[c], n))
    BY <1>2, <1>3, LeavesRest
  <1>9. ASSUME NEW d \in S \cap Cables PROVE d \in Takers(Q, S)
    <2>1. Distinct(Q[d]) /\ i \notin ToSet(Q[d])
      BY <1>2, <1>3, <1>7, <1>8, LeavesOnce
    <2>2. Len(Q[d]) < MaxFrames /\ Len(Q[d]) \in Nat
      BY <1>5, <2>1, Room, ListShape
    <2>3. Len(Q[d]) < QueueSize
      BY <2>2, Network DEF Faultless
    <2> QED BY <2>3 DEF Takers
  <1>10. ASSUME NEW d \in Cables
         PROVE  queue'[d] = IF d \in S THEN Append(Q[d], i) ELSE Q[d]
    BY <1>4, <1>9 DEF Outcome, Pushed, Takers
  <1>11. ASSUME NEW d \in Cables
         PROVE  \A j : j \in Carried(d)' <=>
                  (j \in Carried(d) /\ ~ (j = i /\ d = c)) \/ (j = i /\ d \in S)
    <2>1. Carried(d)' = ToSet(queue'[d]) \cup ToSet(held'[d])
      BY DEF Carried
    <2>2. ToSet(Append(Q[d], i)) = ToSet(Q[d]) \cup {i}
      BY <1>5, Appended
    <2> QED BY <1>8, <1>10, <2>1, <2>2
  <1>12. ASSUME NEW d \in Cables
         PROVE \/ d \in S /\ queue'[d] = Append(queue[d], i)
               \/ d \notin S /\ queue'[d] = queue[d]
               \/ /\ d = c /\ d \notin S
                  /\ \E n \in 1..Len(queue[c]) :
                       queue[c][n] = i /\ queue'[d] = RemoveAt(queue[c], n)
    BY <1>7, <1>8, <1>10
  <1>13. i \in ToSet(held[c]) \/ (1 \in 1..Len(queue[c]) /\ queue[c][1] = i)
    BY <1>2, <1>3, ListShape DEF Leaves
  <1>14. Hops(c, i, S)
    BY <1>4, <1>5, <1>7, <1>11, <1>12, <1>13 DEF Hops, Outcome
  <1> QED BY <1>1, <1>14

\* A frame has come to each station it is for or is on the way to it.
Coming ==
  \A i \in 1..Len(sent) : \A m \in Stations : Meant(i, m) =>
    got[m][i] = 1 \/ \E c \in Cables : i \in Carried(c) /\ Towards(c, m)

RInv == LInv /\ (Faultless => Coming)

\* A frame is received once at most.
LEMMA GotOnce ==
  ASSUME LInv, NEW i \in 1..Len(sent), NEW m \in Stations
  PROVE  /\ got[m][i] = 0 \/ got[m][i] = 1
         /\ got[m][i] = 1 => m \in Cables /\ i \notin Carried(Wire[m])
  BY DEF LInv, Trails, Trail

\* Receiving it changes nothing for other frames and stations.
LEMMA HopReceives ==
  ASSUME LInv, LInv', sent' = sent, NEW c \in Cables, NEW i, NEW S, Hops(c, i, S),
         NEW j \in 1..Len(sent), NEW m \in Stations
  PROVE  /\ got[m][j] = 1 => got'[m][j] = 1
         /\ i = j /\ Wire[c] = m /\ got' = [got EXCEPT ![m][i] = @ + 1] => got'[m][j] = 1
         /\ got'[m][j] = 1 => got[m][j] = 1 \/ (i = j /\ Wire[c] = m)
  <1>1. /\ got \in [Stations -> [Ids -> Nat]] /\ j \in Ids
        /\ i \in 1..Len(sent) /\ i \in Ids
    BY SentIds DEF LInv, FInv, TypeOK, Hops
  <1>2. got[m][j] = 0 \/ got[m][j] = 1
    BY GotOnce
  <1>3. got'[m][j] = 0 \/ got'[m][j] = 1
    BY DEF LInv, Trails, Trail
  <1>4. CASE got' = got
    <2>1. ASSUME got' = [got EXCEPT ![m][i] = @ + 1] PROVE FALSE
      <3>1. got'[m][i] = got[m][i] + 1 /\ got[m][i] \in Nat
        BY <1>1, <2>1
      <3> QED BY <1>4, <3>1
    <2> QED BY <1>4, <2>1
  <1>5. CASE Wire[c] \in Stations /\ got' = [got EXCEPT ![Wire[c]][i] = @ + 1]
    <2>1. got'[m][j] = IF m = Wire[c] /\ j = i THEN got[m][j] + 1 ELSE got[m][j]
      BY <1>1, <1>5
    <2> QED BY <1>2, <1>3, <2>1
  <1> QED BY <1>4, <1>5 DEF Hops

\* A frame that is passed on gets nearer to where it is meant to come.
LEMMA DeliveryComing ==
  ASSUME LInv, LInv', Faultless, Coming, NEW c \in Cables,
         PassOn(c) \/ \E n \in DOMAIN held[c] : Fire(c, n)
  PROVE  Coming'
  <1>1. sent' = sent
    BY Delivers
  <1>2. PICK i, S : Hops(c, i, S)
    BY Delivers
  <1>3. ASSUME NEW j \in 1..Len(sent), NEW m \in Stations, Meant(j, m)
        PROVE  got'[m][j] = 1 \/ \E d \in Cables : j \in Carried(d)' /\ Towards(d, m)
    <2>1. CASE got[m][j] = 1
      BY <1>1, <1>2, <2>1, HopReceives
    <2>2. ASSUME NEW d \in Cables, j \in Carried(d), Towards(d, m)
          PROVE  got'[m][j] = 1 \/ \E x \in Cables : j \in Carried(x)' /\ Towards(x, m)
      <3>1. CASE j = i /\ d = c
        <4>1. \/ \E q \in S \cap Cables : Towards(q, m)
              \/ Wire[c] = m /\ got' = [got EXCEPT ![m][i] = @ + 1]
          BY <1>2, <1>3, <2>2, <3>1 DEF Hops, Routed, Meant
        <4>2. ASSUME NEW q \in S \cap Cables PROVE j \in Carried(q)'
          BY <1>2, <3>1 DEF Hops
        <4> QED BY <1>1, <1>2, <3>1, <4>1, <4>2, HopReceives
      <3>2. CASE ~ (j = i /\ d = c)
        <4>1. j \in Carried(d)'
          BY <1>2, <2>2, <3>2 DEF Hops
        <4> QED BY <2>2, <4>1
      <3> QED BY <3>1, <3>2
    <2> QED BY <1>3, <2>1, <2>2 DEF Coming
  <1> QED BY <1>1, <1>3 DEF Coming, Meant, Towards

\* Without faults a frame from an interface enters the network.
LEMMA InputEnters ==
  ASSUME LInv, Faultless, NEW m \in Stations, NEW d \in Addresses \ {m}, Input(m, d),
         m \in Cables
  PROVE  queue' = [queue EXCEPT ![m] = Append(@, Len(sent) + 1)]
  <1>1. TypeOK /\ queue \in [Cables -> Seq(Ids)] /\ off = {} /\ Len(sent) + 1 \in Ids
    BY InputShape DEF LInv, FInv, TypeOK, Faultless
  <1>2. Len(sent) + 1 \notin ToSet(queue[m]) /\ Distinct(queue[m])
    <2>1. \A j \in ToSet(queue[m]) : j \in 1..Len(sent)
      BY DEF LInv, FInv, Travel, Carried
    <2>2. Len(sent) \in Nat
      BY <1>1, InputShape
    <2> QED BY <2>1, <2>2 DEF LInv, NoTwice
  <1>3. Len(queue[m]) < MaxFrames /\ Len(queue[m]) \in Nat
    BY <1>1, <1>2, Room, ListShape
  <1>4. m \in Takers(queue, {m})
    BY <1>3, Network DEF Takers, Faultless
  <1>5. Takers(queue, {m}) = {m}
    BY <1>4 DEF Takers
  <1>6. queue' = Pushed(queue, {m}, Len(sent) + 1)
    BY <1>1, <1>4 DEF Input, Active
  <1>7. queue' = [x \in Cables |-> IF x = m THEN Append(queue[x], Len(sent) + 1) ELSE queue[x]]
    BY <1>5, <1>6 DEF Pushed
  <1> QED BY <1>1, <1>7

LEMMA InputComing ==
  ASSUME LInv, LInv', Faultless, Coming,
         NEW m \in Stations, NEW d \in Addresses \ {m}, Input(m, d)
  PROVE  Coming'
  <1> DEFINE N == Len(sent) + 1
  <1> SUFFICES ASSUME NEW n, n = N PROVE Coming'
    OBVIOUS
  <1>1. TypeOK /\ queue \in [Cables -> Seq(Ids)]
    BY DEF LInv, FInv, TypeOK
  <1>2. /\ Len(sent) \in Nat /\ n \in Ids /\ Len(sent') = n
        /\ \A j \in 1..Len(sent) : sent'[j] = sent[j]
        /\ sent'[n] = [smac |-> m, dmac |-> d]
        /\ UNCHANGED <<held, got>>
    BY <1>1, InputShape
  <1>3. ASSUME NEW x \in Cables, NEW j \in Carried(x) PROVE j \in Carried(x)'
    <2>1. queue'[x] = queue[x] \/ queue'[x] = Append(queue[x], n)
      BY DEF Input, Pushed
    <2>2. ToSet(Append(queue[x], n)) = ToSet(queue[x]) \cup {n}
      BY <1>1, <1>2, Appended
    <2> QED BY <1>2, <1>3, <2>1, <2>2 DEF Carried
  <1>4. ASSUME NEW j \in 1..Len(sent), NEW w \in Stations, Meant(j, w)
        PROVE  got'[w][j] = 1 \/ \E x \in Cables : j \in Carried(x)' /\ Towards(x, w)
    BY <1>2, <1>3, <1>4 DEF Coming
  <1>5. ASSUME NEW w \in Stations, w # m
        PROVE  m \in Cables /\ n \in Carried(m)' /\ Towards(m, w)
    <2>1. m \in Cables /\ Towards(m, w)
      BY <1>5 DEF Faultless, Towards
    <2>2. queue' = [queue EXCEPT ![m] = Append(@, n)]
      BY <2>1, InputEnters
    <2>3. queue'[m] = Append(queue[m], n)
      BY <1>1, <2>1, <2>2
    <2>4. ToSet(Append(queue[m], n)) = ToSet(queue[m]) \cup {n}
      BY <1>1, <1>2, <2>1, Appended
    <2> QED BY <2>1, <2>3, <2>4 DEF Carried
  <1>6. \A j \in 1..n : j \in 1..Len(sent) \/ j = n
    BY <1>2
  <1>7. \A j \in 1..Len(sent) : \A w : Meant(j, w)' <=> Meant(j, w)
    BY <1>2 DEF Meant
  <1>8. \A w : Meant(n, w)' => w # m
    BY <1>2 DEF Meant
  <1> QED BY <1>2, <1>4, <1>5, <1>6, <1>7, <1>8 DEF Coming, Towards

\* A frame that waits for a timer is still on its cable.
LEMMA HoldCarries ==
  ASSUME queue \in [Cables -> Seq(Ids)], held \in [Cables -> Seq(Ids)], NoTwice,
         NEW c \in Cables, Hold(c), NEW d \in Cables
  PROVE  Carried(d) \subseteq Carried(d)'
  <1>1. /\ 1 \in 1..Len(queue[c]) /\ queue[c][1] \in Ids
        /\ queue' = Without(queue, c, 1)
        /\ held' = [held EXCEPT ![c] = Append(@, queue[c][1])]
    BY HoldShape
  <1> DEFINE i == queue[c][1]
  <1>2. ToSet(queue'[d]) = IF d = c THEN ToSet(queue[c]) \ {i} ELSE ToSet(queue[d])
    BY <1>1, LoseOnce
  <1>3. i \in Ids
    BY <1>1
  <1>4. held' = [held EXCEPT ![c] = Append(@, i)]
    BY <1>1
  <1> HIDE DEF i
  <1>5. ToSet(Append(held[c], i)) = ToSet(held[c]) \cup {i}
    BY <1>3, Appended
  <1>6. held'[d] = IF d = c THEN Append(held[c], i) ELSE held[d]
    BY <1>4
  <1>7. Carried(d)' = ToSet(queue'[d]) \cup ToSet(held'[d])
    BY DEF Carried
  <1> QED BY <1>2, <1>5, <1>6, <1>7 DEF Carried

LEMMA StepRInv == RInv /\ [Next]_vars => RInv'
  <1> SUFFICES ASSUME LInv, Faultless, Coming, [Next]_vars PROVE Coming'
    BY StepLInv DEF RInv
  <1>1. /\ LInv'
        /\ queue \in [Cables -> Seq(Ids)] /\ held \in [Cables -> Seq(Ids)] /\ NoTwice
    BY StepLInv DEF LInv, FInv, TypeOK
  <1>2. ASSUME UNCHANGED <<sent, got>>, \A d \in Cables : Carried(d) \subseteq Carried(d)'
        PROVE  Coming'
    BY <1>2 DEF Coming, Meant, Towards
  <1>3. ASSUME NEW m \in Stations, NEW d \in Addresses \ {m}, Input(m, d) PROVE Coming'
    BY <1>1, <1>3, InputComing
  <1>4. ASSUME NEW c \in Cables, Lose(c) PROVE Coming'
    BY <1>4 DEF Lose, Faultless
  <1>5. ASSUME NEW c \in Cables, Hold(c) PROVE Coming'
    <2>1. \A d \in Cables : Carried(d) \subseteq Carried(d)'
      BY <1>1, <1>5, HoldCarries
    <2> QED BY <1>2, <1>5, <2>1 DEF Hold
  <1>6. ASSUME NEW c \in Cables, PassOn(c) \/ \E n \in DOMAIN held[c] : Fire(c, n)
        PROVE  Coming'
    BY <1>1, <1>6, DeliveryComing
  <1>7. ASSUME UNCHANGED <<queue, held, sent, got>> PROVE Coming'
    BY <1>2, <1>7 DEF Carried
  <1>8. CASE Tick
    BY <1>7, <1>8 DEF Tick, network
  <1>9. ASSUME NEW x \in Switchable, TurnOn(x) \/ TurnOff(x) PROVE Coming'
    BY <1>9 DEF Faultless
  <1>10. CASE UNCHANGED vars
    BY <1>7, <1>10 DEF vars
  <1> QED BY <1>3, <1>4, <1>5, <1>6, <1>8, <1>9, <1>10 DEF Next, Control, Timers

\* Whatever the switches know and forget, a faultless network that has fallen silent
\* has brought every frame to every station it is for.
THEOREM ForwardingReaches == Spec => []Reaches
  <1>1. Init => RInv
    BY InitLInv DEF RInv, Coming, Init
  <1>2. RInv => Reaches
    <2> SUFFICES ASSUME RInv, Faultless, Quiet, NEW m \in Stations,
                        NEW i \in 1..Len(sent), Meant(i, m)
                 PROVE  got[m][i] = 1
      BY DEF Reaches
    <2>1. \A c \in Cables : Carried(c) = {}
      BY DEF Quiet, Carried, ToSet
    <2> QED BY <2>1 DEF RInv, Coming
  <1> QED BY <1>1, <1>2, StepRInv, PTL DEF Spec

-----------------------------------------------------------------------------
(* Without faults and timers: frames stay in order                             *)

NoneHeld == \A c \in Cables : held[c] = << >>

\* Along the cables of P, where it has been, frame i has come to m or it is still on
\* one of those that lead there.
GoesOn(i, P, m) ==
  /\ sent[i].smac \in P
  /\ \A c \in P : Towards(c, m) =>
       \/ i \in Carried(c)
       \/ \E q \in P : Onward(c, q) /\ Towards(q, m)
       \/ Wire[c] = m /\ got[m][i] = 1

\* On the way to m, frame j has been nowhere where i has not been, and where i still
\* is, j waits behind it.
Follows(i, P, j, R, m) ==
  \A c \in R : Towards(c, m) => c \in P /\ (i \in Carried(c) => Before(queue[c], i, j))

\* F is where each frame has been.
Paced(F) ==
  /\ \A i \in 1..Len(sent) :
       Trail(i, F[i]) /\ \A m \in Stations : Meant(i, m) => GoesOn(i, F[i], m)
  /\ \A i, j \in 1..Len(sent) : i < j /\ sent[i].smac = sent[j].smac =>
       \A m \in Stations : Meant(i, m) /\ Meant(j, m) => Follows(i, F[i], j, F[j], m)

SInv ==
  /\ LInv
  /\ Faultless /\ Slow = {} => NoneHeld /\ \E F \in [Ids -> SUBSET Cables] : Paced(F)

\* The cable before one that leads to m leads there, too.
LEMMA WayBack ==
  ASSUME NEW c \in Cables, NEW x \in Cables, NEW m \in Stations, Onward(c, x), Towards(x, m)
  PROVE  Towards(c, m) /\ Wire[c] # m
  <1>1. Wire[x] \in Away[m] /\ Wire[c] \in Cables /\ Wire[Wire[x]] = x
    BY Network DEF Towards
  <1>2. Onward(Wire[x], Wire[c])
    BY <1>1 DEF Onward
  <1>3. Wire[c] \in Away[m]
    BY <1>1, <1>2, TreeAssumption
  <1> QED BY <1>3 DEF Towards, Onward, Stations

\* What happens to another frame does not take one off its way.
LEMMA GoesOnSame ==
  ASSUME LInv, LInv', sent' = sent, NEW c \in Cables, NEW k, NEW S, Hops(c, k, S),
         NEW i \in 1..Len(sent), i # k, NEW m \in Stations, NEW P \in SUBSET Cables,
         GoesOn(i, P, m)
  PROVE  GoesOn(i, P, m)'
  <1>1. \A d \in Cables : i \in Carried(d)' <=> i \in Carried(d)
    BY DEF Hops
  <1>2. got[m][i] = 1 => got'[m][i] = 1
    BY HopReceives
  <1> QED BY <1>1, <1>2 DEF GoesOn, Towards

\* The frame that moves goes on its way.
LEMMA GoesOnFurther ==
  ASSUME LInv, LInv', sent' = sent, NEW c \in Cables, NEW i, NEW S, Hops(c, i, S),
         NEW m \in Stations, Meant(i, m), NEW P \in SUBSET Cables, GoesOn(i, P, m)
  PROVE  GoesOn(i, P \cup (S \cap Cables), m)'
  <1> DEFINE N == P \cup (S \cap Cables)
  <1>1. i \in 1..Len(sent)
    BY DEF Hops
  <1>2. ASSUME NEW x \in N, Towards(x, m)
        PROVE  \/ i \in Carried(x)'
               \/ \E q \in N : Onward(x, q) /\ Towards(q, m)
               \/ Wire[x] = m /\ got'[m][i] = 1
    <2>1. CASE x \in S
      BY <2>1 DEF Hops
    <2>2. CASE x \in P /\ i \in Carried(x) /\ x # c
      BY <2>2 DEF Hops
    <2>3. CASE x = c
      <3>1. \/ \E q \in S \cap Cables : Onward(c, q) /\ Towards(q, m)
            \/ Wire[c] = m /\ got' = [got EXCEPT ![m][i] = @ + 1]
        BY <1>2, <2>3 DEF Hops, Routed, Meant
      <3> QED BY <1>1, <2>3, <3>1, HopReceives
    <2>4. CASE x \in P /\ i \notin Carried(x)
      <3>1. got[m][i] = 1 => got'[m][i] = 1
        BY <1>1, HopReceives
      <3> QED BY <1>2, <2>4, <3>1 DEF GoesOn
    <2> QED BY <2>1, <2>2, <2>3, <2>4
  <1>3. sent[i].smac \in N
    BY DEF GoesOn
  <1> QED BY <1>2, <1>3 DEF GoesOn, Towards

\* A third frame moves: the order of two others stays.
LEMMA FollowsSame ==
  ASSUME LInv, sent' = sent, NEW c \in Cables, NEW k, NEW S, Hops(c, k, S),
         NEW i \in 1..Len(sent), NEW j \in 1..Len(sent), i # k, j # k,
         NEW m \in Stations, NEW P \in SUBSET Cables, NEW R \in SUBSET Cables,
         Follows(i, P, j, R, m)
  PROVE  Follows(i, P, j, R, m)'
  <1>1. queue \in [Cables -> Seq(Ids)] /\ k \in Ids
    BY SentIds DEF LInv, FInv, TypeOK, Hops
  <1>2. ASSUME NEW x \in R, Towards(x, m), i \in Carried(x)' PROVE Before(queue'[x], i, j)
    <2>1. Before(queue[x], i, j)
      BY <1>2 DEF Hops, Follows
    <2>2. CASE queue'[x] = Append(queue[x], k)
      BY <1>1, <2>1, <2>2, BeforeAppended
    <2>3. CASE queue'[x] = queue[x]
      BY <2>1, <2>3
    <2>4. ASSUME x = c, NEW n \in 1..Len(queue[c]), queue[c][n] = k,
                 queue'[x] = RemoveAt(queue[c], n)
          PROVE  Before(queue'[x], i, j)
      BY <1>1, <2>1, <2>4, BeforeShortened
    <2> QED BY <2>2, <2>3, <2>4 DEF Hops
  <1> QED BY <1>2 DEF Follows, Towards

\* The first of the two moves.
LEMMA FollowsAhead ==
  ASSUME LInv, sent' = sent, NEW c \in Cables, NEW i, NEW S, Hops(c, i, S),
         NEW j \in 1..Len(sent), NEW m \in Stations,
         NEW P \in SUBSET Cables, NEW R \in SUBSET Cables, Trail(i, P),
         Follows(i, P, j, R, m)
  PROVE  Follows(i, P \cup (S \cap Cables), j, R, m)'
  <1>1. ASSUME NEW x \in R, Towards(x, m), i \in Carried(x)' PROVE Before(queue'[x], i, j)
    <2>1. x \notin S
      BY <1>1 DEF Hops, Trail, Follows
    <2>2. i \in Carried(x) /\ x # c
      BY <1>1, <2>1 DEF Hops
    <2>3. queue'[x] = queue[x]
      BY <2>1, <2>2 DEF Hops
    <2> QED BY <1>1, <2>2, <2>3 DEF Follows
  <1> QED BY <1>1 DEF Follows, Towards

\* The second moves: only to where the first was, and behind it.
LEMMA FollowsBehind ==
  ASSUME LInv, NoneHeld, sent' = sent, NEW c \in Cables, NEW j, NEW S, Hops(c, j, S),
         NEW i \in 1..Len(sent), i # j, NEW m \in Stations,
         NEW P \in SUBSET Cables, NEW R \in SUBSET Cables, Trail(j, R),
         GoesOn(i, P, m), Follows(i, P, j, R, m)
  PROVE  Follows(i, P, j, R \cup (S \cap Cables), m)'
  <1>1. queue \in [Cables -> Seq(Ids)] /\ j \in Ids /\ NoTwice
    BY SentIds DEF LInv, FInv, TypeOK, Hops
  <1>2. \A d \in Cables : Carried(d) = ToSet(queue[d])
    BY DEF NoneHeld, Carried, ToSet
  <1>3. 1 \in 1..Len(queue[c]) /\ queue[c][1] = j
    <2>1. ToSet(held[c]) = {}
      BY DEF NoneHeld, ToSet
    <2> QED BY <2>1 DEF Hops
  <1>4. ~ Before(queue[c], i, j)
    BY <1>1, <1>3, HeadFirst DEF NoTwice
  <1>5. c \in R /\ \A x \in R : ~ Onward(c, x)
    BY DEF Hops, Trail
  <1>6. \A d \in Cables : i \in Carried(d)' <=> i \in Carried(d)
    BY DEF Hops
  <1>7. ASSUME NEW x \in R, Towards(x, m)
        PROVE  x \in P /\ (i \in Carried(x)' => Before(queue'[x], i, j))
    <2>1. x \in P /\ (i \in Carried(x) => Before(queue[x], i, j))
      BY <1>7 DEF Follows
    <2>2. x # c => queue'[x] = queue[x]
      BY <1>5 DEF Hops
    <2> QED BY <1>4, <1>6, <2>1, <2>2
  <1>8. ASSUME NEW x \in S \cap Cables, Towards(x, m)
        PROVE  x \in P /\ (i \in Carried(x)' => Before(queue'[x], i, j))
    <2>1. Onward(c, x)
      BY DEF Hops
    <2>2. Towards(c, m) /\ Wire[c] # m
      BY <1>8, <2>1, WayBack
    <2>3. c \in P /\ i \notin Carried(c)
      BY <1>4, <1>5, <2>2 DEF Follows
    <2>4. PICK q \in P : Onward(c, q) /\ Towards(q, m)
      BY <2>2, <2>3 DEF GoesOn
    <2>5. q = x
      BY <1>8, <2>1, <2>2, <2>4, WayOn DEF Onward
    <2>6. queue'[x] = Append(queue[x], j)
      BY DEF Hops
    <2>7. i \in Carried(x)' => i \in ToSet(queue[x])
      BY <1>2, <1>6
    <2>8. i \in ToSet(queue[x]) => Before(Append(queue[x], j), i, j)
      BY <1>1, BeforeLast
    <2> QED BY <2>4, <2>5, <2>6, <2>7, <2>8
  <1> QED BY <1>7, <1>8 DEF Follows, Towards

\* A frame passed on keeps its place among the others.
LEMMA DeliveryPaced ==
  ASSUME LInv, LInv', Faultless, NoneHeld, NEW c \in Cables, PassOn(c),
         NEW F \in [Ids -> SUBSET Cables], Paced(F)
  PROVE  \E G \in [Ids -> SUBSET Cables] : Paced(G)'
  <1>1. sent' = sent
    BY Delivers
  <1>2. PICK k, S : Hops(c, k, S)
    BY Delivers
  <1>3. 1..Len(sent) \subseteq Ids /\ k \in 1..Len(sent) /\ k \in Ids
    BY <1>2, SentIds DEF LInv, FInv, TypeOK, Hops
  <1> DEFINE N == F[k] \cup (S \cap Cables)
             G == [i \in Ids |-> IF i = k THEN N ELSE F[i]]
  <1>4. \A i \in 1..Len(sent) : Trail(i, F[i]) /\ F[i] \in SUBSET Cables
    BY <1>3 DEF Paced
  <1>5. N \in SUBSET Cables /\ Trail(k, N)'
    <2>1. /\ k \in Carried(c) /\ k \notin Carried(c)'
          /\ \A q \in S \cap Cables : Onward(c, q)
          /\ \A d \in Cables : k \in Carried(d)' => k \in Carried(d) \/ d \in S
          /\ \/ got' = got
             \/ /\ S = {} /\ Wire[c] \in Stations
                /\ got' = [got EXCEPT ![Wire[c]][k] = @ + 1]
      BY <1>2 DEF Hops
    <2> QED BY <1>1, <1>3, <1>4, <2>1, TrailLonger DEF LInv
  <1>6. ASSUME NEW i \in 1..Len(sent), i # k PROVE Trail(i, F[i])'
    <2>1. \A d \in Cables : i \in Carried(d)' => i \in Carried(d)
      BY <1>2, <1>6 DEF Hops
    <2>2. \A m \in Stations : got'[m][i] = got[m][i]
      <3>1. got \in [Stations -> [Ids -> Nat]] /\ i \in Ids
        BY <1>3 DEF LInv, FInv, TypeOK
      <3>2. CASE got' = got
        BY <3>2
      <3>3. CASE Wire[c] \in Stations /\ got' = [got EXCEPT ![Wire[c]][k] = @ + 1]
        BY <1>6, <3>1, <3>3
      <3> QED BY <1>2, <3>2, <3>3 DEF Hops
    <2> QED BY <1>1, <1>4, <2>1, <2>2, TrailSame
  <1>7. ASSUME NEW i \in 1..Len(sent), NEW m \in Stations, Meant(i, m)
        PROVE  GoesOn(i, IF i = k THEN N ELSE F[i], m)'
    <2>1. GoesOn(i, F[i], m)
      BY <1>7 DEF Paced
    <2>2. CASE i = k
      <3>1. GoesOn(k, N, m)'
        BY <1>1, <1>2, <1>4, <1>7, <2>1, <2>2, GoesOnFurther
      <3> QED BY <2>2, <3>1
    <2>3. CASE i # k
      <3>1. GoesOn(i, F[i], m)'
        BY <1>1, <1>2, <1>4, <2>1, <2>3, GoesOnSame
      <3> QED BY <2>3, <3>1
    <2> QED BY <2>2, <2>3
  <1>8. ASSUME NEW i \in 1..Len(sent), NEW j \in 1..Len(sent), i < j,
               sent[i].smac = sent[j].smac, NEW m \in Stations, Meant(i, m), Meant(j, m)
        PROVE  Follows(i, IF i = k THEN N ELSE F[i], j, IF j = k THEN N ELSE F[j], m)'
    <2>1. Follows(i, F[i], j, F[j], m) /\ GoesOn(i, F[i], m)
      BY <1>8 DEF Paced
    <2>2. i # j
      <3>1. i \in Nat /\ j \in Nat
        BY <1>3 DEF Ids
      <3> QED BY <1>8, <3>1
    <2>3. CASE i = k
      <3>1. Follows(k, N, j, F[j], m)'
        BY <1>1, <1>2, <1>3, <1>4, <2>1, <2>3, FollowsAhead
      <3> QED BY <2>2, <2>3, <3>1
    <2>4. CASE j = k
      <3>1. Follows(i, F[i], k, N, m)'
        BY <1>1, <1>2, <1>3, <1>4, <2>1, <2>2, <2>4, FollowsBehind
      <3> QED BY <2>2, <2>4, <3>1
    <2>5. CASE i # k /\ j # k
      <3>1. Follows(i, F[i], j, F[j], m)'
        BY <1>1, <1>2, <1>4, <2>1, <2>5, FollowsSame
      <3> QED BY <2>5, <3>1
    <2> QED BY <2>3, <2>4, <2>5
  <1> HIDE DEF N
  <1>9. G \in [Ids -> SUBSET Cables]
    BY <1>5
  <1>10. \A i \in 1..Len(sent) : G[i] = IF i = k THEN N ELSE F[i]
    BY <1>3
  <1> HIDE DEF G
  <1>11. ASSUME NEW g, g = G PROVE Paced(g)'
    <2>1. \A i \in 1..Len(sent) : Trail(i, g[i])'
      BY <1>5, <1>6, <1>10, <1>11
    <2>2. \A i \in 1..Len(sent) : \A m \in Stations : Meant(i, m) => GoesOn(i, g[i], m)'
      BY <1>7, <1>10, <1>11
    <2>3. \A i, j \in 1..Len(sent) : i < j /\ sent[i].smac = sent[j].smac =>
            \A m \in Stations : Meant(i, m) /\ Meant(j, m) =>
              Follows(i, g[i], j, g[j], m)'
      BY <1>8, <1>10, <1>11
    <2>4. \A i, m : Meant(i, m)' <=> Meant(i, m)
      BY <1>1 DEF Meant
    <2> QED BY <1>1, <2>1, <2>2, <2>3, <2>4 DEF Paced
  <1> QED BY <1>9, <1>11

\* A new frame is behind all that its station has sent.
LEMMA InputPaced ==
  ASSUME LInv, LInv', Faultless, NoneHeld,
         NEW s \in Stations, NEW d \in Addresses \ {s}, Input(s, d),
         NEW F \in [Ids -> SUBSET Cables], Paced(F)
  PROVE  \E G \in [Ids -> SUBSET Cables] : Paced(G)'
  <1> DEFINE M == Len(sent) + 1
  <1> SUFFICES ASSUME NEW n, n = M PROVE \E G \in [Ids -> SUBSET Cables] : Paced(G)'
    OBVIOUS
  <1>1. TypeOK /\ queue \in [Cables -> Seq(Ids)] /\ 1..Len(sent) \subseteq Ids
    BY SentIds DEF LInv, FInv, TypeOK
  <1>2. /\ Len(sent) \in Nat /\ n \in Ids /\ Len(sent') = n
        /\ \A j \in 1..Len(sent) : sent'[j] = sent[j]
        /\ sent'[n] = [smac |-> s, dmac |-> d]
        /\ UNCHANGED <<held, got>>
        /\ \A c \in Cables : \A j \in Carried(c)' : j \in Carried(c) \/ (j = n /\ c = s)
    BY <1>1, InputShape
  <1>3. /\ \A j \in 1..n : j \in 1..Len(sent) \/ j = n
        /\ n \notin 1..Len(sent)
        /\ \A j \in 1..n : n < j => FALSE
    BY <1>2
  <1>4. \A c \in Cables : queue'[c] = queue[c] \/ queue'[c] = Append(queue[c], n)
    BY DEF Input, Pushed
  <1>5. \A c \in Cables : ToSet(Append(queue[c], n)) = ToSet(queue[c]) \cup {n}
    BY <1>1, <1>2, Appended
  <1>6. ASSUME NEW j \in 1..Len(sent), NEW c \in Cables
        PROVE  j \in Carried(c)' <=> j \in Carried(c)
    BY <1>2, <1>3, <1>4, <1>5 DEF Carried
  <1> DEFINE N == {s} \cap Cables
             G == [i \in Ids |-> IF i = n THEN N ELSE F[i]]
  <1>7. N \in SUBSET Cables /\ Trail(n, N)'
    BY InputTrail
  <1>8. ASSUME NEW j \in 1..Len(sent) PROVE Trail(j, F[j])'
    <2>1. Trail(j, F[j])
      BY DEF Paced
    <2> QED BY <1>2, <1>6, <2>1, TrailSame
  <1>9. \A j \in 1..Len(sent) : \A m : Meant(j, m)' <=> Meant(j, m)
    BY <1>2 DEF Meant
  <1>10. \A j \in 1..Len(sent) : F[j] \in SUBSET Cables
    BY <1>1
  <1>11. ASSUME NEW j \in 1..Len(sent), NEW m \in Stations, Meant(j, m)
         PROVE  GoesOn(j, F[j], m)'
    <2>1. GoesOn(j, F[j], m)
      BY <1>11 DEF Paced
    <2> QED BY <1>2, <1>6, <1>10, <2>1 DEF GoesOn, Towards
  <1>12. ASSUME NEW m \in Stations, Meant(n, m)'
         PROVE  /\ s \in Cables /\ n \in Carried(s)' /\ queue'[s] = Append(queue[s], n)
                /\ GoesOn(n, N, m)'
    <2>1. s # m /\ s \in Cables
      BY <1>2, <1>12 DEF Meant, Faultless
    <2>2. queue' = [queue EXCEPT ![s] = Append(@, n)]
      BY <2>1, InputEnters
    <2>3. queue'[s] = Append(queue[s], n)
      BY <1>1, <2>1, <2>2
    <2>4. n \in Carried(s)'
      BY <1>5, <2>1, <2>3 DEF Carried
    <2>5. GoesOn(n, N, m)'
      BY <1>2, <2>1, <2>4 DEF GoesOn
    <2> QED BY <2>1, <2>3, <2>4, <2>5
  <1>13. ASSUME NEW i \in 1..Len(sent), NEW j \in 1..Len(sent), i < j,
                sent[i].smac = sent[j].smac, NEW m \in Stations, Meant(i, m), Meant(j, m)
         PROVE  Follows(i, F[i], j, F[j], m)'
    <2>1. Follows(i, F[i], j, F[j], m)
      BY <1>13 DEF Paced
    <2>2. ASSUME NEW c \in Cables, Before(queue[c], i, j) PROVE Before(queue'[c], i, j)
      BY <1>1, <1>2, <1>4, <2>2, BeforeAppended
    <2> QED BY <1>6, <1>10, <2>1, <2>2 DEF Follows, Towards
  <1>14. ASSUME NEW i \in 1..Len(sent), sent[i].smac = s, NEW m \in Stations,
                Meant(i, m), Meant(n, m)'
         PROVE  Follows(i, F[i], n, N, m)'
    <2>1. s \in F[i] /\ queue'[s] = Append(queue[s], n) /\ s \in Cables
      BY <1>12, <1>14 DEF Paced, GoesOn
    <2>2. i \in Carried(s)' => i \in ToSet(queue[s])
      BY <1>6, <2>1 DEF Carried, NoneHeld, ToSet
    <2>3. i \in ToSet(queue[s]) => Before(Append(queue[s], n), i, n)
      BY <1>1, <1>2, <2>1, BeforeLast
    <2> QED BY <2>1, <2>2, <2>3 DEF Follows
  <1> HIDE DEF N
  <1>15. G \in [Ids -> SUBSET Cables]
    BY <1>7
  <1>16. G[n] = N /\ \A i \in 1..Len(sent) : G[i] = F[i]
    BY <1>1, <1>2, <1>3
  <1> HIDE DEF G
  <1>17. ASSUME NEW g, g = G PROVE Paced(g)'
    <2>1. \A i \in 1..n : Trail(i, g[i])'
      BY <1>3, <1>7, <1>8, <1>16, <1>17
    <2>2. \A i \in 1..n : \A m \in Stations : Meant(i, m)' => GoesOn(i, g[i], m)'
      BY <1>3, <1>9, <1>11, <1>12, <1>16, <1>17
    <2>3. ASSUME NEW i \in 1..n, NEW j \in 1..n, i < j, sent'[i].smac = sent'[j].smac,
                 NEW m \in Stations, Meant(i, m)', Meant(j, m)'
          PROVE  Follows(i, g[i], j, g[j], m)'
      <3>1. i \in 1..Len(sent) /\ Meant(i, m)
        BY <1>3, <1>9, <2>3
      <3>2. CASE j \in 1..Len(sent)
        BY <1>2, <1>9, <1>13, <1>16, <1>17, <2>3, <3>1, <3>2
      <3>3. CASE j = n
        <4>1. sent[i].smac = s
          BY <1>2, <2>3, <3>1, <3>3
        <4>2. Follows(i, F[i], n, N, m)'
          BY <1>14, <2>3, <3>1, <3>3, <4>1
        <4> QED BY <1>16, <1>17, <3>1, <3>3, <4>2
      <3> QED BY <1>3, <3>2, <3>3
    <2> QED BY <1>2, <2>1, <2>2, <2>3 DEF Paced
  <1> QED BY <1>15, <1>17

LEMMA StepSInv == SInv /\ [Next]_vars => SInv'
  <1> SUFFICES ASSUME LInv, Faultless, Slow = {}, NoneHeld, [Next]_vars,
                      NEW F \in [Ids -> SUBSET Cables], Paced(F)
               PROVE  NoneHeld' /\ \E G \in [Ids -> SUBSET Cables] : Paced(G)'
    BY StepLInv DEF SInv
  <1>1. LInv'
    BY StepLInv
  <1>2. ASSUME NEW m \in Stations, NEW d \in Addresses \ {m}, Input(m, d)
        PROVE  NoneHeld' /\ \E G \in [Ids -> SUBSET Cables] : Paced(G)'
    BY <1>1, <1>2, InputPaced DEF NoneHeld, Input
  <1>3. ASSUME NEW c \in Cables, Lose(c) \/ Hold(c) PROVE FALSE
    BY <1>3 DEF Lose, Hold, Faultless
  <1>4. ASSUME NEW c \in Cables, PassOn(c)
        PROVE  NoneHeld' /\ \E G \in [Ids -> SUBSET Cables] : Paced(G)'
    BY <1>1, <1>4, DeliveryPaced DEF NoneHeld, PassOn
  <1>5. ASSUME NEW c \in Cables, NEW n \in DOMAIN held[c], Fire(c, n) PROVE FALSE
    BY DEF NoneHeld
  <1>6. ASSUME UNCHANGED <<queue, held, sent, got>>
        PROVE  NoneHeld' /\ \E G \in [Ids -> SUBSET Cables] : Paced(G)'
    <2>1. Paced(F)'
      BY <1>6 DEF Paced, Trail, Meant, GoesOn, Follows, Carried, Towards
    <2> QED BY <1>6, <2>1 DEF NoneHeld
  <1>7. CASE Tick
    BY <1>6, <1>7 DEF Tick, network
  <1>8. ASSUME NEW x \in Switchable, TurnOn(x) \/ TurnOff(x) PROVE FALSE
    BY DEF Faultless
  <1>9. CASE UNCHANGED vars
    BY <1>6, <1>9 DEF vars
  <1> QED BY <1>2, <1>3, <1>4, <1>5, <1>7, <1>8, <1>9 DEF Next, Control, Timers

\* No frame overtakes another one of the same sender on the way to a station that both
\* are for, though one may be flooded where the other is unicast.
THEOREM ForwardingInSequence == Spec => []InSequence
  <1>1. Init => SInv
    <2> SUFFICES ASSUME Init PROVE NoneHeld /\ \E F \in [Ids -> SUBSET Cables] : Paced(F)
      BY InitLInv DEF SInv
    <2>1. NoneHeld /\ Len(sent) = 0
      BY DEF Init, NoneHeld
    <2> DEFINE F == [i \in Ids |-> {}]
    <2>2. F \in [Ids -> SUBSET Cables]
      OBVIOUS
    <2>3. Paced(F)
      BY <2>1 DEF Paced
    <2> QED BY <2>1, <2>2, <2>3
  <1>2. SInv => InSequence
    <2> SUFFICES ASSUME LInv, Faultless, Slow = {}, NoneHeld,
                        NEW F \in [Ids -> SUBSET Cables], Paced(F),
                        NEW i \in 1..Len(sent), NEW j \in 1..Len(sent), i < j,
                        sent[i].smac = sent[j].smac, NEW m \in Stations,
                        Meant(i, m), Meant(j, m)
                 PROVE  got[m][j] <= got[m][i]
      BY DEF SInv, InSequence
    <2> SUFFICES ASSUME got[m][j] = 1 PROVE got[m][i] = 1
      <3>1. got[m][i] \in {0, 1} /\ got[m][j] \in {0, 1}
        BY GotOnce
      <3> QED BY <3>1
    <2>1. /\ Trail(j, F[j]) /\ GoesOn(i, F[i], m) /\ Follows(i, F[i], j, F[j], m)
      BY DEF Paced
    <2>2. m \in Cables /\ Wire[m] \in F[j] /\ j \notin Carried(Wire[m])
      BY <2>1 DEF Trail
    <2>3. Towards(Wire[m], m) /\ Wire[Wire[m]] = m /\ Wire[m] \in Cables
      BY <2>2, Network, TreeAssumption DEF Towards
    <2>4. ~ Before(queue[Wire[m]], i, j)
      <3>1. queue[Wire[m]] \in Seq(Ids)
        BY <2>3 DEF LInv, FInv, TypeOK
      <3>2. j \notin ToSet(queue[Wire[m]])
        BY <2>2 DEF Carried
      <3> QED BY <3>1, <3>2, ListShape DEF Before
    <2>5. Wire[m] \in F[i] /\ i \notin Carried(Wire[m])
      BY <2>1, <2>2, <2>3, <2>4 DEF Follows
    <2>6. \A q : ~ Onward(Wire[m], q)
      BY <2>3 DEF Onward, Stations
    <2> QED BY <2>1, <2>3, <2>5, <2>6 DEF GoesOn
  <1> QED BY <1>1, <1>2, StepSInv, PTL DEF Spec
=============================================================================
