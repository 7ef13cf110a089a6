-------------------------------- MODULE Cable --------------------------------
(***************************************************************************)
(* One cable of a link, between the queue its source pushes into and the   *)
(* port it delivers to: the drop-tail queue, the bandwidth shaper          *)
(* (output_closed), random errors and loss, and latency and jitter by way  *)
(* of timers.                                                              *)
(* The event loop polls its inputs and commands, lets network_control      *)
(* forward at most one packet, then fires every timer that is due.         *)
(*                                                                         *)
(* Packets are numbered in the order in which they arrive; where says what *)
(* has become of each.  Time is in whole microseconds, like output_closed: *)
(* what a packet costs the shaper, 8000000 / bandwidth * size, is computed *)
(* in floating point and truncated when it is stored.  (The rounding of    *)
(* the sum before that, under 1/8192 of a microsecond, is left out.)       *)
(* The shaper reads the wall clock, which the system administrator may set *)
(* back; timers run by the clock of the event loop.                        *)
(***************************************************************************)
EXTENDS Integers, FiniteSets

CONSTANTS
  PacketCount,  \* packets that arrive in a run
  QueueSize,    \* what the queue holds, PAKCET_QUEUE_SIZE - 1
  Grace,        \* the slack of the shaper, 1000 microseconds
  Bits,         \* microseconds to a second times bits to a byte, 8000000
  Sizes,        \* what the IP header of a packet may say of its size
  Bandwidths,   \* what "set band:" may ask for, 0 included
  Default,      \* the bandwidth a cable is created with
  MaxCost,      \* what no packet exceeds at a bandwidth above 0
  Latencies,    \* what "set latency:" may ask for
  Jitters,      \* what "set jitter:" may ask for
  DropRates,    \* what "set drop:" may ask for
  ErrorRates,   \* what "set error:" may ask for
  Bodyless,     \* packets whose IP header says that they have no body
  Steps,        \* by how much the wall clock may be set back at once
  Noise,        \* what the Gaussian noise may add to the latency
  MaxTime       \* the end of modelled time

ASSUME CableAssumption ==
  /\ PacketCount \in Nat /\ QueueSize \in Nat /\ MaxTime \in Nat
  /\ Grace \in Nat /\ MaxCost \in Nat
  /\ Bits \in Nat /\ Sizes \subseteq Nat /\ Bandwidths \subseteq Nat
  /\ Default \in Bandwidths
  /\ \A s \in Sizes, b \in Bandwidths \ {0} : (Bits * s) \div b <= MaxCost
  /\ Latencies \subseteq Nat /\ Jitters \subseteq Nat
  /\ DropRates \subseteq Int /\ ErrorRates \subseteq Int
  /\ Steps \subseteq Nat
  /\ Noise \subseteq Int

Packets == 1..PacketCount
Places == {"new", "queued", "flying", "delivered", "freed", "lost"}

VARIABLES
  where,    \* of each packet: the place it is in
  due,      \* of a flying packet: the deadline of its timer
  sent,     \* of a packet the shaper let through: when, else -1
  closed,   \* cable->output_closed, counted from the creation of the cable
  forever,  \* it is what an infinite sum was converted to
  bandwidth,                \* cable->bandwidth
  latency, jitter,          \* cable->latency and ->jitter
  drop, error,              \* cable->drop_rate and ->error_rate
  wired,    \* cable->out is not null
  alive,    \* the cable is allocated
  turn,     \* what the event loop is doing
  now,      \* the clock of the event loop
  behind,   \* by how much the wall clock has been set back
  work,     \* history: the bits let through so far at bandwidths above 0, times 1000000,
  passed,   \* in how many packets,
  fastest,  \* and the highest bandwidth set so far
  calm,     \* history: no command has disturbed the cable so far
  fault     \* how the program ended: what memory was misused, or a division by zero

settings == <<bandwidth, fastest, latency, jitter, drop, error>>
life == <<wired, alive, fault>>
clock == <<now, behind>>
packets == <<where, due, sent>>
shaper == <<closed, forever, work, passed>>
vars == <<packets, shaper, settings, life, turn, clock, calm>>

TypeOK ==
  /\ where \in [Packets -> Places]
  /\ due \in [Packets -> Nat] /\ sent \in [Packets -> Int]
  /\ closed \in Nat /\ forever \in BOOLEAN /\ now \in Nat /\ behind \in Nat
  /\ work \in Nat /\ passed \in Nat
  /\ bandwidth \in Bandwidths /\ fastest \in Nat /\ bandwidth <= fastest
  /\ latency \in Nat /\ jitter \in Nat /\ drop \in Int /\ error \in Int
  /\ wired \in BOOLEAN /\ alive \in BOOLEAN /\ calm \in BOOLEAN
  /\ turn \in {"input", "control", "timers"}
  /\ fault \in {"none", "null", "freed", "division"}

Init ==
  /\ where = [p \in Packets |-> "new"]
  /\ due = [p \in Packets |-> 0] /\ sent = [p \in Packets |-> -1]
  /\ closed = 0 /\ forever = FALSE /\ now = 0 /\ behind = 0 /\ work = 0 /\ passed = 0
  /\ bandwidth = Default /\ fastest = Default
  /\ latency = 0 /\ jitter = 0 /\ drop = 0 /\ error = 0
  /\ wired = TRUE /\ alive = TRUE /\ calm = TRUE
  /\ turn = "input"
  /\ fault = "none"

At(place) == {p \in Packets : where[p] = place}
First(p, S) == p \in S /\ \A q \in S : p <= q

-----------------------------------------------------------------------------
(* Input: packets and commands *)

\* A packet is pushed into cable->queue (network_process, switch_unicast), by
\* an input or by another component's turn; a full queue refuses it.
Arrive(p) ==
  /\ fault = "none" /\ alive
  /\ turn \in {"input", "control"}
  /\ First(p, At("new"))
  /\ where' = [where EXCEPT ![p] =
                 IF Cardinality(At("queued")) < QueueSize THEN "queued" ELSE "freed"]
  /\ UNCHANGED <<due, sent, shaper, settings, life, turn, clock, calm>>

\* A command comes in: the links of the cable stay undisturbed, or not.
Command(undisturbed) ==
  /\ fault = "none" /\ alive /\ turn = "input"
  /\ calm' = (calm /\ undisturbed)
  /\ UNCHANGED <<due, sent, shaper, fault, turn, clock>>

SetBandwidth(b) ==
  /\ Command(TRUE)
  /\ bandwidth' = b
  /\ fastest' = IF b > fastest THEN b ELSE fastest
  /\ UNCHANGED <<where, latency, jitter, drop, error, wired, alive>>

SetLatency(l) ==
  /\ Command(l >= latency)
  /\ latency' = l
  /\ UNCHANGED <<where, bandwidth, fastest, jitter, drop, error, wired, alive>>

SetJitter(j) ==
  /\ Command(j = 0)
  /\ jitter' = j
  /\ UNCHANGED <<where, bandwidth, fastest, latency, drop, error, wired, alive>>

SetDrop(r) ==
  /\ Command(TRUE)
  /\ drop' = r
  /\ UNCHANGED <<where, bandwidth, fastest, latency, jitter, error, wired, alive>>

SetError(r) ==
  /\ Command(r <= 0)
  /\ error' = r
  /\ UNCHANGED <<where, bandwidth, fastest, latency, jitter, drop, wired, alive>>

\* The node at the far end is destroyed: it clears the pointer to itself.
Unplug ==
  /\ wired
  /\ Command(FALSE)
  /\ wired' = FALSE
  /\ UNCHANGED <<where, settings, alive>>

\* The link is destroyed.  The queue goes without the packets in it, and the
\* timers keep the address of the cable.
Destroy ==
  /\ Command(FALSE)
  /\ alive' = FALSE
  /\ where' = [p \in Packets |-> IF where[p] = "queued" THEN "lost" ELSE where[p]]
  /\ UNCHANGED <<settings, wired>>

-----------------------------------------------------------------------------
(* packet_forward, called by network_control with the oldest queued packet *)

\* CLOCK_REALTIME, counted from the creation of the cable.
Wall == now - behind

\* Variant: the grace is added to what is still to be sent.
ShutEarly == forever \/ closed + Grace > Wall

\* The shaper lets nothing through while more than Grace is still to be sent.  What an
\* infinite sum is converted to is up to the build, 0 or a number above 2^63: each is a
\* time the clock does not reach, 0 because taking the grace from it wraps around.
Shut == forever \/ closed > Wall + Grace

\* Variant: the backlog is forgotten.
ClosingAnew(size) == Wall + (Bits * size) \div bandwidth

\* output_closed after a packet at a bandwidth above 0: the sum loses its fraction.
Closing(size) ==
  (IF closed > Wall THEN closed ELSE Wall) + (Bits * size) \div bandwidth

\* At a bandwidth of 0 the sum is infinite.
Charge(size) ==
  IF bandwidth = 0
    THEN forever' = TRUE /\ UNCHANGED <<closed, work, passed>>
    ELSE /\ closed' = Closing(size) /\ UNCHANGED forever
         /\ work' = work + Bits * size /\ passed' = passed + 1

\* How long the packet is held, when it is held at all.
Delays == IF jitter = 0 THEN {latency}
          ELSE {IF latency + n <= 0 THEN 0 ELSE latency + n : n \in Noise}

\* What happens to a packet the shaper let through.  It is lost when the last two
\* digits of the time stamp counter are not above the drop rate, which may be negative.
MayLose == drop > 0
MayKeep == drop = 0 \/ drop < 99

\* Likewise for the error rate.  A bit of the body is flipped, at a place that is
\* taken modulo the size of the body.
Corrupts(p) == error > 0 /\ p \in Bodyless
MaySpare(p) == Corrupts(p) => error < 99

Divide(p) ==
  /\ Corrupts(p)
  /\ fault' = "division"
  /\ UNCHANGED <<where, due>>

Lose(p) ==
  /\ MayLose
  /\ where' = [where EXCEPT ![p] = "freed"]
  /\ UNCHANGED <<due, fault>>

\* Variant: one of the two settings is enough to pass a packet on at once.
PassOnEither(p) ==
  /\ MayKeep
  /\ latency = 0 \/ jitter = 0
  /\ IF wired THEN where' = [where EXCEPT ![p] = "delivered"] /\ UNCHANGED fault
              ELSE fault' = "null" /\ UNCHANGED where
  /\ UNCHANGED due

PassOn(p) ==
  /\ MayKeep
  /\ latency = 0 /\ jitter = 0
  /\ IF wired THEN where' = [where EXCEPT ![p] = "delivered"] /\ UNCHANGED fault
              ELSE fault' = "null" /\ UNCHANGED where
  /\ UNCHANGED due

Hold(p) ==
  /\ MayKeep
  /\ latency # 0 \/ jitter # 0
  /\ \E d \in Delays :
       /\ now + d <= MaxTime
       /\ due' = [due EXCEPT ![p] = now + d]
  /\ where' = [where EXCEPT ![p] = "flying"]
  /\ UNCHANGED fault

Refuse(p) ==
  /\ fault = "none" /\ alive /\ turn = "control"
  /\ First(p, At("queued"))
  /\ Shut
  /\ where' = [where EXCEPT ![p] = "freed"]
  /\ turn' = "timers"
  /\ UNCHANGED <<due, sent, shaper, settings, life, clock, calm>>

Forward(p, size) ==
  /\ fault = "none" /\ alive /\ turn = "control"
  /\ First(p, At("queued"))
  /\ ~ Shut
  /\ Charge(size)
  /\ sent' = [sent EXCEPT ![p] = now]
  /\ \/ Divide(p)
     \/ MaySpare(p) /\ (Lose(p) \/ PassOn(p) \/ Hold(p))
  /\ turn' = "timers"
  /\ UNCHANGED <<settings, wired, alive, clock, calm>>

\* This turn of network_control went to no one, or to another component.
PassTurn ==
  /\ fault = "none" /\ turn = "control"
  /\ turn' = "timers"
  /\ UNCHANGED <<packets, shaper, settings, life, clock, calm>>

-----------------------------------------------------------------------------
(* The rest of the event loop *)

EndInput ==
  /\ fault = "none" /\ turn = "input"
  /\ turn' = "control"
  /\ UNCHANGED <<packets, shaper, settings, life, clock, calm>>

\* The timer list is in the order of the deadlines, equal ones in the order in
\* which they were added.
Earlier(p, q) == due[p] < due[q] \/ (due[p] = due[q] /\ p < q)

NextTimer(p) ==
  /\ where[p] = "flying" /\ due[p] <= now
  /\ \A q \in At("flying") : q # p => Earlier(p, q)

\* Variant: the timer asks the shaper once more.
DeliverShaped(p) ==
  /\ fault = "none" /\ turn = "timers"
  /\ NextTimer(p)
  /\ where' = [where EXCEPT ![p] = IF Shut THEN "freed" ELSE "delivered"]
  /\ UNCHANGED <<due, sent, shaper, settings, life, turn, clock, calm>>

Deliver(p) ==
  /\ fault = "none" /\ turn = "timers"
  /\ NextTimer(p)
  /\ IF alive /\ wired
       THEN where' = [where EXCEPT ![p] = "delivered"] /\ UNCHANGED fault
       ELSE fault' = (IF alive THEN "null" ELSE "freed") /\ UNCHANGED where
  /\ UNCHANGED <<due, sent, shaper, settings, wired, alive, turn, clock, calm>>

EndTimers ==
  /\ fault = "none" /\ turn = "timers"
  /\ \A p \in At("flying") : due[p] > now
  /\ turn' = "input"
  /\ UNCHANGED <<packets, shaper, settings, life, clock, calm>>

Tick ==
  /\ now < MaxTime
  /\ now' = now + 1
  /\ UNCHANGED <<packets, shaper, settings, life, turn, behind, calm>>

\* The wall clock is set back; by MaxTime in all, a bound of the model.
StepBack(t) ==
  /\ behind + t <= MaxTime
  /\ behind' = behind + t
  /\ UNCHANGED <<packets, shaper, settings, life, turn, now, calm>>

-----------------------------------------------------------------------------
(* Loop is what the event loop does without being asked.                     *)

Loop ==
  \/ EndInput \/ PassTurn \/ EndTimers
  \/ \E p \in Packets : Refuse(p) \/ Deliver(p) \/ \E s \in Sizes : Forward(p, s)

Next ==
  \/ Loop \/ Tick
  \/ \E p \in Packets : Arrive(p)
  \/ \E b \in Bandwidths : SetBandwidth(b)
  \/ \E r \in DropRates : SetDrop(r)
  \/ \E r \in ErrorRates : SetError(r)
  \/ \E l \in Latencies : SetLatency(l)
  \/ \E j \in Jitters : SetJitter(j)
  \/ \E t \in Steps : StepBack(t)
  \/ Unplug \/ Destroy

Fairness == WF_vars(Tick) /\ WF_vars(Loop)

Spec == Init /\ [][Next]_vars /\ Fairness

-----------------------------------------------------------------------------
(* Properties *)

\* The shaper keeps the cable within its bandwidth: since it was created it has
\* let through no more bits than the fastest bandwidth carries in the time elapsed, the
\* grace and one packet, and in a microsecond more for each packet, which is what the
\* truncated sum forgets; whatever the arrivals, and however the bandwidth and the clock
\* were changed.  (Short packets at a high bandwidth cost nothing.)  The packet that a
\* bandwidth of 0 lets through, before the cable is shut for ever, is not counted.
RateBound ==
  /\ work <= fastest * (closed + passed)
  /\ closed <= now + Grace + MaxCost

\* No burst shuts the cable for long: when it refuses packets, then it has let one
\* through less than a packet's cost ago, plus what the wall clock was set back, or
\* it has refused all since the clock was set back to before its creation; unless a
\* packet was let through at a bandwidth of 0, which shuts it for ever, whatever is set
\* afterwards.
ShutsBriefly ==
  Shut =>
    \/ forever
    \/ now + Grace < behind
    \/ \E p \in Packets : sent[p] >= 0 /\ now < sent[p] + MaxCost + behind

\* While no command lowered the latency, set jitter or took the link apart, packets
\* leave the cable in the order in which they entered it, although each is held by a
\* timer of its own or by none.
InOrder ==
  calm =>
    \A p, q \in Packets : q < p /\ where[p] = "delivered" =>
      where[q] \in {"delivered", "freed"}

\* A packet that is held is delivered in the end, if the program, the link and the
\* node at its end are there to see it (event_timer_add, event_loop).
Lands ==
  \A p \in Packets :
    where[p] = "flying" ~> where[p] = "delivered" \/ ~ wired \/ ~ alive \/ fault # "none"

\* The cable hands no packet to a node that is gone, and no timer outlives it.
NoFault == fault = "none"

-----------------------------------------------------------------------------
(* Why the order is kept: what every step preserves while the cable is calm.  *)

\* Packets enter and leave the queue in the order of their arrival.
QueueInOrder ==
  \A p, q \in Packets : q < p =>
    /\ where[q] = "new" => where[p] = "new"
    /\ where[q] = "queued" => where[p] \in {"new", "queued", "freed"}

\* No timer overtakes an earlier one, and none is later than one set now would be.
TimersInOrder ==
  /\ \A p \in Packets : where[p] = "flying" => due[p] <= now + latency /\ latency # 0
  /\ \A p, q \in Packets : q < p /\ where[q] = "flying" =>
       /\ where[p] # "delivered"
       /\ where[p] = "flying" => due[q] <= due[p]

SteadyInv ==
  /\ TypeOK
  /\ calm =>
       /\ QueueInOrder /\ TimersInOrder
       /\ jitter = 0 /\ error <= 0 /\ wired /\ alive /\ fault = "none"
       /\ \A p \in Packets : where[p] # "lost"

=============================================================================
