----------------------------- MODULE CableProofs -----------------------------
(* What holds of a cable for every capacity, bandwidth, latency and drop rate. *)
EXTENDS Cable, TLAPS

-----------------------------------------------------------------------------
(* The cost of a packet *)

LEMMA Quotient ==
  ASSUME NEW x \in Nat, NEW b \in Nat \ {0}
  PROVE  x \div b \in Nat /\ x <= b * ((x \div b) + 1)
  BY SMT

\* At a bandwidth above 0 the truncated cost of a packet is a number, and bounded.
LEMMA Cost ==
  ASSUME TypeOK, NEW s \in Sizes, bandwidth # 0
  PROVE  /\ (Bits * s) \div bandwidth \in 0..MaxCost
         /\ Bits * s \in Nat
         /\ Bits * s <= bandwidth * (((Bits * s) \div bandwidth) + 1)
<1>1. bandwidth \in Bandwidths \ {0} /\ bandwidth \in Nat \ {0}
  BY CableAssumption DEF TypeOK
<1>2. Bits * s \in Nat
  BY CableAssumption
<1>3. (Bits * s) \div bandwidth <= MaxCost
  BY <1>1, CableAssumption
<1> QED
  BY <1>1, <1>2, <1>3, Quotient, CableAssumption

LEMMA Monotonic ==
  ASSUME NEW a \in Nat, NEW b \in Nat, NEW c \in Nat, a <= b
  PROVE  a * c <= b * c
  BY SMT

\* A packet of x bits, sent at a bandwidth of b in c whole microseconds, keeps the work
\* done so far within what the bandwidth f carries.
LEMMA Carries ==
  ASSUME NEW w \in Nat, NEW x \in Nat, NEW b \in Nat, NEW f \in Nat, NEW c \in Nat,
         NEW k \in Nat, NEW m \in Nat, NEW n \in Nat,
         w <= f * (k + n), x <= b * (c + 1), b <= f, k + c <= m
  PROVE  w + x <= f * (m + (n + 1))
<1>1. b * (c + 1) <= f * (c + 1)
  BY Monotonic
<1>2. f * ((k + n) + (c + 1)) = f * (k + n) + f * (c + 1)
  BY SMT
<1>3. f * ((k + n) + (c + 1)) <= f * (m + (n + 1))
  <2>1. /\ (k + n) + (c + 1) \in Nat /\ m + (n + 1) \in Nat
        /\ (k + n) + (c + 1) <= m + (n + 1)
    OBVIOUS
  <2>2. ((k + n) + (c + 1)) * f <= (m + (n + 1)) * f
    BY <2>1, Monotonic
  <2> QED BY <2>2
<1> QED
  BY <1>1, <1>2, <1>3

-----------------------------------------------------------------------------
(* The types *)

LEMMA TypeInit == Init => TypeOK
<1> SUFFICES ASSUME Init PROVE TypeOK
  OBVIOUS
<1>1. bandwidth \in Bandwidths /\ fastest \in Nat /\ bandwidth <= fastest
  BY CableAssumption DEF Init
<1>2. where \in [Packets -> Places] /\ due \in [Packets -> Nat] /\ sent \in [Packets -> Int]
  BY DEF Init, Places
<1>3. forever \in BOOLEAN /\ wired \in BOOLEAN /\ alive \in BOOLEAN /\ calm \in BOOLEAN
  BY DEF Init
<1> QED
  BY <1>1, <1>2, <1>3 DEF Init, TypeOK

\* What a forwarded packet leaves behind is well typed: a delay is never below 0.
LEMMA TypeForward ==
  ASSUME TypeOK, NEW p \in Packets, NEW s \in Sizes, Forward(p, s)
  PROVE  TypeOK'
<1> USE CableAssumption
<1>1. /\ closed' \in Nat /\ forever' \in BOOLEAN /\ work' \in Nat /\ passed' \in Nat
  <2>1. CASE bandwidth = 0
    BY <2>1 DEF Forward, Charge, TypeOK
  <2>2. CASE bandwidth # 0
    <3>1. /\ closed' = Closing(s) /\ forever' = forever
          /\ work' = work + Bits * s /\ passed' = passed + 1
      BY <2>2 DEF Forward, Charge
    <3>2. (Bits * s) \div bandwidth \in Nat /\ Bits * s \in Nat
      BY <2>2, Cost
    <3>3. closed' \in Nat
      BY <3>1, <3>2 DEF Closing, Wall, TypeOK
    <3> QED
      BY <3>1, <3>2, <3>3 DEF TypeOK
  <2> QED BY <2>1, <2>2
<1>2. sent' \in [Packets -> Int] /\ closed' \in Nat /\ forever' \in BOOLEAN
      /\ work' \in Nat /\ passed' \in Nat
  BY <1>1 DEF Forward, TypeOK
<1>3. /\ UNCHANGED <<bandwidth, fastest, latency, jitter, drop, error>>
      /\ UNCHANGED <<wired, alive, now, behind, calm>>
      /\ turn' = "timers"
  BY DEF Forward, settings, clock
<1>4. CASE Divide(p)
  BY <1>2, <1>3, <1>4 DEF Divide, TypeOK
<1>5. CASE Lose(p)
  BY <1>2, <1>3, <1>5 DEF Lose, Forward, TypeOK, Places
<1>6. CASE PassOn(p)
  BY <1>2, <1>3, <1>6 DEF PassOn, Forward, TypeOK, Places
<1>7. CASE Hold(p)
  <2>1. PICK d \in Delays : due' = [due EXCEPT ![p] = now + d]
    BY <1>7 DEF Hold
  <2>2. d \in Nat
    BY DEF Delays, TypeOK
  <2>3. due' \in [Packets -> Nat]
    BY <2>1, <2>2 DEF TypeOK
  <2> QED
    BY <1>2, <1>3, <1>7, <2>3 DEF Hold, Forward, TypeOK, Places
<1> QED
  BY <1>4, <1>5, <1>6, <1>7 DEF Forward

LEMMA TypeNext == TypeOK /\ [Next]_vars => TypeOK'
<1> SUFFICES ASSUME TypeOK, [Next]_vars PROVE TypeOK'
  OBVIOUS
<1> USE CableAssumption
<1> USE DEF settings, life, clock, packets, shaper
<1>1. CASE \E p \in Packets : Arrive(p)
  BY <1>1 DEF Arrive, TypeOK, Places
<1>2. CASE \E p \in Packets : Refuse(p)
  BY <1>2 DEF Refuse, TypeOK, Places
<1>3. CASE \E p \in Packets : Deliver(p)
  BY <1>3 DEF Deliver, TypeOK, Places
<1>4. CASE \E p \in Packets, s \in Sizes : Forward(p, s)
  BY <1>4, TypeForward
<1>5. CASE EndInput \/ PassTurn \/ EndTimers \/ Tick \/ \E t \in Steps : StepBack(t)
  BY <1>5 DEF EndInput, PassTurn, EndTimers, Tick, StepBack, TypeOK
<1>6. CASE \/ \E n \in Nat : SetLatency(n) \/ SetJitter(n)
           \/ \E r \in Int : SetDrop(r) \/ SetError(r)
  BY <1>6 DEF SetLatency, SetJitter, SetDrop, SetError, Command, TypeOK
<1>9. CASE \E b \in Bandwidths : SetBandwidth(b)
  <2>1. bandwidth' \in Bandwidths /\ fastest' \in Nat /\ bandwidth' <= fastest'
    BY <1>9 DEF SetBandwidth, TypeOK
  <2> QED
    BY <1>9, <2>1 DEF SetBandwidth, Command, TypeOK
<1>7. CASE Unplug \/ Destroy
  BY <1>7 DEF Unplug, Destroy, Command, TypeOK, Places
<1>8. CASE UNCHANGED vars
  BY <1>8 DEF vars, TypeOK
<1> QED
  BY <1>1, <1>2, <1>3, <1>4, <1>5, <1>6, <1>7, <1>8, <1>9 DEF Next, Loop

\* Every reachable state of a cable is well typed, in particular no deadline is
\* below zero, however much noise the jitter adds (packet_forward, cable.c).
THEOREM CableTypes == Spec => []TypeOK
<1>1. TypeOK /\ [Next]_vars => TypeOK'
  BY TypeNext
<1> QED
  BY TypeInit, <1>1, PTL DEF Spec

-----------------------------------------------------------------------------
(* The shaper *)

\* Only Forward, the clock, its setting and that of the bandwidth change what the shaper
\* is about.
LEMMA ShaperSteps ==
  ASSUME [Next]_vars
  PROVE  \/ UNCHANGED <<shaper, sent, fastest, now, behind>>
         \/ Tick
         \/ \E t \in Steps : StepBack(t)
         \/ \E b \in Bandwidths : SetBandwidth(b)
         \/ \E p \in Packets, s \in Sizes : Forward(p, s)
  BY DEF Next, Loop, Arrive, Refuse, Deliver, EndInput, PassTurn, EndTimers, Command,
         SetLatency, SetJitter, SetDrop, SetError, Unplug, Destroy,
         vars, packets, shaper, clock, settings

\* What the shaper leaves behind when it lets a packet through.
LEMMA ForwardCloses ==
  ASSUME TypeOK, NEW p \in Packets, NEW s \in Sizes, Forward(p, s), bandwidth # 0
  PROVE  /\ work' = work + Bits * s /\ passed' = passed + 1 /\ fastest' = fastest
         /\ closed' >= closed + ((Bits * s) \div bandwidth) /\ closed' \in Nat
         /\ closed' <= now + Grace + MaxCost
         /\ sent' = [sent EXCEPT ![p] = now] /\ now' = now /\ forever' = forever
<1> USE CableAssumption
<1> DEFINE c == (Bits * s) \div bandwidth
<1>1. c \in Nat /\ c <= MaxCost
  BY Cost
<1>2. /\ now' = now /\ forever' = forever /\ fastest' = fastest
      /\ work' = work + Bits * s /\ passed' = passed + 1
      /\ closed' = (IF closed > Wall THEN closed ELSE Wall) + c
      /\ ~ Shut /\ sent' = [sent EXCEPT ![p] = now]
  BY DEF Forward, Charge, Closing, clock, settings
<1> HIDE DEF c
<1>3. closed <= Wall + Grace /\ Wall <= now /\ Wall \in Int
  BY <1>2 DEF Shut, Wall, TypeOK
<1>4. closed' >= closed + c /\ closed' \in Nat /\ closed' <= now + Grace + MaxCost
  BY <1>1, <1>2, <1>3 DEF TypeOK
<1> QED
  BY <1>2, <1>4 DEF c

\* At a bandwidth of 0 it leaves the cable shut.
LEMMA ForwardForever ==
  ASSUME TypeOK, NEW p \in Packets, NEW s \in Sizes, Forward(p, s), bandwidth = 0
  PROVE  UNCHANGED <<closed, work, passed, fastest, now, behind>> /\ forever'
  BY DEF Forward, Charge, clock, settings

LEMMA RateNext == TypeOK /\ RateBound /\ [Next]_vars => RateBound'
<1> SUFFICES ASSUME TypeOK, RateBound, [Next]_vars PROVE RateBound'
  OBVIOUS
<1>1. CASE \E p \in Packets, s \in Sizes : Forward(p, s)
  <2>1. PICK p \in Packets, s \in Sizes : Forward(p, s)
    BY <1>1
  <2>2. CASE bandwidth = 0
    BY <2>1, <2>2, ForwardForever DEF RateBound
  <2>3. CASE bandwidth # 0
    <3>1. PICK c \in Nat : /\ c = (Bits * s) \div bandwidth
                          /\ Bits * s \in Nat /\ Bits * s <= bandwidth * (c + 1)
      BY <2>3, Cost, CableAssumption
    <3>2. /\ work' = work + Bits * s /\ passed' = passed + 1 /\ fastest' = fastest
          /\ closed' >= closed + c /\ closed' \in Nat /\ now' = now
          /\ closed' <= now + Grace + MaxCost
      BY <2>1, <2>3, <3>1, ForwardCloses
    <3>3. closed \in Nat /\ passed \in Nat
      BY DEF TypeOK
    <3>4. bandwidth \in Nat /\ bandwidth <= fastest /\ fastest \in Nat /\ work \in Nat
      BY CableAssumption DEF TypeOK
    <3>5. work <= fastest * (closed + passed)
      BY DEF RateBound
    <3>6. work + Bits * s <= fastest * (closed' + (passed + 1))
      BY <3>1, <3>2, <3>3, <3>4, <3>5, Carries
    <3> QED
      BY <3>2, <3>6 DEF RateBound
  <2> QED BY <2>2, <2>3
<1>2. CASE Tick
  BY <1>2, CableAssumption DEF Tick, shaper, settings, TypeOK, RateBound
<1>3. CASE \E t \in Steps : StepBack(t)
  BY <1>3 DEF StepBack, shaper, settings, RateBound
<1>4. CASE \E b \in Bandwidths : SetBandwidth(b)
  <2>1. /\ UNCHANGED <<closed, work, passed, now>>
        /\ fastest' \in Nat /\ fastest <= fastest'
    BY <1>4, CableAssumption DEF SetBandwidth, Command, shaper, clock, TypeOK
  <2>4. closed + passed \in Nat /\ fastest \in Nat /\ work \in Nat
    BY DEF TypeOK
  <2>2. fastest * (closed + passed) <= fastest' * (closed + passed)
    BY <2>1, <2>4, Monotonic
  <2>3. fastest * (closed + passed) \in Nat /\ fastest' * (closed + passed) \in Nat
    BY <2>1, <2>4
  <2> QED
    BY <2>1, <2>2, <2>3, <2>4 DEF RateBound
<1>5. CASE UNCHANGED <<shaper, sent, fastest, now, behind>>
  BY <1>5 DEF RateBound, shaper
<1> QED
  BY <1>1, <1>2, <1>3, <1>4, <1>5, ShaperSteps

\* Whatever arrives and however the settings change, a cable lets through no more bits
\* than its fastest bandwidth carries in the time elapsed, its grace, one packet, and a
\* microsecond for each packet (packet_forward, cable.c).
THEOREM CableRate == Spec => []RateBound
<1>1. Init => RateBound
  BY CableAssumption DEF Init, RateBound
<1>2. TypeOK /\ RateBound /\ [Next]_vars => RateBound'
  BY RateNext
<1> QED
  BY CableTypes, <1>1, <1>2, PTL DEF Spec

\* The debt is that of the packet let through last, or there is none, or it is infinite.
Debt ==
  \/ forever
  \/ closed = 0
  \/ \E p \in Packets : sent[p] >= 0 /\ closed <= sent[p] + Grace + MaxCost

LEMMA DebtNext == TypeOK /\ Debt /\ [Next]_vars => Debt'
<1> SUFFICES ASSUME TypeOK, Debt, [Next]_vars PROVE Debt'
  OBVIOUS
<1>1. CASE \E p \in Packets, s \in Sizes : Forward(p, s)
  <2>1. PICK p \in Packets, s \in Sizes : Forward(p, s)
    BY <1>1
  <2>2. CASE bandwidth = 0
    BY <2>1, <2>2, ForwardForever DEF Debt
  <2>3. CASE bandwidth # 0
    <3>1. closed' <= now + Grace + MaxCost /\ sent'[p] = now /\ now >= 0
      BY <2>1, <2>3, ForwardCloses DEF TypeOK
    <3> QED
      BY <3>1 DEF Debt
  <2> QED BY <2>2, <2>3
<1>2. CASE Tick \/ \E t \in Steps : StepBack(t)
  BY <1>2 DEF Tick, StepBack, shaper, packets, Debt
<1>3. CASE \E b \in Bandwidths : SetBandwidth(b)
  BY <1>3 DEF SetBandwidth, Command, shaper, Debt
<1>4. CASE UNCHANGED <<shaper, sent, fastest, now, behind>>
  BY <1>4 DEF Debt, shaper
<1> QED
  BY <1>1, <1>2, <1>3, <1>4, ShaperSteps

\* However the clock is set back, a cable refuses packets for no longer after the last
\* one it let through than that one cost, and what the clock lost; but for the cable that
\* let one through at a bandwidth of 0 (packet_forward, cable.c).
THEOREM CableShuts == Spec => []ShutsBriefly
<1>1. Init => Debt
  BY DEF Init, Debt
<1>2. TypeOK /\ Debt /\ [Next]_vars => Debt'
  BY DebtNext
<1>3. TypeOK /\ Debt => ShutsBriefly
  <2> SUFFICES ASSUME TypeOK, Debt, Shut, ~ forever
               PROVE  \/ now + Grace < behind
                      \/ \E p \in Packets : sent[p] >= 0 /\ now < sent[p] + MaxCost + behind
    BY DEF ShutsBriefly
  <2> USE CableAssumption DEF TypeOK, Shut, Wall
  <2>1. CASE closed = 0
    BY <2>1
  <2>2. CASE \E p \in Packets : sent[p] >= 0 /\ closed <= sent[p] + Grace + MaxCost
    <3>1. PICK p \in Packets : sent[p] >= 0 /\ closed <= sent[p] + Grace + MaxCost
      BY <2>2
    <3>2. sent[p] \in Int
      OBVIOUS
    <3>3. now < sent[p] + MaxCost + behind
      BY <3>1, <3>2
    <3> QED BY <3>1, <3>3
  <2> QED BY <2>1, <2>2 DEF Debt
<1> QED
  BY CableTypes, <1>1, <1>2, <1>3, PTL DEF Spec

-----------------------------------------------------------------------------
(* The order of the packets, while the cable is calm *)

Calm ==
  /\ TypeOK /\ QueueInOrder /\ TimersInOrder
  /\ jitter = 0 /\ error <= 0 /\ wired /\ alive /\ fault = "none"
  /\ \A p \in Packets : where[p] # "lost"

LEMMA SteadyInit == Init => Calm
  BY TypeInit DEF Init, Calm, QueueInOrder, TimersInOrder

LEMMA ArriveSteady ==
  ASSUME Calm, TypeOK', NEW p \in Packets, Arrive(p)
  PROVE  Calm'
<1> USE DEF Calm, Arrive, First, At, settings, life, packets, shaper, clock
<1>1. /\ p \in Packets /\ where[p] = "new"
      /\ \A q \in Packets : where[q] = "new" => p <= q
      /\ where' = [where EXCEPT ![p] = where'[p]]
      /\ where'[p] \in {"queued", "freed"}
  BY DEF TypeOK
<1>2. QueueInOrder'
  BY <1>1 DEF QueueInOrder, TypeOK, Packets
<1>3. TimersInOrder'
  BY <1>1 DEF TimersInOrder, TypeOK
<1> QED
  BY <1>1, <1>2, <1>3 DEF TypeOK

\* The oldest queued packet may leave the queue for any place but the queue.
LEMMA LeavesQueue ==
  ASSUME Calm, NEW p \in Packets, First(p, At("queued")),
         where' = [where EXCEPT ![p] = where'[p]],
         where'[p] \in {"flying", "delivered", "freed"}
  PROVE  QueueInOrder'
<1>1. where[p] = "queued" /\ \A q \in Packets : where[q] = "queued" => p <= q
  BY DEF First, At
<1>2. \A q \in Packets : where'[q] = IF q = p THEN where'[p] ELSE where[q]
  BY DEF Calm, TypeOK
<1>3. \A q \in Packets : q < p => where[q] # "queued"
  BY <1>1 DEF Packets
<1> QED
  BY <1>1, <1>2, <1>3 DEF Calm, QueueInOrder

LEMMA RefuseSteady ==
  ASSUME Calm, TypeOK', NEW p \in Packets, Refuse(p)
  PROVE  Calm'
<1> USE DEF Calm, Refuse, settings, life, packets, shaper, clock
<1>1. QueueInOrder'
  BY LeavesQueue DEF TypeOK
<1>2. TimersInOrder'
  BY DEF TimersInOrder, TypeOK
<1> QED
  BY <1>1, <1>2 DEF TypeOK

LEMMA ForwardSteady ==
  ASSUME Calm, TypeOK', NEW p \in Packets, NEW s \in Sizes, Forward(p, s)
  PROVE  Calm'
<1> USE DEF Calm, settings
<1>1. /\ where[p] = "queued" /\ First(p, At("queued"))
      /\ now' = now /\ UNCHANGED settings /\ UNCHANGED <<wired, alive>>
      /\ ~ Divide(p)
  BY DEF Forward, First, At, Divide, Corrupts, clock, TypeOK
<1>2. CASE Lose(p)
  <2>1. /\ where' = [where EXCEPT ![p] = "freed"]
        /\ due' = due /\ fault' = fault
    BY <1>2 DEF Lose
  <2>2. QueueInOrder'
    BY <1>1, <2>1, LeavesQueue DEF TypeOK
  <2>3. TimersInOrder'
    BY <1>1, <2>1 DEF TimersInOrder, TypeOK
  <2> QED
    BY <1>1, <2>1, <2>2, <2>3 DEF TypeOK
<1>3. CASE PassOn(p)
  <2>1. /\ where' = [where EXCEPT ![p] = "delivered"]
        /\ due' = due /\ fault' = fault /\ latency = 0
    BY <1>3 DEF PassOn
  <2>2. QueueInOrder'
    BY <1>1, <2>1, LeavesQueue DEF TypeOK
  <2>3. TimersInOrder'
    BY <1>1, <2>1 DEF TimersInOrder, TypeOK
  <2> QED
    BY <1>1, <2>1, <2>2, <2>3 DEF TypeOK
<1>4. CASE Hold(p)
  <2>1. /\ where' = [where EXCEPT ![p] = "flying"]
        /\ due' = [due EXCEPT ![p] = now + latency]
        /\ fault' = fault /\ latency # 0
    BY <1>4 DEF Hold, Delays
  <2>2. QueueInOrder'
    BY <1>1, <2>1, LeavesQueue DEF TypeOK
  <2>3. \A q \in Packets : q < p => where[q] \in {"flying", "delivered", "freed"}
    BY <1>1 DEF First, At, QueueInOrder, TypeOK, Places, Packets
  <2>4. \A q \in Packets : p < q => where[q] \in {"new", "queued", "freed"}
    BY <1>1 DEF QueueInOrder
  <2>5. TimersInOrder'
    <3>1. \A q \in Packets : /\ where'[q] = IF q = p THEN "flying" ELSE where[q]
                             /\ due'[q] = IF q = p THEN now + latency ELSE due[q]
      BY <2>1 DEF TypeOK
    <3>2. now' = now /\ latency' = latency /\ latency # 0 /\ now \in Nat /\ latency \in Nat
      BY <1>1, <2>1 DEF TypeOK
    <3>3. \A q \in Packets : where'[q] = "flying" => due'[q] <= now' + latency' /\ latency' # 0
      BY <3>1, <3>2 DEF TimersInOrder
    <3>4. \A q, r \in Packets : q < r /\ where'[q] = "flying" =>
            where'[r] # "delivered" /\ (where'[r] = "flying" => due'[q] <= due'[r])
      BY <2>3, <2>4, <3>1, <3>2 DEF TimersInOrder, Packets
    <3> QED BY <3>3, <3>4 DEF TimersInOrder
  <2> QED
    BY <1>1, <2>1, <2>2, <2>5 DEF TypeOK
<1> QED
  BY <1>1, <1>2, <1>3, <1>4 DEF Forward

LEMMA DeliverSteady ==
  ASSUME Calm, TypeOK', NEW p \in Packets, Deliver(p)
  PROVE  Calm'
<1> USE DEF Calm, settings, packets, shaper, clock
<1>1. /\ where[p] = "flying"
      /\ where' = [where EXCEPT ![p] = "delivered"]
      /\ UNCHANGED <<due, now, settings, wired, alive, fault>>
  BY DEF Deliver, NextTimer
<1>2. QueueInOrder'
  BY <1>1 DEF QueueInOrder, TypeOK
<1>3. \A q \in Packets : q < p => where[q] # "flying"
  BY <1>1 DEF Deliver, NextTimer, Earlier, At, TimersInOrder, TypeOK, Packets
<1>4. TimersInOrder'
  BY <1>1, <1>3 DEF TimersInOrder, TypeOK, Packets
<1> QED
  BY <1>1, <1>2, <1>4 DEF TypeOK

LEMMA CalmNext == Calm /\ calm' /\ calm /\ [Next]_vars => Calm'
<1> SUFFICES ASSUME Calm, calm', [Next]_vars PROVE Calm'
  OBVIOUS
<1> USE DEF Calm, packets, shaper, settings, life, clock
<1>1. TypeOK'
  BY TypeNext
<1>2. CASE \E p \in Packets : Arrive(p) \/ Refuse(p) \/ Deliver(p)
  BY <1>1, <1>2, ArriveSteady, RefuseSteady, DeliverSteady
<1>3. CASE \E p \in Packets, s \in Sizes : Forward(p, s)
  BY <1>1, <1>3, ForwardSteady
<1>4. CASE Tick
  BY <1>1, <1>4 DEF Tick, QueueInOrder, TimersInOrder, TypeOK
<1>5. CASE \E l \in Latencies : SetLatency(l)
  <2>1. PICK l \in Latencies : SetLatency(l)
    BY <1>5
  <2>2. l >= latency /\ l \in Nat
    BY <2>1, CableAssumption DEF SetLatency, Command
  <2> QED
    BY <1>1, <2>1, <2>2 DEF SetLatency, Command, QueueInOrder, TimersInOrder, TypeOK
<1>6. CASE UNCHANGED <<where, due, latency, jitter, error, life, now>>
  BY <1>1, <1>6 DEF QueueInOrder, TimersInOrder
<1>7. CASE \/ EndInput \/ PassTurn \/ EndTimers \/ \E t \in Steps : StepBack(t)
           \/ \E r \in DropRates : SetDrop(r)
           \/ \E b \in Bandwidths : SetBandwidth(b)
  BY <1>6, <1>7 DEF EndInput, PassTurn, EndTimers, StepBack, SetDrop, SetBandwidth,
              Command
<1>8. CASE \E j \in Jitters : SetJitter(j)
  BY <1>6, <1>8 DEF SetJitter, Command
<1>9. CASE \E r \in ErrorRates : SetError(r)
  BY <1>1, <1>9 DEF SetError, Command, QueueInOrder, TimersInOrder
<1>10. CASE Unplug \/ Destroy
  BY <1>10 DEF Unplug, Destroy, Command
<1>11. CASE UNCHANGED vars
  BY <1>6, <1>11 DEF vars
<1> QED
  BY <1>2, <1>3, <1>4, <1>5, <1>7, <1>8, <1>9, <1>10, <1>11 DEF Next, Loop

\* What was disturbed never counts as calm again.
LEMMA CalmStays == TypeOK /\ [Next]_vars /\ calm' => calm
  BY DEF TypeOK, Next, Loop, Arrive, Refuse, Deliver, Forward, EndInput, PassTurn, EndTimers,
         Tick, StepBack, Command, SetBandwidth, SetLatency, SetJitter, SetDrop, SetError,
         Unplug, Destroy, vars

LEMMA SteadyNextInv == SteadyInv /\ [Next]_vars => SteadyInv'
<1> SUFFICES ASSUME SteadyInv, [Next]_vars PROVE SteadyInv'
  OBVIOUS
<1>1. TypeOK'
  BY TypeNext DEF SteadyInv
<1>2. ASSUME calm' PROVE Calm'
  <2>1. calm /\ Calm
    BY <1>2, CalmStays DEF SteadyInv, Calm
  <2> QED BY <1>2, <2>1, CalmNext
<1> QED
  BY <1>1, <1>2 DEF SteadyInv, Calm

LEMMA SteadyInOrder == SteadyInv => InOrder
  BY DEF SteadyInv, InOrder, QueueInOrder, TimersInOrder, TypeOK, Places

\* The strengthening behind the two theorems that follow.
THEOREM CableSteady == Spec => []SteadyInv
<1>1. Init => SteadyInv
  BY SteadyInit DEF SteadyInv, Calm
<1>2. SteadyInv /\ [Next]_vars => SteadyInv'
  BY SteadyNextInv
<1> QED
  BY <1>1, <1>2, PTL DEF Spec

\* Until jitter is set, latency lowered or the link taken apart, no packet overtakes
\* an earlier one, though each waits on a timer of its own (packet_forward, cable.c).
THEOREM CableOrder == Spec => []InOrder
<1>1. SteadyInv => InOrder
  BY SteadyInOrder
<1> QED
  BY CableSteady, <1>1, PTL

\* Until then, and until an error rate is set, no packet is handed to a node or a cable
\* that is gone, nor divides by zero (packet_forward and _packet_forward, cable.c).
THEOREM CableNoFault == Spec => [](calm => NoFault)
<1>1. SteadyInv => (calm => NoFault)
  BY DEF SteadyInv, NoFault
<1> QED
  BY CableSteady, <1>1, PTL
=============================================================================
