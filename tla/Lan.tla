--------------------------------- MODULE Lan ---------------------------------
(* What a network of hosts, hubs and switches promises the machines attached  *)
(* to it: a frame that one of them sends reaches each of the others at most   *)
(* once and never comes back, though any copy may be lost or late.            *)
EXTENDS Naturals, Sequences

CONSTANTS
  Stations,   \* the host ports; each stands for the MAC address behind it
  Everyone,   \* the broadcast address
  MaxFrames   \* how many frames are ever sent

VARIABLES
  sent,       \* the frames, in the order in which they were sent
  got         \* how many copies of a frame each station has received

lanVars == <<sent, got>>

Ids == 1..MaxFrames
Frames == [smac : Stations, dmac : Stations \cup {Everyone}]

LanInit ==
  /\ sent = << >>
  /\ got = [m \in Stations |-> [i \in Ids |-> 0]]

Send(m, d) ==
  /\ Len(sent) < MaxFrames
  /\ sent' = Append(sent, [smac |-> m, dmac |-> d])
  /\ UNCHANGED got

Receive(m, i) ==
  /\ i <= Len(sent)
  /\ sent[i].smac # m
  /\ got[m][i] = 0
  /\ got' = [got EXCEPT ![m][i] = 1]
  /\ UNCHANGED sent

LanNext ==
  \/ \E m \in Stations : \E d \in (Stations \cup {Everyone}) \ {m} : Send(m, d)
  \/ \E m \in Stations, i \in Ids : Receive(m, i)

Ether == LanInit /\ [][LanNext]_lanVars

=============================================================================
