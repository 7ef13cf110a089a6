------------------------------- MODULE MCCable -------------------------------
(* Small instances of Cable for TLC, and the careless operator of the run     *)
(* that ends badly.                                                           *)
EXTENDS Cable

NoiseDef == {-1, 1}

\* The node at the far end is destroyed while packets still come.
UnplugNext ==
  \/ Loop \/ Tick \/ Unplug
  \/ \E p \in Packets : Arrive(p)
  \/ \E l \in Latencies : SetLatency(l)
UnplugSpec == Init /\ [][UnplugNext]_vars /\ Fairness

=============================================================================
