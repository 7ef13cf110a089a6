----------------------------- MODULE MCForwarding -----------------------------
(* A small network for TLC: host v0 on switch s0, hosts v1 and v2 on hub h0, and *)
(* a link between switch and hub.  The last port of the switch is not connected. *)
EXTENDS Forwarding

Box == [p \in {"v0.0", "v1.0", "v2.0", "s0.0", "s0.1", "s0.2", "h0.0", "h0.1", "h0.2"} |->
          CASE p = "v0.0" -> "v0" [] p = "v1.0" -> "v1" [] p = "v2.0" -> "v2"
            [] p \in {"s0.0", "s0.1", "s0.2"} -> "s0" [] OTHER -> "h0"]

\* The links, in the order of their creation.
Laid == <<<<"v0.0", "s0.0">>, <<"s0.1", "h0.0">>, <<"v1.0", "h0.1">>, <<"v2.0", "h0.2">>>>
Ends == UNION {ToSet(Laid[n]) : n \in DOMAIN Laid}

OwnerDef == Box
HostsDef == {"v0", "v1", "v2"}
WireDef ==
  [p \in Ends |-> CHOOSE q \in Ends : p # q /\ \E n \in DOMAIN Laid : {p, q} = ToSet(Laid[n])]
OrderDef == FlattenSeq(Laid)

\* What can be reached from a station: the cables, hop by hop.
Hops(m) ==
  LET reach[n \in Nat] ==
        IF n = 0 THEN {m}
        ELSE LET before == reach[n - 1] IN
             before \cup {q \in Ends : \E c \in before :
                            Box[q] = Box[WireDef[c]] /\ q # WireDef[c] /\ Box[q] \notin HostsDef}
  IN  reach[Cardinality(Ends)]
AwayDef == [m \in {p \in Ends : Box[p] \in HostsDef} |-> Hops(m)]

=============================================================================
