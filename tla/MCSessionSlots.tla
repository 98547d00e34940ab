--------------------------- MODULE MCSessionSlots ---------------------------
(* Instances of SessionSlots: programs, tiers and limits cut down to the    *)
(* smallest ones at which a slot pool fills up and can overshoot.           *)
EXTENDS SessionSlots, TLC

CONSTANTS hermes, kiro, batch, S, C

\* SESSION_PRIORITIES of three programs; the preemption threshold is 40.
MCPriority ==
    [s \in Sessions |-> CASE s = hermes -> 90 [] s = kiro -> 40 [] s = batch -> 30]

\* One S slot and two C slots at every provider.
MCLimit == [v \in Providers |-> (S :> 1 @@ C :> 2)]
=============================================================================
