--------------------------- MODULE MCCoordination ---------------------------
(* Instances of Coordination for TLC. *)
EXTENDS Coordination

MCSegments == <<"a", "b", "c">>
Budget(reports, bidsLeft, resolved) ==
    [reports |-> reports, bids |-> bidsLeft, resolutions |-> resolved]
Scenario(p, n, agent, after, b) ==
    [pace |-> p, rounds |-> n, failAgent |-> agent, failAfter |-> after, budget |-> b]
MCScenarios ==
    {Scenario("lockstep", 6, None, 0, Budget(4, 0, 0)),
     Scenario("lockstep", 2, None, 0, Budget(0, 3, 1)),
     Scenario("free", 3, None, 0, Budget(0, 3, 0)),
     Scenario("free", 3, None, 0, Budget(2, 0, 1))}
    \cup {Scenario("lockstep", 6, a, n, Budget(1, 1, 0)) :
             a \in {Agent("ACA", "b"), Agent("RCA", "a"), TIA, RAA}, n \in 0..2}
=============================================================================
