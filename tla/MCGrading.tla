----------------------------- MODULE MCGrading -----------------------------
(* Instances of Grading for TLC: one good and one bad event per requirement. *)
EXTENDS Grading

Event(type, agent, payload) ==
    [event_type |-> type, agent_id |-> agent, latency_ms |-> None,
     decision_trace |-> FALSE, payload |-> payload]
Late(e, ms) == [e EXCEPT !.latency_ms = ms]
Action(agent, payload) == Event("ACTION_EXECUTED", agent, payload)
Auction(bids, granted) ==
    Event("AUCTION_COMPLETED", "RAA", [bids |-> bids, granted |-> granted, slots |-> 1,
                                       notify_latency_ms |-> 0])
Response(action, voteId, severity) ==
    [Action("RCA", [signal |-> "response", action |-> action, vote_id |-> voteId,
                    severity |-> severity, proportionality_score |-> 80])
        EXCEPT !.decision_trace = TRUE]
Vote(id, accepts) ==
    Event("VOTE_CAST", "RCA", [vote_id |-> id, accept_count |-> accepts, member_count |-> 2])

MCKinds == {
    Late(Event("ALERT_PUBLISHED", "TMA", [deviation_score |-> 199]), 100),
    Late(Event("THREAT_CLASSIFIED", "ACA", [classification |-> "CONFIRMED_THREAT",
               severity |-> 101, reported |-> TRUE, attack_type |-> "NOVEL"]), 0),
    Action("ACA", [signal |-> "online_update"]),
    Late(Response("QUARANTINE", "v1", 90), 500),
    Late(Response("QUARANTINE", "v2", 90), 499),
    Vote("v1", 1), Vote("v1", 2), Vote("v2", 2),
    Event("INCIDENT_RESOLVED", "RCA", [resolution_id |-> "r1"]),
    Action("TIA", [signal |-> "correlation", segments |-> {"a", "b"}]),
    Event("COALITION_FORMED", "TIA", [segments |-> {"a"}]),
    Action("TIA", [signal |-> "priority_list"]),
    Action("TMA", [signal |-> "baseline_update"]),
    Auction(<<<<"a", 90>>, <<"b", 90>>>>, {"a"}),
    Auction(<<<<"a", 90>>, <<"b", 90>>>>, {"a", "b"}),
    Auction(<<<<"a", 80>>, <<"b", 90>>>>, {"a"}),
    Event("AGENT_FAILED", "TIA", [segment |-> "a"]),
    Action("TIA", [signal |-> "coverage_reassigned", segment |-> "a"]),
    Action("ATK", [signal |-> "attack_action", attack_type |-> "ZERO_DAY",
                   mode |-> "coordinated"]),
    Action("ATK", [signal |-> "attack_action", attack_type |-> "DDOS",
                   src_ips |-> {"x"}, mode |-> "independent"]),
    Action("ATK", [signal |-> "attack_action", attack_type |-> "PORT_SCAN",
                   ports |-> <<1, 2>>, mode |-> "coordinated"])}
=============================================================================
