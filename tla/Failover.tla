------------------------------ MODULE Failover ------------------------------
(***************************************************************************)
(* Failure detection and reassignment of coverage                          *)
(* (coordination/failure.py): a monitor that remembers the last heartbeat  *)
(* of each agent and a coordinator that hands the segment of a silent one  *)
(* to a peer.                                                              *)
(***************************************************************************)
EXTENDS AgentLog, SequencesExt

CONSTANT Timeout    \* HEARTBEAT_TIMEOUT_MS

ASSUME TimeoutAssumption == Timeout \in Nat

VARIABLES
    lastSeen,    \* self._last_seen: the agents that beat, with the time they last did
    handled      \* self._handled: the agents it has flagged

failoverVars == <<lastSeen, handled>>

\* build_all: three agents per segment, then the two global ones.
Agent(type, s) == [type |-> type, segment |-> s]
TIA == Agent("TIA", None)
RAA == Agent("RAA", None)
Fleet ==
    [n \in 1..(3 * Len(Segments)) |->
        Agent(<<"TMA", "ACA", "RCA">>[((n - 1) % 3) + 1], Segments[((n - 1) \div 3) + 1])]
    \o <<TIA, RAA>>
Agents == {Fleet[i] : i \in DOMAIN Fleet}

FailoverInit ==
    /\ lastSeen = <<>>
    /\ handled = {}

\* HeartbeatMonitor.beat for all of S.
Beat(seen, S) == [a \in S \cup DOMAIN seen |-> IF a \in S THEN now ELSE seen[a]]

failed_Inclusive == {a \in DOMAIN lastSeen : now - lastSeen[a] >= Timeout}
failed == {a \in DOMAIN lastSeen : now - lastSeen[a] > Timeout}

\* The harness gives every peer the same load, so the first of them in the
\* order of the fleet has the least.
select_failover_peer(candidates) ==
    Fleet[CHOOSE i \in DOMAIN Fleet : /\ Fleet[i] \in candidates
                                      /\ \A j \in 1..(i - 1) : Fleet[j] \notin candidates]

AgentFailed(a, segment) ==
    Event("AGENT_FAILED", "TIA", None, [failed_agent |-> a, segment |-> segment])
CoverageReassigned(segment, peer) ==
    Event("ACTION_EXECUTED", "TIA", 0,
          [signal |-> "coverage_reassigned", segment |-> segment, new_owner |-> peer])

\* What a check logs for agent a, whose segment is known if the caller knows it.
Handling(a, segment, peers) ==
    <<AgentFailed(a, segment)>>
    \o (IF segment # None /\ peers \ {a} # {}
        THEN <<CoverageReassigned(segment, select_failover_peer(peers \ {a}))>> ELSE <<>>)

\* FailoverCoordinator.check, over the silent agents that it has not handled.
Check(segmentOf, peers) ==
    LET new == failed \ handled
        Handled(a) == IF a \in new THEN Handling(a, segmentOf[a], peers) ELSE <<>>
    IN /\ LogEvents(FlattenSeq([i \in DOMAIN Fleet |-> Handled(Fleet[i])]))
       /\ handled' = handled \cup new
       /\ lastSeen' = [a \in DOMAIN lastSeen \ new |-> lastSeen[a]]
=============================================================================
