------------------------------ MODULE AgentLog ------------------------------
(***************************************************************************)
(* What all agents of a scenario share: the clock and the event log, which *)
(* BaseAgent.log_event writes and the FR checkers of Constraints read.     *)
(***************************************************************************)
EXTENDS Constraints

CONSTANT Segments    \* the monitored segments, in the order the fleet is built

ASSUME SegmentsAssumption ==
    /\ Segments \in Seq(STRING) /\ Segments # <<>>
    /\ \A i, j \in DOMAIN Segments : Segments[i] = Segments[j] => i = j

VARIABLES
    now,    \* the clock, in milliseconds
    log     \* the events written so far

Min2(x, y) == IF x <= y THEN x ELSE y
LongAgo == -1000000000    \* the code's -1e9

Event(type, agent, latency, payload) ==
    [event_type |-> type, agent_id |-> agent, wall_ms |-> now, latency_ms |-> latency,
     decision_trace |-> FALSE, payload |-> payload]
LogEvents(events) == log' = log \o events

\* The elements of a finite set of positions, in ascending order.
InOrder(S) ==
    [n \in 1..Cardinality(S) |-> CHOOSE i \in S : Cardinality({j \in S : j < i}) = n - 1]
=============================================================================
