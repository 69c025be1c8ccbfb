---------------------------- MODULE ThreatIntel ----------------------------
(***************************************************************************)
(* The Threat Intelligence Agent (agents/tia/agent.py) and its threat map  *)
(* (agents/tia/threat_map.py): it correlates reports of several segments,  *)
(* forms a coalition for each new correlation and ranks the threats.       *)
(* A step has no point at which another agent can come in between.         *)
(***************************************************************************)
EXTENDS AgentLog

CONSTANTS
    Window,          \* _CORRELATION_WINDOW_MS
    RankInterval,    \* _RANK_INTERVAL_MS
    Top              \* length of the priority list

\* FR-18 asks for a list a second.
ASSUME TiaAssumption == Window \in Nat /\ RankInterval \in 1..1000

VARIABLES
    intelInbox,      \* reports on THREAT_REPORTS that the TIA has not perceived
    map,             \* self.map: the reports it has, never dropped
    lastRank,        \* self._last_rank_ms
    correlations     \* self._reported_correlations

tiaVars == <<intelInbox, map, lastRank, correlations>>

\* One segment's classifier publishes at most one report at a time, so its
\* segment and time identify a report.
ThreatEntries == [segment: {Segments[i] : i \in DOMAIN Segments}, ts_ms: Int]

TiaInit ==
    /\ intelInbox = <<>>
    /\ map = {}
    /\ lastRank = LongAgo
    /\ correlations = {}

active_segments(entries) == {e.segment : e \in {x \in entries : now - x.ts_ms <= Window}}

\* on_message for every report, then _cycle.
Perceived == map \cup {intelInbox[i] : i \in DOMAIN intelInbox}
Fresh == intelInbox # <<>>
Latency == now - intelInbox[Len(intelInbox)].ts_ms

Correlates_BySize ==
    /\ Cardinality(active_segments(Perceived)) >= 2
    /\ \A S \in correlations : Cardinality(S) # Cardinality(active_segments(Perceived))
Correlates ==
    /\ Cardinality(active_segments(Perceived)) >= 2
    /\ active_segments(Perceived) \notin correlations

ModelUpdate ==
    Event("ACTION_EXECUTED", "TIA", Latency,
          [signal |-> "threat_model_update", segments |-> active_segments(Perceived)])
Correlation ==
    Event("ACTION_EXECUTED", "TIA", Latency,
          [signal |-> "correlation", segments |-> active_segments(Perceived)])
\* The members are the RCAs of the active segments, written as segments.
CoalitionFormed ==
    Event("COALITION_FORMED", "TIA", Latency, [members |-> active_segments(Perceived)])

RankDue_Late == now - lastRank > RankInterval
RankDue == now - lastRank >= RankInterval
PriorityList ==
    Event("ACTION_EXECUTED", "TIA", None,
          [signal |-> "priority_list", count |-> Min2(Top, Cardinality(Perceived))])

NextRank_CatchUp == IF RankDue THEN lastRank + RankInterval ELSE lastRank
NextRank == IF RankDue THEN now ELSE lastRank

TiaStep ==
    /\ map' = Perceived
    /\ intelInbox' = <<>>
    /\ correlations' = IF Fresh /\ Correlates
                       THEN correlations \cup {active_segments(Perceived)} ELSE correlations
    /\ lastRank' = NextRank
    /\ LogEvents((IF Fresh THEN <<ModelUpdate>> ELSE <<>>)
                 \o (IF Fresh /\ Correlates THEN <<Correlation, CoalitionFormed>> ELSE <<>>)
                 \o (IF RankDue THEN <<PriorityList>> ELSE <<>>))

Coalitions ==
    {log[i].payload.members : i \in select(log, "COALITION_FORMED", None)}
=============================================================================
