---------------------------- MODULE Coordination ----------------------------
(***************************************************************************)
(* The global agents, the failover and the round that drives them.         *)
(*                                                                         *)
(* In the "lockstep" pace a round is one of ScenarioHarness: every living  *)
(* agent steps once, in the order of the fleet, then the failover is       *)
(* checked and the clock advances.  In the "free" pace the agents are the  *)
(* processes of the compose file (agents/_common/runner.py): the TIA and   *)
(* the RAA may be too slow to step before the clock moves on, and nobody   *)
(* looks for failed agents.                                                *)
(*                                                                         *)
(* The segments' own agents are their environment here: they publish       *)
(* reports, bids and notices of resolution (modules Detection and          *)
(* ResponseCoordinator).                                                   *)
(***************************************************************************)
EXTENDS ThreatIntel, ResourceAllocator, Failover

CONSTANTS
    Step,            \* _STEP_MS
    WarmupRounds,    \* rounds of warmup
    BidValues,       \* severities that are bid
    Scenarios        \* the choices of pace, of run's arguments rounds, fail_agent
                     \* and fail_after_rounds, and of bounds on what is published

\* A list is due at the end of some step.
ASSUME StepAssumption ==
    /\ Step \in Nat \ {0} /\ WarmupRounds \in Nat
    /\ \E n \in 1..RankInterval : RankInterval = n * Step
    /\ BidValues \subseteq 0..100
ASSUME ScenariosAssumption ==
    \A s \in Scenarios : /\ s.pace \in {"lockstep", "free"}
                         /\ s.rounds \in Nat /\ s.failAfter \in Nat
                         /\ s.failAgent \in Agents \cup {None}
                         /\ s.failAgent # None => s.pace = "lockstep"
                         /\ s.budget \in [reports: Nat, bids: Nat, resolutions: Nat]

VARIABLES
    pace,         \* "lockstep" or "free"
    rounds,       \* run's rounds
    failAgent,    \* run's fail_agent: the agent to kill, or None
    failAfter,    \* run's fail_after_rounds
    dead,         \* self._dead
    round,        \* rounds done
    turn,         \* who steps next: a segment's number, then the TIA, the RAA, the end
    budget,       \* what may still be published: [reports, bids, resolutions]
    bids          \* history: every bid published

envVars == <<pace, rounds, failAgent, failAfter, budget, bids>>
vars == <<now, log, tiaVars, raaVars, failoverVars, envVars, dead, round, turn>>

NSeg == Len(Segments)
TiaTurn == NSeg + 1
RaaTurn == NSeg + 2
RoundEnd == NSeg + 3

Running == round >= WarmupRounds    \* warmup does not beat and nobody fails
Beats(S) == IF pace = "lockstep" /\ Running
            THEN lastSeen' = Beat(lastSeen, S \ dead) ELSE UNCHANGED lastSeen

Init ==
    /\ TiaInit /\ RaaInit /\ FailoverInit
    /\ \E s \in Scenarios : /\ pace = s.pace /\ rounds = s.rounds
                            /\ failAgent = s.failAgent
                            /\ failAfter = s.failAfter
                            /\ budget = s.budget
    /\ now = IF pace = "lockstep" THEN 0 ELSE Step    \* ManualClock, or time.monotonic
    /\ log = <<>>
    /\ dead = {}
    /\ round = 0
    /\ turn = 0
    /\ bids = <<>>

\* The round begins: the agent to fail stops, at a round of run.
BeginRound ==
    /\ turn = 0
    /\ round < WarmupRounds + rounds
    /\ dead' = IF failAgent # None /\ round = WarmupRounds + failAfter
               THEN dead \cup {failAgent} ELSE dead
    /\ turn' = 1
    /\ UNCHANGED <<now, log, tiaVars, raaVars, failoverVars, envVars, round>>

\* The three agents of a segment step; the ACA may publish a report, the RCA a
\* bid and a notice of resolution.
SegmentTurn(report, bid, resolved) ==
    LET s == Segments[turn]
        mine == {Agent("TMA", s), Agent("ACA", s), Agent("RCA", s)}
        newBid == [bidder |-> s, value |-> bid, ts_ms |-> now]
    IN /\ turn \in 1..NSeg
       /\ report => budget.reports > 0 /\ Agent("ACA", s) \notin dead
       /\ bid # None => budget.bids > 0 /\ Agent("RCA", s) \notin dead
       /\ resolved => budget.resolutions > 0 /\ Agent("RCA", s) \notin dead
       /\ intelInbox' = IF report THEN Append(intelInbox, [segment |-> s, ts_ms |-> now])
                        ELSE intelInbox
       /\ bidInbox' = IF bid # None THEN Append(bidInbox, newBid) ELSE bidInbox
       /\ resolutions' = IF resolved THEN Append(resolutions, now) ELSE resolutions
       /\ bids' = IF bid # None THEN Append(bids, newBid) ELSE bids
       /\ budget' = [reports |-> budget.reports - (IF report THEN 1 ELSE 0),
                     bids |-> budget.bids - (IF bid # None THEN 1 ELSE 0),
                     resolutions |-> budget.resolutions - (IF resolved THEN 1 ELSE 0)]
       /\ Beats(mine)
       /\ turn' = turn + 1
       /\ UNCHANGED <<now, log, map, lastRank, correlations, lastMonitor, handled,
                      pace, rounds, failAgent, failAfter, dead, round>>

\* A dead agent is passed over; in the free pace a slow one is too.
PassedOver(agent) == agent \in dead \/ pace = "free"

TiaSteps ==
    /\ turn = TiaTurn /\ TIA \notin dead
    /\ TiaStep
    /\ Beats({TIA})
    /\ turn' = turn + 1
    /\ UNCHANGED <<now, raaVars, handled, envVars, dead, round>>
RaaSteps ==
    /\ turn = RaaTurn /\ RAA \notin dead
    /\ RaaStep
    /\ Beats({RAA})
    /\ turn' = turn + 1
    /\ UNCHANGED <<now, tiaVars, handled, envVars, dead, round>>
PassOver ==
    /\ \/ turn = TiaTurn /\ PassedOver(TIA)
       \/ turn = RaaTurn /\ PassedOver(RAA)
    /\ turn' = turn + 1
    /\ UNCHANGED <<now, log, tiaVars, raaVars, failoverVars, envVars, dead, round>>

\* segment_of names the failing agent alone, and only if it has a segment;
\* loads names its living peers of the same type.
SegmentOf == [a \in Agents |-> IF a = failAgent THEN a.segment ELSE None]
Peers == {a \in Agents \ dead : a.type = failAgent.type}

EndRound ==
    /\ turn = RoundEnd
    /\ IF failAgent # None /\ Running THEN Check(SegmentOf, Peers)
       ELSE UNCHANGED <<log, lastSeen, handled>>
    /\ now' = now + Step
    /\ round' = round + 1
    /\ turn' = 0
    /\ UNCHANGED <<tiaVars, raaVars, envVars, dead>>

Next ==
    \/ BeginRound
    \/ \E report, resolved \in BOOLEAN, bid \in BidValues \cup {None} :
          SegmentTurn(report, bid, resolved)
    \/ TiaSteps
    \/ RaaSteps
    \/ PassOver
    \/ EndRound

Spec == Init /\ [][Next]_vars

-----------------------------------------------------------------------------
(* Properties *)

BidRecords == [bidder: {Segments[i] : i \in 1..NSeg}, value: BidValues, ts_ms: Nat]

\* Every variable holds values of the shape the code gives it.
TypeOK ==
    /\ now \in Nat
    /\ intelInbox \in Seq(ThreatEntries) /\ map \subseteq ThreatEntries
    /\ lastRank \in Nat \cup {LongAgo}
    /\ correlations \subseteq SUBSET {Segments[i] : i \in 1..NSeg}
    /\ bidInbox \in Seq(BidRecords) /\ bids \in Seq(BidRecords)
    /\ resolutions \in Seq(Nat)
    /\ lastMonitor \in Nat \cup {LongAgo}
    /\ DOMAIN lastSeen \subseteq Agents /\ \A a \in DOMAIN lastSeen : lastSeen[a] \in Nat
    /\ handled \subseteq Agents /\ dead \subseteq Agents
    /\ turn \in 0..RoundEnd /\ round \in 0..(WarmupRounds + rounds)
    /\ pace \in {"lockstep", "free"} /\ budget.reports \in Nat /\ budget.bids \in Nat

\* The validator's own checkers never fail a harness run for what the global
\* agents do: no late correlation, auction or reclaim, no priority list over a
\* second old, and FR-20's ranking, which breaks ties by the order of a dict,
\* never contradicts the auction's, which breaks them by time.
GradesHold ==
    pace = "lockstep" =>
        "FAIL" \notin {FR15(log), FR16(log), FR17(log), FR18(log), FR19(log), FR20(log),
                       FR21(log), FR22(log)}

\* Coordinated attacks are never missed: of two segments reported within the
\* correlation window of each other, some coalition has both, as soon as the
\* TIA has stepped, whatever coalitions were formed before.
CorrelatedSegmentsCoalesce ==
    (pace = "lockstep" /\ turn # TiaTurn) =>
        \A e, f \in map :
            (e.segment # f.segment /\ e.ts_ms - f.ts_ms \in 0..Window) =>
                \E S \in Coalitions : {e.segment, f.segment} \subseteq S

Auctions == select(log, "AUCTION_COMPLETED", None)
Before(k) == {log[j].wall_ms : j \in {a \in Auctions : a < k}} \cup {LongAgo}
\* The bids published since the auction before the k-th event.
Settles(k) == {i \in DOMAIN bids : /\ bids[i].ts_ms <= log[k].wall_ms
                                   /\ \A t \in Before(k) : bids[i].ts_ms > t}

\* However late the RAA steps, every bid is settled by exactly one auction, as
\* part of its bidder's best bid there, or still waits; and the auction reports
\* the age of its oldest bid.
EveryBidSettledOnce ==
    /\ \A k \in Auctions :
          LET S == Settles(k)
          IN /\ S # {}
             /\ {log[k].payload.bids[n] : n \in DOMAIN log[k].payload.bids} =
                  {<<bids[i].bidder, bids[i].value>> : i \in
                      {j \in S : \A h \in S : bids[h].bidder = bids[j].bidder
                                                => bids[h].value <= bids[j].value}}
             /\ \E i \in S : log[k].latency_ms = log[k].wall_ms - bids[i].ts_ms
             /\ \A i \in S : log[k].latency_ms >= log[k].wall_ms - bids[i].ts_ms
    /\ {bidInbox[i] : i \in DOMAIN bidInbox} =
         {bids[i] : i \in {j \in DOMAIN bids :
                              \A k \in Auctions : bids[j].ts_ms > log[k].wall_ms}}

\* FR-19, FR-20: an auction serves as many bidders as there are slots, and
\* nobody it turns away bid more than one it serves, or as much and earlier.
HighestSeverityWins ==
    \A k \in Auctions :
        LET granted == log[k].payload.granted
            Best(b) == CHOOSE i \in Settles(k) :
                          /\ bids[i].bidder = b
                          /\ \A j \in Settles(k) : bids[j].bidder = b =>
                                \/ bids[i].value > bids[j].value
                                \/ bids[i].value = bids[j].value /\ i <= j
            bidders == {bids[i].bidder : i \in Settles(k)}
        IN /\ granted \subseteq bidders
           /\ Cardinality(granted) = Min2(Slots, Cardinality(bidders))
           /\ \A w \in granted, l \in bidders \ granted :
                 LET x == bids[Best(w)]
                     y == bids[Best(l)]
                 IN x.value > y.value \/ (x.value = y.value /\ x.ts_ms <= y.ts_ms)

Failures == select(log, "AGENT_FAILED", None)
\* The last heartbeat of an agent that fails: it stops in the round after.
LastBeat == (WarmupRounds + failAfter - 1) * Step

\* FR-34: an agent that beat and then fell silent is flagged, once, between the
\* timeout and one round more, no living agent ever is, and its segment passes
\* at once to a living agent of its type if there is one.
FailoverInTime ==
    /\ \A i \in Failures : log[i].payload.failed_agent \in dead
    /\ Cardinality(Failures) <= 1
    /\ (failAgent \in dead /\ failAfter > 0 /\ turn = 0 /\ now - Step > LastBeat + Timeout) =>
          \E i \in Failures :
              /\ log[i].wall_ms - LastBeat > Timeout
              /\ log[i].wall_ms - LastBeat <= Timeout + Step
              /\ (failAgent.segment # None /\ Peers # {}) =>
                    /\ FR34(log) = "PASS"
                    /\ \E j \in select(log, None, "coverage_reassigned") :
                          /\ log[j].wall_ms = log[i].wall_ms
                          /\ log[j].payload.segment = failAgent.segment
                          /\ log[j].payload.new_owner \in Peers
=============================================================================
