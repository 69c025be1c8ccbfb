------------------------ MODULE ResponseCoordinator ------------------------
(***************************************************************************)
(* The fleet of Response Coordinator Agents (RCAs) on the in-memory bus:   *)
(* each RCA owns the incidents of one segment, answers a confirmed threat  *)
(* with the least disruptive action and escalates QUARANTINE through a     *)
(* coalition vote with a deadline.  agents/rca/agent.py is the source; the *)
(* step loop is common/bdi/base_agent.py and delivery is InMemoryBus.      *)
(*                                                                         *)
(* The factory and the compose file start one RCA per segment, named       *)
(* RCA:<segment>, so an RCA is written as its segment here.  One action    *)
(* runs from one await of the code to the next: that is where another      *)
(* agent, the clock or a crash can come in between.                        *)
(*                                                                         *)
(* A name with an underscore, as in Complete_NoDeadline, is a wrong        *)
(* version of the definition it stands before; the properties are tested   *)
(* against it.                                                             *)
(***************************************************************************)
EXTENDS RcaPolicy, Sequences

CONSTANTS
    Segments,    \* the monitored segments, and the RCAs that own them
    Threats,     \* the threat reports the classifiers may publish
    ThreatOf,    \* threat -> [segment, severity, attack_type, classification]
    Deadline,    \* VOTE_DEADLINE_MS in ticks of the clock
    CanCrash,    \* the RCAs that may stop for good
    NoVote       \* Python's None for the vote in progress

ThreatRecord == [segment: Segments, severity: Severities,
                 attack_type: AttackTypes, classification: Classifications]

ASSUME SegmentsAssumption == IsFiniteSet(Segments)
ASSUME ThreatsAssumption == ThreatOf \in [Threats -> ThreatRecord]
ASSUME DeadlineAssumption == Deadline \in Nat \ {0}
ASSUME CrashAssumption == CanCrash \subseteq Segments

VARIABLES
    reported,    \* threats published on THREAT_REPORTS
    formed,      \* segment sets the TIA has formed a coalition for
    inbox,       \* RCA -> what its subscriptions hold, not yet perceived
    pc,          \* RCA -> where its step is
    voters,      \* RCA -> self.voters
    pending,     \* RCA -> self._pending
    vote,        \* RCA -> self._vote
    outbox,      \* RCA -> self._outbox_votes
    quarantined, \* RCA -> self._quarantined
    job,         \* RCA -> the response it is carrying out
    voteCount,   \* RCA -> votes started (stands for uuid4: ids are fresh)
    defenses,    \* segment -> defenses the simulator applies
    trace,       \* RCA -> events it logged and notices it sent out, in order
    alive        \* RCA -> FALSE once it crashed

vars == <<reported, formed, inbox, pc, voters, pending, vote, outbox,
          quarantined, job, voteCount, defenses, trace, alive>>

-----------------------------------------------------------------------------
(* Messages *)

VoteIds == [rca: Segments, n: Nat \ {0}]
Requests == [vote_id: VoteIds, severity: Severities]
Replies == [vote_id: VoteIds, voter_id: Segments, decision: Decisions]

\* What the three subscriptions of an RCA hold.  Reports, requests and
\* coalitions are handled in arrival order.  Ballots go into a dict under their
\* voter, who casts each one once, so their order is immaterial: a set.  A
\* message that on_message discards on what it says alone is not queued: a
\* report that is not Actionable, a coalition without the RCA, a ballot for the
\* vote of another RCA (vote ids are uuid4).
Inbox == [reports: Seq(Threats), requests: Seq(Requests), ballots: SUBSET Replies,
          coalitions: Seq(SUBSET Segments)]
EmptyInbox == [reports |-> <<>>, requests |-> <<>>, ballots |-> {}, coalitions |-> <<>>]

\* InMemoryBus.publish: a copy for every subscriber but the sender.
BroadcastRequest(sender, m) ==
    inbox' = [r \in Segments |->
                 IF r = sender THEN inbox[r]
                 ELSE [inbox[r] EXCEPT !.requests = Append(@, m)]]
BroadcastReply(m) ==
    inbox' = [inbox EXCEPT ![m.vote_id.rca].ballots = @ \cup {m}]

Record(r, event) == trace' = [trace EXCEPT ![r] = Append(@, event)]

\* "load" is never written to the belief base, so its default stands.
Load == 10
SeverityThreshold == 70

\* The threats an RCA takes up.
Actionable(r, t) ==
    /\ ThreatOf[t].segment = r
    /\ ThreatOf[t].classification = "CONFIRMED_THREAT"
    /\ ThreatOf[t].severity >= SeverityThreshold

NoJob == [action |-> "NONE"]
-----------------------------------------------------------------------------
Init ==
    /\ reported = {}
    /\ formed = {}
    /\ inbox = [r \in Segments |-> EmptyInbox]
    /\ pc = [r \in Segments |-> "idle"]
    /\ voters = [r \in Segments |-> {r}]
    /\ pending = [r \in Segments |-> <<>>]
    /\ vote = [r \in Segments |-> NoVote]
    /\ outbox = [r \in Segments |-> <<>>]
    /\ quarantined = [r \in Segments |-> {}]
    /\ job = [r \in Segments |-> NoJob]
    /\ voteCount = [r \in Segments |-> 0]
    /\ defenses = [s \in Segments |-> {}]
    /\ trace = [r \in Segments |-> <<>>]
    /\ alive = [r \in Segments |-> TRUE]

-----------------------------------------------------------------------------
(* The other agents, the clock and crashes *)

\* An ACA publishes a threat report; the bus copies it to every RCA.
Report(t) ==
    /\ t \notin reported
    /\ reported' = reported \cup {t}
    /\ inbox' = [r \in Segments |->
                    IF Actionable(r, t)
                    THEN [inbox[r] EXCEPT !.reports = Append(@, t)] ELSE inbox[r]]
    /\ UNCHANGED <<formed, pc, voters, pending, vote, outbox, quarantined, job,
                   voteCount, defenses, trace, alive>>

\* The TIA correlates two or more reported segments, once per segment set.
FormCoalition(S) ==
    /\ Cardinality(S) >= 2
    /\ S \notin formed
    /\ S \subseteq {ThreatOf[t].segment : t \in reported}
    /\ formed' = formed \cup {S}
    /\ inbox' = [r \in Segments |->
                    IF r \in S
                    THEN [inbox[r] EXCEPT !.coalitions = Append(@, S)] ELSE inbox[r]]
    /\ UNCHANGED <<reported, pc, voters, pending, vote, outbox, quarantined,
                   job, voteCount, defenses, trace, alive>>

\* The clock advances; a vote's age saturates at the deadline.
Tick ==
    /\ \E r \in Segments : vote[r] # NoVote /\ vote[r].elapsed < Deadline
    /\ vote' = [r \in Segments |->
                   IF vote[r] # NoVote /\ vote[r].elapsed < Deadline
                   THEN [vote[r] EXCEPT !.elapsed = @ + 1] ELSE vote[r]]
    /\ UNCHANGED <<reported, formed, inbox, pc, voters, pending, outbox,
                   quarantined, job, voteCount, defenses, trace, alive>>

\* An RCA stops, at any await of its step, and nothing restarts it.
Crash(r) ==
    /\ r \in CanCrash
    /\ alive[r]
    /\ alive' = [alive EXCEPT ![r] = FALSE]
    /\ UNCHANGED <<reported, formed, inbox, pc, voters, pending, vote, outbox,
                   quarantined, job, voteCount, defenses, trace>>

-----------------------------------------------------------------------------
(* perceive, on_message for every message, reason: no await in between *)

\* A ballot counts when it names the vote in progress, whoever sent it.
BallotsOf_AnyVote(r) == {m \in inbox[r].ballots : vote[r] # NoVote}
BallotsOf(r) == {m \in inbox[r].ballots : vote[r] # NoVote /\ m.vote_id = vote[r].id}
OnVoteResponses(r) ==
    IF vote[r] = NoVote THEN NoVote
    ELSE [vote[r] EXCEPT !.ballots =
            [v \in Segments |->
                IF \E m \in BallotsOf(r) : m.voter_id = v
                THEN (CHOOSE m \in BallotsOf(r) : m.voter_id = v).decision
                ELSE @[v]]]

\* A request is answered whether or not the RCA is in the asker's coalition.
OnVoteRequests(r) ==
    outbox[r] \o [i \in DOMAIN inbox[r].requests |->
                     LET req == inbox[r].requests[i]
                     IN [vote_id |-> req.vote_id, voter_id |-> r,
                         decision |-> EvaluateVote(req.severity, Load)]]

\* The last coalition stands.
OnCoalitions(r) ==
    LET q == inbox[r].coalitions IN IF q = <<>> THEN voters[r] ELSE q[Len(q)]

PlanTriggers_NoVote(pendingItems, currentVote, replies) ==
    pendingItems # <<>> \/ replies # <<>>
\* The trigger of the only plan: there is something to respond to.
PlanTriggers(pendingItems, currentVote, replies) ==
    pendingItems # <<>> \/ currentVote # NoVote \/ replies # <<>>

\* A step that perceives nothing and has no plan to run changes nothing.
Perceive(r) ==
    /\ alive[r] /\ pc[r] = "idle"
    /\ inbox[r] # EmptyInbox \/ PlanTriggers(pending[r], vote[r], outbox[r])
    /\ inbox' = [inbox EXCEPT ![r] = EmptyInbox]
    /\ pending' = [pending EXCEPT ![r] = @ \o inbox[r].reports]
    /\ vote' = [vote EXCEPT ![r] = OnVoteResponses(r)]
    /\ outbox' = [outbox EXCEPT ![r] = OnVoteRequests(r)]
    /\ voters' = [voters EXCEPT ![r] = OnCoalitions(r)]
    /\ pc' = [pc EXCEPT ![r] =
                 IF PlanTriggers(pending'[r], vote'[r], outbox'[r])
                 THEN "respond" ELSE "idle"]
    /\ UNCHANGED <<reported, formed, quarantined, job, voteCount, defenses,
                   trace, alive>>

-----------------------------------------------------------------------------
(* _respond: replies first, then the vote in progress, then pending threats *)

SendReply(r) ==
    /\ alive[r] /\ pc[r] = "respond" /\ outbox[r] # <<>>
    /\ BroadcastReply(Head(outbox[r]))
    /\ Record(r, [event |-> "PROPOSE", vote_id |-> Head(outbox[r]).vote_id,
                  decision |-> Head(outbox[r]).decision])
    /\ outbox' = [outbox EXCEPT ![r] = Tail(@)]
    /\ UNCHANGED <<reported, formed, pc, voters, pending, vote, quarantined,
                   job, voteCount, defenses, alive>>

Complete_NoDeadline(r) ==
    vote[r] # NoVote /\ BallotCount(vote[r].ballots) >= Cardinality(vote[r].members)
Complete_OneMissing(r) ==
    /\ vote[r] # NoVote
    /\ \/ BallotCount(vote[r].ballots) + 1 >= Cardinality(vote[r].members)
       \/ vote[r].elapsed >= Deadline
Complete(r) ==
    /\ vote[r] # NoVote
    /\ \/ BallotCount(vote[r].ballots) >= Cardinality(vote[r].members)
       \/ vote[r].elapsed >= Deadline

\* No vote, or one that is neither complete nor overdue: on to the threats.
KeepVote(r) ==
    /\ alive[r] /\ pc[r] = "respond" /\ outbox[r] = <<>>
    /\ ~Complete(r)
    /\ pc' = [pc EXCEPT ![r] = "pending"]
    /\ UNCHANGED <<reported, formed, inbox, voters, pending, vote, outbox,
                   quarantined, job, voteCount, defenses, trace, alive>>

\* Members that did not answer count as REJECT.
FinalBallots(v) ==
    [m \in Segments |->
        IF m \in v.members /\ v.ballots[m] = "NONE" THEN "REJECT" ELSE v.ballots[m]]

ProgressVote(r) ==
    /\ alive[r] /\ pc[r] = "respond" /\ outbox[r] = <<>>
    /\ Complete(r)
    /\ LET v == vote[r]
           ballots == FinalBallots(v)
           approved == Tally(ballots, Cardinality(v.members))
       IN /\ Record(r, [event |-> "VOTE_CAST", vote_id |-> v.id, members |-> v.members,
                        ballots |-> ballots, approved |-> approved,
                        latency |-> v.elapsed])
          /\ job' = [job EXCEPT ![r] =
                        [action |-> IF approved THEN "QUARANTINE" ELSE "BLOCK",
                         threat |-> v.threat,
                         vote_id |-> IF approved THEN v.id ELSE NoVote]]
          /\ pc' = [pc EXCEPT ![r] = IF approved THEN "execute" ELSE "fallback"]
    /\ vote' = [vote EXCEPT ![r] = NoVote]
    /\ UNCHANGED <<reported, formed, inbox, voters, pending, outbox,
                   quarantined, voteCount, defenses, alive>>

\* The ACTION_EXECUTED event "vote_failed" precedes the BLOCK of a failed vote.
LogFallback(r) ==
    /\ alive[r] /\ pc[r] = "fallback"
    /\ Record(r, [event |-> "VOTE_FAILED", threat |-> job[r].threat])
    /\ pc' = [pc EXCEPT ![r] = "execute"]
    /\ UNCHANGED <<reported, formed, inbox, voters, pending, vote, outbox,
                   quarantined, job, voteCount, defenses, alive>>

\* The loop over pending ends: empty, or a vote is in progress after an item.
NextItem(r) == IF vote[r] # NoVote THEN "idle" ELSE "pending"

StepDone(r) ==
    /\ alive[r] /\ pc[r] = "pending" /\ pending[r] = <<>>
    /\ pc' = [pc EXCEPT ![r] = "idle"]
    /\ UNCHANGED <<reported, formed, inbox, voters, pending, vote, outbox,
                   quarantined, job, voteCount, defenses, trace, alive>>

RestOfPending_Peek(r) == pending[r]
RestOfPending(r) == Tail(pending[r])

Contained_Never(r, t) == FALSE
Contained(r, t) == ThreatOf[t].segment \in quarantined[r]

\* _handle_threat drops a threat of a segment this RCA has quarantined.
SkipContained(r) ==
    /\ alive[r] /\ pc[r] = "pending" /\ pending[r] # <<>>
    /\ Contained(r, Head(pending[r]))
    /\ pending' = [pending EXCEPT ![r] = RestOfPending(r)]
    /\ pc' = [pc EXCEPT ![r] = NextItem(r)]
    /\ UNCHANGED <<reported, formed, inbox, voters, vote, outbox, quarantined,
                   job, voteCount, defenses, trace, alive>>

\* Otherwise it selects the action and bids for a quarantine slot first.
HandleThreat(r) ==
    /\ alive[r] /\ pc[r] = "pending" /\ pending[r] # <<>>
    /\ LET t == Head(pending[r])
           action == SelectProportionalAction(ThreatOf[t].severity, ThreatOf[t].attack_type)
       IN /\ ~Contained(r, t)
          /\ Record(r, [event |-> "BID", threat |-> t])
          /\ job' = [job EXCEPT ![r] = [action |-> action, threat |-> t, vote_id |-> NoVote]]
          /\ pc' = [pc EXCEPT ![r] = IF action = "QUARANTINE" THEN "start_vote"
                                                             ELSE "execute"]
    /\ pending' = [pending EXCEPT ![r] = RestOfPending(r)]
    /\ UNCHANGED <<reported, formed, inbox, voters, vote, outbox, quarantined,
                   voteCount, defenses, alive>>

FreshVoteId_FromZero(r) == [rca |-> r, n |-> voteCount[r]]
FreshVoteId(r) == [rca |-> r, n |-> voteCount[r] + 1]

StartVote(r) ==
    /\ alive[r] /\ pc[r] = "start_vote"
    /\ LET t == job[r].threat
           id == FreshVoteId(r)
       IN /\ vote' = [vote EXCEPT ![r] =
                        [id |-> id, threat |-> t, members |-> voters[r], elapsed |-> 0,
                         ballots |-> [m \in Segments |->
                             IF m = r THEN EvaluateVote(ThreatOf[t].severity, Load)
                             ELSE "NONE"]]]
          /\ BroadcastRequest(r, [vote_id |-> id, severity |-> ThreatOf[t].severity])
    /\ voteCount' = [voteCount EXCEPT ![r] = @ + 1]
    /\ job' = [job EXCEPT ![r] = NoJob]
    /\ pc' = [pc EXCEPT ![r] = "idle"]
    /\ UNCHANGED <<reported, formed, voters, pending, outbox, quarantined,
                   defenses, trace, alive>>

\* _execute, up to the simulator's answer.
Execute(r) ==
    /\ alive[r] /\ pc[r] = "execute"
    /\ LET seg == ThreatOf[job[r].threat].segment
       IN defenses' = IF job[r].action = "MONITOR" THEN defenses
                      ELSE [defenses EXCEPT ![seg] = @ \cup {job[r].action}]
    /\ pc' = [pc EXCEPT ![r] = "applied"]
    /\ UNCHANGED <<reported, formed, inbox, voters, pending, vote, outbox,
                   quarantined, job, voteCount, trace, alive>>

\* _execute, from the simulator's answer on: remember a quarantine, log.
LogResponse(r) ==
    /\ alive[r] /\ pc[r] = "applied"
    /\ LET seg == ThreatOf[job[r].threat].segment
       IN /\ quarantined' = IF job[r].action = "QUARANTINE"
                            THEN [quarantined EXCEPT ![r] = @ \cup {seg}] ELSE quarantined
          /\ Record(r, [event |-> "RESPONSE", action |-> job[r].action, segment |-> seg,
                        threat |-> job[r].threat, vote_id |-> job[r].vote_id])
    /\ pc' = [pc EXCEPT ![r] = "resolve"]
    /\ UNCHANGED <<reported, formed, inbox, voters, pending, vote, outbox, job,
                   voteCount, defenses, alive>>

\* _resolve_incident: the RESOLUTION notice and the INCIDENT_RESOLVED event.
ResolveIncident(r) ==
    /\ alive[r] /\ pc[r] = "resolve"
    /\ Record(r, [event |-> "RESOLVED", threat |-> job[r].threat])
    /\ job' = [job EXCEPT ![r] = NoJob]
    /\ pc' = [pc EXCEPT ![r] = NextItem(r)]
    /\ UNCHANGED <<reported, formed, inbox, voters, pending, vote, outbox,
                   quarantined, voteCount, defenses, alive>>

-----------------------------------------------------------------------------
Respond(r) ==
    \/ SendReply(r) \/ KeepVote(r) \/ ProgressVote(r) \/ LogFallback(r)
    \/ StepDone(r) \/ SkipContained(r) \/ HandleThreat(r) \/ StartVote(r)
    \/ Execute(r) \/ LogResponse(r) \/ ResolveIncident(r)

RcaStep(r) == Perceive(r) \/ Respond(r)

Environment ==
    \/ \E t \in Threats : Report(t)
    \/ \E S \in SUBSET Segments : FormCoalition(S)
    \/ Tick
    \/ \E r \in Segments : Crash(r)

Next == Environment \/ \E r \in Segments : RcaStep(r)

Spec == Init /\ [][Next]_vars

\* run() steps for ever and the clock never stops; nothing makes an attack,
\* a coalition or a crash happen.
Fairness == (\A r \in Segments : WF_vars(RcaStep(r))) /\ WF_vars(Tick)
FairSpec == Spec /\ Fairness

-----------------------------------------------------------------------------
(* Properties *)

PcLabels == {"idle", "respond", "pending", "start_vote",
             "fallback", "execute", "applied", "resolve"}
VoteRecord == [id: VoteIds, threat: Threats, members: SUBSET Segments,
               elapsed: 0..Deadline, ballots: Ballots(Segments)]
Jobs == [action: ResponseTypes, threat: Threats, vote_id: VoteIds \cup {NoVote}]
Events ==
    [event: {"PROPOSE"}, vote_id: VoteIds, decision: Decisions]
    \cup [event: {"BID", "VOTE_FAILED", "RESOLVED"}, threat: Threats]
    \cup [event: {"VOTE_CAST"}, vote_id: VoteIds, members: SUBSET Segments,
          ballots: Ballots(Segments), approved: BOOLEAN, latency: 0..Deadline]
    \cup [event: {"RESPONSE"}, action: ResponseTypes, segment: Segments,
          threat: Threats, vote_id: VoteIds \cup {NoVote}]

\* Every variable holds values of the shape the code gives it.
TypeOK ==
    /\ reported \subseteq Threats
    /\ formed \subseteq SUBSET Segments
    /\ inbox \in [Segments -> Inbox]
    /\ pc \in [Segments -> PcLabels]
    /\ voters \in [Segments -> SUBSET Segments]
    /\ pending \in [Segments -> Seq(Threats)]
    /\ vote \in [Segments -> VoteRecord \cup {NoVote}]
    /\ outbox \in [Segments -> Seq(Replies)]
    /\ quarantined \in [Segments -> SUBSET Segments]
    /\ job \in [Segments -> Jobs \cup {NoJob}]
    /\ voteCount \in [Segments -> Nat]
    /\ defenses \in [Segments -> SUBSET ResponseTypes]
    /\ trace \in [Segments -> Seq(Events)]
    /\ alive \in [Segments -> BOOLEAN]

Logged(r, i, event) == i \in DOMAIN trace[r] /\ trace[r][i].event = event
Quarantines(r, i) == Logged(r, i, "RESPONSE") /\ trace[r][i].action = "QUARANTINE"

\* FR-11: a segment is quarantined only after an approved vote of the same RCA
\* with the same vote_id, in which more ballots than half of the members'
\* number said ACCEPT; and the simulator isolates no segment, not even when the
\* RCA stops before it logs the response, unless the segment's RCA won a vote.
Approved(r, j) ==
    /\ Logged(r, j, "VOTE_CAST")
    /\ trace[r][j].approved
    /\ 2 * AcceptCount(trace[r][j].ballots) > Cardinality(trace[r][j].members)
QuarantineAuthorised ==
    /\ \A r \in Segments : \A i \in DOMAIN trace[r] :
        Quarantines(r, i) =>
            \E j \in 1..(i - 1) :
                Approved(r, j) /\ trace[r][j].vote_id = trace[r][i].vote_id
    /\ \A s \in Segments :
        "QUARANTINE" \in defenses[s] => \E j \in DOMAIN trace[s] : Approved(s, j)

\* Every ACCEPT that a decided vote counts for another agent was really
\* proposed by that agent for this very vote, not for an earlier one that a
\* late reply still answers.
BallotsAreCast ==
    \A r, v \in Segments : \A i \in DOMAIN trace[r] :
        (Logged(r, i, "VOTE_CAST") /\ trace[r][i].ballots[v] = "ACCEPT" /\ v # r) =>
            \E k \in DOMAIN trace[v] :
                /\ Logged(v, k, "PROPOSE")
                /\ trace[v][k].vote_id = trace[r][i].vote_id
                /\ trace[v][k].decision = "ACCEPT"

\* Once an RCA has quarantined its segment it never acts on it again: the
\* backlog of reports, of any severity, draws no redundant response.
QuarantineIsFinal ==
    \A r \in Segments : \A i, j \in DOMAIN trace[r] :
        (Quarantines(r, i) /\ Logged(r, j, "RESPONSE") /\ j > i) =>
            trace[r][j].segment # trace[r][i].segment

\* An incident is answered and declared resolved at most once, by the RCA of
\* its segment, and never declared resolved without a response to it.
ResolvedOnce ==
    \A r \in Segments : \A i \in DOMAIN trace[r] :
        Logged(r, i, "RESOLVED") =>
            /\ ThreatOf[trace[r][i].threat].segment = r
            /\ i > 1 /\ Logged(r, i - 1, "RESPONSE")
            /\ trace[r][i - 1].threat = trace[r][i].threat
            /\ \A q \in Segments : \A j \in DOMAIN trace[q] :
                 (Logged(q, j, "RESOLVED") /\ trace[q][j].threat = trace[r][i].threat)
                     => q = r /\ j = i

\* A quarantine is given up for BLOCK only when time ran out: as long as the
\* deadline has not passed, every ballot that is in says ACCEPT.
FallbackOnlyAtDeadline ==
    \A r \in Segments : \A i \in DOMAIN trace[r] :
        (Logged(r, i, "VOTE_CAST") /\ ~trace[r][i].approved) =>
            trace[r][i].latency = Deadline

\* voting.py:3 "A quarantine requires majority approval (>50%) of the coalition":
\* more than half of the members themselves accepted.
MajorityOfCoalition ==
    \A r \in Segments : \A i \in DOMAIN trace[r] :
        (Logged(r, i, "VOTE_CAST") /\ trace[r][i].approved) =>
            2 * Cardinality({m \in trace[r][i].members : trace[r][i].ballots[m] = "ACCEPT"})
                > Cardinality(trace[r][i].members)

\* Every vote ends, whatever the members do: its RCA decides or abandons it,
\* unless the RCA itself stopped.
VoteEnds ==
    \A r \in Segments : \A n \in 1..Cardinality(Threats) :
        (vote[r] # NoVote /\ vote[r].id.n = n)
            ~> (~alive[r] \/ vote[r] = NoVote \/ vote[r].id.n # n)

\* FR-10: every confirmed, severe threat is answered, unless its segment is
\* already quarantined or its RCA stopped, with one exception that the code
\* makes: the loop over _pending pops one more report while a vote is in
\* progress (rca/agent.py:128-132), and _start_vote then overwrites the vote on
\* the first threat, which is never answered.  Even so the segment is not
\* forgotten: a threat whose vote replaced it is answered.
Answered(t) ==
    LET r == ThreatOf[t].segment
    IN \E i \in DOMAIN trace[r] : Logged(r, i, "RESOLVED") /\ trace[r][i].threat = t

BidForVote(r, i, t) ==
    /\ Logged(r, i, "BID") /\ trace[r][i].threat = t
    /\ SelectProportionalAction(ThreatOf[t].severity, ThreatOf[t].attack_type) = "QUARANTINE"
\* A vote on u was started after the one on t, and no vote was decided between.
Replaced(t, u) ==
    LET r == ThreatOf[t].segment
    IN \E i, j \in DOMAIN trace[r] :
        /\ i < j /\ BidForVote(r, i, t) /\ BidForVote(r, j, u)
        /\ \A k \in i..j : ~Logged(r, k, "VOTE_CAST")
EveryThreatAnswered ==
    \A t \in Threats :
        (t \in reported /\ Actionable(ThreatOf[t].segment, t))
            ~> (\/ Answered(t) \/ ~alive[ThreatOf[t].segment]
                \/ ThreatOf[t].segment \in quarantined[ThreatOf[t].segment]
                \/ \E u \in Threats : Replaced(t, u) /\ Answered(u))

\* The fleet does to the network what Containment allows and no more: a segment
\* counts as alarmed once a report its RCA takes up is published, and as granted
\* once its RCA has logged an approved vote.
Alarmed == {s \in Segments : \E t \in reported : Actionable(s, t)}
Granted == {s \in Segments : \E j \in DOMAIN trace[s] : Approved(s, j)}
Contain == INSTANCE Containment WITH
               Measures <- ResponseTypes \ {"QUARANTINE", "MONITOR"},
               alarmed <- Alarmed, granted <- Granted
ContainmentImplemented == Contain!Spec
=============================================================================
