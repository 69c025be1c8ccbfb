--------------------- MODULE ResponseCoordinator_proofs ---------------------
(***************************************************************************)
(* Proofs about ResponseCoordinator, for every set of segments, every set  *)
(* of threats and every deadline, in the order                             *)
(*   - lemmas about the pure operators, type correctness;                  *)
(*   - quarantines are authorised and final;                               *)
(*   - the ballots of a vote;                                              *)
(*   - every incident is resolved once;                                    *)
(*   - the fleet implements Containment.                                   *)
(***************************************************************************)
EXTENDS ResponseCoordinator, FiniteSetTheorems, TLAPS

-----------------------------------------------------------------------------
(* Lemmas about the pure operators *)

\* The policy always finds an action: its branches cover every attack type.
LEMMA SelectedActionType ==
    ASSUME NEW severity \in Severities, NEW attack \in AttackTypes
    PROVE  SelectProportionalAction(severity, attack) \in ResponseTypes
BY DEF Severities, AttackTypes, ResponseTypes, SelectProportionalAction,
       Volumetric, Containment

\* An RCA that is asked always votes ACCEPT or REJECT.
LEMMA VoteIsDecision ==
    ASSUME NEW severity, NEW load
    PROVE  EvaluateVote(severity, load) \in Decisions
BY DEF EvaluateVote, Decisions

\* Ballots of a finite fleet can be counted.
LEMMA CountsAreNat ==
    ASSUME NEW ballots \in Ballots(Segments)
    PROVE  AcceptCount(ballots) \in Nat /\ BallotCount(ballots) \in Nat
<1>1. DOMAIN ballots = Segments
    BY DEF Ballots
<1>2. IsFiniteSet({v \in DOMAIN ballots : ballots[v] = "ACCEPT"})
    BY <1>1, SegmentsAssumption, FS_Subset
<1>3. IsFiniteSet({v \in DOMAIN ballots : ballots[v] # "NONE"})
    BY <1>1, SegmentsAssumption, FS_Subset
<1> QED BY <1>2, <1>3, FS_CardinalityType DEF AcceptCount, BallotCount

\* A tally that passes is a strict majority of the member count.
LEMMA TallyIsMajority ==
    ASSUME NEW ballots \in Ballots(Segments), NEW n \in Nat, Tally(ballots, n)
    PROVE  2 * AcceptCount(ballots) > n
BY CountsAreNat DEF Tally, MajorityThreshold

\* Popping a queue: its head is an element, its tail a queue of such elements.
LEMMA PopQueue ==
    ASSUME NEW S, NEW s \in Seq(S), s # <<>>
    PROVE  Head(s) \in S /\ Tail(s) \in Seq(S)
OBVIOUS

-----------------------------------------------------------------------------
(* Type correctness *)

\* While it carries out a response, an RCA knows which one.
JobKnown ==
    \A r \in Segments :
        pc[r] \in {"start_vote", "fallback", "execute", "applied", "resolve"} => job[r] \in Jobs

TypeInv == TypeOK /\ JobKnown

LEMMA TypeInit == Init => TypeInv
BY ThreatsAssumption, DeadlineAssumption
   DEF Init, TypeInv, TypeOK, JobKnown, Inbox, EmptyInbox, PcLabels

\* Each kind of message fits the subscription it is put into.
LEMMA InboxGrows ==
    ASSUME NEW box \in Inbox
    PROVE  /\ \A t \in Threats : [box EXCEPT !.reports = Append(@, t)] \in Inbox
           /\ \A q \in Requests : [box EXCEPT !.requests = Append(@, q)] \in Inbox
           /\ \A m \in Replies : [box EXCEPT !.ballots = @ \cup {m}] \in Inbox
           /\ \A S \in SUBSET Segments :
                [box EXCEPT !.coalitions = Append(@, S)] \in Inbox
<1>1. /\ box.reports \in Seq(Threats)
      /\ box.requests \in Seq(Requests)
      /\ box.ballots \in SUBSET Replies
      /\ box.coalitions \in Seq(SUBSET Segments)
    BY DEF Inbox
<1>2. ASSUME NEW t \in Threats
      PROVE  [box EXCEPT !.reports = Append(@, t)] \in Inbox
    <2>1. Append(box.reports, t) \in Seq(Threats)
        BY <1>1
    <2> QED BY <1>1, <2>1 DEF Inbox
<1>3. ASSUME NEW q \in Requests
      PROVE  [box EXCEPT !.requests = Append(@, q)] \in Inbox
    <2>1. Append(box.requests, q) \in Seq(Requests)
        BY <1>1
    <2> QED BY <1>1, <2>1 DEF Inbox
<1>4. ASSUME NEW m \in Replies
      PROVE  [box EXCEPT !.ballots = @ \cup {m}] \in Inbox
    BY <1>1 DEF Inbox
<1>5. ASSUME NEW S \in SUBSET Segments
      PROVE  [box EXCEPT !.coalitions = Append(@, S)] \in Inbox
    <2>1. Append(box.coalitions, S) \in Seq(SUBSET Segments)
        BY <1>1
    <2> QED BY <1>1, <2>1 DEF Inbox
<1> QED BY <1>2, <1>3, <1>4, <1>5

LEMMA TypeReport ==
    ASSUME TypeInv, NEW t \in Threats, Report(t)
    PROVE  TypeInv'
<1>1. inbox' \in [Segments -> Inbox]
    <2>1. \A r \in Segments : [inbox[r] EXCEPT !.reports = Append(@, t)] \in Inbox
        BY InboxGrows DEF TypeInv, TypeOK
    <2> QED BY <2>1 DEF TypeInv, TypeOK, Report
<1> QED BY <1>1 DEF TypeInv, TypeOK, JobKnown, Report

LEMMA TypeFormCoalition ==
    ASSUME TypeInv, NEW S \in SUBSET Segments, FormCoalition(S)
    PROVE  TypeInv'
<1>1. inbox' \in [Segments -> Inbox]
    <2>1. \A r \in Segments : [inbox[r] EXCEPT !.coalitions = Append(@, S)] \in Inbox
        BY InboxGrows DEF TypeInv, TypeOK
    <2> QED BY <2>1 DEF TypeInv, TypeOK, FormCoalition
<1> QED BY <1>1 DEF TypeInv, TypeOK, JobKnown, FormCoalition

LEMMA TypeTick ==
    ASSUME TypeInv, Tick
    PROVE  TypeInv'
<1>1. ASSUME NEW r \in Segments, vote[r] # NoVote, vote[r].elapsed < Deadline
      PROVE  [vote[r] EXCEPT !.elapsed = @ + 1] \in VoteRecord
    <2>1. vote[r] \in VoteRecord
        BY <1>1 DEF TypeInv, TypeOK
    <2>2. vote[r].elapsed + 1 \in 0..Deadline
        BY <1>1, <2>1, DeadlineAssumption DEF VoteRecord
    <2> QED BY <2>1, <2>2 DEF VoteRecord
<1>2. vote' \in [Segments -> VoteRecord \cup {NoVote}]
    BY <1>1 DEF TypeInv, TypeOK, Tick
<1> QED BY <1>2 DEF TypeInv, TypeOK, JobKnown, Tick

LEMMA TypeCrash ==
    ASSUME TypeInv, NEW r \in Segments, Crash(r)
    PROVE  TypeInv'
BY DEF TypeInv, TypeOK, JobKnown, Crash

LEMMA TypePerceive ==
    ASSUME TypeInv, NEW r \in Segments, Perceive(r)
    PROVE  TypeInv'
<1> USE DEF TypeInv, TypeOK, JobKnown, Perceive
<1>1. inbox[r] \in Inbox
    OBVIOUS
<1>2. inbox' \in [Segments -> Inbox]
    BY DEF EmptyInbox, Inbox
<1>3. pending' \in [Segments -> Seq(Threats)]
    <2>1. inbox[r].reports \in Seq(Threats)
        BY <1>1 DEF Inbox
    <2>2. pending[r] \o inbox[r].reports \in Seq(Threats)
        BY <2>1
    <2> QED BY <2>2
<1>4. OnVoteResponses(r) \in VoteRecord \cup {NoVote}
    <2>1. CASE vote[r] = NoVote
        BY <2>1 DEF OnVoteResponses
    <2>2. CASE vote[r] # NoVote
        <3>1. vote[r] \in VoteRecord
            BY <2>2
        <3>2. ASSUME NEW v \in Segments, \E m \in BallotsOf(r) : m.voter_id = v
              PROVE  (CHOOSE m \in BallotsOf(r) : m.voter_id = v).decision \in Decisions
            BY <1>1, <3>2 DEF BallotsOf, Inbox, Replies
        <3>3. [v \in Segments |->
                IF \E m \in BallotsOf(r) : m.voter_id = v
                THEN (CHOOSE m \in BallotsOf(r) : m.voter_id = v).decision
                ELSE vote[r].ballots[v]] \in Ballots(Segments)
            BY <3>1, <3>2 DEF VoteRecord, Ballots
        <3> QED BY <2>2, <3>1, <3>3 DEF OnVoteResponses, VoteRecord
    <2> QED BY <2>1, <2>2
<1>5. vote' \in [Segments -> VoteRecord \cup {NoVote}]
    BY <1>4
<1>6. outbox' \in [Segments -> Seq(Replies)]
    <2> DEFINE reqs == inbox[r].requests
               reply(i) == [vote_id |-> reqs[i].vote_id, voter_id |-> r,
                            decision |-> EvaluateVote(reqs[i].severity, Load)]
               replies == [i \in DOMAIN reqs |-> reply(i)]
    <2>1. reqs \in Seq(Requests)
        BY <1>1 DEF Inbox
    <2>2. \A i \in DOMAIN reqs : reply(i) \in Replies
        <3>1. \A i \in DOMAIN reqs : reqs[i] \in Requests
            BY <2>1
        <3> QED BY <3>1, VoteIsDecision DEF Requests, Replies
    <2>3. replies \in Seq(Replies)
        <3> HIDE DEF reply
        <3>1. DOMAIN reqs = 1..Len(reqs) /\ Len(reqs) \in Nat
            BY <2>1
        <3> QED BY <2>2, <3>1
    <2>4. outbox[r] \o replies \in Seq(Replies)
        <3> HIDE DEF replies
        <3> QED BY <2>3
    <2>5. OnVoteRequests(r) = outbox[r] \o replies
        BY DEF OnVoteRequests
    <2> QED BY <2>4, <2>5
<1>7. voters' \in [Segments -> SUBSET Segments]
    <2>1. inbox[r].coalitions \in Seq(SUBSET Segments)
        BY <1>1 DEF Inbox
    <2>2. OnCoalitions(r) \in SUBSET Segments
        BY <2>1 DEF OnCoalitions
    <2> QED BY <2>2
<1>8. pc' \in [Segments -> PcLabels]
    BY DEF PcLabels
<1>9. JobKnown'
    OBVIOUS
<1> QED BY <1>2, <1>3, <1>5, <1>6, <1>7, <1>8, <1>9

LEMMA TypeSendReply ==
    ASSUME TypeInv, NEW r \in Segments, SendReply(r)
    PROVE  TypeInv'
<1> DEFINE m == Head(outbox[r])
<1>1. m \in Replies /\ Tail(outbox[r]) \in Seq(Replies)
    BY DEF TypeInv, TypeOK, SendReply
<1>2. inbox' \in [Segments -> Inbox]
    <2>1. m.vote_id.rca \in Segments
        BY <1>1 DEF Replies, VoteIds
    <2>2. [inbox[m.vote_id.rca] EXCEPT !.ballots = @ \cup {m}] \in Inbox
        BY <1>1, <2>1, InboxGrows DEF TypeInv, TypeOK
    <2> QED BY <2>1, <2>2 DEF TypeInv, TypeOK, SendReply, BroadcastReply
<1>3. trace' \in [Segments -> Seq(Events)]
    <2>1. [event |-> "PROPOSE", vote_id |-> m.vote_id, decision |-> m.decision] \in Events
        BY <1>1 DEF Events, Replies
    <2> HIDE DEF m
    <2>2. Append(trace[r], [event |-> "PROPOSE", vote_id |-> m.vote_id,
                            decision |-> m.decision]) \in Seq(Events)
        BY <2>1 DEF TypeInv, TypeOK
    <2> QED BY <2>2 DEF m, TypeInv, TypeOK, SendReply, Record
<1>4. outbox' \in [Segments -> Seq(Replies)]
    BY <1>1 DEF TypeInv, TypeOK, SendReply
<1> QED BY <1>2, <1>3, <1>4 DEF TypeInv, TypeOK, JobKnown, SendReply

LEMMA TypeKeepVote ==
    ASSUME TypeInv, NEW r \in Segments, KeepVote(r)
    PROVE  TypeInv'
BY DEF TypeInv, TypeOK, JobKnown, KeepVote, PcLabels

\* The final ballots of a vote are ballots: no answer becomes REJECT.
LEMMA FinalBallotsType ==
    ASSUME NEW v \in VoteRecord
    PROVE  FinalBallots(v) \in Ballots(Segments)
BY DEF FinalBallots, VoteRecord, Ballots, Decisions

\* Logging an event keeps every trace a sequence of events.
LEMMA TraceGrows ==
    ASSUME TypeInv, NEW r \in Segments, NEW e \in Events, Record(r, e)
    PROVE  trace' \in [Segments -> Seq(Events)]
<1>1. Append(trace[r], e) \in Seq(Events)
    BY DEF TypeInv, TypeOK
<1> QED BY <1>1 DEF TypeInv, TypeOK, Record

LEMMA TypeProgressVote ==
    ASSUME TypeInv, NEW r \in Segments, ProgressVote(r)
    PROVE  TypeInv'
<1> DEFINE v == vote[r]
           ballots == FinalBallots(v)
           approved == Tally(ballots, Cardinality(v.members))
           e == [event |-> "VOTE_CAST", vote_id |-> v.id, members |-> v.members,
                 ballots |-> ballots, approved |-> approved, latency |-> v.elapsed]
           j == [action |-> IF approved THEN "QUARANTINE" ELSE "BLOCK",
                 threat |-> v.threat, vote_id |-> IF approved THEN v.id ELSE NoVote]
<1>1. v \in VoteRecord
    BY DEF TypeInv, TypeOK, ProgressVote, Complete
<1>2. ballots \in Ballots(Segments) /\ approved \in BOOLEAN
    BY <1>1, FinalBallotsType DEF Tally
<1>3. e \in Events
    BY <1>1, <1>2 DEF Events, VoteRecord
<1>4. j \in Jobs
    BY <1>1 DEF Jobs, VoteRecord, ResponseTypes
<1>5. trace' \in [Segments -> Seq(Events)]
    <2>1. Record(r, e)
        BY DEF ProgressVote
    <2> QED BY <1>3, <2>1, TraceGrows
<1>6. job' = [job EXCEPT ![r] = j]
    BY DEF ProgressVote
<1>7. vote' \in [Segments -> VoteRecord \cup {NoVote}] /\ pc' \in [Segments -> PcLabels]
    BY DEF TypeInv, TypeOK, ProgressVote, PcLabels
<1> HIDE DEF j
<1>8. job' \in [Segments -> Jobs \cup {NoJob}] /\ JobKnown'
    BY <1>4, <1>6 DEF TypeInv, TypeOK, JobKnown, ProgressVote
<1> QED BY <1>5, <1>7, <1>8 DEF TypeInv, TypeOK, ProgressVote

LEMMA TypeLogFallback ==
    ASSUME TypeInv, NEW r \in Segments, LogFallback(r)
    PROVE  TypeInv'
<1> DEFINE e == [event |-> "VOTE_FAILED", threat |-> job[r].threat]
<1>1. e \in Events
    <2>1. job[r].threat \in Threats
        BY DEF TypeInv, JobKnown, LogFallback, Jobs
    <2> QED BY <2>1 DEF Events
<1>2. trace' \in [Segments -> Seq(Events)]
    <2>1. Record(r, e)
        BY DEF LogFallback
    <2> HIDE DEF e
    <2> QED BY <1>1, <2>1, TraceGrows
<1> QED BY <1>2 DEF TypeInv, TypeOK, JobKnown, LogFallback, PcLabels

LEMMA TypeStepDone ==
    ASSUME TypeInv, NEW r \in Segments, StepDone(r)
    PROVE  TypeInv'
BY DEF TypeInv, TypeOK, JobKnown, StepDone, PcLabels

LEMMA TypeSkipContained ==
    ASSUME TypeInv, NEW r \in Segments, SkipContained(r)
    PROVE  TypeInv'
<1>1. Tail(pending[r]) \in Seq(Threats)
    BY DEF TypeInv, TypeOK, SkipContained
<1> QED BY <1>1 DEF TypeInv, TypeOK, JobKnown, SkipContained, PcLabels, RestOfPending,
                    NextItem

LEMMA TypeHandleThreat ==
    ASSUME TypeInv, NEW r \in Segments, HandleThreat(r)
    PROVE  TypeInv'
<1> DEFINE t == Head(pending[r])
           action == SelectProportionalAction(ThreatOf[t].severity, ThreatOf[t].attack_type)
           j == [action |-> action, threat |-> t, vote_id |-> NoVote]
<1>1. t \in Threats /\ Tail(pending[r]) \in Seq(Threats)
    BY DEF TypeInv, TypeOK, HandleThreat
<1>2. ThreatOf[t].severity \in Severities /\ ThreatOf[t].attack_type \in AttackTypes
    BY <1>1, ThreatsAssumption DEF ThreatRecord
<1>3. action \in ResponseTypes
    BY <1>2, SelectedActionType
<1>4. j \in Jobs
    BY <1>1, <1>3 DEF Jobs
<1>5. trace' \in [Segments -> Seq(Events)]
    <2>1. [event |-> "BID", threat |-> t] \in Events
        <3> HIDE DEF t
        <3> QED BY <1>1 DEF Events
    <2>2. Record(r, [event |-> "BID", threat |-> t])
        BY DEF HandleThreat
    <2> HIDE DEF t
    <2> QED BY <2>1, <2>2, TraceGrows
<1>6. job' = [job EXCEPT ![r] = j]
    BY DEF HandleThreat
<1>7. pc' \in [Segments -> PcLabels] /\ \A q \in Segments : q # r => pc'[q] = pc[q]
    BY DEF TypeInv, TypeOK, HandleThreat, PcLabels
<1>8. pending' \in [Segments -> Seq(Threats)]
    BY <1>1 DEF TypeInv, TypeOK, HandleThreat, RestOfPending
<1> HIDE DEF j
<1> QED BY <1>4, <1>5, <1>6, <1>7, <1>8 DEF TypeInv, TypeOK, JobKnown, HandleThreat

LEMMA TypeStartVote ==
    ASSUME TypeInv, NEW r \in Segments, StartVote(r)
    PROVE  TypeInv'
<1> DEFINE t == job[r].threat
           id == FreshVoteId(r)
           decision == EvaluateVote(ThreatOf[t].severity, Load)
           ballots == [m \in Segments |-> IF m = r THEN decision ELSE "NONE"]
           v == [id |-> id, threat |-> t, members |-> voters[r], elapsed |-> 0,
                 ballots |-> ballots]
           q == [vote_id |-> id, severity |-> ThreatOf[t].severity]
<1>1. t \in Threats
    BY DEF TypeInv, TypeOK, JobKnown, StartVote, Jobs
<1>2. id \in VoteIds
    BY DEF TypeInv, TypeOK, FreshVoteId, VoteIds
<1>3. ballots \in Ballots(Segments)
    <2>1. decision \in Decisions
        BY VoteIsDecision
    <2> HIDE DEF decision
    <2> QED BY <2>1 DEF Ballots
<1>4. v \in VoteRecord
    <2> HIDE DEF t, id, ballots
    <2> QED BY <1>1, <1>2, <1>3, DeadlineAssumption DEF TypeInv, TypeOK, VoteRecord
<1>5. vote' \in [Segments -> VoteRecord \cup {NoVote}]
    <2>1. vote' = [vote EXCEPT ![r] = v]
        BY DEF StartVote
    <2> HIDE DEF v
    <2> QED BY <1>4, <2>1 DEF TypeInv, TypeOK
<1>6. inbox' \in [Segments -> Inbox]
    <2>1. q \in Requests
        BY <1>1, <1>2, ThreatsAssumption DEF Requests, ThreatRecord
    <2>2. BroadcastRequest(r, q)
        BY DEF StartVote
    <2> HIDE DEF q
    <2>3. \A s \in Segments : [inbox[s] EXCEPT !.requests = Append(@, q)] \in Inbox
        BY <2>1, InboxGrows DEF TypeInv, TypeOK
    <2> QED BY <2>2, <2>3 DEF TypeInv, TypeOK, BroadcastRequest
<1>7. /\ voteCount' \in [Segments -> Nat]
      /\ job' \in [Segments -> Jobs \cup {NoJob}]
      /\ pc' \in [Segments -> PcLabels]
    BY DEF TypeInv, TypeOK, StartVote, PcLabels
<1>8. JobKnown'
    BY DEF TypeInv, TypeOK, JobKnown, StartVote
<1> QED BY <1>5, <1>6, <1>7, <1>8 DEF TypeInv, TypeOK, StartVote

LEMMA TypeExecute ==
    ASSUME TypeInv, NEW r \in Segments, Execute(r)
    PROVE  TypeInv'
<1>1. job[r] \in Jobs
    BY DEF TypeInv, JobKnown, Execute
<1>2. ThreatOf[job[r].threat].segment \in Segments /\ job[r].action \in ResponseTypes
    BY <1>1, ThreatsAssumption DEF Jobs, ThreatRecord
<1>3. defenses' \in [Segments -> SUBSET ResponseTypes]
    BY <1>2 DEF TypeInv, TypeOK, Execute
<1> QED BY <1>3 DEF TypeInv, TypeOK, JobKnown, Execute, PcLabels

LEMMA TypeLogResponse ==
    ASSUME TypeInv, NEW r \in Segments, LogResponse(r)
    PROVE  TypeInv'
<1> DEFINE seg == ThreatOf[job[r].threat].segment
           e == [event |-> "RESPONSE", action |-> job[r].action, segment |-> seg,
                 threat |-> job[r].threat, vote_id |-> job[r].vote_id]
<1>1. job[r] \in Jobs
    BY DEF TypeInv, JobKnown, LogResponse
<1>2. seg \in Segments
    BY <1>1, ThreatsAssumption DEF Jobs, ThreatRecord
<1>3. e \in Events
    BY <1>1, <1>2 DEF Events, Jobs
<1>4. trace' \in [Segments -> Seq(Events)]
    BY <1>3, TraceGrows DEF LogResponse
<1>5. quarantined' \in [Segments -> SUBSET Segments]
    BY <1>2 DEF TypeInv, TypeOK, LogResponse
<1> QED BY <1>4, <1>5 DEF TypeInv, TypeOK, JobKnown, LogResponse, PcLabels

LEMMA TypeResolveIncident ==
    ASSUME TypeInv, NEW r \in Segments, ResolveIncident(r)
    PROVE  TypeInv'
<1>1. [event |-> "RESOLVED", threat |-> job[r].threat] \in Events
    BY DEF TypeInv, JobKnown, ResolveIncident, Jobs, Events
<1>2. trace' \in [Segments -> Seq(Events)]
    BY <1>1, TraceGrows DEF ResolveIncident
<1> QED BY <1>2 DEF TypeInv, TypeOK, JobKnown, ResolveIncident, PcLabels, NextItem

LEMMA TypeStep == TypeInv /\ [Next]_vars => TypeInv'
<1> SUFFICES ASSUME TypeInv, [Next]_vars PROVE TypeInv'
    OBVIOUS
<1>1. CASE UNCHANGED vars
    BY <1>1 DEF vars, TypeInv, TypeOK, JobKnown
<1>2. CASE Environment
    BY <1>2, TypeReport, TypeFormCoalition, TypeTick, TypeCrash DEF Environment
<1>3. ASSUME NEW r \in Segments, RcaStep(r) PROVE TypeInv'
    BY <1>3, TypePerceive, TypeSendReply, TypeKeepVote, TypeProgressVote, TypeLogFallback,
       TypeStepDone, TypeSkipContained, TypeHandleThreat, TypeStartVote, TypeExecute,
       TypeLogResponse, TypeResolveIncident
       DEF RcaStep, Respond
<1> QED BY <1>1, <1>2, <1>3 DEF Next

\* Every reachable state has the types of the code's attributes, and an RCA that
\* is carrying out a response knows which one (agents/rca/agent.py).
THEOREM TypeCorrect == Spec => []TypeInv
BY TypeInit, TypeStep, PTL DEF Spec

THEOREM TypeOKHolds == Spec => []TypeOK
BY TypeCorrect, PTL DEF TypeInv

-----------------------------------------------------------------------------
(* An RCA only ever works on the threats of its own segment *)

Mine(r) == {t \in Threats : Actionable(r, t)}
Working(r) == pc[r] \in {"start_vote", "fallback", "execute", "applied", "resolve"}

OwnThreats ==
    \A r \in Segments :
        /\ inbox[r].reports \in Seq(Mine(r))
        /\ pending[r] \in Seq(Mine(r))
        /\ vote[r] # NoVote => vote[r].threat \in Mine(r)
        /\ Working(r) => job[r].threat \in Mine(r)

LEMMA OwnInit == Init => OwnThreats
<1>1. Init => \A r \in Segments : /\ inbox[r].reports = <<>> /\ pending[r] = <<>>
                                  /\ vote[r] = NoVote /\ ~Working(r)
    BY DEF Init, EmptyInbox, Working
<1>2. \A r \in Segments : <<>> \in Seq(Mine(r))
    OBVIOUS
<1> QED BY <1>1, <1>2 DEF OwnThreats

\* A step of one RCA that leaves the inboxes' reports alone is judged by that RCA.
LEMMA OwnFrame ==
    ASSUME OwnThreats, NEW r \in Segments,
           \A q \in Segments : inbox'[q].reports = inbox[q].reports,
           \A q \in Segments \ {r} : /\ pending'[q] = pending[q]
                                     /\ vote'[q] = vote[q]
                                     /\ pc'[q] = pc[q]
                                     /\ job'[q] = job[q],
           pending'[r] \in Seq(Mine(r)),
           vote'[r] # NoVote => vote'[r].threat \in Mine(r),
           Working(r)' => job'[r].threat \in Mine(r)
    PROVE  OwnThreats'
BY DEF OwnThreats, Working

LEMMA OwnStep == TypeInv /\ OwnThreats /\ [Next]_vars => OwnThreats'
<1> SUFFICES ASSUME TypeInv, OwnThreats, [Next]_vars PROVE OwnThreats'
    OBVIOUS
<1> USE DEF TypeInv, TypeOK
<1>1. CASE UNCHANGED vars
    BY <1>1 DEF vars, OwnThreats, Working
<1>2. ASSUME NEW t \in Threats, Report(t) PROVE OwnThreats'
    <2>1. \A r \in Segments : inbox'[r].reports \in Seq(Mine(r))
        <3> TAKE r \in Segments
        <3>1. CASE Actionable(r, t)
            <4>1. t \in Mine(r) /\ inbox[r].reports \in Seq(Mine(r))
                BY <3>1 DEF Mine, OwnThreats
            <4>2. Append(inbox[r].reports, t) \in Seq(Mine(r))
                BY <4>1
            <4>3. inbox'[r] = [inbox[r] EXCEPT !.reports = Append(@, t)]
                BY <1>2, <3>1 DEF Report
            <4>4. inbox'[r].reports = Append(inbox[r].reports, t)
                BY <4>3 DEF Inbox
            <4> QED BY <4>2, <4>4
        <3>2. CASE ~Actionable(r, t)
            BY <1>2, <3>2 DEF Report, OwnThreats
        <3> QED BY <3>1, <3>2
    <2> QED BY <1>2, <2>1 DEF Report, OwnThreats, Working
<1>3. ASSUME NEW S \in SUBSET Segments, FormCoalition(S) PROVE OwnThreats'
    <2>1. \A r \in Segments : inbox'[r].reports = inbox[r].reports
        BY <1>3 DEF FormCoalition, Inbox
    <2> QED BY <1>3, <2>1 DEF FormCoalition, OwnThreats, Working
<1>4. CASE Tick
    <2>1. \A r \in Segments : vote'[r] # NoVote => vote[r] # NoVote
                                                /\ vote'[r].threat = vote[r].threat
        BY <1>4 DEF Tick, VoteRecord
    <2> QED BY <1>4, <2>1 DEF Tick, OwnThreats, Working
<1>5. ASSUME NEW r \in Segments, Crash(r) PROVE OwnThreats'
    BY <1>5 DEF Crash, OwnThreats, Working
<1>6. ASSUME NEW r \in Segments, Perceive(r) PROVE OwnThreats'
    <2>1. pending'[r] \in Seq(Mine(r))
        <3>1. pending[r] \o inbox[r].reports \in Seq(Mine(r))
            BY DEF OwnThreats
        <3> QED BY <1>6, <3>1 DEF Perceive
    <2>2. vote'[r] # NoVote => vote'[r].threat \in Mine(r)
        <3>1. vote'[r] = OnVoteResponses(r)
            BY <1>6 DEF Perceive
        <3>2. vote[r] # NoVote => vote[r] \in VoteRecord /\ vote[r].threat \in Mine(r)
            BY DEF OwnThreats
        <3> QED BY <3>1, <3>2 DEF OnVoteResponses, VoteRecord
    <2>3. ~Working(r)'
        BY <1>6 DEF Perceive, Working
    <2>4. \A q \in Segments : inbox'[q].reports \in Seq(Mine(q))
        BY <1>6 DEF Perceive, EmptyInbox, OwnThreats
    <2> QED BY <1>6, <2>1, <2>2, <2>3, <2>4
            DEF Perceive, OwnThreats, Working
<1>7. ASSUME NEW r \in Segments, SendReply(r) PROVE OwnThreats'
    <2> DEFINE m == Head(outbox[r])
    <2>1. \A q \in Segments : inbox'[q].reports = inbox[q].reports
        <3>1. m \in Replies
            <4>1. outbox[r] \in Seq(Replies) /\ outbox[r] # <<>>
                BY <1>7 DEF SendReply
            <4> QED BY <4>1, PopQueue
        <3>2. m.vote_id.rca \in Segments
            BY <3>1 DEF Replies, VoteIds
        <3>3. inbox' = [inbox EXCEPT ![m.vote_id.rca].ballots = @ \cup {m}]
            BY <1>7 DEF SendReply, BroadcastReply
        <3> HIDE DEF m
        <3>4. /\ \A q \in Segments \ {m.vote_id.rca} : inbox'[q] = inbox[q]
              /\ inbox'[m.vote_id.rca]
                    = [inbox[m.vote_id.rca] EXCEPT !.ballots = @ \cup {m}]
            BY <3>2, <3>3
        <3>5. inbox'[m.vote_id.rca].reports = inbox[m.vote_id.rca].reports
            BY <3>2, <3>4 DEF Inbox
        <3> QED BY <3>4, <3>5
    <2> QED BY <1>7, <2>1 DEF SendReply, OwnThreats, Working
<1>8. ASSUME NEW r \in Segments, KeepVote(r) \/ StepDone(r) PROVE OwnThreats'
    BY <1>8 DEF KeepVote, StepDone, OwnThreats, Working
<1>9. ASSUME NEW r \in Segments, ProgressVote(r) PROVE OwnThreats'
    <2>1. job'[r].threat = vote[r].threat /\ vote[r] # NoVote /\ vote'[r] = NoVote
        BY <1>9 DEF ProgressVote, Complete
    <2>2. job'[r].threat \in Mine(r)
        BY <2>1 DEF OwnThreats
    <2> QED BY <1>9, <2>1, <2>2, OwnFrame DEF ProgressVote, OwnThreats
<1>10. ASSUME NEW r \in Segments, SkipContained(r) PROVE OwnThreats'
    <2>1. Tail(pending[r]) \in Seq(Mine(r))
        BY <1>10 DEF SkipContained, OwnThreats
    <2>2. ~Working(r)'
        BY <1>10 DEF SkipContained, NextItem, Working
    <2> QED BY <1>10, <2>1, <2>2, OwnFrame DEF SkipContained, RestOfPending, OwnThreats
<1>11. ASSUME NEW r \in Segments, HandleThreat(r) PROVE OwnThreats'
    <2>1. Head(pending[r]) \in Mine(r) /\ Tail(pending[r]) \in Seq(Mine(r))
        BY <1>11 DEF HandleThreat, OwnThreats
    <2>2. job'[r].threat = Head(pending[r])
        BY <1>11 DEF HandleThreat
    <2> QED BY <1>11, <2>1, <2>2, OwnFrame DEF HandleThreat, RestOfPending, OwnThreats
<1>12. ASSUME NEW r \in Segments, StartVote(r) PROVE OwnThreats'
    <2>1. \A q \in Segments : inbox'[q].reports = inbox[q].reports
        BY <1>12 DEF StartVote, BroadcastRequest, Inbox
    <2>2. vote'[r].threat \in Mine(r)
        BY <1>12 DEF StartVote, OwnThreats, Working
    <2>3. ~Working(r)'
        BY <1>12 DEF StartVote, Working
    <2> QED BY <1>12, <2>1, <2>2, <2>3, OwnFrame DEF StartVote, OwnThreats
<1>13. ASSUME NEW r \in Segments, Execute(r) PROVE OwnThreats'
    BY <1>13 DEF Execute, OwnThreats, Working
<1>14. ASSUME NEW r \in Segments, LogResponse(r) PROVE OwnThreats'
    BY <1>14 DEF LogResponse, OwnThreats, Working
<1>15. ASSUME NEW r \in Segments, ResolveIncident(r) PROVE OwnThreats'
    <2>1. ~Working(r)'
        BY <1>15 DEF ResolveIncident, NextItem, Working
    <2> QED BY <1>15, <2>1, OwnFrame DEF ResolveIncident, OwnThreats
<1>16. ASSUME NEW r \in Segments, LogFallback(r) PROVE OwnThreats'
    BY <1>16 DEF LogFallback, OwnThreats, Working
<1> QED BY <1>1, <1>2, <1>3, <1>4, <1>5, <1>6, <1>7, <1>8, <1>9, <1>10, <1>11, <1>12,
           <1>13, <1>14, <1>15, <1>16 DEF Next, Environment, RcaStep, Respond

-----------------------------------------------------------------------------
(* No quarantine without an approved vote *)

ApprovedFor(r, id) ==
    \E j \in DOMAIN trace[r] : Approved(r, j) /\ trace[r][j].vote_id = id

\* Between the vote and the log entry the authority is the job's vote_id.
QuarantineJobApproved ==
    \A r \in Segments :
        (pc[r] \in {"fallback", "execute", "applied"} /\ job[r].action = "QUARANTINE")
            => ApprovedFor(r, job[r].vote_id)

AuthInv == QuarantineAuthorised /\ QuarantineJobApproved

\* Recording appends one event and disturbs no earlier one.
LEMMA RecordAppends ==
    ASSUME TypeInv, NEW r \in Segments, NEW e, Record(r, e)
    PROVE  /\ \A q \in Segments \ {r} : trace'[q] = trace[q]
           /\ Len(trace[r]) \in Nat
           /\ DOMAIN trace[r] = 1..Len(trace[r])
           /\ DOMAIN trace'[r] = 1..(Len(trace[r]) + 1)
           /\ \A i \in DOMAIN trace[r] : trace'[r][i] = trace[r][i]
           /\ trace'[r][Len(trace[r]) + 1] = e
<1>1. trace[r] \in Seq(Events) /\ trace \in [Segments -> Seq(Events)]
    BY DEF TypeInv, TypeOK
<1>2. trace'[r] = Append(trace[r], e) /\ \A q \in Segments \ {r} : trace'[q] = trace[q]
    BY <1>1 DEF Record
<1> QED BY <1>1, <1>2

\* The steps that log something other than the outcome of a vote.
LEMMA LogsNoVote ==
    ASSUME NEW r \in Segments,
           \/ SendReply(r) \/ LogFallback(r) \/ HandleThreat(r)
           \/ LogResponse(r) \/ ResolveIncident(r)
    PROVE  \E e : Record(r, e) /\ e.event # "VOTE_CAST"
<1>1. CASE SendReply(r)
    <2> DEFINE e == [event |-> "PROPOSE", vote_id |-> Head(outbox[r]).vote_id,
                     decision |-> Head(outbox[r]).decision]
    <2>1. Record(r, e) /\ e.event # "VOTE_CAST"
        BY <1>1 DEF SendReply
    <2> HIDE DEF e
    <2> QED BY <2>1
<1>2. CASE HandleThreat(r)
    <2> DEFINE e == [event |-> "BID", threat |-> Head(pending[r])]
    <2>1. Record(r, e) /\ e.event # "VOTE_CAST"
        BY <1>2 DEF HandleThreat
    <2> HIDE DEF e
    <2> QED BY <2>1
<1>3. CASE LogResponse(r)
    <2> DEFINE e == [event |-> "RESPONSE", action |-> job[r].action,
                     segment |-> ThreatOf[job[r].threat].segment,
                     threat |-> job[r].threat, vote_id |-> job[r].vote_id]
    <2>1. Record(r, e) /\ e.event # "VOTE_CAST"
        BY <1>3 DEF LogResponse
    <2> HIDE DEF e
    <2> QED BY <2>1
<1>4. CASE ResolveIncident(r)
    <2> DEFINE e == [event |-> "RESOLVED", threat |-> job[r].threat]
    <2>1. Record(r, e) /\ e.event # "VOTE_CAST"
        BY <1>4 DEF ResolveIncident
    <2> HIDE DEF e
    <2> QED BY <2>1
<1>5. CASE LogFallback(r)
    <2> DEFINE e == [event |-> "VOTE_FAILED", threat |-> job[r].threat]
    <2>1. Record(r, e) /\ e.event # "VOTE_CAST"
        BY <1>5 DEF LogFallback
    <2> HIDE DEF e
    <2> QED BY <2>1
<1> QED BY <1>1, <1>2, <1>3, <1>4, <1>5

\* What was approved stays approved.
LEMMA ApprovalStays ==
    ASSUME TypeInv, NEW r \in Segments, NEW e, Record(r, e), NEW q \in Segments
    PROVE  \A j \in DOMAIN trace[q] : /\ j \in DOMAIN trace'[q]
                                      /\ trace'[q][j] = trace[q][j]
                                      /\ Approved(q, j) => Approved(q, j)'
<1>1. \A j \in DOMAIN trace[q] : j \in DOMAIN trace'[q] /\ trace'[q][j] = trace[q][j]
    BY RecordAppends
<1> QED BY <1>1 DEF Approved, Logged

LEMMA AuthInit == Init => AuthInv
BY DEF Init, AuthInv, QuarantineAuthorised, QuarantineJobApproved

\* Steps that log nothing and apply no defense.
LEMMA AuthQuiet ==
    ASSUME AuthInv, trace' = trace, defenses' = defenses,
           \A r \in Segments : pc'[r] \in {"fallback", "execute", "applied"} =>
                pc[r] \in {"fallback", "execute", "applied"} /\ job'[r] = job[r]
    PROVE  AuthInv'
BY DEF AuthInv, QuarantineAuthorised, QuarantineJobApproved, ApprovedFor, Approved,
       Logged, Quarantines

\* Steps that log something: only a QUARANTINE response needs authority.
LEMMA AuthRecord ==
    ASSUME TypeInv, AuthInv, NEW r \in Segments, NEW e, Record(r, e), defenses' = defenses,
           (e.event = "RESPONSE" /\ e.action = "QUARANTINE") => ApprovedFor(r, e.vote_id),
           \A q \in Segments \ {r} : pc'[q] = pc[q] /\ job'[q] = job[q],
           (pc'[r] \in {"fallback", "execute", "applied"} /\ job'[r].action = "QUARANTINE")
                => ApprovedFor(r, job[r].vote_id)'
    PROVE  AuthInv'
<1> DEFINE n == Len(trace[r]) + 1
<1>1. QuarantineJobApproved'
    <2> SUFFICES ASSUME NEW q \in Segments, pc'[q] \in {"fallback", "execute", "applied"},
                        job'[q].action = "QUARANTINE"
                 PROVE  ApprovedFor(q, job[q].vote_id)'
        BY DEF QuarantineJobApproved
    <2>1. CASE q = r
        BY <2>1
    <2>2. CASE q # r
        <3>1. ApprovedFor(q, job[q].vote_id) /\ job'[q] = job[q]
            BY <2>2 DEF AuthInv, QuarantineJobApproved
        <3>2. PICK j \in DOMAIN trace[q] :
                Approved(q, j) /\ trace[q][j].vote_id = job[q].vote_id
            BY <3>1 DEF ApprovedFor
        <3>3. /\ j \in DOMAIN trace'[q] /\ Approved(q, j)'
              /\ trace'[q][j].vote_id = job'[q].vote_id
            BY <3>1, <3>2, ApprovalStays
        <3> QED BY <3>3 DEF ApprovedFor
    <2> QED BY <2>1, <2>2
<1>2. ASSUME NEW q \in Segments, NEW i \in DOMAIN trace'[q], Quarantines(q, i)'
      PROVE  \E j \in 1..(i - 1) : Approved(q, j)' /\ trace'[q][j].vote_id = trace'[q][i].vote_id
    <2>1. CASE q # r \/ i # n
        <3>1. i \in DOMAIN trace[q] /\ trace'[q][i] = trace[q][i] /\ Quarantines(q, i)
            BY <1>2, <2>1, RecordAppends DEF Quarantines, Logged
        <3>2. PICK j \in 1..(i - 1) : Approved(q, j) /\ trace[q][j].vote_id = trace[q][i].vote_id
            BY <3>1 DEF AuthInv, QuarantineAuthorised
        <3>3. j \in DOMAIN trace[q]
            BY <3>2 DEF Approved, Logged
        <3> QED BY <3>1, <3>2, <3>3, ApprovalStays
    <2>2. CASE q = r /\ i = n
        <3>1. trace'[r][n] = e /\ ApprovedFor(r, e.vote_id)
            BY <1>2, <2>2, RecordAppends DEF Quarantines, Logged
        <3>2. PICK j \in DOMAIN trace[r] : Approved(r, j) /\ trace[r][j].vote_id = e.vote_id
            BY <3>1 DEF ApprovedFor
        <3>3. j \in 1..(n - 1)
            BY RecordAppends
        <3> QED BY <2>2, <3>1, <3>2, <3>3, ApprovalStays
    <2> QED BY <2>1, <2>2
<1>3. ASSUME NEW s \in Segments, "QUARANTINE" \in defenses'[s]
      PROVE  \E j \in DOMAIN trace'[s] : Approved(s, j)'
    BY <1>3, ApprovalStays DEF AuthInv, QuarantineAuthorised
<1> QED BY <1>1, <1>2, <1>3 DEF AuthInv, QuarantineAuthorised

LEMMA AuthStep == TypeInv /\ OwnThreats /\ AuthInv /\ [Next]_vars => AuthInv'
<1> SUFFICES ASSUME TypeInv, OwnThreats, AuthInv, [Next]_vars PROVE AuthInv'
    OBVIOUS
<1>1. CASE UNCHANGED vars
    BY <1>1, AuthQuiet DEF vars
<1>2. CASE Environment
    BY <1>2, AuthQuiet DEF Environment, Report, FormCoalition, Tick, Crash
<1>3. ASSUME NEW r \in Segments,
             Perceive(r) \/ KeepVote(r) \/ StepDone(r) \/ SkipContained(r) \/ StartVote(r)
      PROVE  AuthInv'
    <2>1. trace' = trace /\ defenses' = defenses
        BY <1>3 DEF Perceive, KeepVote, StepDone, SkipContained, StartVote
    <2>2. \A q \in Segments \ {r} : pc'[q] = pc[q] /\ job'[q] = job[q]
        BY <1>3 DEF TypeInv, TypeOK, Perceive, KeepVote, StepDone, SkipContained, StartVote
    <2>3. pc'[r] \notin {"fallback", "execute", "applied"}
        BY <1>3 DEF TypeInv, TypeOK, Perceive, KeepVote, StepDone, SkipContained, StartVote,
                    NextItem
    <2> QED BY <2>1, <2>2, <2>3, AuthQuiet
<1>4. ASSUME NEW r \in Segments, SendReply(r) PROVE AuthInv'
    <2> DEFINE e == [event |-> "PROPOSE", vote_id |-> Head(outbox[r]).vote_id,
                     decision |-> Head(outbox[r]).decision]
    <2>1. Record(r, e) /\ e.event # "RESPONSE"
        BY <1>4 DEF SendReply
    <2> HIDE DEF e
    <2>2. pc' = pc /\ job' = job /\ defenses' = defenses /\ pc[r] = "respond"
        BY <1>4 DEF SendReply
    <2> QED BY <2>1, <2>2, AuthRecord
<1>5. ASSUME NEW r \in Segments, ProgressVote(r) PROVE AuthInv'
    <2> DEFINE v == vote[r]
               ballots == FinalBallots(v)
               approved == Tally(ballots, Cardinality(v.members))
               e == [event |-> "VOTE_CAST", vote_id |-> v.id, members |-> v.members,
                     ballots |-> ballots, approved |-> approved, latency |-> v.elapsed]
               n == Len(trace[r]) + 1
    <2>1. Record(r, e)
        BY <1>5 DEF ProgressVote
    <2>2. v \in VoteRecord
        BY <1>5 DEF TypeInv, TypeOK, ProgressVote, Complete
    <2>3. approved => 2 * AcceptCount(ballots) > Cardinality(v.members)
        <3>1. Cardinality(v.members) \in Nat
            BY <2>2, SegmentsAssumption, FS_Subset, FS_CardinalityType DEF VoteRecord
        <3>2. ballots \in Ballots(Segments)
            BY <2>2, FinalBallotsType
        <3> HIDE DEF ballots, v
        <3> QED BY <3>1, <3>2, TallyIsMajority
    <2>4. approved => \E j \in DOMAIN trace'[r] :
                        Approved(r, j)' /\ trace'[r][j].vote_id = v.id
        <3>1. n \in DOMAIN trace'[r] /\ trace'[r][n] = e
            BY <2>1, RecordAppends
        <3>2. /\ e.event = "VOTE_CAST" /\ e.vote_id = v.id /\ e.members = v.members
              /\ e.ballots = ballots /\ e.approved = approved
            OBVIOUS
        <3> HIDE DEF e, ballots, approved, n
        <3> QED BY <2>3, <3>1, <3>2 DEF Approved, Logged
    <2>5. job'[r].action = "QUARANTINE" => approved /\ job'[r].vote_id = v.id
        BY <1>5 DEF TypeInv, TypeOK, ProgressVote
    <2>6. /\ defenses' = defenses
          /\ \A q \in Segments \ {r} : pc'[q] = pc[q] /\ job'[q] = job[q]
        BY <1>5 DEF TypeInv, TypeOK, ProgressVote
    <2>7. e.event # "RESPONSE"
        OBVIOUS
    <2>8. job'[r].action = "QUARANTINE" => ApprovedFor(r, job[r].vote_id)'
        BY <2>4, <2>5 DEF ApprovedFor
    <2> HIDE DEF e
    <2> QED BY <2>1, <2>6, <2>7, <2>8, AuthRecord
<1>6. ASSUME NEW r \in Segments, HandleThreat(r) PROVE AuthInv'
    <2> DEFINE e == [event |-> "BID", threat |-> Head(pending[r])]
    <2>1. Record(r, e) /\ e.event # "RESPONSE"
        BY <1>6 DEF HandleThreat
    <2> HIDE DEF e
    <2>2. ~(pc'[r] \in {"fallback", "execute", "applied"} /\ job'[r].action = "QUARANTINE")
        BY <1>6 DEF TypeInv, TypeOK, HandleThreat
    <2>3. /\ defenses' = defenses
          /\ \A q \in Segments \ {r} : pc'[q] = pc[q] /\ job'[q] = job[q]
        BY <1>6 DEF TypeInv, TypeOK, HandleThreat
    <2> QED BY <2>1, <2>2, <2>3, AuthRecord
<1>7. ASSUME NEW r \in Segments, Execute(r) PROVE AuthInv'
    <2> DEFINE seg == ThreatOf[job[r].threat].segment
    <2>1. trace' = trace /\ job' = job
        BY <1>7 DEF Execute
    <2>2. seg = r
        BY <1>7 DEF Execute, OwnThreats, Working, Mine, Actionable
    <2>3. QuarantineJobApproved'
        BY <1>7, <2>1 DEF TypeInv, TypeOK, Execute, AuthInv, QuarantineJobApproved,
                          ApprovedFor, Approved, Logged
    <2>4. ASSUME NEW s \in Segments, "QUARANTINE" \in defenses'[s]
          PROVE  \E j \in DOMAIN trace[s] : Approved(s, j)
        <3>1. CASE "QUARANTINE" \in defenses[s]
            BY <3>1 DEF AuthInv, QuarantineAuthorised
        <3>2. CASE "QUARANTINE" \notin defenses[s]
            <4>1. s = r /\ job[r].action = "QUARANTINE"
                BY <1>7, <2>2, <2>4, <3>2 DEF TypeInv, TypeOK, Execute
            <4>2. ApprovedFor(r, job[r].vote_id)
                BY <1>7, <4>1 DEF Execute, AuthInv, QuarantineJobApproved
            <4> QED BY <4>1, <4>2 DEF ApprovedFor
        <3> QED BY <3>1, <3>2
    <2>5. QuarantineAuthorised'
        BY <2>1, <2>4 DEF AuthInv, QuarantineAuthorised, Approved, Logged, Quarantines
    <2> QED BY <2>3, <2>5 DEF AuthInv
<1>8. ASSUME NEW r \in Segments, LogResponse(r) PROVE AuthInv'
    <2> DEFINE e == [event |-> "RESPONSE", action |-> job[r].action,
                     segment |-> ThreatOf[job[r].threat].segment,
                     threat |-> job[r].threat, vote_id |-> job[r].vote_id]
    <2>1. /\ Record(r, e) /\ defenses' = defenses
          /\ e.action = job[r].action /\ e.vote_id = job[r].vote_id
        BY <1>8 DEF LogResponse
    <2> HIDE DEF e
    <2>2. e.action = "QUARANTINE" => ApprovedFor(r, e.vote_id)
        BY <1>8, <2>1 DEF LogResponse, AuthInv, QuarantineJobApproved
    <2>3. /\ pc'[r] = "resolve"
          /\ \A q \in Segments \ {r} : pc'[q] = pc[q] /\ job'[q] = job[q]
        BY <1>8 DEF TypeInv, TypeOK, LogResponse
    <2> QED BY <2>1, <2>2, <2>3, AuthRecord
<1>9. ASSUME NEW r \in Segments, ResolveIncident(r) PROVE AuthInv'
    <2> DEFINE e == [event |-> "RESOLVED", threat |-> job[r].threat]
    <2>1. Record(r, e) /\ defenses' = defenses /\ e.event # "RESPONSE"
        BY <1>9 DEF ResolveIncident
    <2> HIDE DEF e
    <2>2. /\ pc'[r] \notin {"fallback", "execute", "applied"}
          /\ \A q \in Segments \ {r} : pc'[q] = pc[q] /\ job'[q] = job[q]
        BY <1>9 DEF TypeInv, TypeOK, ResolveIncident, NextItem
    <2> QED BY <2>1, <2>2, AuthRecord
<1>10. ASSUME NEW r \in Segments, LogFallback(r) PROVE AuthInv'
    <2> DEFINE e == [event |-> "VOTE_FAILED", threat |-> job[r].threat]
    <2>1. Record(r, e) /\ defenses' = defenses /\ job' = job /\ e.event # "RESPONSE"
        BY <1>10 DEF LogFallback
    <2>2. /\ pc[r] = "fallback"
          /\ \A q \in Segments \ {r} : pc'[q] = pc[q]
        BY <1>10 DEF TypeInv, TypeOK, LogFallback
    <2> HIDE DEF e
    <2>3. job[r].action = "QUARANTINE" => ApprovedFor(r, job[r].vote_id)'
        <3>1. SUFFICES ASSUME job[r].action = "QUARANTINE"
                       PROVE  ApprovedFor(r, job[r].vote_id)'
            OBVIOUS
        <3>2. PICK j \in DOMAIN trace[r] :
                Approved(r, j) /\ trace[r][j].vote_id = job[r].vote_id
            BY <2>2, <3>1 DEF AuthInv, QuarantineJobApproved, ApprovedFor
        <3>3. /\ j \in DOMAIN trace'[r] /\ Approved(r, j)'
              /\ trace'[r][j].vote_id = job'[r].vote_id
            BY <2>1, <3>2, ApprovalStays
        <3> QED BY <3>3 DEF ApprovedFor
    <2> QED BY <2>1, <2>2, <2>3, AuthRecord
<1> QED BY <1>1, <1>2, <1>3, <1>4, <1>5, <1>6, <1>7, <1>8, <1>9, <1>10
        DEF Next, RcaStep, Respond

\* FR-11 for every fleet: no segment is quarantined without an approved vote of
\* its own RCA, and the logged response carries that vote's id
\* (agents/rca/agent.py _progress_vote, _execute).
THEOREM QuarantinesAreAuthorised == Spec => []QuarantineAuthorised
<1>1. Init => TypeInv /\ OwnThreats /\ AuthInv
    BY TypeInit, OwnInit, AuthInit
<1>2. TypeInv /\ OwnThreats /\ AuthInv /\ [Next]_vars => (TypeInv /\ OwnThreats /\ AuthInv)'
    BY TypeStep, OwnStep, AuthStep
<1>3. TypeInv /\ OwnThreats /\ AuthInv => QuarantineAuthorised
    BY DEF AuthInv
<1> QED BY <1>1, <1>2, <1>3, PTL DEF Spec

-----------------------------------------------------------------------------
(* A quarantined segment is never acted on again *)

\* An RCA remembers what it quarantined, and neither the response it is carrying
\* out nor the vote in progress is about a segment it quarantined already: a vote
\* cannot be in progress while a quarantine is being executed.
ContainmentKnown ==
    \A r \in Segments :
        /\ \A i \in DOMAIN trace[r] :
                Quarantines(r, i) => trace[r][i].segment \in quarantined[r]
        /\ pc[r] \in {"start_vote", "fallback", "execute", "applied"} =>
                ~Contained(r, job[r].threat)
        /\ vote[r] # NoVote => ~Contained(r, vote[r].threat)
        /\ (pc[r] \in {"fallback", "execute", "applied"} /\ job[r].action = "QUARANTINE")
                => vote[r] = NoVote

FinalInv == ContainmentKnown /\ QuarantineIsFinal

LEMMA FinalInit == Init => FinalInv
BY DEF Init, FinalInv, ContainmentKnown, QuarantineIsFinal

\* Steps that log nothing and quarantine nothing.
LEMMA FinalQuiet ==
    ASSUME FinalInv, trace' = trace, quarantined' = quarantined,
           \A r \in Segments :
              /\ pc'[r] \in {"start_vote", "fallback", "execute", "applied"} =>
                    pc'[r] = pc[r] /\ job'[r] = job[r]
              /\ vote'[r] # NoVote =>
                    \/ vote[r] # NoVote /\ vote'[r].threat = vote[r].threat
                    \/ ~Contained(r, vote'[r].threat)
              /\ (pc'[r] \in {"fallback", "execute", "applied"} /\ vote[r] = NoVote)
                    => vote'[r] = NoVote
    PROVE  FinalInv'
<1>1. QuarantineIsFinal'
    BY DEF FinalInv, QuarantineIsFinal, Quarantines, Logged
<1>2. ContainmentKnown'
    BY DEF FinalInv, ContainmentKnown, Quarantines, Logged, Contained
<1> QED BY <1>1, <1>2 DEF FinalInv

\* Steps that log an event other than a response.
LEMMA FinalRecord ==
    ASSUME TypeInv, FinalInv, NEW r \in Segments, NEW e, Record(r, e), e.event # "RESPONSE",
           quarantined' = quarantined,
           \A q \in Segments \ {r} : pc'[q] = pc[q] /\ job'[q] = job[q] /\ vote'[q] = vote[q],
           pc'[r] \in {"start_vote", "fallback", "execute", "applied"} =>
                ~Contained(r, job'[r].threat),
           vote'[r] \in {vote[r], NoVote},
           (pc'[r] \in {"fallback", "execute", "applied"} /\ job'[r].action = "QUARANTINE")
                => vote'[r] = NoVote
    PROVE  FinalInv'
<1>1. \A q \in Segments : \A i \in DOMAIN trace'[q] : Logged(q, i, "RESPONSE")' =>
            i \in DOMAIN trace[q] /\ trace'[q][i] = trace[q][i] /\ Logged(q, i, "RESPONSE")
    BY RecordAppends DEF Logged
<1>2. QuarantineIsFinal'
    BY <1>1 DEF FinalInv, QuarantineIsFinal, Quarantines
<1>3. ContainmentKnown'
    BY <1>1 DEF FinalInv, ContainmentKnown, Quarantines, Contained
<1> QED BY <1>2, <1>3 DEF FinalInv

LEMMA FinalStep == TypeInv /\ FinalInv /\ [Next]_vars => FinalInv'
<1> SUFFICES ASSUME TypeInv, FinalInv, [Next]_vars PROVE FinalInv'
    OBVIOUS
<1>1. CASE UNCHANGED vars
    BY <1>1, FinalQuiet DEF vars
<1>2. CASE Environment
    <2>1. CASE Tick
        <3>1. \A r \in Segments : /\ vote'[r] # NoVote => vote[r] # NoVote
                                                      /\ vote'[r].threat = vote[r].threat
                                  /\ vote[r] = NoVote => vote'[r] = NoVote
            BY <2>1 DEF TypeInv, TypeOK, Tick, VoteRecord
        <3> QED BY <2>1, <3>1, FinalQuiet DEF Tick
    <2>2. CASE ~Tick
        BY <1>2, <2>2, FinalQuiet DEF Environment, Report, FormCoalition, Crash
    <2> QED BY <2>1, <2>2
<1>3. ASSUME NEW r \in Segments, Perceive(r) PROVE FinalInv'
    <2>1. vote'[r] # NoVote => vote[r] # NoVote /\ vote'[r].threat = vote[r].threat
        <3>1. vote'[r] = OnVoteResponses(r)
            BY <1>3 DEF TypeInv, TypeOK, Perceive
        <3>2. vote[r] # NoVote => vote[r] \in VoteRecord
            BY DEF TypeInv, TypeOK
        <3> QED BY <3>1, <3>2 DEF OnVoteResponses, VoteRecord
    <2>2. pc'[r] \notin {"start_vote", "fallback", "execute", "applied"}
        BY <1>3 DEF TypeInv, TypeOK, Perceive
    <2>3. \A q \in Segments \ {r} : pc'[q] = pc[q] /\ vote'[q] = vote[q]
        BY <1>3 DEF Perceive
    <2> QED BY <1>3, <2>1, <2>2, <2>3, FinalQuiet DEF Perceive
<1>4. ASSUME NEW r \in Segments, KeepVote(r) \/ StepDone(r) \/ SkipContained(r)
      PROVE  FinalInv'
    <2>1. pc'[r] \notin {"start_vote", "fallback", "execute", "applied"}
        BY <1>4 DEF TypeInv, TypeOK, KeepVote, StepDone, SkipContained, NextItem
    <2>2. \A q \in Segments \ {r} : pc'[q] = pc[q]
        <3>1. pc \in [Segments -> PcLabels] /\ \E l : pc' = [pc EXCEPT ![r] = l]
            BY <1>4 DEF TypeInv, TypeOK, KeepVote, StepDone, SkipContained
        <3> QED BY <3>1
    <2> QED BY <1>4, <2>1, <2>2, FinalQuiet DEF KeepVote, StepDone, SkipContained
<1>5. ASSUME NEW r \in Segments, StartVote(r) PROVE FinalInv'
    <2>1. ~Contained(r, vote'[r].threat) /\ pc'[r] = "idle"
        BY <1>5 DEF TypeInv, TypeOK, StartVote, FinalInv, ContainmentKnown
    <2>2. \A q \in Segments \ {r} : pc'[q] = pc[q] /\ job'[q] = job[q] /\ vote'[q] = vote[q]
        BY <1>5 DEF StartVote
    <2> QED BY <1>5, <2>1, <2>2, FinalQuiet DEF StartVote
<1>6. ASSUME NEW r \in Segments, Execute(r) PROVE FinalInv'
    <2>1. /\ trace' = trace /\ quarantined' = quarantined /\ job' = job /\ vote' = vote
          /\ pc[r] = "execute" /\ pc' = [pc EXCEPT ![r] = "applied"]
        BY <1>6 DEF Execute
    <2>2. QuarantineIsFinal'
        BY <2>1 DEF FinalInv, QuarantineIsFinal, Quarantines, Logged
    <2>3. ContainmentKnown'
        BY <2>1 DEF TypeInv, TypeOK, FinalInv, ContainmentKnown, Quarantines, Logged, Contained
    <2> QED BY <2>2, <2>3 DEF FinalInv
<1>7. ASSUME NEW r \in Segments, SendReply(r) PROVE FinalInv'
    <2> DEFINE e == [event |-> "PROPOSE", vote_id |-> Head(outbox[r]).vote_id,
                     decision |-> Head(outbox[r]).decision]
    <2>1. Record(r, e) /\ e.event # "RESPONSE"
        BY <1>7 DEF SendReply
    <2> HIDE DEF e
    <2> QED BY <1>7, <2>1, FinalRecord DEF SendReply
<1>8. ASSUME NEW r \in Segments, ProgressVote(r) PROVE FinalInv'
    <2> DEFINE v == vote[r]
               ballots == FinalBallots(v)
               approved == Tally(ballots, Cardinality(v.members))
               e == [event |-> "VOTE_CAST", vote_id |-> v.id, members |-> v.members,
                     ballots |-> ballots, approved |-> approved, latency |-> v.elapsed]
    <2>1. Record(r, e) /\ e.event # "RESPONSE" /\ quarantined' = quarantined
        BY <1>8 DEF ProgressVote
    <2>2. vote'[r] = NoVote /\ job'[r].threat = v.threat /\ v # NoVote
        BY <1>8 DEF TypeInv, TypeOK, ProgressVote, Complete
    <2>3. ~Contained(r, job'[r].threat)
        BY <2>2 DEF FinalInv, ContainmentKnown
    <2>4. \A q \in Segments \ {r} : pc'[q] = pc[q] /\ job'[q] = job[q] /\ vote'[q] = vote[q]
        BY <1>8 DEF ProgressVote
    <2> HIDE DEF e
    <2> QED BY <2>1, <2>2, <2>3, <2>4, FinalRecord
<1>9. ASSUME NEW r \in Segments, HandleThreat(r) PROVE FinalInv'
    <2> DEFINE t == Head(pending[r])
               e == [event |-> "BID", threat |-> t]
    <2>1. Record(r, e) /\ e.event # "RESPONSE" /\ quarantined' = quarantined /\ vote' = vote
        BY <1>9 DEF HandleThreat
    <2>2. job'[r].threat = t /\ ~Contained(r, t)
        BY <1>9 DEF TypeInv, TypeOK, HandleThreat
    <2>3. ~(pc'[r] \in {"fallback", "execute", "applied"} /\ job'[r].action = "QUARANTINE")
        BY <1>9 DEF TypeInv, TypeOK, HandleThreat
    <2>4. \A q \in Segments \ {r} : pc'[q] = pc[q] /\ job'[q] = job[q]
        BY <1>9 DEF HandleThreat
    <2> HIDE DEF e, t
    <2> QED BY <2>1, <2>2, <2>3, <2>4, FinalRecord
<1>10. ASSUME NEW r \in Segments, ResolveIncident(r) PROVE FinalInv'
    <2> DEFINE e == [event |-> "RESOLVED", threat |-> job[r].threat]
    <2>1. Record(r, e) /\ e.event # "RESPONSE" /\ quarantined' = quarantined /\ vote' = vote
        BY <1>10 DEF ResolveIncident
    <2>2. /\ pc'[r] \notin {"start_vote", "fallback", "execute", "applied"}
          /\ \A q \in Segments \ {r} : pc'[q] = pc[q] /\ job'[q] = job[q]
        BY <1>10 DEF TypeInv, TypeOK, ResolveIncident, NextItem
    <2> HIDE DEF e
    <2> QED BY <2>1, <2>2, FinalRecord
<1>11. ASSUME NEW r \in Segments, LogResponse(r) PROVE FinalInv'
    <2> DEFINE seg == ThreatOf[job[r].threat].segment
               e == [event |-> "RESPONSE", action |-> job[r].action, segment |-> seg,
                     threat |-> job[r].threat, vote_id |-> job[r].vote_id]
               n == Len(trace[r]) + 1
    <2>1. /\ Record(r, e) /\ e.action = job[r].action /\ e.segment = seg
          /\ seg \notin quarantined[r]
        BY <1>11 DEF LogResponse, FinalInv, ContainmentKnown, Contained
    <2> HIDE DEF e
    <2>2. /\ \A q \in Segments \ {r} : /\ quarantined'[q] = quarantined[q]
                                       /\ pc'[q] = pc[q]
          /\ vote' = vote /\ job' = job /\ pc'[r] = "resolve"
          /\ quarantined'[r] = IF e.action = "QUARANTINE" THEN quarantined[r] \cup {seg}
                               ELSE quarantined[r]
        BY <1>11, <2>1 DEF TypeInv, TypeOK, LogResponse
    <2>3. ASSUME NEW q \in Segments, NEW i \in DOMAIN trace'[q], q # r \/ i # n
          PROVE  i \in DOMAIN trace[q] /\ trace'[q][i] = trace[q][i]
        BY <2>1, <2>3, RecordAppends
    <2>4. trace'[r][n] = e /\ \A i \in DOMAIN trace'[r] : i \in Nat /\ i <= n
        BY <2>1, RecordAppends
    <2> HIDE DEF n, seg
    <2>5. ASSUME NEW q \in Segments, NEW i \in DOMAIN trace'[q], Quarantines(q, i)'
          PROVE  trace'[q][i].segment \in quarantined'[q]
        <3>1. CASE q = r /\ i = n
            BY <2>1, <2>2, <2>4, <2>5, <3>1 DEF Quarantines, Logged
        <3>2. CASE q # r \/ i # n
            BY <2>2, <2>3, <2>5, <3>2 DEF FinalInv, ContainmentKnown, Quarantines, Logged
        <3> QED BY <3>1, <3>2
    <2>6. ASSUME NEW q \in Segments, NEW i \in DOMAIN trace'[q], NEW j \in DOMAIN trace'[q],
                 Quarantines(q, i)', Logged(q, j, "RESPONSE")', j > i
          PROVE  trace'[q][j].segment # trace'[q][i].segment
        <3>1. CASE q = r /\ j = n
            <4>1. i # n
                BY <2>4, <2>6, <3>1
            <4>2. trace[r][i].segment \in quarantined[r] /\ trace'[r][i] = trace[r][i]
                BY <2>3, <2>6, <3>1, <4>1 DEF FinalInv, ContainmentKnown, Quarantines, Logged
            <4> QED BY <2>1, <2>4, <3>1, <4>2
        <3>2. CASE q # r \/ j # n
            <4>1. q # r \/ i # n
                BY <2>4, <2>6, <3>2
            <4> QED BY <2>3, <2>6, <3>2, <4>1
                    DEF FinalInv, QuarantineIsFinal, Quarantines, Logged
        <3> QED BY <3>1, <3>2
    <2>7. vote[r] # NoVote => quarantined'[r] = quarantined[r]
        BY <1>11, <2>1, <2>2 DEF LogResponse, FinalInv, ContainmentKnown
    <2>8. ContainmentKnown'
        BY <2>2, <2>5, <2>7 DEF FinalInv, ContainmentKnown, Contained
    <2> QED BY <2>6, <2>8 DEF FinalInv, QuarantineIsFinal
<1>12. ASSUME NEW r \in Segments, LogFallback(r) PROVE FinalInv'
    <2> DEFINE e == [event |-> "VOTE_FAILED", threat |-> job[r].threat]
    <2>1. Record(r, e) /\ e.event # "RESPONSE" /\ quarantined' = quarantined /\ vote' = vote
        BY <1>12 DEF LogFallback
    <2>2. /\ pc[r] = "fallback" /\ job' = job
          /\ \A q \in Segments \ {r} : pc'[q] = pc[q]
        BY <1>12 DEF TypeInv, TypeOK, LogFallback
    <2>3. /\ ~Contained(r, job'[r].threat)
          /\ job'[r].action = "QUARANTINE" => vote'[r] = NoVote
        BY <2>1, <2>2 DEF FinalInv, ContainmentKnown
    <2> HIDE DEF e
    <2> QED BY <2>1, <2>2, <2>3, FinalRecord
<1> QED BY <1>1, <1>2, <1>3, <1>4, <1>5, <1>6, <1>7, <1>8, <1>9, <1>10, <1>11, <1>12
        DEF Next, RcaStep, Respond

\* No redundant response (agents/rca/agent.py:137): whatever reports are still
\* pending or arrive later, an RCA never acts again on what it has quarantined.
THEOREM QuarantinesAreFinal == Spec => []QuarantineIsFinal
<1>1. Init => TypeInv /\ FinalInv
    BY TypeInit, FinalInit
<1>2. TypeInv /\ FinalInv /\ [Next]_vars => (TypeInv /\ FinalInv)'
    BY TypeStep, FinalStep
<1>3. FinalInv => QuarantineIsFinal
    BY DEF FinalInv
<1> QED BY <1>1, <1>2, <1>3, PTL DEF Spec
-----------------------------------------------------------------------------
(***************************************************************************)
(* The ballots of a vote: an ACCEPT that is counted was cast for this very *)
(* vote, and a quarantine is given up only when time runs out.             *)
(***************************************************************************)
-----------------------------------------------------------------------------
(* Everybody who is asked accepts *)

\* Only severe threats are put to a vote, and "load" is always low: so every
\* ballot that is cast, sent, received or counted says ACCEPT.  A coalition has
\* members: the TIA forms none of fewer than two.
SevereRequests == {q \in Requests : q.severity >= LocalSeverityThreshold}
Accepts(r) == {m \in Replies : m.voter_id = r /\ m.decision = "ACCEPT"}
Willing ==
    \A r \in Segments :
        /\ inbox[r].requests \in Seq(SevereRequests)
        /\ \A m \in inbox[r].ballots : m.decision = "ACCEPT"
        /\ inbox[r].coalitions \in Seq((SUBSET Segments) \ {{}})
        /\ outbox[r] \in Seq(Accepts(r))
        /\ voters[r] # {}
        /\ vote[r] # NoVote =>
              /\ vote[r].members # {}
              /\ \A v \in Segments : vote[r].ballots[v] \in {"ACCEPT", "NONE"}

LEMMA EmptyQueue == \A S : <<>> \in Seq(S)
OBVIOUS

LEMMA WillingInit == Init => Willing
<1> SUFFICES ASSUME Init, NEW r \in Segments
             PROVE  /\ inbox[r].requests \in Seq(SevereRequests)
                    /\ \A m \in inbox[r].ballots : m.decision = "ACCEPT"
                    /\ inbox[r].coalitions \in Seq((SUBSET Segments) \ {{}})
                    /\ outbox[r] \in Seq(Accepts(r))
                    /\ voters[r] # {}
                    /\ vote[r] = NoVote
    BY DEF Willing
<1>1. /\ inbox[r].requests = <<>> /\ inbox[r].ballots = {} /\ inbox[r].coalitions = <<>>
      /\ outbox[r] = <<>> /\ voters[r] = {r} /\ vote[r] = NoVote
    BY DEF Init, EmptyInbox
<1> QED BY <1>1, EmptyQueue

\* Steps that leave messages, coalitions and votes as they are.
LEMMA WillingQuiet ==
    ASSUME Willing, outbox' = outbox, voters' = voters,
           \A r \in Segments :
              /\ inbox'[r].requests = inbox[r].requests
              /\ inbox'[r].ballots = inbox[r].ballots
              /\ inbox'[r].coalitions = inbox[r].coalitions
              /\ vote'[r] # NoVote => /\ vote[r] # NoVote
                                      /\ vote'[r].members = vote[r].members
                                      /\ vote'[r].ballots = vote[r].ballots
    PROVE  Willing'
BY DEF Willing

LEMMA WillingPerceive ==
    ASSUME TypeInv, Willing, NEW r \in Segments, Perceive(r)
    PROVE  Willing'
<1> USE DEF TypeInv, TypeOK
<1>1. \A q \in Segments \ {r} : /\ inbox'[q] = inbox[q] /\ outbox'[q] = outbox[q]
                                /\ voters'[q] = voters[q] /\ vote'[q] = vote[q]
    BY DEF Perceive
<1>2. /\ inbox'[r].requests = <<>> /\ inbox'[r].ballots = {} /\ inbox'[r].coalitions = <<>>
    BY DEF Perceive, EmptyInbox
<1>3. outbox'[r] \in Seq(Accepts(r))
    <2> DEFINE reqs == inbox[r].requests
               reply(i) == [vote_id |-> reqs[i].vote_id, voter_id |-> r,
                            decision |-> EvaluateVote(reqs[i].severity, Load)]
               replies == [i \in DOMAIN reqs |-> reply(i)]
    <2>1. reqs \in Seq(SevereRequests)
        BY DEF Willing
    <2>2. \A i \in DOMAIN reqs : reply(i) \in Accepts(r)
        <3>1. \A i \in DOMAIN reqs : reqs[i] \in SevereRequests
            BY <2>1
        <3> QED BY <3>1 DEF SevereRequests, Requests, Accepts, Replies, EvaluateVote, Load,
                            LoadThreshold, Decisions
    <2>3. replies \in Seq(Accepts(r))
        <3> HIDE DEF reply
        <3>1. DOMAIN reqs = 1..Len(reqs) /\ Len(reqs) \in Nat
            BY <2>1
        <3> QED BY <2>2, <3>1
    <2>4. outbox[r] \o replies \in Seq(Accepts(r))
        <3> HIDE DEF replies
        <3> QED BY <2>3 DEF Willing
    <2>5. outbox'[r] = outbox[r] \o replies
        BY DEF Perceive, OnVoteRequests
    <2> QED BY <2>4, <2>5
<1>4. voters'[r] # {}
    <2>1. inbox[r].coalitions \in Seq((SUBSET Segments) \ {{}})
        BY DEF Willing
    <2>2. inbox[r].coalitions # <<>> =>
                inbox[r].coalitions[Len(inbox[r].coalitions)] # {}
        BY <2>1
    <2>3. voters'[r] = OnCoalitions(r)
        BY DEF Perceive
    <2> QED BY <2>2, <2>3 DEF OnCoalitions, Willing
<1>5. ASSUME vote'[r] # NoVote
      PROVE  /\ vote'[r].members # {}
             /\ \A v \in Segments : vote'[r].ballots[v] \in {"ACCEPT", "NONE"}
    <2>1. vote'[r] = OnVoteResponses(r) /\ vote[r] # NoVote
        BY <1>5 DEF Perceive, OnVoteResponses
    <2>2. vote[r] \in VoteRecord
        BY <2>1
    <2>3. ASSUME NEW v \in Segments, \E m \in BallotsOf(r) : m.voter_id = v
          PROVE  (CHOOSE m \in BallotsOf(r) : m.voter_id = v).decision = "ACCEPT"
        BY <2>3 DEF BallotsOf, Willing
    <2>4. \A v \in Segments : vote'[r].ballots[v] =
                IF \E m \in BallotsOf(r) : m.voter_id = v
                THEN (CHOOSE m \in BallotsOf(r) : m.voter_id = v).decision
                ELSE vote[r].ballots[v]
        BY <2>1, <2>2 DEF OnVoteResponses, VoteRecord
    <2>5. vote'[r].members = vote[r].members
        BY <2>1, <2>2 DEF OnVoteResponses, VoteRecord
    <2>6. /\ vote[r].members # {}
          /\ \A v \in Segments : vote[r].ballots[v] \in {"ACCEPT", "NONE"}
        BY <2>1 DEF Willing
    <2> HIDE DEF TypeInv, TypeOK
    <2> QED BY <2>3, <2>4, <2>5, <2>6
<1> HIDE DEF TypeInv, TypeOK
<1>6. /\ inbox'[r].requests \in Seq(SevereRequests)
      /\ inbox'[r].coalitions \in Seq((SUBSET Segments) \ {{}})
    BY <1>2, EmptyQueue
<1>7. ASSUME NEW q \in Segments
      PROVE  /\ inbox'[q].requests \in Seq(SevereRequests)
             /\ \A m \in inbox'[q].ballots : m.decision = "ACCEPT"
             /\ inbox'[q].coalitions \in Seq((SUBSET Segments) \ {{}})
             /\ outbox'[q] \in Seq(Accepts(q))
             /\ voters'[q] # {}
             /\ vote'[q] # NoVote =>
                   /\ vote'[q].members # {}
                   /\ \A v \in Segments : vote'[q].ballots[v] \in {"ACCEPT", "NONE"}
    <2>1. CASE q = r
        BY <1>2, <1>3, <1>4, <1>5, <1>6, <2>1
    <2>2. CASE q # r
        BY <1>1, <2>2 DEF Willing
    <2> QED BY <2>1, <2>2
<1> HIDE DEF Accepts
<1> QED BY <1>7 DEF Willing

LEMMA WillingSendReply ==
    ASSUME TypeInv, Willing, NEW r \in Segments, SendReply(r)
    PROVE  Willing'
<1> DEFINE m == Head(outbox[r])
<1>1. m \in Accepts(r) /\ Tail(outbox[r]) \in Seq(Accepts(r))
    <2>1. outbox[r] \in Seq(Accepts(r)) /\ outbox[r] # <<>>
        BY DEF SendReply, Willing
    <2> QED BY <2>1, PopQueue
<1>2. m.vote_id.rca \in Segments /\ m.decision = "ACCEPT"
    BY <1>1 DEF Accepts, Replies, VoteIds
<1>3. inbox' = [inbox EXCEPT ![m.vote_id.rca].ballots = @ \cup {m}]
    BY DEF SendReply, BroadcastReply
<1>4. outbox' = [outbox EXCEPT ![r] = Tail(@)] /\ voters' = voters /\ vote' = vote
    BY DEF SendReply
<1> HIDE DEF m
<1>5. \A q \in Segments : /\ inbox'[q].requests = inbox[q].requests
                          /\ inbox'[q].coalitions = inbox[q].coalitions
                          /\ inbox'[q].ballots \subseteq inbox[q].ballots \cup {m}
    <2> TAKE q \in Segments
    <2>1. inbox[q] \in Inbox /\ inbox \in [Segments -> Inbox]
        BY DEF TypeInv, TypeOK
    <2>2. CASE q # m.vote_id.rca
        BY <1>2, <1>3, <2>1, <2>2
    <2>3. CASE q = m.vote_id.rca
        <3>1. inbox'[q] = [inbox[q] EXCEPT !.ballots = @ \cup {m}]
            BY <1>2, <1>3, <2>1, <2>3
        <3> QED BY <2>1, <3>1 DEF Inbox
    <2> QED BY <2>2, <2>3
<1>6. \A q \in Segments : outbox'[q] \in Seq(Accepts(q))
    BY <1>1, <1>4 DEF Willing, TypeInv, TypeOK
<1> QED BY <1>2, <1>4, <1>5, <1>6 DEF Willing

LEMMA WillingStartVote ==
    ASSUME TypeInv, OwnThreats, Willing, NEW r \in Segments, StartVote(r)
    PROVE  Willing'
<1> USE DEF TypeInv, TypeOK
<1> DEFINE t == job[r].threat
           q == [vote_id |-> FreshVoteId(r), severity |-> ThreatOf[t].severity]
<1>1. t \in Threats /\ ThreatOf[t].severity >= 70 /\ ThreatOf[t].severity \in Severities
    BY ThreatsAssumption DEF StartVote, OwnThreats, Working, Mine, Actionable,
                             SeverityThreshold, ThreatRecord
<1>2. q \in SevereRequests
    BY <1>1 DEF SevereRequests, Requests, LocalSeverityThreshold, FreshVoteId, VoteIds
<1>3. /\ \A s \in Segments : \/ inbox'[s] = inbox[s]
                             \/ inbox'[s] = [inbox[s] EXCEPT !.requests = Append(@, q)]
      /\ outbox' = outbox /\ voters' = voters
    BY DEF StartVote, BroadcastRequest
<1> HIDE DEF q
<1>4. \A s \in Segments : /\ inbox'[s].requests \in Seq(SevereRequests)
                          /\ inbox'[s].ballots = inbox[s].ballots
                          /\ inbox'[s].coalitions = inbox[s].coalitions
    <2> TAKE s \in Segments
    <2>1. inbox[s] \in Inbox /\ inbox[s].requests \in Seq(SevereRequests)
        BY DEF Willing
    <2>2. CASE inbox'[s] = inbox[s]
        BY <2>1, <2>2
    <2>3. CASE inbox'[s] = [inbox[s] EXCEPT !.requests = Append(@, q)]
        <3>1. Append(inbox[s].requests, q) \in Seq(SevereRequests)
            BY <1>2, <2>1
        <3> QED BY <2>1, <2>3, <3>1 DEF Inbox
    <2> QED BY <1>3, <2>2, <2>3
<1>5. /\ vote'[r].members # {}
      /\ \A v \in Segments : vote'[r].ballots[v] \in {"ACCEPT", "NONE"}
    <2>1. /\ vote'[r].members = voters[r]
          /\ vote'[r].ballots = [m \in Segments |->
                IF m = r THEN EvaluateVote(ThreatOf[t].severity, Load) ELSE "NONE"]
        BY DEF StartVote
    <2>2. EvaluateVote(ThreatOf[t].severity, Load) = "ACCEPT"
        BY <1>1 DEF EvaluateVote, Severities, LocalSeverityThreshold, Load, LoadThreshold
    <2> QED BY <2>1, <2>2 DEF Willing
<1>6. \A s \in Segments \ {r} : vote'[s] = vote[s]
    BY DEF StartVote
<1> QED BY <1>3, <1>4, <1>5, <1>6 DEF Willing

LEMMA WillingStep == TypeInv /\ OwnThreats /\ Willing /\ [Next]_vars => Willing'
<1> SUFFICES ASSUME TypeInv, OwnThreats, Willing, [Next]_vars PROVE Willing'
    OBVIOUS
<1>1. CASE UNCHANGED vars
    BY <1>1, WillingQuiet DEF vars
<1>2. ASSUME NEW t \in Threats, Report(t) PROVE Willing'
    <2>1. \A r \in Segments : /\ inbox'[r].requests = inbox[r].requests
                              /\ inbox'[r].ballots = inbox[r].ballots
                              /\ inbox'[r].coalitions = inbox[r].coalitions
        BY <1>2 DEF Report, TypeInv, TypeOK, Inbox
    <2> QED BY <1>2, <2>1, WillingQuiet DEF Report
<1>3. ASSUME NEW S \in SUBSET Segments, FormCoalition(S) PROVE Willing'
    <2>1. S # {}
        <3>1. Cardinality(S) >= 2
            BY <1>3 DEF FormCoalition
        <3>2. S = {} => Cardinality(S) = 0
            BY FS_EmptySet
        <3> QED BY <3>1, <3>2
    <2>2. \A r \in Segments : /\ inbox'[r].requests = inbox[r].requests
                              /\ inbox'[r].ballots = inbox[r].ballots
                              /\ inbox'[r].coalitions \in Seq((SUBSET Segments) \ {{}})
        <3> TAKE r \in Segments
        <3>1. inbox[r] \in Inbox /\ inbox[r].coalitions \in Seq((SUBSET Segments) \ {{}})
            BY DEF TypeInv, TypeOK, Willing
        <3>2. Append(inbox[r].coalitions, S) \in Seq((SUBSET Segments) \ {{}})
            BY <2>1, <3>1
        <3>3. inbox'[r] = IF r \in S THEN [inbox[r] EXCEPT !.coalitions = Append(@, S)]
                          ELSE inbox[r]
            BY <1>3 DEF FormCoalition
        <3> QED BY <3>1, <3>2, <3>3 DEF Inbox
    <2> QED BY <1>3, <2>2 DEF FormCoalition, Willing
<1>4. CASE Tick
    <2>1. \A r \in Segments : vote'[r] # NoVote => /\ vote[r] # NoVote
                                                   /\ vote'[r].members = vote[r].members
                                                   /\ vote'[r].ballots = vote[r].ballots
        BY <1>4 DEF Tick, TypeInv, TypeOK, VoteRecord
    <2> QED BY <1>4, <2>1, WillingQuiet DEF Tick
<1>5. ASSUME NEW r \in Segments,
             Crash(r) \/ KeepVote(r) \/ StepDone(r) \/ SkipContained(r) \/ HandleThreat(r)
             \/ LogFallback(r) \/ Execute(r) \/ LogResponse(r) \/ ResolveIncident(r)
      PROVE  Willing'
    BY <1>5, WillingQuiet DEF Crash, KeepVote, StepDone, SkipContained, HandleThreat,
                              LogFallback, Execute, LogResponse, ResolveIncident
<1>6. ASSUME NEW r \in Segments, ProgressVote(r) PROVE Willing'
    <2>1. \A q \in Segments : vote'[q] # NoVote => vote'[q] = vote[q]
        BY <1>6 DEF ProgressVote, TypeInv, TypeOK
    <2> QED BY <1>6, <2>1, WillingQuiet DEF ProgressVote
<1> QED BY <1>1, <1>2, <1>3, <1>4, <1>5, <1>6, WillingPerceive, WillingSendReply,
           WillingStartVote
        DEF Next, Environment, RcaStep, Respond

-----------------------------------------------------------------------------
(* A quarantine is given up only at the deadline *)

\* With as many ACCEPTs as members the tally passes: the majority of a coalition
\* is never more than the coalition.
LEMMA FullHouseApproves ==
    ASSUME NEW v \in VoteRecord, v.members # {},
           \A m \in Segments : v.ballots[m] \in {"ACCEPT", "NONE"},
           BallotCount(v.ballots) >= Cardinality(v.members)
    PROVE  Tally(FinalBallots(v), Cardinality(v.members))
<1> DEFINE n == Cardinality(v.members)
<1>1. n \in Nat /\ n # 0
    <2>1. IsFiniteSet(v.members)
        BY SegmentsAssumption, FS_Subset DEF VoteRecord
    <2> QED BY <2>1, FS_CardinalityType, FS_EmptySet
<1>2. FinalBallots(v) \in Ballots(Segments) /\ v.ballots \in Ballots(Segments)
    BY FinalBallotsType DEF VoteRecord
<1>3. {m \in DOMAIN FinalBallots(v) : FinalBallots(v)[m] = "ACCEPT"}
        = {m \in DOMAIN v.ballots : v.ballots[m] # "NONE"}
    <2>1. DOMAIN FinalBallots(v) = Segments /\ DOMAIN v.ballots = Segments
        BY <1>2 DEF Ballots
    <2>2. ASSUME NEW m \in Segments
          PROVE  FinalBallots(v)[m] = "ACCEPT" <=> v.ballots[m] # "NONE"
        BY DEF FinalBallots
    <2> QED BY <2>1, <2>2
<1>4. AcceptCount(FinalBallots(v)) = BallotCount(v.ballots)
    BY <1>3 DEF AcceptCount, BallotCount
<1>5. BallotCount(v.ballots) \in Nat
    BY <1>2, CountsAreNat
<1>6. n >= n \div 2 + 1
    <2> HIDE DEF n
    <2> QED BY <1>1
<1>7. n \div 2 + 1 \in Int
    <2> HIDE DEF n
    <2> QED BY <1>1
<1> QED BY <1>1, <1>4, <1>5, <1>6, <1>7 DEF Tally, MajorityThreshold

\* Logging anything but a vote that failed early keeps the property.
LEMMA FallbackRecord ==
    ASSUME TypeInv, FallbackOnlyAtDeadline, NEW r \in Segments, NEW e, Record(r, e),
           (e.event = "VOTE_CAST" /\ ~e.approved) => e.latency = Deadline
    PROVE  FallbackOnlyAtDeadline'
<1> SUFFICES ASSUME NEW q \in Segments, NEW i \in DOMAIN trace'[q],
                    Logged(q, i, "VOTE_CAST")', ~trace'[q][i].approved
             PROVE  trace'[q][i].latency = Deadline
    BY DEF FallbackOnlyAtDeadline
<1>1. CASE i \in DOMAIN trace[q] /\ trace'[q][i] = trace[q][i]
    BY <1>1 DEF FallbackOnlyAtDeadline, Logged
<1>2. CASE q = r /\ trace'[q][i] = e
    BY <1>2 DEF Logged
<1> QED BY <1>1, <1>2, RecordAppends

LEMMA FallbackStep ==
    TypeInv /\ Willing /\ FallbackOnlyAtDeadline /\ [Next]_vars => FallbackOnlyAtDeadline'
<1> SUFFICES ASSUME TypeInv, Willing, FallbackOnlyAtDeadline, [Next]_vars
             PROVE  FallbackOnlyAtDeadline'
    OBVIOUS
<1>1. CASE trace' = trace
    BY <1>1 DEF FallbackOnlyAtDeadline, Logged
<1>2. ASSUME NEW r \in Segments, ProgressVote(r) PROVE FallbackOnlyAtDeadline'
    <2> DEFINE v == vote[r]
               ballots == FinalBallots(v)
               approved == Tally(ballots, Cardinality(v.members))
               e == [event |-> "VOTE_CAST", vote_id |-> v.id, members |-> v.members,
                     ballots |-> ballots, approved |-> approved, latency |-> v.elapsed]
    <2>1. Record(r, e)
        BY <1>2 DEF ProgressVote
    <2>2. v # NoVote /\ Complete(r) /\ v \in VoteRecord
        BY <1>2 DEF ProgressVote, Complete, TypeInv, TypeOK
    <2>3. ~approved => v.elapsed = Deadline
        <3>1. v.members # {} /\ \A m \in Segments : v.ballots[m] \in {"ACCEPT", "NONE"}
            BY <2>2 DEF Willing
        <3>2. BallotCount(v.ballots) >= Cardinality(v.members) \/ v.elapsed >= Deadline
            BY <2>2 DEF Complete
        <3>3. v.elapsed \in 0..Deadline
            BY <2>2 DEF VoteRecord
        <3> HIDE DEF v
        <3> QED BY <2>2, <3>1, <3>2, <3>3, FullHouseApproves, DeadlineAssumption
    <2>4. (e.event = "VOTE_CAST" /\ ~e.approved) => e.latency = Deadline
        BY <2>3
    <2> HIDE DEF e
    <2> QED BY <2>1, <2>4, FallbackRecord
<1>3. ASSUME NEW r \in Segments,
             \/ SendReply(r) \/ LogFallback(r) \/ HandleThreat(r)
             \/ LogResponse(r) \/ ResolveIncident(r)
      PROVE  FallbackOnlyAtDeadline'
    <2>1. PICK e : Record(r, e) /\ e.event # "VOTE_CAST"
        BY <1>3, LogsNoVote
    <2> QED BY <2>1, FallbackRecord
<1>4. ASSUME NEW r \in Segments,
             Perceive(r) \/ KeepVote(r) \/ StepDone(r) \/ SkipContained(r) \/ StartVote(r)
             \/ Execute(r) \/ Crash(r)
      PROVE  trace' = trace
    BY <1>4 DEF Perceive, KeepVote, StepDone, SkipContained, StartVote, Execute, Crash
<1>5. CASE UNCHANGED vars \/ Tick \/ (\E t \in Threats : Report(t))
           \/ (\E S \in SUBSET Segments : FormCoalition(S))
    BY <1>1, <1>5 DEF vars, Tick, Report, FormCoalition
<1> QED BY <1>1, <1>2, <1>3, <1>4, <1>5 DEF Next, Environment, RcaStep, Respond

\* agents/rca/agent.py _progress_vote: a quarantine is given up for BLOCK only when
\* the deadline has passed; an early count never fails.
THEOREM FallbackHolds == Spec => []FallbackOnlyAtDeadline
<1>1. Init => TypeInv /\ OwnThreats /\ Willing /\ FallbackOnlyAtDeadline
    <2>1. Init => FallbackOnlyAtDeadline
        BY DEF Init, FallbackOnlyAtDeadline, Logged
    <2> QED BY <2>1, TypeInit, OwnInit, WillingInit
<1>2. TypeInv /\ OwnThreats /\ Willing /\ FallbackOnlyAtDeadline /\ [Next]_vars
        => (TypeInv /\ OwnThreats /\ Willing /\ FallbackOnlyAtDeadline)'
    BY TypeStep, OwnStep, WillingStep, FallbackStep
<1> QED BY <1>1, <1>2, PTL DEF Spec

-----------------------------------------------------------------------------
(* The ballots that count were cast *)

\* v has logged the decision as its answer to the vote id.
Proposed(v, id, decision) ==
    \E k \in DOMAIN trace[v] :
        /\ Logged(v, k, "PROPOSE")
        /\ trace[v][k].vote_id = id
        /\ trace[v][k].decision = decision

\* A ballot was proposed by its voter before it was delivered, and a vote's
\* ballots, but for the RCA's own, are ballots delivered for that vote.
CastInv ==
    /\ \A r \in Segments : outbox[r] \in Seq({m \in Replies : m.voter_id = r})
    /\ \A r \in Segments : \A m \in inbox[r].ballots :
            Proposed(m.voter_id, m.vote_id, m.decision)
    /\ \A r, v \in Segments :
            (vote[r] # NoVote /\ v # r /\ vote[r].ballots[v] # "NONE")
                => Proposed(v, vote[r].id, vote[r].ballots[v])
    /\ BallotsAreCast

\* What was proposed stays proposed.
LEMMA ProposalStays ==
    ASSUME TypeInv, NEW r \in Segments, NEW e, Record(r, e),
           NEW v \in Segments, NEW id, NEW decision, Proposed(v, id, decision)
    PROVE  Proposed(v, id, decision)'
<1>1. PICK k \in DOMAIN trace[v] : /\ Logged(v, k, "PROPOSE")
                                   /\ trace[v][k].vote_id = id
                                   /\ trace[v][k].decision = decision
    BY DEF Proposed
<1>2. k \in DOMAIN trace'[v] /\ trace'[v][k] = trace[v][k]
    BY RecordAppends
<1> QED BY <1>1, <1>2 DEF Proposed, Logged

\* Steps that log nothing.
LEMMA CastQuiet ==
    ASSUME CastInv, trace' = trace, outbox' = outbox,
           \A r \in Segments :
              /\ inbox'[r].ballots = inbox[r].ballots
              /\ vote'[r] # NoVote => /\ vote[r] # NoVote
                                      /\ vote'[r].id = vote[r].id
                                      /\ vote'[r].ballots = vote[r].ballots
    PROVE  CastInv'
<1>1. \A v, id, d : Proposed(v, id, d)' <=> Proposed(v, id, d)
    BY DEF Proposed, Logged
<1>2. BallotsAreCast'
    BY DEF CastInv, BallotsAreCast, Logged
<1> QED BY <1>1, <1>2 DEF CastInv

\* Steps that log an event: a vote that counts only ballots that were proposed.
LEMMA CastRecord ==
    ASSUME TypeInv, CastInv, NEW r \in Segments, NEW e, Record(r, e),
           \A q \in Segments : outbox'[q] \in Seq({m \in Replies : m.voter_id = q}),
           \A q \in Segments : \A m \in inbox'[q].ballots :
                m \in inbox[q].ballots \/ Proposed(m.voter_id, m.vote_id, m.decision)',
           \A q \in Segments : vote'[q] \in {vote[q], NoVote},
           \A v \in Segments : (e.event = "VOTE_CAST" /\ v # r /\ e.ballots[v] = "ACCEPT")
                => Proposed(v, e.vote_id, "ACCEPT")
    PROVE  CastInv'
<1>1. \A q \in Segments : \A m \in inbox'[q].ballots :
            Proposed(m.voter_id, m.vote_id, m.decision)'
    <2> TAKE q \in Segments
    <2> TAKE m \in inbox'[q].ballots
    <2>1. CASE m \in inbox[q].ballots
        <3>1. m.voter_id \in Segments
            BY <2>1 DEF TypeInv, TypeOK, Inbox, Replies
        <3>2. Proposed(m.voter_id, m.vote_id, m.decision)
            BY <2>1 DEF CastInv
        <3> QED BY <3>1, <3>2, ProposalStays
    <2> QED BY <2>1
<1>2. \A q, v \in Segments :
            (vote'[q] # NoVote /\ v # q /\ vote'[q].ballots[v] # "NONE")
                => Proposed(v, vote[q].id, vote[q].ballots[v])'
    <2> SUFFICES ASSUME NEW q \in Segments, NEW v \in Segments, vote'[q] # NoVote, v # q,
                        vote'[q].ballots[v] # "NONE"
                 PROVE  Proposed(v, vote[q].id, vote[q].ballots[v])'
        OBVIOUS
    <2>1. vote'[q] = vote[q]
        OBVIOUS
    <2>2. Proposed(v, vote[q].id, vote[q].ballots[v])
        BY <2>1 DEF CastInv
    <2>3. PICK k \in DOMAIN trace[v] : /\ Logged(v, k, "PROPOSE")
                                       /\ trace[v][k].vote_id = vote[q].id
                                       /\ trace[v][k].decision = vote[q].ballots[v]
        BY <2>2 DEF Proposed
    <2>4. k \in DOMAIN trace'[v] /\ trace'[v][k] = trace[v][k]
        BY RecordAppends
    <2> QED BY <2>1, <2>3, <2>4 DEF Proposed, Logged
<1>3. BallotsAreCast'
    <2> SUFFICES ASSUME NEW q \in Segments, NEW v \in Segments, NEW i \in DOMAIN trace'[q],
                        Logged(q, i, "VOTE_CAST")', trace'[q][i].ballots[v] = "ACCEPT", v # q
                 PROVE  Proposed(v, trace[q][i].vote_id, "ACCEPT")'
        BY DEF BallotsAreCast, Proposed
    <2>1. \E id : id = trace'[q][i].vote_id /\ Proposed(v, id, "ACCEPT")
        <3>1. CASE i \in DOMAIN trace[q] /\ trace'[q][i] = trace[q][i]
            BY <3>1 DEF CastInv, BallotsAreCast, Proposed, Logged
        <3>2. CASE q = r /\ trace'[q][i] = e
            BY <3>2 DEF Logged
        <3> QED BY <3>1, <3>2, RecordAppends
    <2>2. PICK id : id = trace'[q][i].vote_id /\ Proposed(v, id, "ACCEPT")
        BY <2>1
    <2>3. Proposed(v, id, "ACCEPT")'
        BY <2>2, ProposalStays
    <2> QED BY <2>2, <2>3 DEF Proposed
<1> QED BY <1>1, <1>2, <1>3 DEF CastInv

LEMMA CastPerceive ==
    ASSUME TypeInv, CastInv, NEW r \in Segments, Perceive(r)
    PROVE  CastInv'
<1> USE DEF TypeInv, TypeOK
<1>1. \A v, id, d : Proposed(v, id, d)' <=> Proposed(v, id, d)
    BY DEF Perceive, Proposed, Logged
<1>2. \A q \in Segments : outbox'[q] \in Seq({m \in Replies : m.voter_id = q})
    <2> DEFINE Own == {m \in Replies : m.voter_id = r}
               reqs == inbox[r].requests
               reply(i) == [vote_id |-> reqs[i].vote_id, voter_id |-> r,
                            decision |-> EvaluateVote(reqs[i].severity, Load)]
               replies == [i \in DOMAIN reqs |-> reply(i)]
    <2>1. reqs \in Seq(Requests)
        BY DEF Inbox
    <2>2. \A i \in DOMAIN reqs : reply(i) \in Own
        <3>1. \A i \in DOMAIN reqs : reqs[i] \in Requests
            BY <2>1
        <3> QED BY <3>1, VoteIsDecision DEF Requests, Replies
    <2>3. replies \in Seq(Own)
        <3> HIDE DEF reply, Own
        <3>1. DOMAIN reqs = 1..Len(reqs) /\ Len(reqs) \in Nat
            BY <2>1
        <3> QED BY <2>2, <3>1
    <2>4. outbox[r] \o replies \in Seq(Own)
        <3>1. outbox[r] \in Seq(Own)
            BY DEF CastInv
        <3> HIDE DEF replies, Own
        <3> QED BY <2>3, <3>1
    <2>5. outbox'[r] = outbox[r] \o replies
        BY DEF Perceive, OnVoteRequests
    <2>6. \A q \in Segments \ {r} : outbox'[q] = outbox[q]
        BY DEF Perceive
    <2> HIDE DEF replies
    <2> QED BY <2>4, <2>5, <2>6 DEF CastInv
<1>3. \A q \in Segments : inbox'[q].ballots \subseteq inbox[q].ballots
    BY DEF Perceive, EmptyInbox
<1>4. ASSUME NEW q \in Segments, NEW v \in Segments, vote'[q] # NoVote, v # q,
             vote'[q].ballots[v] # "NONE"
      PROVE  Proposed(v, vote'[q].id, vote'[q].ballots[v])
    <2>1. CASE q # r
        <3>1. vote'[q] = vote[q]
            BY <2>1 DEF Perceive
        <3> QED BY <1>4, <3>1 DEF CastInv
    <2>2. CASE q = r
        <3>1. vote'[r] = OnVoteResponses(r) /\ vote[r] # NoVote /\ vote[r] \in VoteRecord
            BY <1>4, <2>2 DEF Perceive, OnVoteResponses
        <3>2. /\ vote'[r].id = vote[r].id
              /\ vote'[r].ballots[v] =
                    IF \E m \in BallotsOf(r) : m.voter_id = v
                    THEN (CHOOSE m \in BallotsOf(r) : m.voter_id = v).decision
                    ELSE vote[r].ballots[v]
            BY <3>1 DEF OnVoteResponses, VoteRecord
        <3>3. CASE \E m \in BallotsOf(r) : m.voter_id = v
            <4> DEFINE m == CHOOSE m \in BallotsOf(r) : m.voter_id = v
            <4>1. m \in inbox[r].ballots /\ m.voter_id = v /\ m.vote_id = vote[r].id
                BY <3>3 DEF BallotsOf
            <4>2. Proposed(m.voter_id, m.vote_id, m.decision)
                BY <4>1 DEF CastInv
            <4> HIDE DEF m
            <4>3. vote'[r].ballots[v] = m.decision
                BY <3>2, <3>3 DEF m
            <4> QED BY <2>2, <3>2, <4>1, <4>2, <4>3
        <3>4. CASE ~\E m \in BallotsOf(r) : m.voter_id = v
            BY <1>4, <2>2, <3>1, <3>2, <3>4 DEF CastInv
        <3> QED BY <3>3, <3>4
    <2> QED BY <2>1, <2>2
<1>5. BallotsAreCast'
    BY DEF Perceive, CastInv, BallotsAreCast, Logged
<1> HIDE DEF TypeInv, TypeOK
<1>6. \A q \in Segments : \A m \in inbox'[q].ballots :
            Proposed(m.voter_id, m.vote_id, m.decision)'
    BY <1>1, <1>3 DEF CastInv
<1>7. \A q, v \in Segments :
            (vote'[q] # NoVote /\ v # q /\ vote'[q].ballots[v] # "NONE")
                => Proposed(v, vote[q].id, vote[q].ballots[v])'
    BY <1>4 DEF Perceive, Proposed, Logged
<1> QED BY <1>2, <1>5, <1>6, <1>7 DEF CastInv

LEMMA CastSendReply ==
    ASSUME TypeInv, CastInv, NEW r \in Segments, SendReply(r)
    PROVE  CastInv'
<1> DEFINE Own(q) == {x \in Replies : x.voter_id = q}
<1>1. outbox[r] \in Seq(Own(r)) /\ outbox[r] # <<>>
    BY DEF SendReply, CastInv
<1>2. Head(outbox[r]) \in Own(r) /\ Tail(outbox[r]) \in Seq(Own(r))
    <2> HIDE DEF Own
    <2> QED BY <1>1, PopQueue
<1>3. PICK m \in Own(r) : m = Head(outbox[r])
    BY <1>2
<1> DEFINE e == [event |-> "PROPOSE", vote_id |-> m.vote_id, decision |-> m.decision]
<1>4. m.voter_id = r /\ m.vote_id.rca \in Segments /\ m \in Replies
    BY DEF Replies, VoteIds
<1>5. Record(r, e) /\ e.event # "VOTE_CAST"
    BY <1>3 DEF SendReply
<1>6. Proposed(r, m.vote_id, m.decision)'
    <2>1. e.event = "PROPOSE" /\ e.vote_id = m.vote_id /\ e.decision = m.decision
        OBVIOUS
    <2>2. Len(trace[r]) + 1 \in DOMAIN trace'[r] /\ trace'[r][Len(trace[r]) + 1] = e
        BY <1>5, RecordAppends
    <2> HIDE DEF e
    <2> QED BY <2>1, <2>2 DEF Proposed, Logged
<1>7. inbox' = [inbox EXCEPT ![m.vote_id.rca].ballots = @ \cup {m}]
    BY <1>3 DEF SendReply, BroadcastReply
<1>8. ASSUME NEW q \in Segments, NEW x \in inbox'[q].ballots
      PROVE  x \in inbox[q].ballots \/ Proposed(x.voter_id, x.vote_id, x.decision)'
    <2>1. inbox[q] \in Inbox /\ inbox \in [Segments -> Inbox]
        BY DEF TypeInv, TypeOK
    <2>2. CASE q # m.vote_id.rca
        BY <1>4, <1>7, <1>8, <2>1, <2>2
    <2>3. CASE q = m.vote_id.rca
        <3>1. inbox'[q] = [inbox[q] EXCEPT !.ballots = @ \cup {m}]
            BY <1>4, <1>7, <2>1, <2>3
        <3>2. inbox'[q].ballots = inbox[q].ballots \cup {m}
            BY <2>1, <3>1 DEF Inbox
        <3>3. x \in inbox[q].ballots \/ x = m
            BY <1>8, <3>2
        <3> QED BY <1>4, <1>6, <3>3
    <2> QED BY <2>2, <2>3
<1>9. \A q \in Segments : outbox'[q] \in Seq(Own(q))
    <2>1. outbox' = [outbox EXCEPT ![r] = Tail(@)] /\ outbox \in [Segments -> Seq(Replies)]
        BY DEF SendReply, TypeInv, TypeOK
    <2>2. \A q \in Segments : outbox[q] \in Seq(Own(q))
        BY DEF CastInv
    <2> HIDE DEF Own
    <2> QED BY <1>2, <2>1, <2>2
<1>10. vote' = vote
    BY DEF SendReply
<1> HIDE DEF e
<1> QED BY <1>5, <1>8, <1>9, <1>10, CastRecord

LEMMA CastProgressVote ==
    ASSUME TypeInv, CastInv, NEW r \in Segments, ProgressVote(r)
    PROVE  CastInv'
<1> DEFINE v == vote[r]
           ballots == FinalBallots(v)
           approved == Tally(ballots, Cardinality(v.members))
           e == [event |-> "VOTE_CAST", vote_id |-> v.id, members |-> v.members,
                 ballots |-> ballots, approved |-> approved, latency |-> v.elapsed]
<1>1. Record(r, e) /\ v # NoVote /\ outbox' = outbox /\ inbox' = inbox
    BY DEF ProgressVote, Complete
<1>2. \A q \in Segments : vote'[q] \in {vote[q], NoVote}
    BY DEF ProgressVote, TypeInv, TypeOK
<1>3. e.vote_id = v.id /\ e.ballots = ballots
    OBVIOUS
<1>4. ASSUME NEW q \in Segments, q # r, ballots[q] = "ACCEPT"
      PROVE  Proposed(q, v.id, "ACCEPT")
    <2>1. v.ballots[q] = "ACCEPT"
        BY <1>4 DEF FinalBallots
    <2> QED BY <1>1, <1>4, <2>1 DEF CastInv
<1>5. \A q \in Segments : outbox'[q] \in Seq({m \in Replies : m.voter_id = q})
    BY <1>1 DEF CastInv
<1> HIDE DEF e, ballots
<1>6. \A q \in Segments : (e.event = "VOTE_CAST" /\ q # r /\ e.ballots[q] = "ACCEPT")
            => Proposed(q, e.vote_id, "ACCEPT")
    BY <1>3, <1>4
<1> QED BY <1>1, <1>2, <1>5, <1>6, CastRecord

LEMMA CastStartVote ==
    ASSUME TypeInv, CastInv, NEW r \in Segments, StartVote(r)
    PROVE  CastInv'
<1>1. \A v, id, d : Proposed(v, id, d)' <=> Proposed(v, id, d)
    BY DEF StartVote, Proposed, Logged
<1>2. \A q \in Segments : inbox'[q].ballots = inbox[q].ballots /\ outbox'[q] = outbox[q]
    BY DEF StartVote, BroadcastRequest, TypeInv, TypeOK, Inbox
<1>3. \A q \in Segments \ {r} : vote'[q] = vote[q]
    BY DEF StartVote
<1>4. \A v \in Segments \ {r} : vote'[r].ballots[v] = "NONE"
    BY DEF StartVote, TypeInv, TypeOK
<1>5. BallotsAreCast'
    BY DEF StartVote, CastInv, BallotsAreCast, Logged
<1>6. ASSUME NEW q \in Segments, NEW v \in Segments, vote'[q] # NoVote, v # q,
             vote'[q].ballots[v] # "NONE"
      PROVE  Proposed(v, vote[q].id, vote[q].ballots[v])'
    <2>1. q # r
        BY <1>4, <1>6
    <2>2. vote'[q] = vote[q] /\ Proposed(v, vote[q].id, vote[q].ballots[v])
        BY <1>3, <1>6, <2>1 DEF CastInv
    <2> QED BY <2>2 DEF StartVote, Proposed, Logged
<1> QED BY <1>1, <1>2, <1>5, <1>6 DEF CastInv

LEMMA CastStep == TypeInv /\ CastInv /\ [Next]_vars => CastInv'
<1> SUFFICES ASSUME TypeInv, CastInv, [Next]_vars PROVE CastInv'
    OBVIOUS
<1>1. CASE UNCHANGED vars
    BY <1>1, CastQuiet DEF vars
<1>2. ASSUME NEW t \in Threats, Report(t) PROVE CastInv'
    <2>1. \A r \in Segments : inbox'[r].ballots = inbox[r].ballots
        BY <1>2 DEF Report, TypeInv, TypeOK, Inbox
    <2> QED BY <1>2, <2>1, CastQuiet DEF Report
<1>6. ASSUME NEW S \in SUBSET Segments, FormCoalition(S) PROVE CastInv'
    <2>1. \A r \in Segments : inbox'[r].ballots = inbox[r].ballots
        BY <1>6 DEF FormCoalition, TypeInv, TypeOK, Inbox
    <2> QED BY <1>6, <2>1, CastQuiet DEF FormCoalition
<1>3. CASE Tick
    <2>1. \A r \in Segments : vote'[r] # NoVote => /\ vote[r] # NoVote
                                                   /\ vote'[r].id = vote[r].id
                                                   /\ vote'[r].ballots = vote[r].ballots
        BY <1>3 DEF Tick, TypeInv, TypeOK, VoteRecord
    <2> QED BY <1>3, <2>1, CastQuiet DEF Tick
<1>4. ASSUME NEW r \in Segments,
             Crash(r) \/ KeepVote(r) \/ StepDone(r) \/ SkipContained(r) \/ Execute(r)
      PROVE  CastInv'
    BY <1>4, CastQuiet DEF Crash, KeepVote, StepDone, SkipContained, Execute
<1>5. ASSUME NEW r \in Segments,
             LogFallback(r) \/ HandleThreat(r) \/ LogResponse(r) \/ ResolveIncident(r)
      PROVE  CastInv'
    <2>1. PICK e : Record(r, e) /\ e.event # "VOTE_CAST"
        BY <1>5, LogsNoVote
    <2>2. inbox' = inbox /\ outbox' = outbox /\ vote' = vote
        BY <1>5 DEF LogFallback, HandleThreat, LogResponse, ResolveIncident
    <2>3. \A q \in Segments : outbox'[q] \in Seq({m \in Replies : m.voter_id = q})
        BY <2>2 DEF CastInv
    <2> QED BY <2>1, <2>2, <2>3, CastRecord
<1> QED BY <1>1, <1>2, <1>3, <1>4, <1>5, <1>6, CastPerceive, CastSendReply, CastProgressVote,
           CastStartVote
        DEF Next, Environment, RcaStep, Respond

\* agents/rca/agent.py _on_vote_response, _progress_vote: no vote is decided by an
\* ACCEPT its voter did not give to this very vote, late replies included.
THEOREM BallotsWereCast == Spec => []BallotsAreCast
<1>1. Init => TypeInv /\ CastInv
    <2>1. ASSUME Init, NEW r \in Segments
          PROVE  /\ outbox[r] = <<>> /\ inbox[r].ballots = {} /\ vote[r] = NoVote
                 /\ trace[r] = <<>>
        BY <2>1 DEF Init, EmptyInbox
    <2>2. ASSUME Init, NEW r \in Segments
          PROVE  outbox[r] \in Seq({m \in Replies : m.voter_id = r})
        BY <2>1, <2>2, EmptyQueue
    <2>3. Init => CastInv
        BY <2>1, <2>2 DEF CastInv, BallotsAreCast, Logged
    <2> QED BY <2>3, TypeInit
<1>2. TypeInv /\ CastInv /\ [Next]_vars => (TypeInv /\ CastInv)'
    BY TypeStep, CastStep
<1>3. CastInv => BallotsAreCast
    BY DEF CastInv
<1> QED BY <1>1, <1>2, <1>3, PTL DEF Spec
-----------------------------------------------------------------------------
(***************************************************************************)
(* Resolution: a threat is in one place only, in the inbox, in the backlog,*)
(* behind the vote, in hand or resolved, and moves from one to the next.   *)
(***************************************************************************)
-----------------------------------------------------------------------------
(* Queues as sets *)

Items(s) == {s[i] : i \in DOMAIN s}
Distinct(s) == \A i, j \in DOMAIN s : s[i] = s[j] => i = j

LEMMA AppendItems ==
    ASSUME NEW S, NEW s \in Seq(S), NEW x \in S
    PROVE  /\ Items(Append(s, x)) = Items(s) \cup {x}
           /\ Distinct(s) /\ x \notin Items(s) => Distinct(Append(s, x))
<1> DEFINE n == Len(s)
<1>1. /\ n \in Nat /\ DOMAIN s = 1..n /\ DOMAIN Append(s, x) = 1..(n + 1)
      /\ \A i \in 1..n : Append(s, x)[i] = s[i]
      /\ Append(s, x)[n + 1] = x
    OBVIOUS
<1> HIDE DEF n
<1> QED BY <1>1 DEF Items, Distinct

LEMMA PopItems ==
    ASSUME NEW S, NEW s \in Seq(S), s # <<>>, Distinct(s)
    PROVE  /\ Head(s) \in Items(s)
           /\ Items(Tail(s)) = Items(s) \ {Head(s)}
           /\ Distinct(Tail(s))
<1> DEFINE n == Len(s)
           u == Tail(s)
<1>1. /\ n \in Nat /\ n >= 1 /\ DOMAIN s = 1..n /\ Head(s) = s[1]
      /\ DOMAIN u = 1..(n - 1)
      /\ \A i \in 1..(n - 1) : u[i] = s[i + 1]
    OBVIOUS
<1> HIDE DEF n, u
<1>2. \A i \in 2..n : s[i] = u[i - 1] /\ i - 1 \in DOMAIN u
    BY <1>1
<1>3. Items(u) \subseteq Items(s) \ {s[1]}
    BY <1>1 DEF Items, Distinct
<1>4. Items(s) \ {s[1]} \subseteq Items(u)
    BY <1>1, <1>2 DEF Items
<1>5. Distinct(u)
    <2> SUFFICES ASSUME NEW i \in 1..(n - 1), NEW j \in 1..(n - 1), u[i] = u[j] PROVE i = j
        BY <1>1 DEF Distinct
    <2>1. s[i + 1] = s[j + 1] /\ i + 1 \in DOMAIN s /\ j + 1 \in DOMAIN s
        BY <1>1
    <2> QED BY <2>1 DEF Distinct
<1>6. Head(s) \in Items(s)
    BY <1>1 DEF Items
<1>7. Items(u) = Items(s) \ {Head(s)}
    BY <1>1, <1>3, <1>4
<1> QED BY <1>5, <1>6, <1>7 DEF u

LEMMA ConcatItems ==
    ASSUME NEW S, NEW s \in Seq(S), NEW w \in Seq(S), Distinct(s), Distinct(w),
           Items(s) \cap Items(w) = {}
    PROVE  /\ Items(s \o w) = Items(s) \cup Items(w)
           /\ Distinct(s \o w)
<1> DEFINE n == Len(s)
           k == Len(w)
           u == s \o w
<1>1. /\ n \in Nat /\ k \in Nat /\ DOMAIN s = 1..n /\ DOMAIN w = 1..k
      /\ DOMAIN u = 1..(n + k)
      /\ \A i \in 1..n : u[i] = s[i]
      /\ \A i \in (n + 1)..(n + k) : u[i] = w[i - n]
    OBVIOUS
<1> HIDE DEF n, k, u
<1>2. \A i \in 1..k : w[i] = u[i + n] /\ i + n \in DOMAIN u
    BY <1>1
<1>3. \A i \in DOMAIN u : \/ i \in DOMAIN s /\ u[i] = s[i]
                          \/ i - n \in DOMAIN w /\ u[i] = w[i - n] /\ i > n
    BY <1>1
<1>4. Items(u) = Items(s) \cup Items(w)
    <2>1. Items(u) \subseteq Items(s) \cup Items(w)
        BY <1>3 DEF Items
    <2>2. Items(s) \subseteq Items(u)
        BY <1>1 DEF Items
    <2>3. Items(w) \subseteq Items(u)
        <3> SUFFICES ASSUME NEW i \in 1..k PROVE w[i] \in Items(u)
            BY <1>1 DEF Items
        <3> QED BY <1>2 DEF Items
    <2> QED BY <2>1, <2>2, <2>3
<1>5. Distinct(u)
    <2> SUFFICES ASSUME NEW i \in DOMAIN u, NEW j \in DOMAIN u, u[i] = u[j] PROVE i = j
        BY DEF Distinct
    <2>1. \A a \in DOMAIN s, b \in DOMAIN w : s[a] # w[b]
        BY DEF Items
    <2>2. i \in Int /\ j \in Int
        BY <1>1
    <2> QED BY <1>1, <1>3, <2>1, <2>2 DEF Distinct
<1> QED BY <1>4, <1>5 DEF u

-----------------------------------------------------------------------------
(* Where the threats are *)

Queued(r) == Items(inbox[r].reports) \cup Items(pending[r])
Voted(r) == IF vote[r] = NoVote THEN {} ELSE {vote[r].threat}
InHand(r) == IF Working(r) THEN {job[r].threat} ELSE {}
Resolved(r) == {t \in Threats : \E i \in DOMAIN trace[r] :
                    Logged(r, i, "RESOLVED") /\ trace[r][i].threat = t}

OnePlace(r) ==
    /\ Distinct(inbox[r].reports) /\ Distinct(pending[r])
    /\ Items(inbox[r].reports) \cap Items(pending[r]) = {}
    /\ Queued(r) \cap Voted(r) = {} /\ Queued(r) \cap InHand(r) = {}
    /\ Queued(r) \cap Resolved(r) = {}
    /\ Voted(r) \cap InHand(r) = {} /\ Voted(r) \cap Resolved(r) = {}
    /\ InHand(r) \cap Resolved(r) = {}
    /\ Queued(r) \cup Voted(r) \cup InHand(r) \cup Resolved(r) \subseteq reported

\* About to declare an incident resolved, an RCA has just logged the response.
ResponseLogged(r) ==
    pc[r] = "resolve" =>
        /\ trace[r] # <<>>
        /\ trace[r][Len(trace[r])].event = "RESPONSE"
        /\ trace[r][Len(trace[r])].threat = job[r].threat

ResolveInv == ResolvedOnce /\ \A r \in Segments : OnePlace(r) /\ ResponseLogged(r)

\* Another RCA's step leaves an RCA's threats where they are.
LEMMA PlacesStay ==
    ASSUME NEW r \in Segments, OnePlace(r), ResponseLogged(r), reported' = reported,
           inbox'[r].reports = inbox[r].reports, pending'[r] = pending[r],
           Voted(r)' = Voted(r), pc'[r] = pc[r], job'[r] = job[r], trace'[r] = trace[r]
    PROVE  OnePlace(r)' /\ ResponseLogged(r)'
<1>1. /\ Queued(r)' = Queued(r) /\ InHand(r)' = InHand(r) /\ Resolved(r)' = Resolved(r)
    BY DEF Queued, InHand, Working, Resolved, Logged
<1> QED BY <1>1 DEF OnePlace, ResponseLogged

\* The log grows, and what is resolved with it.
LEMMA ResolvedGrows ==
    ASSUME TypeInv, NEW r \in Segments, NEW e, Record(r, e)
    PROVE  /\ e.event # "RESOLVED" => Resolved(r)' = Resolved(r)
           /\ e.event = "RESOLVED" /\ e.threat \in Threats
                => Resolved(r)' = Resolved(r) \cup {e.threat}
           /\ trace'[r] # <<>> /\ trace'[r][Len(trace'[r])] = e
<1>1. \A t : (\E i \in DOMAIN trace'[r] : Logged(r, i, "RESOLVED")' /\ trace'[r][i].threat = t)
            <=> \/ \E i \in DOMAIN trace[r] : Logged(r, i, "RESOLVED") /\ trace[r][i].threat = t
                \/ e.event = "RESOLVED" /\ e.threat = t
    BY RecordAppends DEF Logged
<1>2. trace'[r] = Append(trace[r], e) /\ trace[r] \in Seq(Events)
    BY DEF Record, TypeInv, TypeOK
<1>3. Len(trace'[r]) = Len(trace[r]) + 1 /\ trace'[r] # <<>>
    BY <1>2
<1>4. trace'[r][Len(trace'[r])] = e
    BY <1>3, RecordAppends
<1>5. \A t : t \in Resolved(r)' <=> \/ t \in Resolved(r)
                                    \/ t \in Threats /\ e.event = "RESOLVED" /\ e.threat = t
    BY <1>1 DEF Resolved
<1> QED BY <1>3, <1>4, <1>5

\* Logging anything but a resolution keeps ResolvedOnce.
LEMMA OnceRecord ==
    ASSUME TypeInv, ResolvedOnce, NEW r \in Segments, NEW e, Record(r, e),
           e.event # "RESOLVED"
    PROVE  ResolvedOnce'
<1>1. \A q \in Segments : \A i \in DOMAIN trace[q] :
            i \in DOMAIN trace'[q] /\ trace'[q][i] = trace[q][i]
    BY RecordAppends
<1>2. \A q \in Segments : \A i \in DOMAIN trace'[q] :
            Logged(q, i, "RESOLVED")' => i \in DOMAIN trace[q] /\ Logged(q, i, "RESOLVED")
    BY RecordAppends DEF Logged
<1> QED BY <1>1, <1>2 DEF ResolvedOnce, Logged

LEMMA ResolveInit == Init => ResolveInv
<1> SUFFICES ASSUME Init PROVE ResolveInv
    OBVIOUS
<1>1. ResolvedOnce
    BY DEF Init, ResolvedOnce
<1>2. ASSUME NEW r \in Segments PROVE OnePlace(r) /\ ResponseLogged(r)
    <2>1. /\ inbox[r].reports = <<>> /\ pending[r] = <<>> /\ vote[r] = NoVote
          /\ pc[r] = "idle" /\ trace[r] = <<>>
        BY DEF Init, EmptyInbox
    <2>2. Items(<<>>) = {} /\ Distinct(<<>>)
        BY DEF Items, Distinct
    <2>3. Queued(r) = {} /\ Voted(r) = {} /\ InHand(r) = {} /\ Resolved(r) = {}
        BY <2>1, <2>2 DEF Queued, Voted, InHand, Working, Resolved
    <2> QED BY <2>1, <2>2, <2>3 DEF OnePlace, ResponseLogged
<1> QED BY <1>1, <1>2 DEF ResolveInv

-----------------------------------------------------------------------------
(* Every step moves a threat to one place *)

\* The step of one RCA is judged by that RCA's places.
LEMMA OneMoves ==
    ASSUME ResolveInv, NEW r \in Segments, reported' = reported,
           \A q \in Segments \ {r} :
                /\ inbox'[q].reports = inbox[q].reports /\ pending'[q] = pending[q]
                /\ vote'[q] = vote[q] /\ pc'[q] = pc[q] /\ job'[q] = job[q]
                /\ trace'[q] = trace[q],
           ResolvedOnce', OnePlace(r)', ResponseLogged(r)'
    PROVE  ResolveInv'
<1>1. ASSUME NEW q \in Segments, q # r PROVE OnePlace(q)' /\ ResponseLogged(q)'
    <2>1. OnePlace(q) /\ ResponseLogged(q)
        BY DEF ResolveInv
    <2>2. Voted(q)' = Voted(q)
        BY <1>1 DEF Voted
    <2> QED BY <1>1, <2>1, <2>2, PlacesStay
<1> QED BY <1>1 DEF ResolveInv

\* A step that moves no queued threat.
LEMMA QueuesStay ==
    ASSUME NEW r \in Segments, OnePlace(r), reported' = reported,
           inbox'[r].reports = inbox[r].reports, pending'[r] = pending[r],
           Voted(r)' \cup InHand(r)' \cup Resolved(r)'
                \subseteq Voted(r) \cup InHand(r) \cup Resolved(r),
           Voted(r)' \cap InHand(r)' = {}, Voted(r)' \cap Resolved(r)' = {},
           InHand(r)' \cap Resolved(r)' = {}
    PROVE  OnePlace(r)'
<1>1. Queued(r)' = Queued(r)
    BY DEF Queued
<1> QED BY <1>1 DEF OnePlace

\* Without a new log entry ResolvedOnce stays as it is.
LEMMA OnceQuiet ==
    ASSUME ResolvedOnce, trace' = trace
    PROVE  ResolvedOnce'
BY DEF ResolvedOnce, Logged

LEMMA PlaceReport ==
    ASSUME TypeInv, ResolveInv, NEW t \in Threats, Report(t)
    PROVE  ResolveInv'
<1>1. /\ t \notin reported /\ reported' = reported \cup {t} /\ pending' = pending
      /\ vote' = vote /\ pc' = pc /\ job' = job /\ trace' = trace
    BY DEF Report
<1>2. ASSUME NEW r \in Segments PROVE OnePlace(r)' /\ ResponseLogged(r)'
    <2>1. OnePlace(r) /\ ResponseLogged(r)
        BY DEF ResolveInv
    <2>2. /\ Voted(r)' = Voted(r) /\ InHand(r)' = InHand(r) /\ Resolved(r)' = Resolved(r)
        BY <1>1 DEF Voted, InHand, Working, Resolved, Logged
    <2>3. ResponseLogged(r)'
        BY <1>1, <2>1 DEF ResponseLogged
    <2>4. /\ Distinct(inbox'[r].reports)
          /\ Items(inbox'[r].reports) \subseteq Items(inbox[r].reports) \cup {t}
        <3>1. CASE inbox'[r] = inbox[r]
            BY <2>1, <3>1 DEF OnePlace
        <3>2. CASE inbox'[r] = [inbox[r] EXCEPT !.reports = Append(@, t)]
            <4>1. inbox[r].reports \in Seq(Threats)
                BY DEF TypeInv, TypeOK, Inbox
            <4>2. inbox'[r].reports = Append(inbox[r].reports, t)
                BY <3>2 DEF TypeInv, TypeOK, Inbox
            <4>3. t \notin Items(inbox[r].reports) /\ Distinct(inbox[r].reports)
                BY <1>1, <2>1 DEF OnePlace, Queued
            <4> QED BY <4>1, <4>2, <4>3, AppendItems
        <3> QED BY <3>1, <3>2 DEF Report
    <2>5. OnePlace(r)'
        <3>1. t \notin Items(pending[r]) /\ t \notin Voted(r) /\ t \notin InHand(r)
              /\ t \notin Resolved(r)
            BY <1>1, <2>1 DEF OnePlace, Queued
        <3>2. Queued(r)' \subseteq Queued(r) \cup {t}
            BY <1>1, <2>4 DEF Queued
        <3>3. Items(inbox'[r].reports) \cap Items(pending'[r]) = {}
            BY <1>1, <2>1, <2>4, <3>1 DEF OnePlace
        <3> QED BY <1>1, <2>1, <2>2, <2>4, <3>1, <3>2, <3>3 DEF OnePlace
    <2> QED BY <2>3, <2>5
<1>3. ResolvedOnce'
    BY <1>1, OnceQuiet DEF ResolveInv
<1> QED BY <1>2, <1>3 DEF ResolveInv

LEMMA PlacePerceive ==
    ASSUME TypeInv, ResolveInv, NEW r \in Segments, Perceive(r)
    PROVE  ResolveInv'
<1>1. OnePlace(r) /\ ~Working(r) /\ pc[r] = "idle"
    BY DEF ResolveInv, Perceive, Working
<1>2. /\ inbox'[r].reports = <<>> /\ pending'[r] = pending[r] \o inbox[r].reports
      /\ pc'[r] \in {"respond", "idle"} /\ trace' = trace /\ reported' = reported
    BY DEF Perceive, TypeInv, TypeOK, EmptyInbox
<1>3. Voted(r)' \subseteq Voted(r)
    <2>1. vote'[r] = OnVoteResponses(r)
        BY DEF Perceive, TypeInv, TypeOK
    <2>2. vote[r] # NoVote => vote[r] \in VoteRecord
        BY DEF TypeInv, TypeOK
    <2>3. vote'[r] # NoVote => vote[r] # NoVote /\ vote'[r].threat = vote[r].threat
        BY <2>1, <2>2 DEF OnVoteResponses, VoteRecord
    <2> QED BY <2>3 DEF Voted
<1>4. InHand(r)' = {} /\ InHand(r) = {} /\ Resolved(r)' = Resolved(r)
    BY <1>1, <1>2 DEF InHand, Working, Resolved, Logged
<1>5. Items(<<>>) = {} /\ Distinct(<<>>)
    BY DEF Items, Distinct
<1>6. /\ Distinct(pending'[r])
      /\ Items(pending'[r]) = Items(pending[r]) \cup Items(inbox[r].reports)
    <2>1. pending[r] \in Seq(Threats) /\ inbox[r].reports \in Seq(Threats)
        BY DEF TypeInv, TypeOK, Inbox
    <2>2. /\ Distinct(pending[r]) /\ Distinct(inbox[r].reports)
          /\ Items(pending[r]) \cap Items(inbox[r].reports) = {}
        BY <1>1 DEF OnePlace
    <2> QED BY <1>2, <2>1, <2>2, ConcatItems
<1>7. Queued(r)' = Queued(r)
    BY <1>2, <1>5, <1>6 DEF Queued
<1>8. OnePlace(r)'
    BY <1>1, <1>2, <1>3, <1>4, <1>5, <1>6, <1>7 DEF OnePlace
<1>9. ResponseLogged(r)' /\ ResolvedOnce'
    BY <1>2, OnceQuiet DEF ResponseLogged, ResolveInv
<1>10. \A q \in Segments \ {r} :
                /\ inbox'[q].reports = inbox[q].reports /\ pending'[q] = pending[q]
                /\ vote'[q] = vote[q] /\ pc'[q] = pc[q] /\ job'[q] = job[q]
                /\ trace'[q] = trace[q]
    BY DEF Perceive
<1> QED BY <1>2, <1>8, <1>9, <1>10, OneMoves

\* Steps of r that take its first pending threat away: dropped, or in hand.
LEMMA PlacePop ==
    ASSUME TypeInv, ResolveInv, NEW r \in Segments, ~Working(r),
           pending[r] # <<>>, pending' = [pending EXCEPT ![r] = Tail(@)],
           reported' = reported, inbox' = inbox, vote' = vote,
           InHand(r)' \subseteq {Head(pending[r])}, Resolved(r)' = Resolved(r),
           pc'[r] # "resolve", ResolvedOnce',
           \A q \in Segments \ {r} : pc'[q] = pc[q] /\ job'[q] = job[q] /\ trace'[q] = trace[q]
    PROVE  ResolveInv'
<1>1. OnePlace(r)
    BY DEF ResolveInv
<1>2. pending'[r] = Tail(pending[r]) /\ pending[r] \in Seq(Threats)
    BY DEF TypeInv, TypeOK
<1>3. /\ Head(pending[r]) \in Items(pending[r])
      /\ Items(pending'[r]) = Items(pending[r]) \ {Head(pending[r])}
      /\ Distinct(pending'[r])
    BY <1>1, <1>2, PopItems DEF OnePlace
<1>4. Voted(r)' = Voted(r) /\ InHand(r) = {}
    BY DEF Voted, InHand
<1>5. Queued(r)' = Queued(r) \ {Head(pending[r])} /\ Head(pending[r]) \in Queued(r)
    BY <1>1, <1>3 DEF Queued, OnePlace
<1>6. OnePlace(r)'
    BY <1>1, <1>3, <1>4, <1>5 DEF OnePlace
<1>7. ResponseLogged(r)'
    BY DEF ResponseLogged
<1>8. \A q \in Segments \ {r} : pending'[q] = pending[q]
    BY DEF TypeInv, TypeOK
<1> QED BY <1>6, <1>7, <1>8, OneMoves

LEMMA PlaceSkipContained ==
    ASSUME TypeInv, ResolveInv, NEW r \in Segments, SkipContained(r)
    PROVE  ResolveInv'
<1>1. /\ ~Working(r) /\ ~Working(r)' /\ pc'[r] # "resolve" /\ trace' = trace
      /\ pending[r] # <<>> /\ pending' = [pending EXCEPT ![r] = Tail(@)]
      /\ \A q \in Segments \ {r} : pc'[q] = pc[q] /\ job'[q] = job[q]
    BY DEF SkipContained, TypeInv, TypeOK, Working, NextItem, RestOfPending
<1>2. InHand(r)' = {} /\ Resolved(r)' = Resolved(r) /\ ResolvedOnce'
    BY <1>1, OnceQuiet DEF InHand, Resolved, Logged, ResolveInv
<1> QED BY <1>1, <1>2, PlacePop DEF SkipContained

LEMMA PlaceHandleThreat ==
    ASSUME TypeInv, ResolveInv, NEW r \in Segments, HandleThreat(r)
    PROVE  ResolveInv'
<1>1. /\ ~Working(r) /\ pc'[r] # "resolve" /\ job'[r].threat = Head(pending[r])
      /\ pending[r] # <<>> /\ pending' = [pending EXCEPT ![r] = Tail(@)]
      /\ \A q \in Segments \ {r} : pc'[q] = pc[q] /\ job'[q] = job[q] /\ trace'[q] = trace[q]
    BY DEF HandleThreat, TypeInv, TypeOK, Working, RestOfPending, Record
<1>2. InHand(r)' \subseteq {Head(pending[r])}
    BY <1>1 DEF InHand
<1>3. Resolved(r)' = Resolved(r) /\ ResolvedOnce'
    <2> DEFINE e == [event |-> "BID", threat |-> Head(pending[r])]
    <2>1. Record(r, e) /\ e.event # "RESOLVED"
        BY DEF HandleThreat
    <2> HIDE DEF e
    <2> QED BY <2>1, ResolvedGrows, OnceRecord DEF ResolveInv
<1> QED BY <1>1, <1>2, <1>3, PlacePop DEF HandleThreat

\* Steps of r that pass no threat on: replies, the end of the loop, the call of
\* the simulator and the log of the response.
LEMMA PlaceSame ==
    ASSUME TypeInv, ResolveInv, NEW r \in Segments, reported' = reported,
           \A q \in Segments : inbox'[q].reports = inbox[q].reports,
           pending' = pending, vote' = vote, InHand(r)' = InHand(r),
           Resolved(r)' = Resolved(r), ResolvedOnce', ResponseLogged(r)',
           \A q \in Segments \ {r} : pc'[q] = pc[q] /\ job'[q] = job[q] /\ trace'[q] = trace[q]
    PROVE  ResolveInv'
<1>1. OnePlace(r)
    BY DEF ResolveInv
<1>2. Voted(r)' = Voted(r)
    BY DEF Voted
<1>3. OnePlace(r)'
    BY <1>1, <1>2, QueuesStay DEF OnePlace
<1> QED BY <1>3, OneMoves

LEMMA PlaceSendReply ==
    ASSUME TypeInv, ResolveInv, NEW r \in Segments, SendReply(r)
    PROVE  ResolveInv'
<1>1. ASSUME NEW q \in Segments PROVE inbox'[q].reports = inbox[q].reports
    <2>1. inbox[q] \in Inbox /\ inbox \in [Segments -> Inbox]
        BY DEF TypeInv, TypeOK
    <2>2. inbox'[q] = inbox[q] \/ \E m : inbox'[q] = [inbox[q] EXCEPT !.ballots = @ \cup {m}]
        BY <2>1 DEF SendReply, BroadcastReply
    <2> QED BY <2>1, <2>2 DEF Inbox
<1>2. \A q \in Segments \ {r} : trace'[q] = trace[q]
    BY DEF SendReply, Record
<1>3. Resolved(r)' = Resolved(r) /\ ResolvedOnce'
    <2> DEFINE e == [event |-> "PROPOSE", vote_id |-> Head(outbox[r]).vote_id,
                     decision |-> Head(outbox[r]).decision]
    <2>1. Record(r, e) /\ e.event # "RESOLVED"
        BY DEF SendReply
    <2> HIDE DEF e
    <2> QED BY <2>1, ResolvedGrows, OnceRecord DEF ResolveInv
<1>4. InHand(r)' = InHand(r) /\ ResponseLogged(r)'
    BY DEF SendReply, InHand, Working, ResponseLogged
<1> QED BY <1>1, <1>2, <1>3, <1>4, PlaceSame DEF SendReply

LEMMA PlaceQuiet ==
    ASSUME TypeInv, ResolveInv, NEW r \in Segments,
           KeepVote(r) \/ StepDone(r) \/ Execute(r)
    PROVE  ResolveInv'
<1>1. /\ trace' = trace /\ inbox' = inbox /\ pending' = pending /\ vote' = vote
      /\ reported' = reported /\ job' = job
    BY DEF KeepVote, StepDone, Execute
<1>2. /\ pc'[r] # "resolve" /\ (Working(r)' <=> Working(r))
      /\ \A q \in Segments \ {r} : pc'[q] = pc[q]
    <2>1. CASE KeepVote(r)
        BY <2>1 DEF KeepVote, TypeInv, TypeOK, Working
    <2>2. CASE StepDone(r)
        BY <2>2 DEF StepDone, TypeInv, TypeOK, Working
    <2>3. CASE Execute(r)
        BY <2>3 DEF Execute, TypeInv, TypeOK, Working
    <2> QED BY <2>1, <2>2, <2>3
<1>3. InHand(r)' = InHand(r) /\ Resolved(r)' = Resolved(r)
    BY <1>1, <1>2 DEF InHand, Resolved, Logged
<1>4. ResponseLogged(r)' /\ ResolvedOnce'
    BY <1>1, <1>2, OnceQuiet DEF ResponseLogged, ResolveInv
<1> QED BY <1>1, <1>2, <1>3, <1>4, PlaceSame

LEMMA PlaceLogResponse ==
    ASSUME TypeInv, ResolveInv, NEW r \in Segments, LogResponse(r)
    PROVE  ResolveInv'
<1> DEFINE e == [event |-> "RESPONSE", action |-> job[r].action,
                 segment |-> ThreatOf[job[r].threat].segment,
                 threat |-> job[r].threat, vote_id |-> job[r].vote_id]
<1>1. Record(r, e) /\ e.event = "RESPONSE" /\ e.threat = job[r].threat
    BY DEF LogResponse
<1>2. \A q \in Segments \ {r} : trace'[q] = trace[q] /\ pc'[q] = pc[q]
    BY DEF LogResponse, Record
<1>3. job' = job /\ pc'[r] = "resolve" /\ pc[r] = "applied"
    BY DEF LogResponse, TypeInv, TypeOK
<1> HIDE DEF e
<1>4. Resolved(r)' = Resolved(r) /\ ResolvedOnce' /\ ResponseLogged(r)'
    BY <1>1, <1>3, ResolvedGrows, OnceRecord DEF ResolveInv, ResponseLogged
<1>5. InHand(r)' = InHand(r)
    BY <1>3 DEF InHand, Working
<1> QED BY <1>2, <1>3, <1>4, <1>5, PlaceSame DEF LogResponse

LEMMA PlaceLogFallback ==
    ASSUME TypeInv, ResolveInv, NEW r \in Segments, LogFallback(r)
    PROVE  ResolveInv'
<1> DEFINE e == [event |-> "VOTE_FAILED", threat |-> job[r].threat]
<1>1. Record(r, e) /\ e.event = "VOTE_FAILED"
    BY DEF LogFallback
<1>2. \A q \in Segments \ {r} : trace'[q] = trace[q] /\ pc'[q] = pc[q]
    BY DEF LogFallback, Record
<1>3. job' = job /\ pc'[r] = "execute" /\ pc[r] = "fallback"
    BY DEF LogFallback, TypeInv, TypeOK
<1> HIDE DEF e
<1>4. Resolved(r)' = Resolved(r) /\ ResolvedOnce' /\ ResponseLogged(r)'
    BY <1>1, <1>3, ResolvedGrows, OnceRecord DEF ResolveInv, ResponseLogged
<1>5. InHand(r)' = InHand(r)
    BY <1>3 DEF InHand, Working
<1> QED BY <1>2, <1>3, <1>4, <1>5, PlaceSame DEF LogFallback

LEMMA PlaceProgressVote ==
    ASSUME TypeInv, ResolveInv, NEW r \in Segments, ProgressVote(r)
    PROVE  ResolveInv'
<1>1. /\ reported' = reported /\ inbox' = inbox /\ pending' = pending
      /\ vote[r] # NoVote /\ vote'[r] = NoVote /\ pc'[r] \in {"execute", "fallback"}
      /\ ~Working(r) /\ job'[r].threat = vote[r].threat
      /\ \A q \in Segments \ {r} : /\ vote'[q] = vote[q] /\ pc'[q] = pc[q]
                                   /\ job'[q] = job[q] /\ trace'[q] = trace[q]
    BY DEF ProgressVote, Complete, Record, TypeInv, TypeOK, Working
<1>2. Resolved(r)' = Resolved(r) /\ ResolvedOnce'
    <2> DEFINE v == vote[r]
               ballots == FinalBallots(v)
               approved == Tally(ballots, Cardinality(v.members))
               e == [event |-> "VOTE_CAST", vote_id |-> v.id, members |-> v.members,
                     ballots |-> ballots, approved |-> approved, latency |-> v.elapsed]
    <2>1. Record(r, e) /\ e.event # "RESOLVED"
        BY DEF ProgressVote
    <2> HIDE DEF e
    <2> QED BY <2>1, ResolvedGrows, OnceRecord DEF ResolveInv
<1>3. Voted(r)' = {} /\ InHand(r)' = Voted(r) /\ InHand(r) = {}
    BY <1>1 DEF Voted, InHand, Working
<1>4. OnePlace(r)
    BY DEF ResolveInv
<1>5. OnePlace(r)'
    BY <1>1, <1>2, <1>3, <1>4, QueuesStay DEF OnePlace
<1>6. ResponseLogged(r)'
    BY <1>1 DEF ResponseLogged
<1> QED BY <1>1, <1>2, <1>5, <1>6, OneMoves

LEMMA PlaceStartVote ==
    ASSUME TypeInv, ResolveInv, NEW r \in Segments, StartVote(r)
    PROVE  ResolveInv'
<1>1. /\ reported' = reported /\ pending' = pending /\ trace' = trace
      /\ Working(r) /\ ~Working(r)' /\ pc'[r] # "resolve" /\ vote'[r].threat = job[r].threat
      /\ \A q \in Segments \ {r} : vote'[q] = vote[q] /\ pc'[q] = pc[q] /\ job'[q] = job[q]
    BY DEF StartVote, TypeInv, TypeOK, Working
<1>2. \A q \in Segments : inbox'[q].reports = inbox[q].reports
    BY DEF StartVote, BroadcastRequest, TypeInv, TypeOK, Inbox
<1>3. Voted(r)' \subseteq InHand(r) /\ InHand(r)' = {} /\ Resolved(r)' = Resolved(r)
    BY <1>1 DEF Voted, InHand, Resolved, Logged
<1>4. OnePlace(r)
    BY DEF ResolveInv
<1>5. OnePlace(r)'
    BY <1>1, <1>2, <1>3, <1>4, QueuesStay DEF OnePlace
<1>6. ResponseLogged(r)' /\ ResolvedOnce'
    BY <1>1, OnceQuiet DEF ResponseLogged, ResolveInv
<1> QED BY <1>1, <1>2, <1>5, <1>6, OneMoves

LEMMA PlaceResolve ==
    ASSUME TypeInv, OwnThreats, ResolveInv, NEW r \in Segments, ResolveIncident(r)
    PROVE  ResolveInv'
<1> DEFINE t == job[r].threat
           e == [event |-> "RESOLVED", threat |-> t]
           n == Len(trace[r]) + 1
<1>1. Record(r, e) /\ e.event = "RESOLVED" /\ e.threat = t
    BY DEF ResolveIncident
<1>2. /\ Working(r) /\ ~Working(r)' /\ pc'[r] # "resolve"
      /\ \A q \in Segments \ {r} : pc'[q] = pc[q] /\ job'[q] = job[q]
    BY DEF ResolveIncident, TypeInv, TypeOK, Working, NextItem
<1>3. t \in Threats /\ ThreatOf[t].segment = r
    BY <1>2 DEF OwnThreats, Mine, Actionable
<1>4. t \in InHand(r) /\ t \notin Resolved(r) /\ OnePlace(r)
    BY <1>2 DEF InHand, ResolveInv, OnePlace
<1>5. /\ trace[r] # <<>> /\ trace[r][Len(trace[r])].event = "RESPONSE"
      /\ trace[r][Len(trace[r])].threat = t
    BY DEF ResolveIncident, ResolveInv, ResponseLogged
<1> HIDE DEF e, t, n
<1>6. \A q \in Segments \ {r} : trace'[q] = trace[q]
    BY <1>1, RecordAppends
<1>7. /\ Len(trace[r]) \in Nat /\ n - 1 \in DOMAIN trace[r] /\ DOMAIN trace'[r] = 1..n
      /\ DOMAIN trace[r] = 1..(n - 1) /\ n \in Nat /\ n > 1
      /\ \A i \in DOMAIN trace[r] : trace'[r][i] = trace[r][i]
      /\ trace'[r][n] = e
    <2>1. trace[r] \in Seq(Events)
        BY DEF TypeInv, TypeOK
    <2>2. Len(trace[r]) >= 1 /\ Len(trace[r]) \in Nat
        BY <1>5, <2>1
    <2> QED BY <1>1, <2>2, RecordAppends DEF n
<1>8. \A q \in Segments : \A i \in DOMAIN trace[q] :
            Logged(q, i, "RESOLVED") => trace[q][i].threat # t
    <2> SUFFICES ASSUME NEW q \in Segments, NEW i \in DOMAIN trace[q],
                        Logged(q, i, "RESOLVED"), trace[q][i].threat = t
                 PROVE  FALSE
        OBVIOUS
    <2>1. q = r
        BY <1>3 DEF ResolveInv, ResolvedOnce
    <2> QED BY <1>3, <1>4, <2>1 DEF Resolved
<1>9. ResolvedOnce'
    <2> SUFFICES ASSUME NEW q \in Segments, NEW i \in DOMAIN trace'[q],
                        Logged(q, i, "RESOLVED")'
                 PROVE  /\ ThreatOf[trace'[q][i].threat].segment = q
                        /\ i > 1 /\ Logged(q, i - 1, "RESPONSE")'
                        /\ trace'[q][i - 1].threat = trace'[q][i].threat
                        /\ \A p \in Segments : \A j \in DOMAIN trace'[p] :
                            (Logged(p, j, "RESOLVED")'
                                /\ trace'[p][j].threat = trace'[q][i].threat) => p = q /\ j = i
        BY DEF ResolvedOnce
    <2>1. \A p \in Segments : \A j \in DOMAIN trace'[p] :
            Logged(p, j, "RESOLVED")' =>
                \/ p = r /\ j = n /\ trace'[p][j].threat = t
                \/ /\ j \in DOMAIN trace[p] /\ trace'[p][j] = trace[p][j]
                   /\ Logged(p, j, "RESOLVED") /\ trace[p][j].threat # t
        <3> TAKE p \in Segments
        <3> TAKE j \in DOMAIN trace'[p]
        <3> HAVE Logged(p, j, "RESOLVED")'
        <3>1. CASE p = r /\ j = n
            BY <1>1, <1>7, <3>1
        <3>2. CASE ~(p = r /\ j = n)
            <4>1. j \in DOMAIN trace[p] /\ trace'[p][j] = trace[p][j]
                BY <1>6, <1>7, <3>2
            <4>2. Logged(p, j, "RESOLVED")
                BY <4>1 DEF Logged
            <4> QED BY <1>8, <4>1, <4>2
        <3> QED BY <3>1, <3>2
    <2>2. CASE q = r /\ i = n /\ trace'[q][i].threat = t
        <3>1. /\ i > 1 /\ Logged(q, i - 1, "RESPONSE")'
              /\ trace'[q][i - 1].threat = t
            <4>1. n - 1 \in DOMAIN trace'[r] /\ trace'[r][n - 1] = trace[r][n - 1]
                  /\ n - 1 = Len(trace[r])
                BY <1>7 DEF n
            <4> QED BY <1>5, <1>7, <2>2, <4>1 DEF Logged
        <3> QED BY <1>3, <2>1, <2>2, <3>1
    <2>3. CASE /\ i \in DOMAIN trace[q] /\ trace'[q][i] = trace[q][i]
               /\ Logged(q, i, "RESOLVED") /\ trace[q][i].threat # t
        <3>1. /\ ThreatOf[trace[q][i].threat].segment = q
              /\ i > 1 /\ Logged(q, i - 1, "RESPONSE")
              /\ trace[q][i - 1].threat = trace[q][i].threat
              /\ \A p \in Segments : \A j \in DOMAIN trace[p] :
                    (Logged(p, j, "RESOLVED") /\ trace[p][j].threat = trace[q][i].threat)
                        => p = q /\ j = i
            BY <2>3 DEF ResolveInv, ResolvedOnce
        <3>2. i - 1 \in DOMAIN trace'[q] /\ trace'[q][i - 1] = trace[q][i - 1]
            <4>1. i - 1 \in DOMAIN trace[q]
                BY <3>1 DEF Logged
            <4> QED BY <1>1, <4>1, RecordAppends
        <3>3. Logged(q, i - 1, "RESPONSE")'
            BY <3>1, <3>2 DEF Logged
        <3> QED BY <2>1, <2>3, <3>1, <3>2, <3>3
    <2> QED BY <2>1, <2>2, <2>3
<1>10. OnePlace(r)'
    <2>1. Voted(r)' = Voted(r) /\ InHand(r)' = {} /\ InHand(r) = {t}
        BY <1>2 DEF ResolveIncident, Voted, InHand, t
    <2>2. Resolved(r)' = Resolved(r) \cup {t}
        BY <1>1, <1>3, ResolvedGrows
    <2>3. /\ reported' = reported /\ inbox'[r].reports = inbox[r].reports
          /\ pending'[r] = pending[r]
        BY DEF ResolveIncident
    <2> QED BY <1>4, <2>1, <2>2, <2>3, QueuesStay DEF OnePlace
<1>11. ResponseLogged(r)'
    BY <1>2 DEF ResponseLogged
<1> QED BY <1>2, <1>6, <1>9, <1>10, <1>11, OneMoves DEF ResolveIncident

LEMMA ResolveStep == TypeInv /\ OwnThreats /\ ResolveInv /\ [Next]_vars => ResolveInv'
<1> SUFFICES ASSUME TypeInv, OwnThreats, ResolveInv, [Next]_vars PROVE ResolveInv'
    OBVIOUS
<1>1. ASSUME NEW r \in Segments, reported' = reported,
             inbox'[r].reports = inbox[r].reports, pending'[r] = pending[r],
             Voted(r)' = Voted(r), pc'[r] = pc[r], job'[r] = job[r], trace'[r] = trace[r]
      PROVE  OnePlace(r)' /\ ResponseLogged(r)'
    BY <1>1, PlacesStay DEF ResolveInv
<1>2. CASE UNCHANGED vars
    BY <1>1, <1>2, OnceQuiet DEF vars, Voted, ResolveInv
<1>3. ASSUME NEW S \in SUBSET Segments, FormCoalition(S) PROVE ResolveInv'
    <2>1. \A r \in Segments : inbox'[r].reports = inbox[r].reports
        BY <1>3 DEF FormCoalition, TypeInv, TypeOK, Inbox
    <2>2. \A r \in Segments : Voted(r)' = Voted(r)
        BY <1>3 DEF FormCoalition, Voted
    <2> QED BY <1>1, <1>3, <2>1, <2>2, OnceQuiet DEF FormCoalition, ResolveInv
<1>4. CASE Tick
    <2>1. ASSUME NEW r \in Segments PROVE OnePlace(r)'
        <3>1. Voted(r)' \subseteq Voted(r)
            BY <1>4 DEF Tick, Voted, TypeInv, TypeOK, VoteRecord
        <3>2. InHand(r)' = InHand(r) /\ Resolved(r)' = Resolved(r)
            BY <1>4 DEF Tick, InHand, Working, Resolved, Logged
        <3>3. OnePlace(r)
            BY DEF ResolveInv
        <3> QED BY <1>4, <3>1, <3>2, <3>3, QueuesStay DEF Tick, OnePlace
    <2>2. ResolvedOnce' /\ \A r \in Segments : ResponseLogged(r)'
        BY <1>4, OnceQuiet DEF Tick, ResolveInv, ResponseLogged
    <2> QED BY <2>1, <2>2 DEF ResolveInv
<1>5. ASSUME NEW r \in Segments, Crash(r) PROVE ResolveInv'
    BY <1>1, <1>5, OnceQuiet DEF Crash, Voted, ResolveInv
<1> QED BY <1>2, <1>3, <1>4, <1>5, PlaceReport, PlacePerceive, PlaceSendReply, PlaceQuiet,
           PlaceProgressVote, PlaceSkipContained, PlaceHandleThreat, PlaceStartVote,
           PlaceLogFallback, PlaceLogResponse, PlaceResolve
        DEF Next, Environment, RcaStep, Respond

\* agents/rca/agent.py _respond, _resolve_incident: an incident is answered and
\* declared resolved at most once, by the RCA of its segment.
THEOREM IncidentsResolvedOnce == Spec => []ResolvedOnce
<1>1. Init => TypeInv /\ OwnThreats /\ ResolveInv
    BY TypeInit, OwnInit, ResolveInit
<1>2. TypeInv /\ OwnThreats /\ ResolveInv /\ [Next]_vars
        => (TypeInv /\ OwnThreats /\ ResolveInv)'
    BY TypeStep, OwnStep, ResolveStep
<1>3. ResolveInv => ResolvedOnce
    BY DEF ResolveInv
<1> QED BY <1>1, <1>2, <1>3, PTL DEF Spec
-----------------------------------------------------------------------------
(***************************************************************************)
(* ResponseCoordinator implements Containment.  The argument rests on the  *)
(* invariants of the sections before and on two more: an RCA with work at  *)
(* hand has been alarmed, and an RCA whose segment is isolated knows it or *)
(* has just done it.                                                       *)
(***************************************************************************)
-----------------------------------------------------------------------------
(* An RCA is at work only on a reported threat of its own segment *)

Busy(r) ==
    \/ inbox[r].reports # <<>> \/ pending[r] # <<>>
    \/ vote[r] # NoVote \/ Working(r)

AlarmKnown == \A r \in Segments : Busy(r) => r \in Alarmed

LEMMA AlarmInit == Init => AlarmKnown
BY DEF Init, AlarmKnown, Busy, Working, EmptyInbox

\* Steps that bring no new work to anyone.
LEMMA AlarmQuiet ==
    ASSUME AlarmKnown, reported' = reported, \A r \in Segments : Busy(r)' => Busy(r)
    PROVE  AlarmKnown'
BY DEF AlarmKnown, Alarmed

\* Emptying or extending another subscription leaves the reports alone.
LEMMA ReportsStay ==
    ASSUME NEW box \in Inbox
    PROVE  /\ \A q : [box EXCEPT !.requests = Append(@, q)].reports = box.reports
           /\ \A m : [box EXCEPT !.ballots = @ \cup {m}].reports = box.reports
           /\ \A S : [box EXCEPT !.coalitions = Append(@, S)].reports = box.reports
BY DEF Inbox

LEMMA AlarmStep == TypeInv /\ AlarmKnown /\ [Next]_vars => AlarmKnown'
<1> SUFFICES ASSUME TypeInv, AlarmKnown, [Next]_vars PROVE AlarmKnown'
    OBVIOUS
<1> USE DEF TypeInv, TypeOK
<1>1. CASE UNCHANGED vars
    BY <1>1, AlarmQuiet DEF vars, Busy, Working
<1>2. ASSUME NEW t \in Threats, Report(t) PROVE AlarmKnown'
    <2> SUFFICES ASSUME NEW r \in Segments, Busy(r)' PROVE r \in Alarmed'
        BY DEF AlarmKnown
    <2>1. reported' = reported \cup {t}
        BY <1>2 DEF Report
    <2>2. CASE Actionable(r, t)
        BY <2>1, <2>2 DEF Alarmed, Actionable
    <2>3. CASE ~Actionable(r, t)
        <3>1. Busy(r)
            BY <1>2, <2>3 DEF Report, Busy, Working
        <3> QED BY <2>1, <3>1 DEF AlarmKnown, Alarmed, Actionable
    <2> QED BY <2>2, <2>3
<1>3. ASSUME NEW S \in SUBSET Segments, FormCoalition(S) PROVE AlarmKnown'
    <2>1. \A r \in Segments : inbox'[r].reports = inbox[r].reports
        BY <1>3, ReportsStay DEF FormCoalition
    <2> QED BY <1>3, <2>1, AlarmQuiet DEF FormCoalition, Busy, Working
<1>4. CASE Tick
    BY <1>4, AlarmQuiet DEF Tick, Busy, Working
<1>5. ASSUME NEW r \in Segments, Crash(r) PROVE AlarmKnown'
    BY <1>5, AlarmQuiet DEF Crash, Busy, Working
<1>6. ASSUME NEW r \in Segments, Perceive(r) PROVE AlarmKnown'
    <2>1. Busy(r)' => Busy(r)
        <3>1. pending'[r] # <<>> => pending[r] # <<>> \/ inbox[r].reports # <<>>
            BY <1>6 DEF Perceive, Inbox
        <3>2. inbox'[r].reports = <<>> /\ ~Working(r)'
            BY <1>6 DEF Perceive, EmptyInbox, Working
        <3>3. vote'[r] # NoVote => vote[r] # NoVote
            BY <1>6 DEF Perceive, OnVoteResponses
        <3> QED BY <3>1, <3>2, <3>3 DEF Busy
    <2>2. \A q \in Segments \ {r} : Busy(q)' => Busy(q)
        BY <1>6 DEF Perceive, Busy, Working
    <2> QED BY <1>6, <2>1, <2>2, AlarmQuiet DEF Perceive
<1>7. ASSUME NEW r \in Segments, SendReply(r) PROVE AlarmKnown'
    <2>1. \A q \in Segments : inbox'[q].reports = inbox[q].reports
        BY <1>7, ReportsStay DEF SendReply, BroadcastReply
    <2> QED BY <1>7, <2>1, AlarmQuiet DEF SendReply, Busy, Working
<1>8. ASSUME NEW r \in Segments, KeepVote(r) \/ StepDone(r) PROVE AlarmKnown'
    BY <1>8, AlarmQuiet DEF KeepVote, StepDone, Busy, Working
<1>9. ASSUME NEW r \in Segments, ProgressVote(r) PROVE AlarmKnown'
    <2>1. Busy(r)
        BY <1>9 DEF ProgressVote, Complete, Busy
    <2>2. \A q \in Segments \ {r} : Busy(q)' => Busy(q)
        BY <1>9 DEF ProgressVote, Busy, Working
    <2> QED BY <1>9, <2>1, <2>2, AlarmQuiet DEF ProgressVote
<1>10. ASSUME NEW r \in Segments, SkipContained(r) \/ HandleThreat(r) PROVE AlarmKnown'
    <2>1. Busy(r)
        BY <1>10 DEF SkipContained, HandleThreat, Busy
    <2>2. \A q \in Segments \ {r} : Busy(q)' => Busy(q)
        BY <1>10 DEF SkipContained, HandleThreat, Busy, Working
    <2> QED BY <1>10, <2>1, <2>2, AlarmQuiet DEF SkipContained, HandleThreat
<1>11. ASSUME NEW r \in Segments, StartVote(r) PROVE AlarmKnown'
    <2>1. \A q \in Segments : inbox'[q].reports = inbox[q].reports
        BY <1>11, ReportsStay DEF StartVote, BroadcastRequest
    <2>2. Busy(r)
        BY <1>11 DEF StartVote, Busy, Working
    <2>3. \A q \in Segments \ {r} : Busy(q)' => Busy(q)
        BY <1>11, <2>1 DEF StartVote, Busy, Working
    <2> QED BY <1>11, <2>2, <2>3, AlarmQuiet DEF StartVote
<1>12. ASSUME NEW r \in Segments,
              LogFallback(r) \/ Execute(r) \/ LogResponse(r) \/ ResolveIncident(r)
       PROVE  AlarmKnown'
    <2>1. Busy(r)
        BY <1>12 DEF LogFallback, Execute, LogResponse, ResolveIncident, Busy, Working
    <2>2. \A q \in Segments \ {r} : Busy(q)' => Busy(q)
        BY <1>12 DEF LogFallback, Execute, LogResponse, ResolveIncident, Busy, Working
    <2> QED BY <1>12, <2>1, <2>2, AlarmQuiet
            DEF LogFallback, Execute, LogResponse, ResolveIncident
<1> QED BY <1>1, <1>2, <1>3, <1>4, <1>5, <1>6, <1>7, <1>8, <1>9, <1>10, <1>11, <1>12
        DEF Next, Environment, RcaStep, Respond

-----------------------------------------------------------------------------
(* Between the simulator's answer and the RCA's next line *)

\* A segment is isolated only if its RCA remembers it, or stands (perhaps for
\* ever, if it crashed) between applying the quarantine and remembering it.
IsolationKnown ==
    \A s \in Segments :
        "QUARANTINE" \in defenses[s] =>
            \/ s \in quarantined[s]
            \/ pc[s] = "applied" /\ job[s].action = "QUARANTINE"

LEMMA IsolationInit == Init => IsolationKnown
BY DEF Init, IsolationKnown

LEMMA IsolationQuiet ==
    ASSUME IsolationKnown, defenses' = defenses, quarantined' = quarantined,
           \A s \in Segments : pc[s] = "applied" => pc'[s] = "applied" /\ job'[s] = job[s]
    PROVE  IsolationKnown'
BY DEF IsolationKnown

LEMMA IsolationStep == TypeInv /\ OwnThreats /\ IsolationKnown /\ [Next]_vars => IsolationKnown'
<1> SUFFICES ASSUME TypeInv, OwnThreats, IsolationKnown, [Next]_vars PROVE IsolationKnown'
    OBVIOUS
<1>1. CASE UNCHANGED vars
    BY <1>1, IsolationQuiet DEF vars
<1>2. CASE Environment
    BY <1>2, IsolationQuiet DEF Environment, Report, FormCoalition, Tick, Crash
<1>3. ASSUME NEW r \in Segments,
             Perceive(r) \/ SendReply(r) \/ KeepVote(r) \/ ProgressVote(r) \/ StepDone(r)
             \/ SkipContained(r) \/ HandleThreat(r) \/ StartVote(r) \/ ResolveIncident(r)
             \/ LogFallback(r)
      PROVE  IsolationKnown'
    <2>1. pc[r] # "applied" /\ defenses' = defenses /\ quarantined' = quarantined
        BY <1>3 DEF Perceive, SendReply, KeepVote, ProgressVote, StepDone, SkipContained,
                    HandleThreat, StartVote, ResolveIncident, LogFallback
    <2>2. \A q \in Segments \ {r} : pc'[q] = pc[q] /\ job'[q] = job[q]
        <3>1. CASE Perceive(r)
            BY <3>1 DEF Perceive
        <3>2. CASE SendReply(r)
            BY <3>2 DEF SendReply
        <3>3. CASE KeepVote(r)
            BY <3>3 DEF KeepVote
        <3>4. CASE ProgressVote(r)
            BY <3>4 DEF ProgressVote
        <3>5. CASE StepDone(r)
            BY <3>5 DEF StepDone
        <3>6. CASE SkipContained(r)
            BY <3>6 DEF SkipContained
        <3>7. CASE HandleThreat(r)
            BY <3>7 DEF HandleThreat
        <3>8. CASE StartVote(r)
            BY <3>8 DEF StartVote
        <3>9. CASE ResolveIncident(r)
            BY <3>9 DEF ResolveIncident
        <3>10. CASE LogFallback(r)
            BY <3>10 DEF LogFallback
        <3> QED BY <1>3, <3>1, <3>2, <3>3, <3>4, <3>5, <3>6, <3>7, <3>8, <3>9, <3>10
    <2> QED BY <2>1, <2>2, IsolationQuiet
<1>4. ASSUME NEW r \in Segments, Execute(r) PROVE IsolationKnown'
    <2>1. ThreatOf[job[r].threat].segment = r
        BY <1>4 DEF Execute, OwnThreats, Working, Mine, Actionable
    <2> QED BY <1>4, <2>1 DEF TypeInv, TypeOK, Execute, IsolationKnown
<1>5. ASSUME NEW r \in Segments, LogResponse(r) PROVE IsolationKnown'
    <2>1. ThreatOf[job[r].threat].segment = r
        BY <1>5 DEF LogResponse, OwnThreats, Working, Mine, Actionable
    <2> QED BY <1>5, <2>1 DEF TypeInv, TypeOK, LogResponse, IsolationKnown
<1> QED BY <1>1, <1>2, <1>3, <1>4, <1>5 DEF Next, RcaStep, Respond

-----------------------------------------------------------------------------
(* The refinement *)

Inv ==
    /\ TypeInv /\ OwnThreats /\ AuthInv /\ FinalInv
    /\ AlarmKnown /\ IsolationKnown

LEMMA InvInit == Init => Inv
BY TypeInit, OwnInit, AuthInit, FinalInit, AlarmInit, IsolationInit DEF Inv

LEMMA InvStep == Inv /\ [Next]_vars => Inv'
BY TypeStep, OwnStep, AuthStep, FinalStep, AlarmStep, IsolationStep DEF Inv

LEMMA InitRefines == Init => Contain!Init
BY DEF Init, Contain!Init, Alarmed, Granted

\* Steps that neither report, nor log, nor act are invisible.
LEMMA Invisible ==
    ASSUME reported' = reported, trace' = trace, defenses' = defenses
    PROVE  UNCHANGED <<Alarmed, Granted, defenses>>
BY DEF Alarmed, Granted, Approved, Logged

\* What an RCA logs cannot take a grant back, and grants nothing unless it is an
\* approved vote.
LEMMA GrantsGrow ==
    ASSUME TypeInv, NEW r \in Segments, NEW e, Record(r, e)
    PROVE  /\ Granted \subseteq Granted'
           /\ Granted' \subseteq Granted \cup {r}
           /\ e.event # "VOTE_CAST" \/ ~e.approved => Granted' = Granted
<1>1. \A q \in Segments : q # r => (q \in Granted' <=> q \in Granted)
    BY RecordAppends DEF Granted, Approved, Logged
<1>2. r \in Granted => r \in Granted'
    BY ApprovalStays DEF Granted
<1>3. ASSUME e.event # "VOTE_CAST" \/ ~e.approved, r \in Granted'
      PROVE  r \in Granted
    <2>1. PICK j \in DOMAIN trace'[r] : Approved(r, j)'
        BY <1>3 DEF Granted
    <2>2. trace'[r][j].event = "VOTE_CAST" /\ trace'[r][j].approved
        BY <2>1 DEF Approved, Logged
    <2>3. j \in DOMAIN trace[r] /\ trace'[r][j] = trace[r][j]
        BY <1>3, <2>2, RecordAppends
    <2>4. Approved(r, j)
        BY <2>1, <2>3 DEF Approved, Logged
    <2> QED BY <2>3, <2>4 DEF Granted
<1> QED BY <1>1, <1>2, <1>3 DEF Granted

\* An RCA at work on a threat it does not know to be contained finds its segment
\* alarmed and not isolated.
LEMMA OpenSegment ==
    ASSUME Inv, NEW r \in Segments, pc[r] # "applied",
           \/ vote[r] # NoVote /\ r \notin quarantined[r]
           \/ pc[r] = "execute"
    PROVE  r \in Alarmed /\ "QUARANTINE" \notin defenses[r]
<1>1. r \in Alarmed
    BY DEF Inv, AlarmKnown, Busy, Working
<1>2. r \notin quarantined[r]
    <2>1. CASE pc[r] = "execute"
        BY <2>1 DEF Inv, OwnThreats, Working, Mine, Actionable, FinalInv, ContainmentKnown,
                    Contained
    <2> QED BY <2>1
<1> QED BY <1>1, <1>2 DEF Inv, IsolationKnown

LEMMA StepRefines == Inv /\ [Next]_vars => [Contain!Next]_<<Alarmed, Granted, defenses>>
<1> SUFFICES ASSUME Inv, [Next]_vars
             PROVE  Contain!Next \/ UNCHANGED <<Alarmed, Granted, defenses>>
    OBVIOUS
<1>1. CASE UNCHANGED vars
    BY <1>1, Invisible DEF vars
<1>2. ASSUME NEW t \in Threats, Report(t)
      PROVE  Contain!Next \/ UNCHANGED <<Alarmed, Granted, defenses>>
    <2> DEFINE s == ThreatOf[t].segment
    <2>1. s \in Segments
        BY ThreatsAssumption DEF ThreatRecord
    <2>2. Granted' = Granted /\ defenses' = defenses
        BY <1>2 DEF Report, Granted, Approved, Logged
    <2>3. Alarmed' = Alarmed \/ Alarmed' = Alarmed \cup {s}
        BY <1>2 DEF Report, Alarmed, Actionable
    <2> QED BY <2>1, <2>2, <2>3 DEF Contain!Next, Contain!Alarm
<1>3. CASE (\E S \in SUBSET Segments : FormCoalition(S)) \/ Tick
           \/ (\E r \in Segments : Crash(r))
    BY <1>3, Invisible DEF FormCoalition, Tick, Crash
<1>4. ASSUME NEW r \in Segments,
             Perceive(r) \/ KeepVote(r) \/ StepDone(r) \/ SkipContained(r) \/ StartVote(r)
      PROVE  UNCHANGED <<Alarmed, Granted, defenses>>
    BY <1>4, Invisible DEF Perceive, KeepVote, StepDone, SkipContained, StartVote
<1>5. ASSUME NEW r \in Segments,
             \/ SendReply(r) \/ LogFallback(r) \/ HandleThreat(r)
             \/ LogResponse(r) \/ ResolveIncident(r)
      PROVE  UNCHANGED <<Alarmed, Granted, defenses>>
    <2>1. PICK e : Record(r, e) /\ e.event # "VOTE_CAST"
        BY <1>5, LogsNoVote
    <2>2. Granted' = Granted
        BY <2>1, GrantsGrow DEF Inv
    <2>3. reported' = reported /\ defenses' = defenses
        BY <1>5 DEF SendReply, LogFallback, HandleThreat, LogResponse, ResolveIncident
    <2> QED BY <2>2, <2>3 DEF Alarmed
<1>6. ASSUME NEW r \in Segments, ProgressVote(r)
      PROVE  Contain!Next \/ UNCHANGED <<Alarmed, Granted, defenses>>
    <2>1. \E e : Record(r, e)
        BY <1>6 DEF ProgressVote
    <2>2. Granted' = Granted \/ Granted' = Granted \cup {r}
        BY <2>1, GrantsGrow DEF Inv
    <2>3. r \in Alarmed /\ "QUARANTINE" \notin defenses[r]
        <3>1. vote[r] # NoVote /\ pc[r] = "respond"
            BY <1>6 DEF ProgressVote, Complete
        <3>2. r \notin quarantined[r]
            BY <3>1 DEF Inv, OwnThreats, Mine, Actionable, FinalInv, ContainmentKnown,
                        Contained
        <3> QED BY <3>1, <3>2, OpenSegment
    <2>4. Alarmed' = Alarmed /\ defenses' = defenses
        BY <1>6 DEF ProgressVote, Alarmed
    <2> QED BY <2>2, <2>3, <2>4 DEF Contain!Next, Contain!Grant, Contain!Isolated
<1>7. ASSUME NEW r \in Segments, Execute(r)
      PROVE  Contain!Next \/ UNCHANGED <<Alarmed, Granted, defenses>>
    <2> DEFINE a == job[r].action
    <2>1. /\ pc[r] = "execute" /\ ThreatOf[job[r].threat].segment = r
          /\ a \in ResponseTypes
        BY <1>7 DEF Execute, Inv, OwnThreats, Working, Mine, Actionable, TypeInv, JobKnown, Jobs
    <2>2. r \in Alarmed /\ "QUARANTINE" \notin defenses[r]
        BY <2>1, OpenSegment
    <2>3. Alarmed' = Alarmed /\ Granted' = Granted
        BY <1>7 DEF Execute, Alarmed, Granted, Approved, Logged
    <2>4. defenses' = IF a = "MONITOR" THEN defenses
                      ELSE [defenses EXCEPT ![r] = @ \cup {a}]
        BY <1>7, <2>1 DEF Execute
    <2>5. CASE a = "QUARANTINE"
        <3>1. r \in Granted
            BY <2>1, <2>5 DEF Inv, AuthInv, QuarantineJobApproved, ApprovedFor, Granted
        <3> QED BY <2>2, <2>3, <2>4, <2>5, <3>1
                DEF Contain!Next, Contain!Isolate, Contain!Isolated
    <2>6. CASE a \notin {"QUARANTINE", "MONITOR"}
        BY <2>1, <2>2, <2>3, <2>4, <2>6
           DEF Contain!Next, Contain!Defend, Contain!Isolated
    <2>7. CASE a = "MONITOR"
        BY <2>3, <2>4, <2>7
    <2> QED BY <2>5, <2>6, <2>7
<1> QED BY <1>1, <1>2, <1>3, <1>4, <1>5, <1>6, <1>7
        DEF Next, Environment, RcaStep, Respond

\* The whole fleet, with its votes, late ballots, crashes and backlogs
\* (agents/rca/agent.py), does to the network what Containment allows: nothing
\* without an alarm, no isolation without a grant, nothing after isolation.
THEOREM ImplementsContainment == Spec => ContainmentImplemented
<1>1. Init => Inv /\ Contain!Init
    BY InvInit, InitRefines
<1>2. Inv /\ [Next]_vars => Inv' /\ [Contain!Next]_<<Alarmed, Granted, defenses>>
    BY InvStep, StepRefines
<1> QED BY <1>1, <1>2, PTL DEF Spec, ContainmentImplemented, Contain!Spec
=============================================================================
