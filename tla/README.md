# CDMAS: specifications, model checking and proofs

CDMAS is a multi-agent system that defends four network segments. Traffic
Monitors (TMA) raise alerts, Anomaly Classifiers (ACA) turn them into threat
reports, Response Coordinators (RCA) answer threats and put quarantines to a
vote, a Threat Intelligence agent (TIA) correlates segments and forms
coalitions, a Resource Allocator (RAA) auctions quarantine slots. The agents talk
over a publish-subscribe bus (in memory, or Kafka). A live server runs the whole
fleet in one process and streams frames to a dashboard.

The modules here are translated from the Python source (`src/src/cdmas`).
`PROJECT.json` maps every definition to its lines, and lists the runs, the
hazards and the theorems.

## 1. Inventory

| Component (`src/src/cdmas/...`) | State | Operations | What makes it hard | What makes it correct |
|---|---|---|---|---|
| `agents/rca` + `coordination/voting` | backlog of threats, vote in progress, reply outbox, quarantined segments, coalition | perceive, answer votes, decide or time out a vote, respond, resolve | every `await` lets another agent, the clock or a crash in; late ballots; coalitions that change under a vote | quarantine only on an approved vote of genuine ballots; final; one resolution per incident; every vote ends |
| `common/bdi` | subscriptions, beliefs, `_seq` | perceive, reason, step, publish | one exception ends the agent | messages numbered and stamped |
| `common/messaging/bus` | queues, seen, clock | publish, subscribe | fan-out, dedup | each subscriber once, in order |
| `common/messaging/kafka_bus`, `agents/_common/runner` | pending subscriptions, consumers, watermark per sender, Lamport clock | start, publish, consume | topics read independently, redelivery, restarts, order of start | no duplicates, nothing read and then dropped, causal stamps |
| `live/hub`, `live/sink` | frame counter, drop counter, one bounded queue per client | publish, offer, subscribe | worker threads and the event loop publish together; slow clients | bounded, drops counted, order, never blocks |
| `live/session`, `live/app` | mode, gate event, running, awaiting_next | run loop, set mode, next, stop | control requests on worker threads against an `asyncio.Event` | one round per Next; the gate can always be released |
| `agents/tia` | threat map, reported correlations, time of the last ranking | map update, correlate, form coalition, rank | sets reported once for ever; window bounds | two segments reported within the window share a coalition |
| `agents/raa`, `coordination/auction` | bids, time of the first bid, reclaim belief | auction, reclaim, overhead | bids pile up before a step; ties | every bid settled once, highest severity first |
| `agents/tma` | baseline, time of the last alert, pending alert | sense, publish alert | cooldown, warm-up, an anomaly must not be learnt | a loud attack on a clean baseline is alerted in a round |
| `agents/aca` | pending alerts, recent reports, resolution belief | classify, report, learn | several alerts and a resolution at once; every classifier hears every alert | every alert classified once; every resolution learnt from |
| `coordination/failure` | last heartbeats, handled set | beat, check, reassign | strict timeout against whole rounds, whom to choose | a dead agent flagged once and in time, a living peer takes over |
| `simulator` | attacks, health, quarantined, defenses | tick, inject, prune, apply | threads inject while the loop prunes; attacks outlast isolation | no attack lost; isolation holds |
| `validator/harness` | clock, rounds, the agent that dies | warm-up, run | a death between steps | the checkers of its own runs never fail |
| `validator/constraints` | none (reads a log) | 34 FR checkers | order of events, ties, empty logs | a verdict means what the requirement says |
| `frontend/src/lib` | socket, event store, replay state | reconnect, reduce, derive | stale sockets, truncated history | not modelled (see 6) |
| `analytics`, `attackers`, HTTP edge, Postgres sink | - | scripted load, output | - | not modelled (see 6) |

Interaction: agents call `publish` on the bus and drain their queues at the
start of each step; the RCA and TMA call the simulator; every agent writes to an
event sink, which in the live server is the hub; HTTP handlers call the session
and the hub from worker threads, the WebSocket handlers drain the hub on the
event loop.

## 2. Modules

| Module | Models | Used by |
|---|---|---|
| `RcaPolicy` | `agents/rca/policy.py`, `coordination/voting.py` as operators | `ResponseCoordinator`, `Detection` |
| `Containment` | the abstract specification: alarm, grant, defend, isolate | instance in `ResponseCoordinator` |
| `ResponseCoordinator` | the fleet of RCAs on the in-memory bus | `MCResponseCoordinator`, `ResponseCoordinator_proofs` |
| `KafkaBus` | the production bus and the life of an agent process | `MCKafkaBus`, `KafkaBus_proofs` |
| `EventHub` | the hub and the WebSocket handlers | `MCEventHub`, `EventHub_proofs` |
| `LiveSession` | the run loop, its gate and the control requests | `MCLiveSession`, `LiveSession_proofs` |
| `Constraints` | the 34 checkers of `validator/constraints.py` as operators on a log | `Grading`, `AgentLog`, `Constraints_proofs` |
| `Grading` | a log that grows, graded after every event | `MCGrading`, `Grading_proofs` |
| `AgentLog` | the clock and the event log that agents share | the five below |
| `ThreatIntel` | the TIA and its threat map | `Coordination` |
| `ResourceAllocator` | the RAA and the auction | `Coordination` |
| `Failover` | heartbeat monitor and failover coordinator, the fleet the factory builds | `Coordination` |
| `Coordination` | the harness's rounds over TIA, RAA and failover | `MCCoordination`, `Coordination_proofs` |
| `Classifier` | the decision rules of `agents/aca/classifier.py` as operators | `Detection` |
| `Detection` | simulator, TMAs, ACAs and the round of the live session, with injection and pruning | `MCDetection`, `Detection_proofs` |

How they compose: `Coordination` and `Detection` both extend `AgentLog`, whose
log the checkers of `Constraints` grade, so the agents are judged by the
validator's own words. `ResponseCoordinator` is refined from `Containment`;
`Detection` takes from it only what an RCA answers with and when, and gives it
what it takes as inputs, the reports. `ThreatIntel` forms the coalitions that are an
input of `ResponseCoordinator`. `Coordination`'s environment publishes the
reports and bids of the other two.

A definition with an underscore in its name, as `Complete_NoDeadline`, is a
wrong version of the definition below it: the properties are tested by putting it
in the place of the right one.

### ResponseCoordinator

One action runs from one `await` of `agent.py` to the next, since the agents are
coroutines of one loop (or processes): `Perceive` is perceive, every `on_message`
and the choice of the plan, which have no `await` in between; `SendReply`,
`KeepVote`, `ProgressVote`, `LogFallback` (the "vote_failed" event that precedes
the BLOCK of a failed vote), `SkipContained`, `HandleThreat`, `StartVote`,
`Execute`, `LogResponse`, `ResolveIncident` and `StepDone` are the pieces of
`_respond` and of what it calls. `Report`, `FormCoalition`, `Tick` and `Crash` are
the classifiers, the TIA, the clock and the harness. `trace` is a history of what
an RCA logged; the properties relate its entries.

An RCA is its segment (the factory starts one per segment, named
`RCA:<segment>`). Vote ids are a counter per RCA, for `uuid4`. Severities are
integers in hundredths at the values the code compares. A ballot is kept in a set
since the dictionary that takes it has one entry per voter. The time of a vote is
its age, saturating at the deadline.

### KafkaBus

The start of a process in its steps (subscribe, producer, one consumer after the
other), publishing, consuming, and the broker behind it: a log per topic, a
committed offset per group. A publication is two steps, since `publish` awaits the
broker: `Publish` numbers and stamps the message (`kafka_bus.py:60-63`), `Sent`
is its place in the log (`64-66`), and between them the process's own consumers
go on. `Commit`, `Rejoin`, `Crash` and `Restart` are the auto-commit, a consumer
that lost its group, and a process that ends and is started again with new
counters. A consumer that rejoins goes to `Offset`, as one that starts: back to the
committed offset, or, when none was committed, to the end of the log
(`auto_offset_reset="latest"`); the records it jumps over are kept in `skipped`,
for the properties that speak of records read. `past` is a history: the
stamps of the causal past of the next message, and each message takes a copy of
it along. The broker appends a message once; a producer's retries that append it
twice are left out, and a record delivered twice comes from `Rejoin`.
`SubscribeFirst` chooses between the order of the tests (subscribe, then start)
and the order of `runner.py` (start, then subscribe).

### EventHub

`/manual/send-dos` and `/manual/send-legal` are plain functions, which FastAPI
runs on worker threads, so `publish` runs in several threads at once. The project
pins Python 3.11, whose interpreter switches threads at calls; an action runs
from one such call to the next, hence the steps `NumberFrame`, `ListSubs`,
`Check`, `Evict`, `Count`, `Recheck`, `AppendFrame`. The status frames of a round
come in pairs; one stands for both. A frame is its `server_seq`.

### LiveSession

`run` in its steps, with `asyncio.Event` written out: `LookAtEvent`, then
`RegisterFuture`, then the wait that `SetEvent` ends. Control requests come from
worker threads at any step; `Stop`, `Shutdown` and `Connect` run on the loop's
thread, so only at its awaits. `set_mode("auto")` is two steps, the assignment
and the release of the gate. A round (simulator, agents, status) is one step.

### Containment

What isolation means for the network, with neither agents nor messages. The
mapping in `ResponseCoordinator`: `alarmed` are the segments with a reported
severe, confirmed threat, `granted` those with an approved vote in the log,
`defenses` are the simulator's. A vote, its ballots, its deadline, the inbox and
the backlog map to steps that change nothing.

### Coordination (`ThreatIntel`, `ResourceAllocator`, `Failover`)

A step of the TIA or the RAA has no point at which another agent comes in, so it
is one action. In the pace "lockstep" a round is the harness's: every living
agent in the order of the fleet, then the failover check, then the clock. In the
pace "free" the agents are processes and the global ones may miss rounds. The
segments' agents are the environment and publish within the budget of a
scenario. `failed_Inclusive`, `Correlates_BySize` and the like are wrong versions.

### Detection (`Classifier`, `RcaPolicy`)

A round is the live session's: tick, then TMA, ACA and RCA of each segment, then
`prune_expired`, whose comprehension is walked spec by spec because `send_dos`
appends to the list from a worker thread in between (`Inject` is enabled at every
step). The thread reads the clock some time before it appends: the attack's start
is any time of `ReadTimes`, up to a scenario's `held` rounds back, and `at_ms` is a
history of when it was appended. Traffic is clean, faint (a deviation too small to alert) or loud; a
scenario gives the attacks that may be injected, the number of deviations without
an attack, and what the trained models may say of an alert.

### Constraints and Grading

Each checker is an operator on a log, built like the code from `latency_lt`,
`metric_cmp`, `all_match`, `max_interval_lte` and `select`. `Grading` lets a log
grow by any event of a set with a good and a bad one for each requirement.

## 3. Runs

All runs are small enough to be exhausted by TLC.

| Run | Instance | Shows |
|---|---|---|
| `response` | 3 segments, 3 threats (two host compromises of one segment, one flood of another), deadline of 1 tick, one RCA may crash | `TypeOK`, `QuarantineAuthorised`, `BallotsAreCast`, `QuarantineIsFinal`, `ResolvedOnce`, `FallbackOnlyAtDeadline`, and the refinement `ContainmentImplemented` |
| `response_live` | 2 segments, 3 threats (two host compromises of one segment, one flood of the other), one RCA may crash | `VoteEnds`, `EveryThreatAnswered` under fairness |
| `response_majority` | 3 segments, 2 threats | `MajorityOfCoalition` is violated (finding) |
| `kafka` | an ACA, an RCA, an RAA; 3 topics; 2 messages of the ACA, 2 of the RCA; RAA may restart once, groups of RCA and RAA may be lost | `TypeOK`, `InOrderOnce`, `ReadIsQueued`, `CausalStamps` |
| `kafka_watermark` | the same without restarts | `EverySubscriberReceives` is violated (finding) |
| `hub` | 2 clients, the loop and 1 worker thread, queues of 2, 4 frames | `TypeOK`, `DropsAreCounted`, `EachThreadInOrder`, `NeverBlocks` |
| `session` | 2 worker threads, 5 requests | `TypeOK`, `OneRoundPerRelease`, `GateIsShown`, `StopEnds`, `AutoAdvances`, `NextRunsRound` |
| `session_wakeup` | the same | `ReleaseWakes` is violated (finding) |
| `grading` | logs of up to 3 events of 21 kinds at 4 times | `TypeOK`, `FreshListsGraded`, `GrantsAreTopBids`, `QuarantinesHaveMajority`, `FailuresStick` |
| `coordination` | 3 segments; lockstep and free scenarios; an ACA, an RCA, the TIA or the RAA dies after 0 to 2 rounds | `TypeOK`, `GradesHold`, `CorrelatedSegmentsCoalesce`, `EveryBidSettledOnce`, `HighestSeverityWins`, `FailoverInTime` |
| `detection` | 2 segments, up to 5 rounds, up to 2 attacks, a worker thread held for up to 2 rounds | `TypeOK`, `NoAttackLost`, `AttackSeen`, `EveryAlertClassified`, `ResolutionTeaches`, `IsolationHolds` |
| `detection_cross` | the same | `NoCrossSegmentRedundancy` is violated (finding) |

Why the bounds are enough:

- Three RCAs are the fewest with a coalition of two, a voter outside it and a
  coalition of all. Two severe threats of one segment give a backlog behind a vote
  and a second vote over it; the third threat lets the TIA form a coalition. The
  deadline of one tick separates "in time" from "overdue".
- `response_live` has two severe threats of one segment, the fewest with which a
  vote is overwritten by the next (`agents/rca/agent.py:128-132`).
  `EveryThreatAnswered` names that as its one exception: the first threat has no
  answer of its own, but the one that replaced it has, so the segment is not
  forgotten. Without the exception TLC finds the violation in this instance; a
  third severe threat only replaces once more.
- The RAA hears the RCA on two topics, the RCA hears the ACA on one and the ACA the
  RCA on one: the cases that the watermark tells apart. Two messages of the ACA
  are the fewest of which one can be read, read again or jumped over while the
  other is taken; the ACA and the RCA both hear and publish, so that each may
  take a message while its own waits for the broker. One restart of the RAA gives
  an RAA of a second life that begins at a committed offset or at the latest.
  `EverySubscriberReceives` is found violated without restarts.
- Queues of two frames, four frames and two publishing threads meet every branch
  of `_offer`: a queue full, emptied in between, filled again in between.
- Five requests are two switches of mode and a Next, from two threads; the
  further requests only repeat a state of the flag.

- `grading`: a requirement relates at most three events (two lists and a moment
  between, a quarantine and two votes, an attack with its action and alert).
  The times are the checkers' bounds and one beyond.
- `coordination`: three segments are the fewest with two different correlations
  that overlap; two bidders and one slot give a loser; three bids give a bidder
  with two. A round stands for ten of the harness's (`Step` is 500 ms and not 50),
  which keeps the timeout of 1000 ms a whole number of rounds, the case where strict
  and inclusive differ.
- `detection`: two attacks are the fewest of which one is pruned while the other
  is injected. A round is 150 ms for the code's 50 and the cooldown 300 ms, so
  that an alert, its cooldown and the next alert fit into five rounds; a warm-up of
  one sample stands for the code's five, so that both a warm and a cold baseline
  meet an attack.

`ReadIsQueued` says that the watermark drops nothing but what was taken before,
of the records that a process reads. It leaves out senders that were restarted:
their numbers begin again and the watermark drops them, the same defect that
`kafka_watermark` shows. Records that a reset to "latest" jumps over are never
read; that they are lost is what the setting means.
`StopEnds`, `AutoAdvances` and `NextRunsRound` are stated for behaviours in which
no release falls into the gap inside `Event.wait` (`[]ReleaseWakes`);
`session_wakeup` shows that gap.

`CHECK_DEADLOCK FALSE` stands in every cfg since the inputs are bounded: when all
threats are reported, all messages or frames published, or the session or the
scenario has ended, the system rests.

### Fairness

- `response_live`: weak fairness of each RCA's step (`run` steps for ever) and of
  the clock. None for reports, coalitions and crashes. A crashed RCA takes no step,
  and the properties except it.
- `hub`: weak fairness of each thread's publish call. None for clients: a client
  that never reads is the case of interest.
- `session`: weak fairness of the loop and of the second half of a `set_mode`
  call that began. None for requests, stops and connections.

`coordination`, `detection` and `grading` check safety only: what must happen
there is stated with a bound in rounds (`AttackSeen`, `EveryAlertClassified`,
`ResolutionTeaches`, `FailoverInTime`), which needs no fairness.

## 4. Findings

Each has a run that shows it:

1. Ballots of RCAs outside the coalition are counted
   (`agents/rca/agent.py:105`), so a quarantine can pass without a majority of
   the coalition (`response_majority`).
2. The per-sender watermark is shared by all topics of a process
   (`kafka_bus.py:80`): a message overtaken on another topic is lost
   (`kafka_watermark`).
3. A release from a worker thread may be lost inside `asyncio.Event.wait`
   (`live/session.py:72`), and the loop then stays at its gate (`session_wakeup`).
4. An alert of one segment is classified, reported and answered in every segment
   (`agents/aca/agent.py:90`), although `agents/rca/agent.py:82` says "no
   cross-segment redundancy" (`detection_cross`).

Met while modelling, without a run of their own:

- A vote in progress can be replaced by a second one (`agents/rca/agent.py:128`);
  the first threat then has no answer. `EveryThreatAnswered` has this as its
  exception, and says what remains.
- A group lost before its first commit starts again at the end of its topic
  (`kafka_bus.py:53`) and never reads what it jumps over.
- `agents/_common/runner.py:48` starts the bus before the agent subscribes, and
  `start` creates consumers only for the subscriptions that exist: a process
  started this way hears nothing. `KafkaBus` models both orders; the runs use
  that of the tests, where there is something to check.
- `server_seq` may go down at a client, since numbering and offering are not one
  step (`live/hub.py:48`); what does hold is `EachThreadInOrder`.
- `put_nowait` on a worker thread may fall between `asyncio.Queue.get`'s look and its
  registration (`live/hub.py:55`) and wake nobody; the frame waits in its queue for the
  next one, a round later.
- An agent handled as failed is never handled again (`coordination/failure.py:55`); the
  harness's agents never come back, so a second failure does not arise there.
- The gate's event stays set after a switch to auto mode (`live/session.py:72`), so
  a later step mode lets one round through unasked; `OneRoundPerRelease` says that
  it is no more than one.
- A port scan adds too little traffic to deviate; the TMA never alerts on one.
- The live session has no warm-up: an attack injected in the first rounds becomes
  the baseline. `AttackSeen` is stated for baselines that warmed up before.
- A segment's health stays UNDER_ATTACK when its attack is over; only isolation
  resets it.
- `ACA._recent` grows without bound, and several resolutions between two steps
  make one lesson, taken from the latest report of whichever segment.
- An agent dead from the first round never beat, so nobody detects it
  (`fail_after_rounds=0`); a dead TIA or RAA is flagged and never replaced.
- Nobody reads `RESOURCE_GRANTS`, and a reclaim gives nothing back: the slots
  bound one auction, not the quarantines.
- The checkers of FR-08, FR-11, FR-17, FR-26 and FR-34 look for the event that
  meets the requirement anywhere in the log, also before its cause
  (`Open` in `Grading`).

## 5. Proofs

Eight modules hold theorems. Every safety property of a passing run, invariant or
action property, is a theorem; each invariant was checked by TLC first.

`ResponseCoordinator_proofs`, from `SegmentsAssumption`, `ThreatsAssumption`,
`DeadlineAssumption` and `CrashAssumption`:

- `TypeOKHolds`. `TypeInv` adds to `TypeOK` that a job is present exactly where
  the step needs one.
- `QuarantinesAreAuthorised`. The property is about the log and the simulator's
  defenses; between the vote and the logged response the evidence is in `job`. So
  the invariant `AuthInv` adds that a job whose action is QUARANTINE carries the
  id of a vote already logged as approved, and `OwnThreats` that an RCA handles
  threats of its own segment only. `TallyIsMajority` turns the code's threshold
  into a strict majority.
- `QuarantinesAreFinal`. `ContainmentKnown` says that the log's quarantines are in
  `quarantined`, and that no response under way is about such a segment.
- `FallbackHolds`. `Willing`: every request that travels is severe and the load the
  code passes is 0, so every ballot anywhere is an ACCEPT; then a full house is a
  majority (`FullHouseApproves`), and a vote that fails has run out of time.
- `BallotsWereCast`. `CastInv` follows a ballot from the log entry that casts it
  through the voter's outbox and the coordinator's inbox into the vote.
- `IncidentsResolvedOnce`. `OnePlace`: a threat is in the queue, in the vote, in
  hand or resolved, and in one of these only; each step moves it to the next.
- `ImplementsContainment`, the refinement. `AlarmKnown`: an RCA at work was
  alarmed; `IsolationKnown`: an RCA whose segment is isolated knows it or has just
  done it, so nothing is done to a segment after its isolation. `InitRefines` and
  `StepRefines` map the initial states and each action.

`KafkaBus_proofs`, from `AgentsAssumption`:

- `TypeCorrect`. A consumer's place needs the committed offset's: it lies between
  where the group's consumer began and the end of the log, and a process that is
  down has no consumer (`Placed`).
- `InOrderOnceHolds`. `Marked`: the watermark is at or past everything taken, so
  what is taken next is new.
- `CausalStampsHold`. `Clocked`: the clock is at or past every stamp that the next
  message has to follow. A message keeps its stamp and its past while it waits for
  the broker, so what its process takes meanwhile makes no difference to it.
- `ReadIsQueuedHolds`, from `QueuedInv`. `Numbered`: a sender that was never
  restarted has numbered the messages of a topic in the order of their offsets,
  and the one it is sending comes after them; `Heard`: no watermark is past
  what is in a log; `Accounted`: of the records from a consumer's start on and
  not jumped over, what is read is under the watermark, and what is under it has
  reached the queue. The watermark can then only drop what was taken before.

`LiveSession_proofs`, from `RequestsAssumption`:

- `TypeCorrect`, `OneRoundPerReleaseHolds`, `GateIsShownHolds`. The loop returns
  from the event's wait only with the flag up (a part of `TypeOK`), and the pass
  lowers it.

`EventHub_proofs`, from `ThreadsAssumption` and `SizesAssumption`:

- `TypeCorrect`. `Room`: the frames in a queue and the calls between their look and
  their append are together no more than the maximum and the worker threads. The
  look that finds room counts at most one call per publisher but its own.
- `FramesInOrder`. `CallOrder`: a call that may still append to a client has a
  frame later than all of the same thread that came to that client; eviction and
  sending keep a part of the sequence in its order (`Part`).
- `LossesAreCounted`. `LossInv`: `dropped` and the calls that have evicted and not
  yet counted are together the number of lost frames. The losses of all clients
  are one set of pairs, so that its cardinality changes by one where a sum would
  need an induction.

`Constraints_proofs` holds the lemmas on logs, selections, rankings and verdicts
that the next three share. TLAPS has no induction over data here, so `LeastNat`
takes the least counterexample from the well-foundedness of `<`. `Places` says
that ranks are a bijection onto the positions, `Winners` and `TopBiddersRank` who
is among the first n of a ranking.

`Grading_proofs`, from `BoundsAssumption` and `KindsAssumption` (what the agents put
into an event, without which FR-11 would raise a KeyError and FR-20 grade nothing),
for logs of any length over any such kinds of event:

- `LogsAreOrdered` is the invariant. From it `TypeCorrect`, and, one lemma per checker:
  `FreshListsAreGraded` (a moment without a recent list would be in a gap between
  two neighbours of the sorted stamps), `GrantsAreHighest` (the checker's sort
  against any two bidders), `MajoritiesAreGraded`.
- `FailuresStay`, an action property: `GradeSticks`, `LatencySticks`,
  `MatchSticks` and `IntervalSticks` say of each kind of checker what one more
  event can change.

`Coordination_proofs`, from `SegmentsAssumption`, `StepAssumption` (the ranking
interval is a whole number of rounds; the harness ticks in 50 ms for 1000),
`ScenariosAssumption`, `TiaAssumption`, `SlotsAssumption`, `TimeoutAssumption`,
for any fleet, scenario and number of rounds. `TypeInv` and `ClockInv` (in
lockstep `now` is the round times the step, and who stopped did so in its round)
carry the rest:

- `TypesHold`.
- `CoalitionsCover`. `CoalitionInv`: in lockstep a report is perceived in the round it
  is published, so the map never holds a pair within the window whose segments
  the TIA has not correlated; what it has correlated has its coalition.
- `BidsAreSettledOnce`, `SeverityWins`. `AuctionInv`: the waiting bids are the last
  ones of the history of all bids and later than every auction; an auction that
  was logged is right about the bids it settled (`Settled`), which no later bid
  joins.
- `FailuresAreHandled`. `FailInv`: an agent that lives has beaten this round or,
  before its turn, in the one before; the one that stopped has the last beat of its
  last round, and is handled as soon as the timeout is over.
- `GradesAlwaysHold`. `ListInv`: every list but the last has a successor within a
  second, and while the TIA lives the last is recent; `Punctual`: in
  lockstep nothing is logged late, and each auction agrees with the ranking that
  FR-20 makes of the bids in its payload.

`Detection_proofs`, from `StepAssumption`, `ScenariosAssumption`, `CooldownAssumption`
(no alert at -1e9, the code's "never", is within a cooldown of the session) and
`AlertsAssumption` (`None` is no alert):

- `AttacksAreKept`. `ReadBefore`: the clock that a thread read is not ahead. `Passed`: what
  the comprehension has passed it has kept, or it is over and stays over; so at its end, when it has passed the whole list as it then
  is, what it has not kept is over. `PruneOK` gives the list its shape.
- `IsolatedStayHealthy`. `IsolationHolds` is inductive once the domains of `defenses`
  and `health` are known: ticks and injections ask whether a segment is
  quarantined before they touch it, and isolation is never taken back.
- `SessionTyped`. `Waits`: an alert in a classifier's queue is of this round, or of
  the last one and the classifier's turn is still to come. `Round` is the time the
  round under way began with: while `prune_expired` runs, the clock is already a
  step ahead.
- `AlertsAreClassified`. `EventOK`, what every event says of itself, and
  `Accounted`: an alert that was published is in a classifier's queue or has
  exactly one event of that classifier, and never both. It assumes `Step < 200`: the
  session's step is 50 ms, and FR-05 allows 200; with a longer step the verdict
  would fail.
- `ResolutionsTeach`. `Pending`: a resolution that has no lesson yet has the belief
  up at every classifier, until its turn in the next round; `Reported`: where there
  is an incident to answer, there is a report to learn from.
- `AttacksAreSeen`. `SeenInv`: behind loud traffic is an attack that began, behind a
  polluted baseline one that began before it was warm, behind a cooldown an alert.
  `WatchOK`: of each attack, from the tick of its first full round it is in the
  traffic, and from the monitor's step of that round it is handled: alerted, or
  isolated, or the baseline was not clean, which it never becomes again.

Looking for the invariants showed two lists of conjuncts whose indentation joined
them otherwise than meant (in `ScenariosAssumption` of `Coordination` and
`TypeOK` of `Detection`), so that less was checked than was written; both are put
right, and the runs still pass.

Only model-checked: liveness, which is outside the prover's reach, as is ENABLED
(`VoteEnds`, `EveryThreatAnswered`, `NeverBlocks`, `StopEnds`, `AutoAdvances`,
`NextRunsRound`). No module uses a RECURSIVE operator.

## 6. Not modelled, and why

- Statistics: the training and the arithmetic of the classifier, the baseline's
  deviation and the feature extraction are numerical; what they decide is an
  input. Which packets the simulator draws is one of three kinds of traffic.
- `coordination/coalition.py`: no agent uses it.
- The simulator's HTTP edge (`api.py`, `client.py`, `auth.py`, `resources.py`):
  the harness and the live session call the engine directly. Its token bucket and
  its resource pool are single-threaded arithmetic on one number each.
- Deduplication and stamps of the in-memory bus: the same rule as `KafkaBus`'s, on
  one queue per subscriber, where nothing is delivered twice.
- Metrics, exports, the Postgres sink: sums over, or copies of, a finished log.
- Attackers and scenarios are scripted inputs.
- The dashboard (`frontend/src/lib`): folds over frames in one browser thread;
  nothing goes back to the agents but the control requests, which are modelled.
- HTTP authentication, configuration and message schemas keep no state.

## 7. Plan

What could still be added, in this order:

1. An abstract specification of detection (an attack is seen, classified by all,
   learnt from) that `Detection` implements, and of the hub (a bounded channel per
   client that may drop its oldest) for `EventHub`.
2. `ResponseCoordinator` on `KafkaBus` in the place of the in-memory bus: votes
   whose ballots are late or lost to the watermark.
3. The dashboard's reducer and bounded store, composed with `EventHub`: what a
   client shows when frames were dropped.

The runs are few on purpose: a violation run gives way when its question is
answered by one that says more.
