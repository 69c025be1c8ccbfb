----------------------------- MODULE Detection -----------------------------
(***************************************************************************)
(* The detection pipeline in a live session: the simulator's ticks and     *)
(* attacks, the TMAs that watch the traffic, the ACAs that classify their  *)
(* alerts, and pruning of old attacks, driven by the rounds of             *)
(* live/session.py while worker threads inject attacks.                    *)
(*                                                                         *)
(* In a round the simulator ticks, then TMA, ACA and RCA of each segment   *)
(* step, in the order of the segments.  The steps are those of one event   *)
(* loop and do not interleave; send_dos runs on a worker thread and comes  *)
(* in anywhere, its entry perhaps rounds after it read the clock.  The     *)
(* clock's sub-steps within a round are left out.                          *)
(*                                                                         *)
(* The RCA is cut down to what it answers with and when: its vote is       *)
(* module ResponseCoordinator.                                             *)
(***************************************************************************)
EXTENDS AgentLog, Classifier, RcaPolicy

CONSTANTS
    Step,           \* step_ms
    Cooldown,       \* _ALERT_COOLDOWN_MS
    Warmup,         \* warmup of RollingBaseline, in samples
    Scenarios       \* the bounds of a session, see the variable

ASSUME StepAssumption == Step \in Nat \ {0} /\ Warmup \in 1..60
ASSUME CooldownAssumption == Cooldown \in Nat \ {0} /\ Cooldown + LongAgo <= 0
Names == {Segments[i] : i \in DOMAIN Segments}
AlertRecords == [segment: Names, ts_ms: Nat]
ASSUME AlertsAssumption == None \notin AlertRecords
Attacks == [segment: Names, loud: BOOLEAN, duration_ms: Nat]
ASSUME ScenariosAssumption ==
    \A x \in Scenarios :
        /\ x.rounds < 60 /\ x.held \in Nat
        /\ x.attacks \subseteq Attacks /\ x.readings \subseteq Readings

VARIABLES
    scenario,     \* the bounds: [rounds (fewer than the baseline's window), attacks
                  \* (the [segment, loud, duration_ms] that may be injected), maxAttacks,
                  \* held (rounds a worker thread may be held up in send_dos),
                  \* deviations (samples that deviate with no loud attack), readings
                  \* (what the classifiers may make of an alert)]
    turn,         \* 0: the simulator, then three agents per segment, then prune_expired
    specs,        \* AttackInjector._specs
    pruning,      \* the comprehension in prune_expired: [next, length, kept]
    traffic,      \* segment -> what its last packets hold
    health,       \* segment -> StateManager._health
    defenses,     \* segment -> StateManager._defenses
    baseline,     \* segment -> RollingBaseline: [samples, polluted, warm_ms]
    lastAlert,    \* TMA -> self._last_alert_ms
    alerts,       \* ACA -> alerts queued or in self._pending
    learnDue,     \* ACA -> the belief resolution_pending
    recent,       \* ACA -> the last key of self._recent, None if it is empty
    incidents,    \* RCA -> confirmed reports of its segment not yet answered
    injected,     \* history: all attacks injected
    deviations    \* deviations so far that no loud attack explains

simVars == <<scenario, specs, pruning, traffic, health, injected>>
tmaVars == <<baseline, lastAlert, deviations>>
acaVars == <<alerts, learnDue, recent>>
vars == <<now, log, turn, simVars, defenses, tmaVars, acaVars, incidents>>

LastTurn == 3 * Len(Segments) + 1
SegmentAt(n) == Segments[(n - 1) \div 3 + 1]
TurnOf(agent, s) ==    \* agent is 0 for the TMA, 1 for the ACA, 2 for the RCA
    turn \in 1..(LastTurn - 1) /\ SegmentAt(turn) = s /\ (turn - 1) % 3 = agent
NotPruning == [next |-> 0, length |-> 0, kept |-> <<>>]

Init ==
    /\ scenario \in Scenarios
    /\ now = 0 /\ log = <<>> /\ turn = 0
    /\ specs = <<>> /\ injected = {} /\ pruning = NotPruning
    /\ traffic = [s \in Names |-> "clean"]
    /\ health = [s \in Names |-> "NORMAL"]
    /\ defenses = [s \in Names |-> {}]
    /\ baseline = [s \in Names |-> [samples |-> 0, polluted |-> FALSE, warm_ms |-> None]]
    /\ lastAlert = [s \in Names |-> LongAgo]
    /\ alerts = [s \in Names |-> <<>>]
    /\ learnDue = [s \in Names |-> FALSE]
    /\ recent = [s \in Names |-> None]
    /\ incidents = [s \in Names |-> <<>>]
    /\ deviations = 0

-----------------------------------------------------------------------------
(* Attacks: simulator/attacks.py *)

Elapsed(spec) == spec.duration_ms > 0 /\ now > spec.start_ms + spec.duration_ms
Active(spec, s) == spec.segment = s /\ now >= spec.start_ms /\ ~Elapsed(spec)

\* send_dos, on a worker thread, at any moment.  It reads the clock and only then
\* builds and appends the entry; what it read, read_ms, may be rounds old.  Each
\* attack gets a number of its own, for two equal ones are two entries of the
\* list, and (history) the time at_ms at which it was appended.
ReadTimes == {now - k * Step : k \in 0..scenario.held} \cap Nat
Inject(a, read_ms) ==
    /\ Cardinality(injected) < scenario.maxAttacks
    /\ LET spec == [segment |-> a.segment, loud |-> a.loud, duration_ms |-> a.duration_ms,
                    start_ms |-> read_ms, at_ms |-> now, id |-> Cardinality(injected)]
       IN /\ specs' = Append(specs, spec)
          /\ injected' = injected \cup {spec}
    /\ UNCHANGED <<now, log, scenario, turn, pruning, traffic, health, defenses, tmaVars,
                   acaVars, incidents>>

\* A flood, lateral movement and a zero-day raise the volume by many standard
\* deviations, throttled or not; a port scan, a flood of no intensity do not.
Malicious(s) == {i \in DOMAIN specs : Active(specs[i], s)}
Quarantined(s) == "QUARANTINE" \in defenses[s]
Overlay(s) ==
    IF Quarantined(s) \/ Malicious(s) = {} THEN "clean"
    ELSE IF \E i \in Malicious(s) : specs[i].loud THEN "loud" ELSE "faint"

UnderAttack_NoCheck(s) == Malicious(s) # {}
UnderAttack(s) == Malicious(s) # {} /\ ~Quarantined(s)

\* InProcessSimulator.tick.  An attack that is over leaves the health as it was.
SimTick ==
    /\ turn = 0
    /\ now < scenario.rounds * Step
    /\ traffic' = [s \in Names |-> Overlay(s)]
    /\ health' = [s \in Names |-> IF UnderAttack(s) THEN "UNDER_ATTACK" ELSE health[s]]
    /\ turn' = 1
    /\ UNCHANGED <<now, log, scenario, specs, pruning, injected, defenses, tmaVars, acaVars,
                   incidents>>

-----------------------------------------------------------------------------
(* Traffic monitors: agents/tma/agent.py, agents/tma/baseline.py *)

Warm(s) == baseline[s].samples >= Warmup

\* Whether a sample deviates by more than two standard deviations.  A loud
\* attack always does from a baseline that never saw one; other traffic may.
Deviates(s) ==
    IF ~Warm(s) THEN {FALSE}
    ELSE IF traffic[s] = "loud" /\ ~baseline[s].polluted THEN {TRUE}
    ELSE IF deviations < scenario.deviations THEN BOOLEAN ELSE {FALSE}

Updated(s) ==
    LET n == Min2(baseline[s].samples + 1, Warmup)
    IN [samples |-> n,
        polluted |-> baseline[s].polluted \/ traffic[s] = "loud",
        warm_ms |-> IF n = Warmup /\ baseline[s].warm_ms = None THEN now
                    ELSE baseline[s].warm_ms]

CoolingDown(s) == now - lastAlert[s] < Cooldown
LearnsFrom_All(deviates) == TRUE
\* The baseline learns only from samples that do not deviate.
LearnsFrom(deviates) == ~deviates

AlertOf(s) == [segment |-> s, ts_ms |-> now]
AlertPublished(s) ==
    Event("ALERT_PUBLISHED", s, 0,
          [signal |-> "alert", alert |-> AlertOf(s), deviation_score |-> 201])

\* sense, then the plan that publishes the alert; the bus copies it to the ACA
\* of every segment.
TmaStep(s, deviates) ==
    /\ TurnOf(0, s)
    /\ deviates \in Deviates(s)
    /\ baseline' = [baseline EXCEPT ![s] = IF LearnsFrom(deviates) THEN Updated(s) ELSE @]
    /\ deviations' = IF deviates /\ (traffic[s] # "loud" \/ baseline[s].polluted)
                     THEN deviations + 1 ELSE deviations
    /\ IF deviates /\ ~CoolingDown(s)
       THEN /\ lastAlert' = [lastAlert EXCEPT ![s] = now]
            /\ alerts' = [c \in Names |-> Append(alerts[c], AlertOf(s))]
            /\ LogEvents(<<AlertPublished(s)>>)
       ELSE UNCHANGED <<lastAlert, alerts, log>>
    /\ turn' = turn + 1
    /\ UNCHANGED <<now, simVars, defenses, learnDue, recent, incidents>>

-----------------------------------------------------------------------------
(* Classifiers: agents/aca/agent.py *)

Severe(verdict) == verdict.classification = "CONFIRMED_THREAT" /\ verdict.severity >= 70

\* One alert is classified.  The report is for the ACA's own segment, whichever
\* segment the alert is of.
ThreatClassified(c, alert, verdict) ==
    Event("THREAT_CLASSIFIED", c, now - alert.ts_ms,
          [alert |-> alert, reported |-> verdict.classification # "NORMAL",
           classification |-> verdict.classification, attack_type |-> verdict.attack_type,
           severity |-> verdict.severity])
Incident(alert, verdict) ==
    [alert |-> alert, attack_type |-> verdict.attack_type, severity |-> verdict.severity,
     ts_ms |-> now]
OnlineUpdate(c) == Event("ACTION_EXECUTED", c, None, [signal |-> "online_update"])

ClassifyTriggers_NoAlert(c) == learnDue[c]
ClassifyTriggers_NoResolution(c) == alerts[c] # <<>>
ClassifyTriggers(c) == alerts[c] # <<>> \/ learnDue[c]

ClassifiedNow_First(c) == IF alerts[c] = <<>> THEN <<>> ELSE <<Head(alerts[c])>>
ClassifiedNow(c) == alerts[c]

\* _classify: first it learns from the last threat it reported, if a resolution
\* came; then it classifies everything that is pending.
AcaStep(c, readings) ==
    /\ TurnOf(1, c)
    /\ LET batch == ClassifiedNow(c)
           verdicts == [i \in DOMAIN batch |-> predict(readings[i])]
           reported == {i \in DOMAIN batch : verdicts[i].classification # "NORMAL"}
           severe == InOrder({i \in DOMAIN batch : Severe(verdicts[i])})
           learns == learnDue[c] /\ recent[c] # None
       IN IF ClassifyTriggers(c)
          THEN /\ LogEvents((IF learns THEN <<OnlineUpdate(c)>> ELSE <<>>)
                            \o [i \in DOMAIN batch |->
                                   ThreatClassified(c, batch[i], verdicts[i])])
               /\ learnDue' = [learnDue EXCEPT ![c] = FALSE]
               /\ alerts' = [alerts EXCEPT ![c] = <<>>]
               /\ recent' = [recent EXCEPT ![c] =
                     IF reported = {} THEN @
                     ELSE batch[CHOOSE i \in reported : \A j \in reported : j <= i]]
               /\ incidents' = [incidents EXCEPT ![c] = @ \o
                     [n \in DOMAIN severe |-> Incident(batch[severe[n]], verdicts[severe[n]])]]
          ELSE UNCHANGED <<log, acaVars, incidents>>
    /\ turn' = turn + 1
    /\ UNCHANGED <<now, simVars, defenses, tmaVars>>

-----------------------------------------------------------------------------
(* The response, cut down *)

Selected(incident) == SelectProportionalAction(incident.severity, incident.attack_type)
\* A quarantine needs a vote, which may take several steps and may fail.
Outcomes(incident) ==
    IF Selected(incident) = "QUARANTINE" THEN {"QUARANTINE", "BLOCK"} ELSE {Selected(incident)}

Response(s, incident, action) ==
    Event("ACTION_EXECUTED", s, now - incident.ts_ms,
          [signal |-> "response", segment |-> s, alert |-> incident.alert, action |-> action])
Resolved(s, incident) ==
    Event("INCIDENT_RESOLVED", s, None, [alert |-> incident.alert, resolution_id |-> s])

\* How many of the first done incidents the RCA answers: none of an isolated
\* segment, and none behind a quarantine.
Answered(s, done, actions) ==
    IF Quarantined(s) THEN 0
    ELSE CHOOSE n \in 0..done :
            /\ \A i \in 1..(n - 1) : actions[i] # "QUARANTINE"
            /\ n < done => n > 0 /\ actions[n] = "QUARANTINE"

\* The RCA answers its incidents in order, up to one whose vote is not decided.
\* A notice of resolution reaches every ACA.
RcaStep(s, done, actions) ==
    /\ TurnOf(2, s)
    /\ done \in 0..Len(incidents[s])
    /\ done < Len(incidents[s]) => Selected(incidents[s][done + 1]) = "QUARANTINE"
    /\ actions \in [1..done -> ResponseTypes]
    /\ \A i \in 1..done : actions[i] \in Outcomes(incidents[s][i])
    /\ LET answered == Answered(s, done, actions)
       IN /\ defenses' = [defenses EXCEPT ![s] = @ \cup {actions[i] : i \in 1..answered}]
          /\ health' = [health EXCEPT ![s] =
                IF \E i \in 1..answered : actions[i] = "QUARANTINE" THEN "NORMAL" ELSE @]
          /\ LogEvents([n \in 1..(2 * answered) |->
                LET i == (n + 1) \div 2
                IN IF n % 2 = 1 THEN Response(s, incidents[s][i], actions[i])
                   ELSE Resolved(s, incidents[s][i])])
          /\ learnDue' = [c \in Names |-> learnDue[c] \/ answered > 0]
    /\ incidents' = [incidents EXCEPT ![s] = SubSeq(@, done + 1, Len(@))]
    /\ turn' = turn + 1
    /\ UNCHANGED <<now, scenario, specs, pruning, traffic, injected, tmaVars, alerts, recent>>

-----------------------------------------------------------------------------
(* The end of a round: the clock, then prune_expired.  Its comprehension    *)
(* looks at one entry of the list at a time, and a worker thread may append *)
(* another meanwhile; it ends when it finds no next entry, and the new list *)
(* is stored before another thread runs.                                    *)

PruneBegin ==
    /\ turn = LastTurn /\ pruning.next = 0
    /\ now' = now + Step
    /\ pruning' = [next |-> 1, length |-> Len(specs), kept |-> <<>>]
    /\ UNCHANGED <<log, scenario, turn, specs, traffic, health, injected, defenses, tmaVars,
                   acaVars, incidents>>

PruneLength_Snapshot == pruning.length
PruneLength == Len(specs)
PruneNext ==
    /\ turn = LastTurn /\ pruning.next \in 1..PruneLength
    /\ pruning' = [pruning EXCEPT !.next = @ + 1,
                     !.kept = IF Elapsed(specs[pruning.next]) THEN @
                              ELSE Append(@, specs[pruning.next])]
    /\ UNCHANGED <<now, log, scenario, turn, specs, traffic, health, injected, defenses,
                   tmaVars, acaVars, incidents>>
PruneEnd ==
    /\ turn = LastTurn /\ pruning.next > PruneLength
    /\ specs' = pruning.kept
    /\ pruning' = NotPruning
    /\ turn' = 0
    /\ UNCHANGED <<now, log, scenario, traffic, health, injected, defenses, tmaVars, acaVars,
                   incidents>>

Next ==
    \/ \E a \in scenario.attacks, read_ms \in ReadTimes : Inject(a, read_ms)
    \/ SimTick
    \/ \E s \in Names, deviates \in BOOLEAN : TmaStep(s, deviates)
    \/ \E c \in Names : \E readings \in [DOMAIN alerts[c] -> scenario.readings] :
          AcaStep(c, readings)
    \/ \E s \in Names : \E done \in 0..Len(incidents[s]) :
          \E actions \in [1..done -> ResponseTypes] : RcaStep(s, done, actions)
    \/ PruneBegin
    \/ PruneNext
    \/ PruneEnd

Spec == Init /\ [][Next]_vars

-----------------------------------------------------------------------------
(* Properties *)

\* Every variable holds values of the shape the code gives it; an alert waits
\* for a classifier at most until that classifier's next step.
TypeOK ==
    /\ now \in Nat /\ turn \in 0..LastTurn
    /\ {specs[i] : i \in DOMAIN specs} \subseteq injected
    /\ traffic \in [Names -> {"clean", "faint", "loud"}]
    /\ health \in [Names -> {"NORMAL", "UNDER_ATTACK"}]
    /\ defenses \in [Names -> SUBSET ResponseTypes]
    /\ \A s \in Names : /\ baseline[s].samples \in 0..Warmup
                        /\ Warm(s) <=> baseline[s].warm_ms # None
                        /\ lastAlert[s] \in Nat \cup {LongAgo}
                        /\ alerts[s] \in Seq(AlertRecords)
                        /\ \A i \in DOMAIN alerts[s] : now - alerts[s][i].ts_ms <= Step
                        /\ recent[s] \in AlertRecords \cup {None}
    /\ learnDue \in [Names -> BOOLEAN]

\* prune_expired on the loop and send_dos on a worker thread never lose an
\* attack: each one that was injected is in the list until it is over.
NoAttackLost == \A a \in injected : a \in {specs[i] : i \in DOMAIN specs} \/ Elapsed(a)

AlertsOf(s) == {i \in select(log, "ALERT_PUBLISHED", None) : log[i].agent_id = s}

\* FR-02: a loud attack that came when its segment's baseline was warm, and that
\* lasts into the next round, is answered by an alert within that round, unless
\* one was published less than a cooldown before or the segment is isolated.
\* The baseline may not have warmed up under an earlier attack.
Clean(s) == \A a \in injected : (a.segment = s /\ a.loud) => a.at_ms > baseline[s].warm_ms
Due(a) == a.at_ms + Step    \* the first round that surely sees the attack
AttackSeen ==
    \A a \in injected :
        /\ a.loud /\ ~Quarantined(a.segment) /\ now > Due(a)
        /\ a.duration_ms = 0 \/ a.start_ms + a.duration_ms >= Due(a)
        /\ Warm(a.segment) /\ Clean(a.segment)
        => \E i \in AlertsOf(a.segment) :
              log[i].wall_ms <= Due(a) /\ Due(a) - log[i].wall_ms < Cooldown

\* FR-03, FR-05, FR-07: by the end of the round after an alert, the classifier
\* of every segment has classified it, each once and in time.
EveryAlertClassified ==
    /\ turn = 0 =>
         \A i \in select(log, "ALERT_PUBLISHED", None), c \in Names :
             log[i].wall_ms < now - Step =>
                 Cardinality({j \in select(log, "THREAT_CLASSIFIED", None) :
                     /\ log[j].agent_id = c
                     /\ log[j].payload.alert = [segment |-> log[i].agent_id,
                                                ts_ms |-> log[i].wall_ms]}) = 1
    /\ "FAIL" \notin {FR02(log), FR03(log), FR05(log), FR07(log)}

\* FR-08: a resolved incident is learnt from in the round after it at the
\* latest, also when no new alert comes.
ResolutionTeaches ==
    turn = 0 =>
        \A i \in select(log, "INCIDENT_RESOLVED", None) :
            log[i].wall_ms < now - Step =>
                \E j \in (i + 1)..Len(log) :
                    /\ log[j] = [OnlineUpdate(log[i].agent_id) EXCEPT
                                   !.wall_ms = log[j].wall_ms]
                    /\ log[j].wall_ms <= log[i].wall_ms + Step

\* An isolated segment is out of the attack's reach for good: whatever attacks
\* are active on it or come, its health stays NORMAL and nothing of them is in
\* its traffic once the simulator has ticked again.
IsolationHolds ==
    \A s \in Names : Quarantined(s) =>
        /\ health[s] = "NORMAL"
        /\ turn = 1 => traffic[s] = "clean"

\* What rca/agent.py:82 says of the response: each RCA owns its segment's
\* incidents.  One alert is answered in one segment at most.
NoCrossSegmentRedundancy ==
    \A i, j \in Responses(log) :
        log[i].payload.alert = log[j].payload.alert => log[i].agent_id = log[j].agent_id
=============================================================================
