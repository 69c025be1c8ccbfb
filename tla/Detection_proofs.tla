-------------------------- MODULE Detection_proofs --------------------------
(***************************************************************************)
(* What holds of a live session for any segments, scenarios and bounds.    *)
(*                                                                         *)
(*   AttacksAreKept       no attack is lost between the loop that prunes   *)
(*                        and the threads that inject (LossInv)            *)
(*   IsolatedStayHealthy  an isolated segment stays out of reach           *)
(*   SessionTyped         the types, and how long an alert waits (WaitInv) *)
(*   AlertsAreClassified  each alert is classified once by each classifier *)
(*                        and in time (LogInv, BookInv)                    *)
(*   ResolutionsTeach     what is resolved is learnt from (TeachInv)       *)
(*   AttacksAreSeen       a loud attack is answered by an alert (SeenInv,  *)
(*                        WatchInv)                                        *)
(*                                                                         *)
(* Base, which all but the first two start from, joins LossInv to the      *)
(* shape of the other variables.  Events are looked at one at a time: what *)
(* is true of an event when it is written (EventOK) stays true of it.      *)
(***************************************************************************)
EXTENDS Detection, Constraints_proofs, SequenceTheorems

Specs == [segment: Names, loud: BOOLEAN, duration_ms: Nat, start_ms: Nat, at_ms: Nat,
          id: Nat]

-----------------------------------------------------------------------------
(* Pruning against injection *)

\* The shape of what the two work on.
PruneOK ==
    /\ now \in Nat
    /\ turn \in Nat
    /\ scenario \in Scenarios
    /\ IsFiniteSet(injected) /\ injected \subseteq Specs
    /\ \A x \in injected : x.start_ms <= x.at_ms /\ x.at_ms <= now
    /\ specs \in Seq(Specs)
    /\ pruning.next \in 0..(Len(specs) + 1)
    /\ pruning \in [next: Nat, length: Nat, kept: Seq(Specs)]

\* What the comprehension has passed it has kept, or it was over; an attack
\* that is over stays over.
Passed ==
    pruning.next > 0 =>
        \A i \in 1..(pruning.next - 1) : specs[i] \in Items(pruning.kept) \/ Elapsed(specs[i])

LossInv == PruneOK /\ NoAttackLost /\ Passed

\* A clock that was read before shows no later time.
LEMMA ReadBefore ==
    ASSUME PruneOK, NEW t \in ReadTimes
    PROVE  t \in Nat /\ t <= now
<1>1. PICK k \in 0..scenario.held : t = now - k * Step
    BY DEF ReadTimes
<1>2. scenario.held \in Nat /\ Step \in Nat /\ now \in Nat
    BY StepAssumption, ScenariosAssumption DEF PruneOK
<1>3. k \in Nat /\ k * Step \in Nat
    BY <1>1, <1>2
<1> QED BY <1>1, <1>2, <1>3 DEF ReadTimes

LEMMA LossInit == Init => LossInv
<1> SUFFICES ASSUME Init PROVE LossInv
    OBVIOUS
<1>1. specs = <<>> /\ pruning = NotPruning /\ injected = {}
    BY DEF Init
<1>2. IsFiniteSet(injected)
    BY <1>1, FS_EmptySet
<1>3. PruneOK
    BY <1>1, <1>2 DEF Init, PruneOK, NotPruning
<1> QED BY <1>1, <1>3 DEF LossInv, NoAttackLost, Passed, NotPruning

\* Whatever leaves the two alone keeps the invariant, also while the turn passes.
LEMMA LossStutter ==
    ASSUME LossInv, UNCHANGED <<now, scenario, specs, pruning, injected>>, turn' \in Nat
    PROVE  LossInv'
BY DEF LossInv, PruneOK, NoAttackLost, Passed, Elapsed

\* An injection appends behind what the comprehension has passed.
LEMMA LossInject ==
    ASSUME LossInv, NEW a \in scenario.attacks, NEW t \in ReadTimes, Inject(a, t)
    PROVE  LossInv'
<1> DEFINE new == [segment |-> a.segment, loud |-> a.loud, duration_ms |-> a.duration_ms,
                   start_ms |-> t, at_ms |-> now, id |-> Cardinality(injected)]
<1>1. a \in Attacks
    BY ScenariosAssumption DEF LossInv, PruneOK
<1>2. Cardinality(injected) \in Nat
    BY FS_CardinalityType DEF LossInv, PruneOK
<1>3. new \in Specs /\ new.start_ms <= new.at_ms /\ new.at_ms <= now
  <2>1. t \in Nat /\ t <= now /\ now \in Nat
      BY ReadBefore DEF LossInv, PruneOK
  <2> QED BY <1>1, <1>2, <2>1 DEF Attacks, Specs
<1>4. /\ specs' = Append(specs, new) /\ injected' = injected \cup {new}
      /\ UNCHANGED <<now, scenario, turn, pruning>>
    BY DEF Inject
<1> HIDE DEF new
<1>5. IsFiniteSet(injected')
    BY <1>4, FS_AddElement DEF LossInv, PruneOK
<1>6. /\ Len(specs') = Len(specs) + 1 /\ specs' \in Seq(Specs)
      /\ \A i \in 1..Len(specs) : specs'[i] = specs[i]
    BY <1>3, <1>4 DEF LossInv, PruneOK
<1>7. PruneOK'
    BY <1>3, <1>4, <1>5, <1>6 DEF LossInv, PruneOK
<1>8. Items(specs') = Items(specs) \cup {new}
    BY <1>4, SeqShape, AppendItems DEF LossInv, PruneOK
<1>9. NoAttackLost'
    BY <1>4, <1>8 DEF LossInv, NoAttackLost, Elapsed, Items
<1>10. Passed'
    BY <1>4, <1>6 DEF LossInv, PruneOK, Passed, Elapsed
<1> QED BY <1>7, <1>9, <1>10 DEF LossInv

\* The clock moves at the beginning of the pruning only.
LEMMA LossBegin ==
    ASSUME LossInv, PruneBegin
    PROVE  LossInv'
<1>1. /\ now' = now + Step /\ Step \in Nat
      /\ pruning' = [next |-> 1, length |-> Len(specs), kept |-> <<>>]
      /\ UNCHANGED <<scenario, turn, specs, injected>>
    BY StepAssumption DEF PruneBegin
<1>2. PruneOK'
  <2>1. \A x \in injected : x.at_ms \in Nat /\ x.at_ms <= now
      BY DEF LossInv, PruneOK, Specs
  <2> QED BY <1>1, <2>1 DEF LossInv, PruneOK
<1>3. \A x \in injected : Elapsed(x) => Elapsed(x)'
    BY <1>1 DEF LossInv, PruneOK, Specs, Elapsed
<1>4. NoAttackLost'
    BY <1>1, <1>3 DEF LossInv, NoAttackLost
<1>5. Passed'
    BY <1>1 DEF Passed
<1> QED BY <1>2, <1>4, <1>5 DEF LossInv

\* One entry is looked at: it is kept, or it is over.
LEMMA LossNext ==
    ASSUME LossInv, PruneNext
    PROVE  LossInv'
<1> DEFINE n == pruning.next
           kept == IF Elapsed(specs[n]) THEN pruning.kept ELSE Append(pruning.kept, specs[n])
<1>1. n \in 1..Len(specs)
    BY DEF PruneNext, PruneLength
<1>2. /\ pruning' = [pruning EXCEPT !.next = @ + 1, !.kept = kept]
      /\ UNCHANGED <<now, scenario, turn, specs, injected>>
    BY DEF PruneNext
<1>3. specs[n] \in Specs
    BY <1>1 DEF LossInv, PruneOK
<1>4. pruning.kept \in Seq(Specs) /\ kept \in Seq(Specs)
    BY <1>3 DEF LossInv, PruneOK
<1>5. pruning' = [next |-> n + 1, length |-> pruning.length, kept |-> kept]
    BY <1>2 DEF LossInv, PruneOK
<1>6. PruneOK'
    <2>1. n + 1 \in 0..(Len(specs) + 1) /\ n + 1 \in Nat
        BY <1>1 DEF LossInv, PruneOK
    <2>2. pruning.length \in Nat /\ pruning'.next = n + 1
        BY <1>5 DEF LossInv, PruneOK
    <2> HIDE DEF n, kept
    <2>3. pruning' \in [next: Nat, length: Nat, kept: Seq(Specs)]
        BY <1>4, <1>5, <2>1, <2>2
    <2> QED BY <1>2, <2>1, <2>2, <2>3 DEF LossInv, PruneOK
<1>7. Items(pruning.kept) \subseteq Items(kept)
    BY <1>4, SeqShape, AppendItems
<1>8. specs[n] \in Items(kept) \/ Elapsed(specs[n])
    BY <1>4, SeqShape, AppendItems
<1> HIDE DEF kept
<1>9. Passed'
    <2> SUFFICES ASSUME NEW i \in 1..n
                 PROVE  specs[i] \in Items(kept) \/ Elapsed(specs[i])
        BY <1>1, <1>2, <1>5 DEF Passed, Elapsed
    <2>1. CASE i = n
        BY <2>1, <1>8
    <2>2. CASE i # n
        BY <2>2, <1>1, <1>7 DEF LossInv, Passed
    <2> QED BY <2>1, <2>2
<1>10. NoAttackLost'
    BY <1>2 DEF LossInv, NoAttackLost, Elapsed
<1> QED BY <1>6, <1>9, <1>10 DEF LossInv

\* The list that is stored holds all that is not over, for the comprehension
\* has seen the end of the old one.
LEMMA LossEnd ==
    ASSUME LossInv, PruneEnd
    PROVE  LossInv'
<1>1. /\ pruning.next > Len(specs) /\ specs' = pruning.kept /\ pruning' = NotPruning
      /\ turn' = 0 /\ UNCHANGED <<now, scenario, injected>>
    BY DEF PruneEnd, PruneLength
<1>2. PruneOK'
    BY <1>1 DEF LossInv, PruneOK, NotPruning
<1>3. \A i \in DOMAIN specs : specs[i] \in Items(pruning.kept) \/ Elapsed(specs[i])
    BY <1>1 DEF LossInv, PruneOK, Passed
<1>4. NoAttackLost'
    BY <1>1, <1>3 DEF LossInv, NoAttackLost, Elapsed, Items
<1>5. Passed'
    BY <1>1 DEF Passed, NotPruning
<1> QED BY <1>2, <1>4, <1>5 DEF LossInv

LEMMA LossStep == LossInv /\ [Next]_vars => LossInv'
<1> SUFFICES ASSUME LossInv, [Next]_vars PROVE LossInv'
    OBVIOUS
<1>0. turn \in Nat
    BY DEF LossInv, PruneOK
<1>1. ASSUME NEW a \in scenario.attacks, NEW t \in ReadTimes, Inject(a, t) PROVE LossInv'
    BY <1>1, LossInject
<1>2. CASE SimTick
    BY <1>2, LossStutter DEF SimTick
<1>3. ASSUME NEW s \in Names, NEW deviates \in BOOLEAN, TmaStep(s, deviates) PROVE LossInv'
    BY <1>0, <1>3, LossStutter DEF TmaStep, simVars
<1>4. ASSUME NEW c \in Names, NEW readings, AcaStep(c, readings) PROVE LossInv'
    BY <1>0, <1>4, LossStutter DEF AcaStep, simVars
<1>5. ASSUME NEW s \in Names, NEW done, NEW actions, RcaStep(s, done, actions) PROVE LossInv'
    BY <1>0, <1>5, LossStutter DEF RcaStep
<1>6. CASE UNCHANGED vars
    BY <1>0, <1>6, LossStutter DEF vars, simVars
<1> QED BY <1>1, <1>2, <1>3, <1>4, <1>5, <1>6, LossBegin, LossNext, LossEnd DEF Next

\* No attack is lost: prune_expired rebuilds AttackInjector._specs on the loop
\* (attacks.py:61) while send_dos appends to it on worker threads, and every
\* injected attack stays in the list until it is over.
THEOREM AttacksAreKept == Spec => []NoAttackLost
<1>1. LossInv => NoAttackLost
    BY DEF LossInv
<1> QED BY <1>1, LossInit, LossStep, PTL DEF Spec
-----------------------------------------------------------------------------
(* Isolation *)

IsolationInv ==
    /\ turn \in Nat /\ DOMAIN defenses = Names /\ DOMAIN health = Names
    /\ IsolationHolds

\* Neither a tick, whatever attacks are active, nor an answer touches an
\* isolated segment; and what isolates a segment also sets its health.
LEMMA IsolationStep == IsolationInv /\ [Next]_vars => IsolationInv'
<1> SUFFICES ASSUME IsolationInv, [Next]_vars PROVE IsolationInv'
    OBVIOUS
<1> USE DEF IsolationInv
<1>0. ASSUME UNCHANGED <<turn, defenses, health, traffic>> PROVE IsolationInv'
    BY <1>0 DEF IsolationHolds, Quarantined
<1>1. ASSUME NEW a \in scenario.attacks, NEW t \in ReadTimes, Inject(a, t) PROVE IsolationInv'
    BY <1>0, <1>1 DEF Inject
<1>2. CASE SimTick
    BY <1>2 DEF SimTick, IsolationHolds, Overlay, UnderAttack, Quarantined
<1>3. ASSUME NEW s \in Names, NEW deviates \in BOOLEAN, TmaStep(s, deviates)
      PROVE  IsolationInv'
    BY <1>3 DEF TmaStep, TurnOf, simVars, IsolationHolds, Quarantined
<1>4. ASSUME NEW c \in Names, NEW readings, AcaStep(c, readings) PROVE IsolationInv'
    BY <1>4 DEF AcaStep, TurnOf, simVars, IsolationHolds, Quarantined
<1>5. ASSUME NEW s \in Names, NEW done, NEW actions, RcaStep(s, done, actions)
      PROVE  IsolationInv'
    <2> DEFINE answered == Answered(s, done, actions)
               isolates == \E i \in 1..answered : actions[i] = "QUARANTINE"
    <2>1. /\ defenses' = [defenses EXCEPT ![s] = @ \cup {actions[i] : i \in 1..answered}]
          /\ health' = [health EXCEPT ![s] = IF isolates THEN "NORMAL" ELSE @]
          /\ turn' = turn + 1 /\ turn >= 1 /\ traffic' = traffic
        BY <1>5 DEF RcaStep, TurnOf
    <2> HIDE DEF answered
    <2>2. DOMAIN defenses' = Names /\ DOMAIN health' = Names
        BY <2>1
    <2>3. ASSUME NEW q \in Names, Quarantined(q)' PROVE health'[q] = "NORMAL"
        <3>1. CASE Quarantined(q)
            BY <2>1, <3>1 DEF IsolationHolds
        <3>2. CASE ~Quarantined(q)
            <4>1. q = s /\ "QUARANTINE" \in {actions[i] : i \in 1..answered}
                BY <2>1, <2>3, <3>2 DEF Quarantined
            <4>2. isolates
                BY <4>1
            <4> QED BY <2>1, <4>1, <4>2
        <3> QED BY <3>1, <3>2
    <2> QED BY <2>1, <2>2, <2>3 DEF IsolationHolds
<1>6. CASE PruneBegin
    BY <1>0, <1>6 DEF PruneBegin
<1>7. CASE PruneNext
    BY <1>0, <1>7 DEF PruneNext
<1>8. CASE PruneEnd
    BY <1>8 DEF PruneEnd, IsolationHolds, Quarantined
<1>9. CASE UNCHANGED vars
    BY <1>0, <1>9 DEF vars, simVars
<1> QED BY <1>1, <1>2, <1>3, <1>4, <1>5, <1>6, <1>7, <1>8, <1>9 DEF Next

\* Isolation holds: once apply_action has quarantined a segment, neither the
\* ticks of the simulator nor any later response bring the attack back to it.
THEOREM IsolatedStayHealthy == Spec => []IsolationHolds
<1>1. Init => IsolationInv
    BY DEF Init, IsolationInv, IsolationHolds, Quarantined
<1>2. IsolationInv => IsolationHolds
    BY DEF IsolationInv
<1> QED BY <1>1, <1>2, IsolationStep, PTL DEF Spec

-----------------------------------------------------------------------------
(* Turns and rounds *)

LEMMA LongAgoIsPast == LongAgo \in Int /\ LongAgo < -1000
BY SMT DEF LongAgo

NSeg == Len(Segments)

\* The turn of the agent of a segment: 0 for its TMA, 1 for its ACA, 2 for its RCA.
Index(s) == CHOOSE i \in 1..NSeg : Segments[i] = s
Place(agent, s) == 3 * Index(s) - 2 + agent

LEMMA Turns ==
    /\ NSeg \in Nat \ {0} /\ LastTurn = 3 * NSeg + 1
    /\ \A s \in Names : Index(s) \in 1..NSeg /\ Segments[Index(s)] = s
    /\ \A i \in 1..NSeg : Segments[i] \in Names /\ Index(Segments[i]) = i
<1>1. /\ NSeg \in Nat \ {0} /\ DOMAIN Segments = 1..NSeg
      /\ \A i, j \in 1..NSeg : Segments[i] = Segments[j] => i = j
    BY SegmentsAssumption DEF NSeg
<1>2. \A s \in Names : \E i \in 1..NSeg : Segments[i] = s
    BY <1>1 DEF Names
<1>3. \A s \in Names : Index(s) \in 1..NSeg /\ Segments[Index(s)] = s
    BY <1>2 DEF Index
<1>4. \A i \in 1..NSeg : Segments[i] \in Names
    BY <1>1 DEF Names
<1> QED BY <1>1, <1>3, <1>4 DEF LastTurn, NSeg

\* An agent that steps is in its place.
LEMMA InTurn ==
    ASSUME NEW s \in Names, NEW agent \in 0..2, TurnOf(agent, s), turn \in Nat
    PROVE  turn = Place(agent, s) /\ turn \in 1..(LastTurn - 1)
<1> DEFINE i == (turn - 1) \div 3 + 1
<1>1. turn \in 1..(3 * NSeg) /\ Segments[i] = s /\ (turn - 1) % 3 = agent
    BY Turns DEF TurnOf, SegmentAt
<1>2. i \in 1..NSeg /\ turn \in {3 * i - 2, 3 * i - 1, 3 * i}
  <2>1. NSeg \in Nat /\ turn \in Int
      BY Turns
  <2> QED BY <1>1, <2>1, Z3
<1> HIDE DEF i
<1>4. \A k \in 1..NSeg : /\ (3 * k - 2 - 1) % 3 = 0 /\ (3 * k - 1 - 1) % 3 = 1
                       /\ (3 * k - 1) % 3 = 2
  <2>1. NSeg \in Nat
      BY Turns
  <2> QED BY <2>1, Z3
<1>5. turn = 3 * i - 2 + agent
  <2>1. i \in Int
      BY <1>2
  <2>2. CASE turn = 3 * i - 2
      BY <1>1, <1>2, <1>4, <2>1, <2>2
  <2>3. CASE turn = 3 * i - 1
      BY <1>1, <1>2, <1>4, <2>1, <2>3
  <2>4. CASE turn = 3 * i
      BY <1>1, <1>2, <1>4, <2>1, <2>4
  <2> QED BY <1>2, <2>2, <2>3, <2>4
<1>3. Index(s) = i
    BY <1>1, <1>2, Turns
<1> QED BY <1>1, <1>2, <1>3, <1>5, Turns DEF Place

LEMMA Places3 ==
    ASSUME NEW s \in Names
    PROVE  /\ Place(0, s) \in 1..(LastTurn - 3)
           /\ Place(1, s) = Place(0, s) + 1 /\ Place(2, s) = Place(0, s) + 2
           /\ LastTurn \in Nat
           /\ \A r \in Names : Place(0, r) = Place(0, s) => r = s
           /\ \A r \in Names : Place(1, r) = Place(1, s) => r = s
<1>1. /\ NSeg \in Nat /\ LastTurn = 3 * NSeg + 1
      /\ \A r \in Names : Index(r) \in 1..NSeg /\ Segments[Index(r)] = r
    BY Turns
<1>2. /\ Place(0, s) \in 1..(LastTurn - 3) /\ LastTurn \in Nat
      /\ Place(1, s) = Place(0, s) + 1 /\ Place(2, s) = Place(0, s) + 2
    BY <1>1 DEF Place
<1>3. ASSUME NEW r \in Names, Index(r) = Index(s) PROVE r = s
    BY <1>1, <1>3
<1>4. ASSUME NEW r \in Names, Place(0, r) = Place(0, s) \/ Place(1, r) = Place(1, s)
      PROVE  Index(r) = Index(s)
  <2>1. Index(r) \in Int /\ Index(s) \in Int
      BY <1>1
  <2> QED BY <1>4, <2>1 DEF Place
<1> QED BY <1>2, <1>3, <1>4

\* The time at which the agents of the round that is under way step.
Round == IF pruning.next > 0 THEN now - Step ELSE now

-----------------------------------------------------------------------------
(* Types *)

Baselines == [samples: 0..Warmup, polluted: BOOLEAN, warm_ms: Nat \cup {None}]

Shape ==
    /\ turn \in 0..LastTurn
    /\ pruning.next > 0 => turn = LastTurn /\ Step <= now
    /\ Items(specs) \subseteq injected /\ Items(pruning.kept) \subseteq injected
    /\ traffic \in [Names -> {"clean", "faint", "loud"}]
    /\ health \in [Names -> {"NORMAL", "UNDER_ATTACK"}]
    /\ defenses \in [Names -> SUBSET ResponseTypes]
    /\ baseline \in [Names -> Baselines]
    /\ \A s \in Names : Warm(s) <=> baseline[s].warm_ms # None
    /\ lastAlert \in [Names -> Nat \cup {LongAgo}]
    /\ alerts \in [Names -> Seq(AlertRecords)]
    /\ recent \in [Names -> AlertRecords \cup {None}]
    /\ learnDue \in [Names -> BOOLEAN]
    /\ DOMAIN incidents = Names /\ \A s \in Names : IsSeq(incidents[s])
    /\ IsSeq(log)

\* An alert that was raised at some time; TMA after TMA raises the alerts of a
\* round.
Raised(a) == a \in AlertRecords /\ a.ts_ms <= Round
             /\ (a.ts_ms = Round => turn > Place(0, a.segment))

Base == LossInv /\ Shape

LEMMA ShapeOf ==
    ASSUME Base
    PROVE  /\ now \in Nat /\ turn \in Nat /\ turn \in 0..LastTurn /\ LastTurn \in Nat
           /\ Step \in Nat /\ Step > 0 /\ Round \in Nat /\ Round <= now
           /\ pruning.next = 0 => Round = now
           /\ pruning.next > 0 => turn = LastTurn /\ now = Round + Step
           /\ pruning.next \in Nat
           /\ turn < LastTurn => pruning.next = 0
<1>1. /\ now \in Nat /\ turn \in Nat /\ pruning.next \in Nat
    BY DEF Base, LossInv, PruneOK
<1>2. Step \in Nat /\ Step > 0 /\ LastTurn \in Nat
    BY StepAssumption, Turns
<1>3. turn \in 0..LastTurn /\ (pruning.next > 0 => turn = LastTurn /\ Step <= now)
    BY DEF Base, Shape
<1> QED BY <1>1, <1>2, <1>3 DEF Round

LEMMA ShapeInit == Init => Shape
<1> SUFFICES ASSUME Init PROVE Shape
    OBVIOUS
<1>1. /\ turn = 0 /\ pruning.next = 0 /\ Items(specs) = {} /\ Items(pruning.kept) = {}
      /\ LastTurn \in Nat
    BY Turns DEF Init, NotPruning, Items
<1>2. Warmup \in 1..60 /\ None \notin Int
    BY StepAssumption, NoneAssumption
<1>3. baseline \in [Names -> Baselines]
    BY <1>2 DEF Init, Baselines
<1>4. \A s \in Names : Warm(s) <=> baseline[s].warm_ms # None
    BY <1>2 DEF Init, Warm
<1>5. IsSeq(<<>>)
    BY DEF IsSeq
<1>6. /\ traffic \in [Names -> {"clean", "faint", "loud"}]
      /\ health \in [Names -> {"NORMAL", "UNDER_ATTACK"}]
      /\ defenses \in [Names -> SUBSET ResponseTypes]
      /\ lastAlert \in [Names -> Nat \cup {LongAgo}]
      /\ alerts \in [Names -> Seq(AlertRecords)]
      /\ recent \in [Names -> AlertRecords \cup {None}]
      /\ learnDue \in [Names -> BOOLEAN]
    BY DEF Init
<1>7. log = <<>> /\ \A s \in Names : incidents[s] = <<>>
    BY DEF Init
<1>8. DOMAIN incidents = Names
    BY DEF Init
<1> QED BY <1>1, <1>3, <1>4, <1>5, <1>6, <1>7, <1>8 DEF Shape

-----------------------------------------------------------------------------
(* What the steps do *)

\* The positions a step adds to the log, and that they hold the events n.
New == DOMAIN log' \ DOMAIN log
Logged(n) ==
    /\ IsSeq(log') /\ Extends(log, log')
    /\ \A i \in New : i - Len(log) \in DOMAIN n /\ log'[i] = n[i - Len(log)]
    /\ \A k \in DOMAIN n : Len(log) + k \in New /\ log'[Len(log) + k] = n[k]
    /\ \A i \in DOMAIN log, j \in New : i < j

LEMMA Logging ==
    ASSUME NEW n, IsSeq(n), IsSeq(log), LogEvents(n)
    PROVE  Logged(n)
<1>1. log' = log \o n
    BY DEF LogEvents
<1>2. /\ IsSeq(log') /\ Extends(log, log')
      /\ \A i \in New : i - Len(log) \in DOMAIN n /\ log'[i] = n[i - Len(log)]
    BY <1>1, Concat DEF Extends, New
<1>3. \A j \in DOMAIN n : Len(log) + j \in DOMAIN log' /\ log'[Len(log) + j] = n[j]
    BY <1>1, Concat, SeqShape
<1>4. /\ DOMAIN n = 1..Len(n) /\ DOMAIN log = 1..Len(log) /\ DOMAIN log' = 1..Len(log')
      /\ Len(n) \in Nat /\ Len(log) \in Nat /\ Len(log') \in Nat
    BY <1>2, SeqShape
<1>5. \A j \in DOMAIN n : Len(log) + j \notin DOMAIN log
    BY <1>4
<1>6. \A i \in DOMAIN log, j \in New : i < j
    BY <1>4 DEF New
<1> QED BY <1>2, <1>3, <1>5, <1>6 DEF Logged, New

LEMMA Unlogged == IsSeq(log) /\ log' = log => Logged(<<>>)
BY DEF Logged, Extends, New

LEMMA AlertEvent ==
    ASSUME NEW s
    PROVE  LET e == AlertPublished(s)
           IN /\ e.event_type = "ALERT_PUBLISHED" /\ e.agent_id = s /\ e.wall_ms = now
              /\ e.latency_ms = 0 /\ Get(e, "deviation_score", 0) = 201
BY DEF AlertPublished, Event, Get

\* What the event of a classified alert says.
Tags(c, a, v, e) ==
    /\ e.event_type = "THREAT_CLASSIFIED" /\ e.agent_id = c /\ e.wall_ms = now
    /\ e.latency_ms = now - a.ts_ms /\ e.payload.alert = a
    /\ Get(e, "classification", None) = v.classification
    /\ (v.classification # "NORMAL") => (Get(e, "reported", FALSE) = TRUE)

LEMMA ThreatEvent ==
    ASSUME NEW c, NEW a, NEW v, NEW e, e = ThreatClassified(c, a, v)
    PROVE  Tags(c, a, v, e)
<1> DEFINE r == v.classification # "NORMAL"
           p == [alert |-> a, reported |-> r, classification |-> v.classification,
                 attack_type |-> v.attack_type, severity |-> v.severity]
<1>1. /\ e.event_type = "THREAT_CLASSIFIED" /\ e.agent_id = c /\ e.wall_ms = now
      /\ e.latency_ms = now - a.ts_ms /\ e.payload = p
    BY DEF ThreatClassified, Event
<1> HIDE DEF r
<1>2. /\ "classification" \in DOMAIN p /\ p["classification"] = v.classification
      /\ "reported" \in DOMAIN p /\ p["reported"] = r /\ p.alert = a
    OBVIOUS
<1> HIDE DEF p
<1>3. Get(e, "classification", None) = v.classification /\ Get(e, "reported", FALSE) = r
    BY <1>1, <1>2 DEF Get
<1> QED BY <1>1, <1>2, <1>3 DEF r, Tags

LEMMA ThreatTags ==
    ASSUME NEW c, NEW a, NEW v
    PROVE  \A e : e = ThreatClassified(c, a, v) =>
               /\ e.event_type = "THREAT_CLASSIFIED" /\ e.agent_id = c /\ e.wall_ms = now
               /\ e.payload.alert = a
<1> SUFFICES ASSUME NEW e, e = ThreatClassified(c, a, v)
             PROVE  /\ e.event_type = "THREAT_CLASSIFIED" /\ e.agent_id = c /\ e.wall_ms = now
                    /\ e.payload.alert = a
    OBVIOUS
<1>1. Tags(c, a, v, e)
    BY ThreatEvent
<1> QED BY <1>1 DEF Tags

LEMMA OtherEvents ==
    ASSUME NEW s, NEW x, NEW a
    PROVE  /\ \A e \in {OnlineUpdate(s), Response(s, x, a)} :
                 e.event_type = "ACTION_EXECUTED" /\ e.agent_id = s /\ e.wall_ms = now
           /\ Resolved(s, x).event_type = "INCIDENT_RESOLVED"
           /\ Resolved(s, x).agent_id = s /\ Resolved(s, x).wall_ms = now
BY DEF OnlineUpdate, Response, Resolved, Event

\* A TMA publishes an alert, unless it sees no deviation or is cooling down.
Alerts(s, deviates) == deviates /\ ~CoolingDown(s)
LEMMA TmaDoes ==
    ASSUME Base, NEW s \in Names, NEW deviates \in BOOLEAN, TmaStep(s, deviates)
    PROVE  /\ turn = Place(0, s) /\ turn \in 1..(LastTurn - 1) /\ turn' = turn + 1
           /\ pruning.next = 0 /\ Round = now /\ Round' = now
           /\ UNCHANGED <<now, simVars, defenses, learnDue, recent, incidents>>
           /\ Alerts(s, deviates) =>
                /\ Logged(<<AlertPublished(s)>>)
                /\ lastAlert' = [lastAlert EXCEPT ![s] = now]
                /\ alerts' = [c \in Names |-> Append(alerts[c], AlertOf(s))]
           /\ ~Alerts(s, deviates) => Logged(<<>>) /\ UNCHANGED <<lastAlert, alerts, log>>
<1>1. TurnOf(0, s) /\ turn' = turn + 1
      /\ UNCHANGED <<now, simVars, defenses, learnDue, recent, incidents>>
    BY DEF TmaStep
<1>2. turn = Place(0, s) /\ turn \in 1..(LastTurn - 1)
  <2>1. turn \in Nat /\ 0 \in 0..2
      BY ShapeOf
  <2> QED BY <1>1, <2>1, InTurn
<1>3. pruning.next = 0 /\ Round = now /\ pruning' = pruning /\ now' = now
    BY <1>1, <1>2, ShapeOf DEF simVars
<1>4. Round' = now
    BY <1>3 DEF Round
<1>5. IsSeq(log)
    BY DEF Base, Shape
<1>6. CASE Alerts(s, deviates)
  <2>1. /\ LogEvents(<<AlertPublished(s)>>) /\ lastAlert' = [lastAlert EXCEPT ![s] = now]
        /\ alerts' = [c \in Names |-> Append(alerts[c], AlertOf(s))]
      BY <1>6 DEF TmaStep, Alerts
  <2>2. \A x : IsSeq(<<x>>)
      BY DEF IsSeq, Items
  <2> QED BY <1>1, <1>2, <1>3, <1>4, <1>5, <1>6, <2>1, <2>2, Logging
<1>7. CASE ~Alerts(s, deviates)
  <2>1. UNCHANGED <<lastAlert, alerts, log>>
      BY <1>7 DEF TmaStep, Alerts
  <2> QED BY <1>1, <1>2, <1>3, <1>4, <1>5, <1>7, <2>1, Unlogged
<1> QED BY <1>6, <1>7

\* An ACA learns first if there is something to learn from, then it classifies
\* all that waits.
Learns(c) == learnDue[c] /\ recent[c] # None
Verdicts(c, readings) == [i \in DOMAIN alerts[c] |-> predict(readings[i])]
ReportedOf(c, readings) ==
    {i \in DOMAIN alerts[c] : Verdicts(c, readings)[i].classification # "NORMAL"}
SevereOf(c, readings) == {i \in DOMAIN alerts[c] : Severe(Verdicts(c, readings)[i])}
Offset(c) == IF Learns(c) THEN 1 ELSE 0

\* What a step of ACA c leaves in its own variables.
AcaState(c, readings) ==
    /\ alerts' = [alerts EXCEPT ![c] = <<>>]
    /\ learnDue' = [learnDue EXCEPT ![c] = FALSE]
    /\ recent' \in [Names -> AlertRecords \cup {None}]
    /\ \A d \in Names : d # c => recent'[d] = recent[d]
    /\ recent[c] # None \/ ReportedOf(c, readings) # {} => recent'[c] # None
    /\ DOMAIN incidents' = Names /\ \A d \in Names : IsSeq(incidents'[d])
    /\ \A d \in Names : d # c => incidents'[d] = incidents[d]
    /\ incidents'[c] # <<>> => incidents[c] # <<>> \/ SevereOf(c, readings) # {}

\* What it adds to the log.
AcaEvents(c, readings) ==
    /\ IsSeq(log') /\ Extends(log, log')
    /\ \A i \in DOMAIN log, j \in New : i < j
    /\ \A k \in DOMAIN alerts[c] :
          /\ Len(log) + Offset(c) + k \in New
          /\ log'[Len(log) + Offset(c) + k] =
                ThreatClassified(c, alerts[c][k], Verdicts(c, readings)[k])
    /\ \A i \in New :
          \/ log'[i] = OnlineUpdate(c)
          \/ \E k \in DOMAIN alerts[c] : i = Len(log) + Offset(c) + k
    /\ Learns(c) => \E i \in New : log'[i] = OnlineUpdate(c)

LEMMA AcaLog ==
    ASSUME IsSeq(log), NEW c, NEW readings, IsSeq(alerts[c]),
           LogEvents((IF Learns(c) THEN <<OnlineUpdate(c)>> ELSE <<>>)
                     \o [i \in DOMAIN alerts[c] |->
                           ThreatClassified(c, alerts[c][i], Verdicts(c, readings)[i])])
    PROVE  AcaEvents(c, readings)
<1> DEFINE a == IF Learns(c) THEN <<OnlineUpdate(c)>> ELSE <<>>
           b == [i \in DOMAIN alerts[c] |->
                   ThreatClassified(c, alerts[c][i], Verdicts(c, readings)[i])]
           o == Offset(c)
<1>1. IsSeq(a) /\ Len(a) = o /\ DOMAIN a = 1..o /\ o \in Nat
      /\ \A i \in DOMAIN a : a[i] = OnlineUpdate(c) /\ i = 1
  <2>1. CASE Learns(c)
    <3>1. a = <<OnlineUpdate(c)>> /\ o = 1
        BY <2>1 DEF Offset
    <3>2. \A x : IsSeq(<<x>>) /\ Len(<<x>>) = 1 /\ DOMAIN <<x>> = 1..1 /\ <<x>>[1] = x
        BY DEF IsSeq, Items
    <3> HIDE DEF a, o
    <3> QED BY <3>1, <3>2
  <2>2. CASE ~Learns(c)
    <3>1. a = <<>> /\ o = 0
        BY <2>2 DEF Offset
    <3>2. IsSeq(<<>>) /\ Len(<<>>) = 0 /\ DOMAIN <<>> = 1..0
        BY DEF IsSeq
    <3> HIDE DEF a, o
    <3> QED BY <3>1, <3>2
  <2> QED BY <2>1, <2>2
<1>2. DOMAIN alerts[c] = 1..Len(alerts[c]) /\ Len(alerts[c]) \in Nat
    BY SeqShape
<1>3. DOMAIN b = DOMAIN alerts[c]
      /\ \A k \in DOMAIN alerts[c] :
            b[k] = ThreatClassified(c, alerts[c][k], Verdicts(c, readings)[k])
    OBVIOUS
<1>4. IsSeq(b)
    BY <1>2 DEF IsSeq, Items
<1>5. LogEvents(a \o b)
    OBVIOUS
<1>6. Learns(c) => o = 1
    BY DEF Offset
<1> HIDE DEF a, b, o
<1>7. /\ IsSeq(a \o b)
      /\ \A i \in DOMAIN a : i \in DOMAIN (a \o b) /\ (a \o b)[i] = a[i]
      /\ \A j \in DOMAIN b : o + j \in DOMAIN (a \o b) /\ (a \o b)[o + j] = b[j]
      /\ \A i \in DOMAIN (a \o b) \ DOMAIN a : i - o \in DOMAIN b
  <2>1. IsSeq(a)
      BY <1>1
  <2>2. /\ IsSeq(a \o b)
        /\ \A i \in DOMAIN a : i \in DOMAIN (a \o b) /\ (a \o b)[i] = a[i]
      BY <1>4, <2>1, Concat
  <2>3. \A j \in DOMAIN b : /\ Len(a) + j \in DOMAIN (a \o b)
                            /\ (a \o b)[Len(a) + j] = b[j]
      BY <1>4, <2>1, Concat, SeqShape
  <2>4. \A i \in DOMAIN (a \o b) \ DOMAIN a : i - Len(a) \in DOMAIN b
      BY <1>4, <2>1, Concat, SeqShape
  <2> QED BY <1>1, <2>2, <2>3, <2>4
<1>8. Logged(a \o b)
    BY <1>5, <1>7, Logging
<1>9. /\ DOMAIN log = 1..Len(log) /\ Len(log) \in Nat
      /\ DOMAIN (a \o b) \subseteq Nat /\ DOMAIN log' = 1..Len(log') /\ Len(log') \in Nat
  <2>1. IsSeq(log')
      BY <1>8 DEF Logged
  <2> QED BY <1>7, <2>1, SeqShape
<1>10. ASSUME NEW k \in DOMAIN alerts[c]
       PROVE  /\ Len(log) + o + k \in New
              /\ log'[Len(log) + o + k] =
                    ThreatClassified(c, alerts[c][k], Verdicts(c, readings)[k])
  <2>1. o + k \in DOMAIN (a \o b) /\ (a \o b)[o + k] = b[k]
      BY <1>3, <1>7
  <2>2. Len(log) + (o + k) \in New /\ log'[Len(log) + (o + k)] = b[k]
      BY <1>8, <2>1 DEF Logged
  <2>3. Len(log) + (o + k) = Len(log) + o + k
      BY <1>1, <1>2, <1>9
  <2> QED BY <1>3, <2>2, <2>3
<1>11. ASSUME NEW i \in New
       PROVE  log'[i] = OnlineUpdate(c) \/ \E k \in DOMAIN alerts[c] : i = Len(log) + o + k
  <2>1. i - Len(log) \in DOMAIN (a \o b) /\ log'[i] = (a \o b)[i - Len(log)]
      BY <1>8 DEF Logged
  <2>2. CASE i - Len(log) \in DOMAIN a
      BY <1>1, <1>7, <2>1, <2>2
  <2>3. CASE i - Len(log) \notin DOMAIN a
    <3>1. i - Len(log) - o \in DOMAIN alerts[c] /\ i \in Int
        BY <1>3, <1>7, <1>9, <2>1, <2>3 DEF New
    <3>2. i = Len(log) + o + (i - Len(log) - o)
        BY <1>1, <1>9, <3>1
    <3> QED BY <3>1, <3>2
  <2> QED BY <2>2, <2>3
<1>12. ASSUME Learns(c) PROVE \E i \in New : log'[i] = OnlineUpdate(c)
  <2>1. 1 \in DOMAIN a
      BY <1>1, <1>6, <1>12
  <2>2. 1 \in DOMAIN (a \o b) /\ (a \o b)[1] = OnlineUpdate(c)
      BY <1>1, <1>7, <2>1
  <2> QED BY <1>8, <2>2 DEF Logged
<1> QED BY <1>8, <1>10, <1>11, <1>12 DEF AcaEvents, Logged, o

LEMMA InOrderLen ==
    ASSUME NEW S, NEW n \in Nat, S \subseteq 1..n
    PROVE  /\ Cardinality(S) \in Nat /\ DOMAIN InOrder(S) = 1..Cardinality(S)
           /\ S = {} => Cardinality(S) = 0
<1>1. IsFiniteSet(S) /\ Cardinality({}) = 0
  <2>1. S \in SUBSET Nat /\ \A i \in S : i <= n
      OBVIOUS
  <2> QED BY <2>1, FS_BoundedSetOfNaturals, FS_EmptySet
<1>2. Cardinality(S) \in Nat
    BY <1>1, FS_CardinalityType
<1> QED BY <1>1, <1>2 DEF InOrder

LEMMA FunctionIsSeq ==
    ASSUME NEW m \in Nat, NEW f, f = [k \in 1..m |-> f[k]]
    PROVE  IsSeq(f) /\ Len(f) = m
<1>1. f \in Seq(Items(f)) /\ Len(f) = m
    BY DEF Items
<1> QED BY <1>1 DEF IsSeq

LEMMA EmptyLen ==
    ASSUME NEW s, IsSeq(s)
    PROVE  s = <<>> <=> Len(s) = 0
BY DEF IsSeq

LEMMA NoneIsNoRecord == \A a \in AlertRecords : a # None
BY AlertsAssumption

LEMMA AcaDoes ==
    ASSUME Base, NEW c \in Names, NEW readings, AcaStep(c, readings)
    PROVE  /\ turn = Place(1, c) /\ turn \in 1..(LastTurn - 1) /\ turn' = turn + 1
           /\ pruning.next = 0 /\ Round = now /\ Round' = now
           /\ UNCHANGED <<now, simVars, defenses, tmaVars>>
           /\ ClassifyTriggers(c) => AcaState(c, readings) /\ AcaEvents(c, readings)
           /\ ~ClassifyTriggers(c) =>
                Logged(<<>>) /\ UNCHANGED <<log, acaVars, incidents>>
<1>1. TurnOf(1, c) /\ turn' = turn + 1 /\ UNCHANGED <<now, simVars, defenses, tmaVars>>
    BY DEF AcaStep
<1>2. turn = Place(1, c) /\ turn \in 1..(LastTurn - 1)
  <2>1. turn \in Nat /\ 1 \in 0..2
      BY ShapeOf
  <2> QED BY <1>1, <2>1, InTurn
<1>3. pruning.next = 0 /\ Round = now /\ pruning' = pruning /\ now' = now
    BY <1>1, <1>2, ShapeOf DEF simVars
<1>4. Round' = now
    BY <1>3 DEF Round
<1>5. /\ IsSeq(log) /\ alerts \in [Names -> Seq(AlertRecords)]
      /\ learnDue \in [Names -> BOOLEAN] /\ recent \in [Names -> AlertRecords \cup {None}]
      /\ DOMAIN incidents = Names /\ \A d \in Names : IsSeq(incidents[d])
    BY DEF Base, Shape
<1>6. CASE ~ClassifyTriggers(c)
  <2>1. UNCHANGED <<log, acaVars, incidents>>
      BY <1>6 DEF AcaStep
  <2> QED BY <1>1, <1>2, <1>3, <1>4, <1>5, <1>6, <2>1, Unlogged
<1>7. CASE ClassifyTriggers(c)
  <2> DEFINE V == Verdicts(c, readings)
             batch == alerts[c]
             reported == {i \in DOMAIN batch : V[i].classification # "NORMAL"}
             last == CHOOSE i \in reported : \A j \in reported : j <= i
             S == {i \in DOMAIN batch : Severe(V[i])}
             severe == InOrder(S)
             added == [n \in DOMAIN severe |-> Incident(batch[severe[n]], V[severe[n]])]
  <2>1. /\ LogEvents((IF learnDue[c] /\ recent[c] # None THEN <<OnlineUpdate(c)>> ELSE <<>>)
                     \o [i \in DOMAIN batch |-> ThreatClassified(c, batch[i], V[i])])
        /\ learnDue' = [learnDue EXCEPT ![c] = FALSE]
        /\ alerts' = [alerts EXCEPT ![c] = <<>>]
        /\ recent' = [recent EXCEPT ![c] = IF reported = {} THEN @ ELSE batch[last]]
        /\ incidents' = [incidents EXCEPT ![c] = @ \o added]
      BY <1>7 DEF AcaStep, ClassifiedNow, Verdicts
  <2>2. /\ IsSeq(batch) /\ DOMAIN batch = 1..Len(batch) /\ Len(batch) \in Nat
        /\ \A i \in DOMAIN batch : batch[i] \in AlertRecords
    <3>1. batch \in Seq(AlertRecords)
        BY <1>5
    <3> QED BY <3>1, SeqShape
  <2>3. AcaEvents(c, readings)
      BY <1>5, <2>1, <2>2, AcaLog DEF Learns
  <2>4. reported # {} => last \in reported /\ batch[last] \in AlertRecords
    <3>1. reported \subseteq 1..Len(batch) /\ Len(batch) \in Nat
        BY <2>2
    <3>2. CASE reported # {}
      <4>1. \E i \in reported : \A j \in reported : j <= i
        <5> HIDE DEF reported
        <5> QED BY <3>1, <3>2, GreatestNat
      <4>2. last \in reported
          BY <4>1
      <4> QED BY <2>2, <4>2
    <3> QED BY <3>2
  <2>5. \A a \in AlertRecords : a # None
      BY NoneIsNoRecord
  <2>6. /\ recent' \in [Names -> AlertRecords \cup {None}]
        /\ \A d \in Names : d # c => recent'[d] = recent[d]
        /\ recent[c] # None \/ reported # {} => recent'[c] # None
    <3> HIDE DEF reported, last, batch
    <3> QED BY <1>5, <2>1, <2>4, <2>5
  <2>7. /\ DOMAIN incidents' = Names /\ \A d \in Names : IsSeq(incidents'[d])
        /\ \A d \in Names : d # c => incidents'[d] = incidents[d]
        /\ incidents'[c] # <<>> => incidents[c] # <<>> \/ S # {}
    <3>1. S \subseteq 1..Len(batch)
        BY <2>2
    <3>2. Cardinality(S) \in Nat /\ DOMAIN severe = 1..Cardinality(S)
          /\ (S = {} => Cardinality(S) = 0)
      <4> HIDE DEF S
      <4> QED BY <2>2, <3>1, InOrderLen
    <3>3. DOMAIN added = 1..Cardinality(S)
        BY <3>2
    <3> HIDE DEF added, S, batch
    <3>4. IsSeq(added) /\ Len(added) = Cardinality(S)
      <4>1. added = [i \in 1..Cardinality(S) |-> added[i]]
          BY <3>3 DEF added
      <4> QED BY <3>2, <4>1, FunctionIsSeq
    <3>5. IsSeq(incidents[c])
        BY <1>5
    <3>6. IsSeq(incidents[c] \o added)
          /\ Len(incidents[c] \o added) = Len(incidents[c]) + Len(added)
        BY <3>4, <3>5, Concat
    <3>7. incidents'[c] = incidents[c] \o added /\ DOMAIN incidents' = Names
          /\ \A d \in Names : d # c => incidents'[d] = incidents[d]
        BY <1>5, <2>1
    <3>8. (incidents[c] = <<>> /\ S = {}) => incidents[c] \o added = <<>>
        BY <3>2, <3>4, <3>5, <3>6, EmptyLen
    <3> QED BY <1>5, <3>6, <3>7, <3>8
  <2>8. AcaState(c, readings)
      BY <2>1, <2>6, <2>7 DEF AcaState, ReportedOf, SevereOf
  <2> QED BY <1>1, <1>2, <1>3, <1>4, <1>7, <2>3, <2>8
<1> QED BY <1>6, <1>7

\* An RCA answers the first n of its incidents.
RcaState(s, n) ==
    /\ n \in Nat /\ n > 0 => incidents[s] # <<>>
    /\ defenses' \in [Names -> SUBSET ResponseTypes]
    /\ \A d \in Names : defenses[d] \subseteq defenses'[d]
    /\ health' \in [Names -> {"NORMAL", "UNDER_ATTACK"}]
    /\ learnDue' = [c \in Names |-> learnDue[c] \/ n > 0]
    /\ DOMAIN incidents' = Names /\ \A d \in Names : IsSeq(incidents'[d])
    /\ \A d \in Names : incidents'[d] # <<>> => incidents[d] # <<>>
RcaEvents(s, n) ==
    /\ IsSeq(log') /\ Extends(log, log')
    /\ \A i \in DOMAIN log, j \in New : i < j
    /\ \A i \in New :
          /\ log'[i].event_type \in {"ACTION_EXECUTED", "INCIDENT_RESOLVED"}
          /\ log'[i].agent_id = s /\ log'[i].wall_ms = now
    /\ n = 0 => New = {}

LEMMA AnsweredExists ==
    ASSUME NEW s, NEW done \in Nat, NEW actions, DOMAIN actions = 1..done
    PROVE  Answered(s, done, actions) \in 0..done
<1> DEFINE T == {i \in 1..done : actions[i] = "QUARANTINE"}
<1>1. ASSUME Quarantined(s) PROVE Answered(s, done, actions) \in 0..done
    BY <1>1 DEF Answered
<1>2. \E n \in 0..done : /\ \A i \in 1..(n - 1) : actions[i] # "QUARANTINE"
                         /\ n < done => n > 0 /\ actions[n] = "QUARANTINE"
  <2>1. CASE T = {}
      BY <2>1
  <2>2. CASE T # {}
    <3>1. \E x \in T : \A y \in T : x <= y
      <4>1. T \subseteq Nat
          OBVIOUS
      <4> HIDE DEF T
      <4> QED BY <2>2, <4>1, LeastNat
    <3> QED BY <3>1
  <2> QED BY <2>1, <2>2
<1> QED BY <1>1, <1>2 DEF Answered

LEMMA RestOf ==
    ASSUME NEW q, IsSeq(q), NEW m \in Nat, m <= Len(q)
    PROVE  /\ IsSeq(SubSeq(q, m + 1, Len(q)))
           /\ SubSeq(q, m + 1, Len(q)) # <<>> => q # <<>>
<1> DEFINE S == Items(q)
           r == SubSeq(q, m + 1, Len(q))
<1>1. Len(q) \in Nat /\ DOMAIN q = 1..Len(q)
    BY SeqShape
<1>2. \A i \in (m + 1)..Len(q) : q[i] \in S
    BY <1>1 DEF Items
<1>3. r \in Seq(S) /\ Len(r) = IF m + 1 <= Len(q) THEN Len(q) - (m + 1) + 1 ELSE 0
    BY <1>1, <1>2, SubSeqProperties
<1>4. IsSeq(r)
    BY <1>3, SeqShape
<1>5. q = <<>> => r = <<>>
  <2> SUFFICES ASSUME q = <<>> PROVE r = <<>>
      OBVIOUS
  <2>1. Len(r) = 0
      BY <1>1, <1>3
  <2> QED BY <1>3, <2>1
<1> QED BY <1>4, <1>5

LEMMA RcaDoes ==
    ASSUME Base, NEW s \in Names, NEW done \in 0..Len(incidents[s]),
           NEW actions, RcaStep(s, done, actions)
    PROVE  /\ turn = Place(2, s) /\ turn \in 1..(LastTurn - 1) /\ turn' = turn + 1
           /\ pruning.next = 0 /\ Round = now /\ Round' = now
           /\ UNCHANGED <<now, scenario, specs, pruning, traffic, injected, tmaVars,
                          alerts, recent>>
           /\ \E n \in Nat : RcaState(s, n) /\ RcaEvents(s, n)
<1> DEFINE n == Answered(s, done, actions)
           q == incidents[s]
           es == [k \in 1..(2 * n) |->
                    LET i == (k + 1) \div 2
                    IN IF k % 2 = 1 THEN Response(s, q[i], actions[i]) ELSE Resolved(s, q[i])]
<1>1. /\ TurnOf(2, s) /\ turn' = turn + 1 /\ actions \in [1..done -> ResponseTypes]
      /\ UNCHANGED <<now, scenario, specs, pruning, traffic, injected, tmaVars, alerts,
                     recent>>
      /\ incidents' = [incidents EXCEPT ![s] = SubSeq(@, done + 1, Len(@))]
    BY DEF RcaStep
<1>2. /\ defenses' = [defenses EXCEPT ![s] = @ \cup {actions[i] : i \in 1..n}]
      /\ health' = [health EXCEPT ![s] =
            IF \E i \in 1..n : actions[i] = "QUARANTINE" THEN "NORMAL" ELSE @]
      /\ LogEvents(es)
      /\ learnDue' = [c \in Names |-> learnDue[c] \/ n > 0]
    BY DEF RcaStep
<1>3. turn = Place(2, s) /\ turn \in 1..(LastTurn - 1)
  <2>1. turn \in Nat /\ 2 \in 0..2
      BY ShapeOf
  <2> QED BY <1>1, <2>1, InTurn
<1>4. pruning.next = 0 /\ Round = now /\ Round' = now
  <2>1. pruning.next = 0 /\ Round = now /\ pruning' = pruning /\ now' = now
      BY <1>1, <1>3, ShapeOf
  <2> QED BY <2>1 DEF Round
<1>5. /\ IsSeq(log) /\ defenses \in [Names -> SUBSET ResponseTypes]
      /\ health \in [Names -> {"NORMAL", "UNDER_ATTACK"}]
      /\ DOMAIN incidents = Names /\ \A d \in Names : IsSeq(incidents[d])
    BY DEF Base, Shape
<1>6. IsSeq(q) /\ Len(q) \in Nat /\ DOMAIN q = 1..Len(q) /\ done \in Nat /\ done <= Len(q)
    BY <1>5, SeqShape
<1>7. n \in 0..done
    BY <1>1, <1>6, AnsweredExists
<1>8. IsSeq(es) /\ DOMAIN es = 1..(2 * n)
  <2>1. es = [k \in 1..(2 * n) |-> es[k]] /\ DOMAIN es = 1..(2 * n)
      OBVIOUS
  <2> HIDE DEF n, es
  <2>2. 2 * n \in Nat
      BY <1>6, <1>7
  <2> QED BY <2>1, <2>2, FunctionIsSeq
<1>9. \A k \in DOMAIN es : /\ es[k].event_type \in {"ACTION_EXECUTED", "INCIDENT_RESOLVED"}
                           /\ es[k].agent_id = s /\ es[k].wall_ms = now
  <2> SUFFICES ASSUME NEW k \in 1..(2 * n)
               PROVE  /\ es[k].event_type \in {"ACTION_EXECUTED", "INCIDENT_RESOLVED"}
                      /\ es[k].agent_id = s /\ es[k].wall_ms = now
      BY <1>8
  <2> DEFINE i == (k + 1) \div 2
  <2>1. es[k] = IF k % 2 = 1 THEN Response(s, q[i], actions[i]) ELSE Resolved(s, q[i])
      OBVIOUS
  <2> HIDE DEF es, i, n, q
  <2>2. es[k] = Response(s, q[i], actions[i]) \/ es[k] = Resolved(s, q[i])
      BY <2>1
  <2>3. /\ \A e \in {OnlineUpdate(s), Response(s, q[i], actions[i])} :
              e.event_type = "ACTION_EXECUTED" /\ e.agent_id = s /\ e.wall_ms = now
        /\ Resolved(s, q[i]).event_type = "INCIDENT_RESOLVED"
        /\ Resolved(s, q[i]).agent_id = s /\ Resolved(s, q[i]).wall_ms = now
      BY OtherEvents
  <2> QED BY <2>2, <2>3
<1> HIDE DEF es
<1>10. Logged(es)
    BY <1>2, <1>5, <1>8, Logging
<1> HIDE DEF n
<1>11. RcaEvents(s, n)
  <2>1. \A i \in New : \E k \in DOMAIN es : log'[i] = es[k]
      BY <1>10 DEF Logged
  <2>2. n = 0 => New = {}
    <3> SUFFICES ASSUME n = 0 PROVE New = {}
        OBVIOUS
    <3>1. DOMAIN es = {}
        BY <1>8
    <3> QED BY <2>1, <3>1
  <2> QED BY <1>9, <1>10, <2>1, <2>2 DEF RcaEvents, Logged
<1>12. n > 0 => q # <<>>
  <2>1. q = <<>> => Len(q) = 0
      OBVIOUS
  <2> QED BY <1>6, <1>7, <2>1
<1>13. {actions[i] : i \in 1..n} \subseteq ResponseTypes
    BY <1>1, <1>6, <1>7
<1>14. /\ defenses' \in [Names -> SUBSET ResponseTypes]
       /\ \A d \in Names : defenses[d] \subseteq defenses'[d]
       /\ health' \in [Names -> {"NORMAL", "UNDER_ATTACK"}]
  <2> DEFINE A == {actions[i] : i \in 1..n}
             b == \E i \in 1..n : actions[i] = "QUARANTINE"
  <2>1. /\ defenses' = [defenses EXCEPT ![s] = @ \cup A] /\ A \subseteq ResponseTypes
        /\ health' = [health EXCEPT ![s] = IF b THEN "NORMAL" ELSE @]
      BY <1>2, <1>13
  <2> HIDE DEF A, b
  <2> QED BY <1>5, <2>1
<1>15. /\ DOMAIN incidents' = Names /\ \A d \in Names : IsSeq(incidents'[d])
       /\ \A d \in Names : incidents'[d] # <<>> => incidents[d] # <<>>
  <2> DEFINE r == SubSeq(q, done + 1, Len(q))
  <2>1. IsSeq(r) /\ (r # <<>> => q # <<>>)
    <3> HIDE DEF q
    <3> QED BY <1>6, RestOf
  <2>2. incidents' = [incidents EXCEPT ![s] = r]
      BY <1>1
  <2> HIDE DEF r
  <2> QED BY <1>5, <2>1, <2>2
<1>16. RcaState(s, n)
  <2>1. n \in Nat
      BY <1>6, <1>7
  <2> QED BY <1>2, <1>12, <1>14, <1>15, <2>1 DEF RcaState
<1>17. n \in Nat
    BY <1>6, <1>7
<1> QED BY <1>1, <1>3, <1>4, <1>11, <1>16, <1>17

-----------------------------------------------------------------------------
(* Every step keeps the shapes, and rounds follow one another. *)

\* In a round the turn goes up by one at most; the round ends after the last.
LEMMA Rounds ==
    ASSUME Base, [Next]_vars
    PROVE  \/ Round' = Round /\ turn' \in {turn, turn + 1} /\ now' \in {now, now + Step}
           \/ turn = LastTurn /\ turn' = 0 /\ Round' = Round + Step /\ now' = now
<1>0. /\ now \in Nat /\ turn \in Nat /\ Step \in Nat /\ Step > 0
      /\ (pruning.next = 0 => Round = now) /\ pruning.next \in Nat
      /\ (pruning.next > 0 => now = Round + Step)
    BY ShapeOf
<1>1. ASSUME UNCHANGED <<now, turn, pruning>> PROVE Round' = Round
    BY <1>1 DEF Round
<1>2. ASSUME NEW a \in scenario.attacks, NEW t \in ReadTimes, Inject(a, t)
      PROVE  Round' = Round /\ UNCHANGED <<now, turn>>
    BY <1>1, <1>2 DEF Inject
<1>3. CASE SimTick
  <2>1. turn = 0 /\ turn' = 1 /\ UNCHANGED <<now, pruning>>
      BY <1>3 DEF SimTick
  <2> QED BY <2>1 DEF Round
<1>4. ASSUME NEW s \in Names, NEW deviates \in BOOLEAN, TmaStep(s, deviates)
      PROVE  Round' = Round /\ turn' = turn + 1 /\ now' = now
    BY <1>4, TmaDoes
<1>5. ASSUME NEW c \in Names, NEW readings, AcaStep(c, readings)
      PROVE  Round' = Round /\ turn' = turn + 1 /\ now' = now
    BY <1>5, AcaDoes
<1>6. ASSUME NEW s \in Names, NEW done \in 0..Len(incidents[s]), NEW actions,
             RcaStep(s, done, actions)
      PROVE  Round' = Round /\ turn' = turn + 1 /\ now' = now
    BY <1>6, RcaDoes
<1>7. CASE PruneBegin
  <2>1. pruning.next = 0 /\ now' = now + Step /\ turn' = turn /\ pruning'.next = 1
      BY <1>7 DEF PruneBegin
  <2> QED BY <1>0, <2>1 DEF Round
<1>8. CASE PruneNext
  <2>1. pruning.next > 0 /\ UNCHANGED <<now, turn>>
      BY <1>8 DEF PruneNext
  <2>2. pruning'.next = pruning.next + 1
      BY <1>8 DEF PruneNext, Base, LossInv, PruneOK
  <2> QED BY <1>0, <2>1, <2>2 DEF Round
<1>9. CASE PruneEnd
  <2>1. turn = LastTurn /\ turn' = 0 /\ now' = now /\ pruning'.next = 0
      BY <1>9 DEF PruneEnd, NotPruning
  <2>2. pruning.next > 0
      BY <1>9 DEF PruneEnd, PruneLength, Base, LossInv, PruneOK
  <2> QED BY <1>0, <2>1, <2>2 DEF Round
<1>10. CASE UNCHANGED vars
    BY <1>1, <1>10 DEF vars, simVars
<1> QED BY <1>2, <1>3, <1>4, <1>5, <1>6, <1>7, <1>8, <1>9, <1>10 DEF Next

\* What is left alone keeps its shape.
LEMMA ShapeKept ==
    ASSUME Shape, UNCHANGED <<traffic, health, defenses, tmaVars, acaVars, incidents, log>>,
           turn' \in 0..LastTurn, pruning'.next > 0 => turn' = LastTurn /\ Step <= now',
           Items(specs') \subseteq injected', Items(pruning'.kept) \subseteq injected'
    PROVE  Shape'
BY DEF Shape, tmaVars, acaVars, Warm, LastTurn

LEMMA ShapeInject ==
    ASSUME Base, NEW a \in scenario.attacks, NEW t \in ReadTimes, Inject(a, t)
    PROVE  Shape'
<1> DEFINE new == [segment |-> a.segment, loud |-> a.loud, duration_ms |-> a.duration_ms,
                   start_ms |-> t, at_ms |-> now, id |-> Cardinality(injected)]
<1>1. /\ specs' = Append(specs, new) /\ injected' = injected \cup {new}
      /\ UNCHANGED <<now, log, turn, pruning, traffic, health, defenses, tmaVars, acaVars,
                     incidents>>
    BY DEF Inject
<1> HIDE DEF new
<1>2. Items(specs') = Items(specs) \cup {new}
    BY <1>1, SeqShape, AppendItems DEF Base, LossInv, PruneOK
<1>3. /\ turn' \in 0..LastTurn /\ (pruning'.next > 0 => turn' = LastTurn /\ Step <= now')
      /\ Items(specs') \subseteq injected' /\ Items(pruning'.kept) \subseteq injected'
    BY <1>1, <1>2 DEF Base, Shape
<1>4. Shape
    BY DEF Base
<1> QED BY <1>1, <1>3, <1>4, ShapeKept

LEMMA ShapePruneBegin ==
    ASSUME Base, PruneBegin
    PROVE  Shape'
<1>1. /\ now' = now + Step /\ turn = LastTurn /\ pruning'.next = 1 /\ pruning'.kept = <<>>
      /\ UNCHANGED <<log, turn, specs, traffic, health, injected, defenses, tmaVars,
                     acaVars, incidents>>
    BY DEF PruneBegin
<1>2. now \in Nat /\ Step \in Nat /\ turn \in 0..LastTurn
    BY ShapeOf
<1>3. Items(pruning'.kept) = {}
    BY <1>1 DEF Items
<1>4. Shape /\ Items(specs') \subseteq injected'
    BY <1>1 DEF Base, Shape
<1>5. turn' \in 0..LastTurn /\ turn' = LastTurn /\ Step <= now'
    BY <1>1, <1>2
<1> QED BY <1>1, <1>3, <1>4, <1>5, ShapeKept

LEMMA ShapePruneNext ==
    ASSUME Base, PruneNext
    PROVE  Shape'
<1> DEFINE x == specs[pruning.next]
<1>1. /\ turn = LastTurn /\ pruning.next \in 1..Len(specs)
      /\ UNCHANGED <<now, log, turn, specs, traffic, health, injected, defenses, tmaVars,
                     acaVars, incidents>>
    BY DEF PruneNext, PruneLength
<1>2. pruning'.kept \in {pruning.kept, Append(pruning.kept, x)}
    BY DEF PruneNext, Base, LossInv, PruneOK
<1>3. x \in Items(specs)
    BY <1>1 DEF Items, Base, LossInv, PruneOK
<1>4. /\ Shape /\ turn \in 0..LastTurn /\ Items(specs) \subseteq injected
      /\ Items(pruning.kept) \subseteq injected /\ Step <= now
    BY <1>1 DEF Base, Shape
<1>5. IsSeq(pruning.kept)
    BY SeqShape DEF Base, LossInv, PruneOK
<1> HIDE DEF x
<1>6. Items(Append(pruning.kept, x)) = Items(pruning.kept) \cup {x}
    BY <1>5, AppendItems
<1>7. Items(pruning'.kept) \subseteq injected'
    BY <1>1, <1>2, <1>3, <1>4, <1>6
<1>8. /\ turn' \in 0..LastTurn /\ turn' = LastTurn /\ Step <= now'
      /\ Items(specs') \subseteq injected'
    BY <1>1, <1>4
<1> QED BY <1>1, <1>4, <1>7, <1>8, ShapeKept

LEMMA ShapePruneEnd ==
    ASSUME Base, PruneEnd
    PROVE  Shape'
<1>1. /\ specs' = pruning.kept /\ pruning'.next = 0 /\ pruning'.kept = <<>> /\ turn' = 0
      /\ UNCHANGED <<now, log, traffic, health, injected, defenses, tmaVars, acaVars,
                     incidents>>
    BY DEF PruneEnd, NotPruning
<1>2. Items(pruning'.kept) = {} /\ 0 \in 0..LastTurn
    BY <1>1, Turns DEF Items
<1>3. Shape /\ Items(specs') \subseteq injected'
    BY <1>1 DEF Base, Shape
<1> QED BY <1>1, <1>2, <1>3, ShapeKept

LEMMA ShapeTick ==
    ASSUME Base, SimTick
    PROVE  Shape'
<1>1. /\ turn = 0 /\ turn' = 1 /\ traffic' = [s \in Names |-> Overlay(s)]
      /\ health' = [s \in Names |-> IF UnderAttack(s) THEN "UNDER_ATTACK" ELSE health[s]]
      /\ UNCHANGED <<now, log, specs, pruning, injected, defenses, tmaVars, acaVars,
                     incidents>>
    BY DEF SimTick
<1>2. traffic' \in [Names -> {"clean", "faint", "loud"}]
    BY <1>1 DEF Overlay
<1>3. health' \in [Names -> {"NORMAL", "UNDER_ATTACK"}]
    BY <1>1 DEF Base, Shape
<1>4. 1 \in 0..LastTurn /\ 0 # LastTurn
    BY Turns
<1> QED BY <1>1, <1>2, <1>3, <1>4 DEF Base, Shape, tmaVars, acaVars, Warm, LastTurn

\* A baseline is warm from the sample that warms it.
LEMMA UpdatedBaseline ==
    ASSUME Base, NEW s \in Names
    PROVE  /\ Updated(s) \in Baselines
           /\ Updated(s).samples >= Warmup <=> Updated(s).warm_ms # None
<1>1. /\ baseline[s] \in Baselines /\ traffic[s] \in {"clean", "faint", "loud"}
      /\ Warm(s) <=> baseline[s].warm_ms # None
    BY DEF Base, Shape
<1>2. /\ Warmup \in 1..60 /\ None \notin Int /\ now \in Nat
    BY StepAssumption, NoneAssumption, ShapeOf
<1> DEFINE b == baseline[s]
           n == Min2(b.samples + 1, Warmup)
           p == b.polluted \/ traffic[s] = "loud"
           w == IF n = Warmup /\ b.warm_ms = None THEN now ELSE b.warm_ms
<1>3. b.samples \in 0..Warmup /\ b.warm_ms \in Nat \cup {None} /\ b.polluted \in BOOLEAN
    BY <1>1 DEF Baselines
<1>4. n \in 0..Warmup /\ (n >= Warmup <=> n = Warmup)
    BY <1>2, <1>3 DEF Min2
<1>5. n # Warmup => b.samples < Warmup
    BY <1>2, <1>3 DEF Min2
<1>6. b.samples >= Warmup <=> b.warm_ms # None
    BY <1>1 DEF Warm
<1>7. w \in Nat \cup {None} /\ (n = Warmup <=> w # None)
    BY <1>2, <1>3, <1>5, <1>6
<1>8. Updated(s) = [samples |-> n, polluted |-> p, warm_ms |-> w] /\ p \in BOOLEAN
    BY DEF Updated
<1> HIDE DEF n, p, w, b
<1> QED BY <1>4, <1>7, <1>8 DEF Baselines

LEMMA ShapeTma ==
    ASSUME Base, NEW s \in Names, NEW deviates \in BOOLEAN, TmaStep(s, deviates)
    PROVE  Shape'
<1>1. /\ turn \in 1..(LastTurn - 1) /\ turn' = turn + 1 /\ pruning.next = 0
      /\ UNCHANGED <<now, simVars, defenses, learnDue, recent, incidents>>
      /\ (Alerts(s, deviates) =>
            /\ Logged(<<AlertPublished(s)>>) /\ lastAlert' = [lastAlert EXCEPT ![s] = now]
            /\ alerts' = [c \in Names |-> Append(alerts[c], AlertOf(s))])
      /\ (~Alerts(s, deviates) => Logged(<<>>) /\ UNCHANGED <<lastAlert, alerts, log>>)
    BY TmaDoes
<1>2. now \in Nat /\ turn \in Nat /\ LastTurn \in Nat
    BY ShapeOf
<1>3. /\ baseline \in [Names -> Baselines] /\ lastAlert \in [Names -> Nat \cup {LongAgo}]
      /\ alerts \in [Names -> Seq(AlertRecords)]
      /\ \A q \in Names : Warm(q) <=> baseline[q].warm_ms # None
    BY DEF Base, Shape
<1>4. baseline' = [baseline EXCEPT ![s] = IF LearnsFrom(deviates) THEN Updated(s) ELSE @]
    BY DEF TmaStep
<1>5. /\ Updated(s) \in Baselines
      /\ Updated(s).samples >= Warmup <=> Updated(s).warm_ms # None
    BY UpdatedBaseline
<1>6. baseline' \in [Names -> Baselines]
    BY <1>3, <1>4, <1>5
<1>7. ASSUME NEW q \in Names PROVE Warm(q)' <=> baseline'[q].warm_ms # None
  <2>1. baseline'[q] = baseline[q] \/ (q = s /\ baseline'[q] = Updated(s))
      BY <1>3, <1>4
  <2> QED BY <1>3, <1>5, <2>1 DEF Warm
<1>8. IsSeq(log') /\ (Alerts(s, deviates) \/ ~Alerts(s, deviates))
    BY <1>1 DEF Logged
<1>9. lastAlert' \in [Names -> Nat \cup {LongAgo}]
    BY <1>1, <1>2, <1>3
<1>10. AlertOf(s) \in AlertRecords
    BY <1>2 DEF AlertOf, AlertRecords
<1>11. alerts' \in [Names -> Seq(AlertRecords)]
  <2>1. CASE Alerts(s, deviates)
    <3>1. \A c \in Names : Append(alerts[c], AlertOf(s)) \in Seq(AlertRecords)
        BY <1>3, <1>10
    <3> QED BY <1>1, <2>1, <3>1
  <2>2. CASE ~Alerts(s, deviates)
      BY <1>1, <1>3, <2>2
  <2> QED BY <2>1, <2>2
<1>12. turn' \in 0..LastTurn /\ ~(pruning'.next > 0)
    BY <1>1, <1>2 DEF simVars
<1>13. /\ Items(specs) \subseteq injected /\ Items(pruning.kept) \subseteq injected
       /\ traffic \in [Names -> {"clean", "faint", "loud"}]
       /\ health \in [Names -> {"NORMAL", "UNDER_ATTACK"}]
       /\ defenses \in [Names -> SUBSET ResponseTypes]
       /\ recent \in [Names -> AlertRecords \cup {None}] /\ learnDue \in [Names -> BOOLEAN]
       /\ DOMAIN incidents = Names /\ \A q \in Names : IsSeq(incidents[q])
    BY DEF Base, Shape
<1>14. UNCHANGED <<specs, pruning, injected, traffic, health, defenses, recent, learnDue, incidents>>
    BY <1>1 DEF simVars
<1> QED BY <1>6, <1>7, <1>8, <1>9, <1>11, <1>12, <1>13, <1>14 DEF Shape, LastTurn

LEMMA ShapeAca ==
    ASSUME Base, NEW c \in Names, NEW readings, AcaStep(c, readings)
    PROVE  Shape'
<1>1. /\ turn \in 1..(LastTurn - 1) /\ turn' = turn + 1 /\ pruning.next = 0
      /\ UNCHANGED <<now, simVars, defenses, tmaVars>>
      /\ (ClassifyTriggers(c) => AcaState(c, readings) /\ AcaEvents(c, readings))
      /\ (~ClassifyTriggers(c) => Logged(<<>>) /\ UNCHANGED <<log, acaVars, incidents>>)
    BY AcaDoes
<1>2. turn \in Nat /\ LastTurn \in Nat
    BY ShapeOf
<1>3. turn' \in 0..LastTurn /\ ~(pruning'.next > 0)
    BY <1>1, <1>2 DEF simVars
<1>4. /\ Shape /\ Items(specs) \subseteq injected /\ Items(pruning.kept) \subseteq injected
      /\ UNCHANGED <<specs, pruning, injected, traffic, health>>
    BY <1>1 DEF Base, Shape, simVars
<1>5. CASE ~ClassifyTriggers(c)
  <2>1. UNCHANGED <<log, acaVars, incidents>>
      BY <1>1, <1>5
  <2> QED BY <1>1, <1>3, <1>4, <2>1, ShapeKept
<1>6. CASE ClassifyTriggers(c)
  <2>1. AcaState(c, readings) /\ IsSeq(log')
      BY <1>1, <1>6 DEF AcaEvents
  <2>2. alerts' \in [Names -> Seq(AlertRecords)] /\ learnDue' \in [Names -> BOOLEAN]
    <3>1. alerts' = [alerts EXCEPT ![c] = <<>>] /\ learnDue' = [learnDue EXCEPT ![c] = FALSE]
        BY <2>1 DEF AcaState
    <3> QED BY <1>4, <3>1 DEF Shape
  <2>3. /\ recent' \in [Names -> AlertRecords \cup {None}]
        /\ DOMAIN incidents' = Names /\ \A q \in Names : IsSeq(incidents'[q])
      BY <2>1 DEF AcaState
  <2> QED BY <1>1, <1>3, <1>4, <2>1, <2>2, <2>3 DEF Shape, tmaVars, Warm, LastTurn
<1> QED BY <1>5, <1>6

LEMMA ShapeRca ==
    ASSUME Base, NEW s \in Names, NEW done \in 0..Len(incidents[s]),
           NEW actions, RcaStep(s, done, actions)
    PROVE  Shape'
<1>1. /\ turn \in 1..(LastTurn - 1) /\ turn' = turn + 1 /\ pruning.next = 0
      /\ UNCHANGED <<now, scenario, specs, pruning, traffic, injected, tmaVars, alerts, recent>>
      /\ \E n \in Nat : RcaState(s, n) /\ RcaEvents(s, n)
    BY RcaDoes
<1>2. PICK n \in Nat : RcaState(s, n) /\ RcaEvents(s, n)
    BY <1>1
<1>3. turn \in Nat /\ LastTurn \in Nat
    BY ShapeOf
<1>4. turn' \in 0..LastTurn /\ ~(pruning'.next > 0)
    BY <1>1, <1>3
<1>5. Shape
    BY DEF Base
<1>6. /\ IsSeq(log') /\ defenses' \in [Names -> SUBSET ResponseTypes]
      /\ health' \in [Names -> {"NORMAL", "UNDER_ATTACK"}]
      /\ DOMAIN incidents' = Names /\ \A d \in Names : IsSeq(incidents'[d])
    BY <1>2 DEF RcaState, RcaEvents
<1>7. learnDue' \in [Names -> BOOLEAN]
    BY <1>2, <1>5 DEF RcaState, Shape
<1> QED BY <1>1, <1>4, <1>5, <1>6, <1>7 DEF Shape, tmaVars, Warm, LastTurn

LEMMA BaseStep == Base /\ [Next]_vars => Base'
<1> SUFFICES ASSUME Base, [Next]_vars PROVE Base'
    OBVIOUS
<1>1. LossInv'
    BY LossStep DEF Base
<1>2. Shape'
  <2>1. ASSUME NEW a \in scenario.attacks, NEW t \in ReadTimes, Inject(a, t) PROVE Shape'
      BY <2>1, ShapeInject
  <2>2. ASSUME NEW s \in Names, NEW deviates \in BOOLEAN, TmaStep(s, deviates) PROVE Shape'
      BY <2>2, ShapeTma
  <2>3. ASSUME NEW c \in Names, NEW readings, AcaStep(c, readings) PROVE Shape'
      BY <2>3, ShapeAca
  <2>4. ASSUME NEW s \in Names, NEW done \in 0..Len(incidents[s]), NEW actions,
               RcaStep(s, done, actions)
        PROVE  Shape'
      BY <2>4, ShapeRca
  <2>5. CASE UNCHANGED vars
    <3>1. Shape /\ UNCHANGED <<turn, now, pruning, specs, injected, traffic, health, defenses,
                               tmaVars, acaVars, incidents, log>>
        BY <2>5 DEF Base, vars, simVars
    <3>2. /\ turn' \in 0..LastTurn /\ (pruning'.next > 0 => turn' = LastTurn /\ Step <= now')
          /\ Items(specs') \subseteq injected' /\ Items(pruning'.kept) \subseteq injected'
        BY <3>1 DEF Shape
    <3> QED BY <3>1, <3>2, ShapeKept
  <2> QED BY <2>1, <2>2, <2>3, <2>4, <2>5, ShapeTick, ShapePruneBegin, ShapePruneNext,
             ShapePruneEnd DEF Next
<1> QED BY <1>1, <1>2 DEF Base

LEMMA BaseInit == Init => Base
BY LossInit, ShapeInit DEF Base

-----------------------------------------------------------------------------
(* Alerts that wait *)

LEMMA PlacesApart ==
    ASSUME NEW r \in Names, NEW s \in Names
    PROVE  /\ Place(0, r) # Place(1, s) /\ Place(2, r) # Place(1, s)
           /\ Place(2, r) # Place(0, s)
           /\ Place(0, r) \in Nat /\ Place(1, r) \in Nat /\ Place(2, r) \in Nat
           /\ Place(1, r) < LastTurn /\ Place(2, r) < LastTurn
           /\ (Place(2, r) = Place(2, s) => r = s)
<1>1. /\ NSeg \in Nat /\ LastTurn = 3 * NSeg + 1
      /\ Index(r) \in 1..NSeg /\ Segments[Index(r)] = r
      /\ Index(s) \in 1..NSeg /\ Segments[Index(s)] = s
    BY Turns
<1>2. Place(2, r) = Place(2, s) => r = s
  <2>1. Place(2, r) = 3 * Index(r) /\ Place(2, s) = 3 * Index(s)
      BY <1>1 DEF Place
  <2>2. Place(2, r) = Place(2, s) => Index(r) = Index(s)
      BY <1>1, <2>1
  <2> QED BY <1>1, <2>2
<1> DEFINE i == Index(r)
           j == Index(s)
<1>3. i \in Int /\ j \in Int /\ i >= 1 /\ i <= NSeg
    BY <1>1
<1>4. Place(0, r) = 3 * i - 2 /\ Place(1, r) = 3 * i - 1 /\ Place(2, r) = 3 * i
      /\ Place(0, s) = 3 * j - 2 /\ Place(1, s) = 3 * j - 1
    BY <1>3 DEF Place
<1> HIDE DEF i, j
<1> QED BY <1>1, <1>2, <1>3, <1>4

\* Once raised, always raised.
LEMMA RaisedStays ==
    ASSUME Base, [Next]_vars, NEW a, Raised(a)
    PROVE  Raised(a)' /\ a.ts_ms \in Nat /\ a.segment \in Names
<1>1. /\ Round \in Nat /\ turn \in Nat /\ Step \in Nat /\ Step > 0
    BY ShapeOf
<1>2. /\ a \in AlertRecords /\ a.ts_ms \in Nat /\ a.segment \in Names
      /\ a.ts_ms <= Round /\ (a.ts_ms = Round => turn > Place(0, a.segment))
    BY DEF Raised, AlertRecords
<1>3. Place(0, a.segment) \in Nat
    BY <1>2, PlacesApart
<1>4. \/ Round' = Round /\ turn' \in {turn, turn + 1}
      \/ Round' = Round + Step
    BY Rounds
<1> DEFINE p == Place(0, a.segment)
<1>5. a.ts_ms <= Round' /\ (a.ts_ms = Round' => turn' > p)
  <2> HIDE DEF p
  <2>1. p \in Nat /\ (a.ts_ms = Round => turn > p)
      BY <1>2, <1>3 DEF p
  <2> QED BY <1>1, <1>2, <1>4, <2>1
<1> QED BY <1>2, <1>5 DEF Raised, Place, Index, NSeg

\* An alert waits for its classifier c: it is of the round before at the
\* oldest, and then the turn of c is still to come.
Waits(c, a) == Raised(a) /\ a.ts_ms >= Round - Step /\ (a.ts_ms < Round => turn <= Place(1, c))

LEMMA WaitsOn ==
    ASSUME Base, [Next]_vars, NEW c \in Names, NEW a, Waits(c, a),
           turn = Place(1, c) => turn' = turn \/ turn' = 0
    PROVE  Waits(c, a)'
<1>1. /\ Raised(a)' /\ a.ts_ms \in Nat
    BY RaisedStays DEF Waits
<1>2. /\ Round \in Nat /\ turn \in Nat /\ Step \in Nat /\ Step > 0
    BY ShapeOf
<1>3. Place(1, c) \in Nat /\ Place(1, c) < LastTurn /\ LastTurn \in Nat
    BY PlacesApart, ShapeOf
<1> DEFINE p == Place(1, c)
<1>4. /\ a.ts_ms >= Round - Step /\ (a.ts_ms < Round => turn <= p)
      /\ p \in Nat /\ p < LastTurn
      /\ turn = p => turn' = turn \/ turn' = 0
    BY <1>3 DEF Waits
<1>5. \/ Round' = Round /\ turn' \in {turn, turn + 1}
      \/ turn = LastTurn /\ turn' = 0 /\ Round' = Round + Step
    BY Rounds
<1>6. a.ts_ms >= Round' - Step /\ (a.ts_ms < Round' => turn' <= p)
  <2> HIDE DEF p
  <2>1. a.ts_ms <= Round
      BY DEF Waits, Raised
  <2> QED BY <1>1, <1>2, <1>3, <1>4, <1>5, <2>1
<1> QED BY <1>1, <1>6 DEF Waits, Place, Index, NSeg

Waiting == \A c \in Names : \A a \in Items(alerts[c]) : Waits(c, a)
WaitInv == Base /\ Waiting

\* A step that leaves the alerts alone, and is none of a classifier with an
\* alert.
LEMMA WaitKept ==
    ASSUME WaitInv, [Next]_vars, alerts' = alerts,
           \A c \in Names : turn = Place(1, c) /\ turn' = turn + 1 => alerts[c] = <<>>
    PROVE  Waiting'
<1> SUFFICES ASSUME NEW c \in Names, NEW a \in Items(alerts[c]) PROVE Waits(c, a)'
    BY DEF Waiting, Names
<1>1. Waits(c, a) /\ Base
    BY DEF WaitInv, Waiting
<1>2. alerts[c] # <<>>
    BY DEF Items
<1>3. turn' \in {turn, turn + 1, 0}
    BY <1>1, Rounds
<1>4. turn = Place(1, c) => turn' = turn \/ turn' = 0
    BY <1>2, <1>3
<1> QED BY <1>1, <1>4, WaitsOn

LEMMA WaitTma ==
    ASSUME WaitInv, NEW s \in Names, NEW deviates \in BOOLEAN, TmaStep(s, deviates)
    PROVE  Waiting'
<1>1. /\ turn = Place(0, s) /\ turn' = turn + 1 /\ Round = now /\ Round' = now /\ now' = now
      /\ (Alerts(s, deviates) => alerts' = [c \in Names |-> Append(alerts[c], AlertOf(s))])
      /\ (~Alerts(s, deviates) => alerts' = alerts)
    BY TmaDoes DEF WaitInv
<1>2. [Next]_vars
    BY DEF Next
<1>3. \A c \in Names : turn # Place(1, c)
    BY <1>1, PlacesApart
<1>4. CASE ~Alerts(s, deviates)
    BY <1>1, <1>2, <1>3, <1>4, WaitKept
<1>5. CASE Alerts(s, deviates)
  <2> SUFFICES ASSUME NEW c \in Names, NEW a \in Items(alerts'[c]) PROVE Waits(c, a)'
      BY DEF Waiting, Names
  <2>1. alerts'[c] = Append(alerts[c], AlertOf(s)) /\ IsSeq(alerts[c])
    <3>1. alerts[c] \in Seq(AlertRecords)
        BY DEF WaitInv, Base, Shape
    <3> QED BY <1>1, <1>5, <3>1, SeqShape
  <2>2. Items(alerts'[c]) = Items(alerts[c]) \cup {AlertOf(s)}
      BY <2>1, AppendItems
  <2>3. CASE a \in Items(alerts[c])
    <3>1. Waits(c, a) /\ Base
        BY <2>3 DEF WaitInv, Waiting
    <3> QED BY <1>2, <1>3, <3>1, WaitsOn
  <2>4. CASE a = AlertOf(s)
    <3>1. now \in Nat /\ Step \in Nat /\ turn \in Nat /\ Step > 0
        BY ShapeOf DEF WaitInv
    <3>2. a \in AlertRecords /\ a.ts_ms = now /\ a.segment = s
        BY <2>4, <3>1 DEF AlertOf, AlertRecords
    <3>3. turn' > Place(0, a.segment)
        BY <1>1, <3>1, <3>2
    <3>4. Raised(a)'
        BY <1>1, <3>1, <3>2, <3>3 DEF Raised, Place, Index, NSeg, AlertRecords, Names
    <3> QED BY <1>1, <3>1, <3>2, <3>4 DEF Waits
  <2> QED BY <2>2, <2>3, <2>4
<1> QED BY <1>4, <1>5

LEMMA WaitAca ==
    ASSUME WaitInv, NEW d \in Names, NEW readings, AcaStep(d, readings), [Next]_vars
    PROVE  Waiting'
<1>1. /\ turn = Place(1, d) /\ turn' = turn + 1
      /\ (ClassifyTriggers(d) => alerts' = [alerts EXCEPT ![d] = <<>>])
      /\ (~ClassifyTriggers(d) => alerts' = alerts)
    BY AcaDoes DEF WaitInv, AcaState, acaVars
<1>2. CASE ~ClassifyTriggers(d)
  <2>1. alerts[d] = <<>>
      BY <1>2 DEF ClassifyTriggers
  <2>2. \A c \in Names : Place(1, c) = Place(1, d) => c = d
      BY Places3
  <2> QED BY <1>1, <1>2, <2>1, <2>2, WaitKept
<1>3. CASE ClassifyTriggers(d)
  <2> SUFFICES ASSUME NEW c \in Names, NEW a \in Items(alerts'[c]) PROVE Waits(c, a)'
      BY DEF Waiting, Names
  <2>1. c # d /\ alerts'[c] = alerts[c]
    <3>1. alerts \in [Names -> Seq(AlertRecords)]
        BY DEF WaitInv, Base, Shape
    <3>2. a \in Items(<<>>) => FALSE
        BY DEF Items
    <3> QED BY <1>1, <1>3, <3>1, <3>2
  <2>2. turn # Place(1, c)
      BY <1>1, <2>1, Places3
  <2>3. Waits(c, a) /\ Base
      BY <2>1 DEF WaitInv, Waiting
  <2> QED BY <2>2, <2>3, WaitsOn
<1> QED BY <1>2, <1>3

LEMMA WaitStep == WaitInv /\ [Next]_vars => WaitInv'
<1> SUFFICES ASSUME WaitInv, [Next]_vars PROVE WaitInv'
    OBVIOUS
<1>1. Base'
    BY BaseStep DEF WaitInv
<1>2. turn \in Nat /\ \A c \in Names : Place(1, c) \in Nat /\ Place(1, c) < LastTurn /\ Place(1, c) # 0
    <2>1. \A c \in Names : Place(1, c) = Place(0, c) + 1 /\ Place(0, c) \in Nat
        BY Places3, PlacesApart
    <2> QED BY <2>1, ShapeOf, PlacesApart DEF WaitInv
<1>3. Waiting'
  <2>1. ASSUME NEW a \in scenario.attacks, NEW t \in ReadTimes, Inject(a, t) PROVE Waiting'
    <3>1. alerts' = alerts /\ turn' = turn
        BY <2>1 DEF Inject, acaVars
    <3> QED BY <1>2, <3>1, WaitKept
  <2>2. CASE SimTick
    <3>1. alerts' = alerts /\ turn = 0
        BY <2>2 DEF SimTick, acaVars
    <3> QED BY <1>2, <3>1, WaitKept
  <2>3. ASSUME NEW s \in Names, NEW deviates \in BOOLEAN, TmaStep(s, deviates)
        PROVE  Waiting'
      BY <2>3, WaitTma
  <2>4. ASSUME NEW c \in Names, NEW readings, AcaStep(c, readings) PROVE Waiting'
      BY <2>4, WaitAca
  <2>5. ASSUME NEW s \in Names, NEW done \in 0..Len(incidents[s]), NEW actions,
               RcaStep(s, done, actions)
        PROVE  Waiting'
    <3>1. turn = Place(2, s) /\ alerts' = alerts
        BY <2>5, RcaDoes DEF WaitInv
    <3>2. \A c \in Names : turn # Place(1, c)
        BY <3>1, PlacesApart
    <3> QED BY <3>1, <3>2, WaitKept
  <2>6. ASSUME alerts' = alerts, turn' # turn + 1 PROVE Waiting'
      BY <2>6, WaitKept
  <2>7. CASE PruneBegin \/ PruneNext \/ PruneEnd \/ UNCHANGED vars
    <3>1. alerts' = alerts /\ (turn' = turn \/ turn' = 0)
        BY <2>7 DEF PruneBegin, PruneNext, PruneEnd, acaVars, vars
    <3> QED BY <1>2, <2>6, <3>1
  <2> QED BY <2>1, <2>2, <2>3, <2>4, <2>5, <2>7 DEF Next
<1> QED BY <1>1, <1>3 DEF WaitInv

LEMMA WaitInit == Init => WaitInv
<1>1. Init => Waiting
    BY DEF Init, Waiting, Items
<1> QED BY <1>1, BaseInit DEF WaitInv

\* Every variable keeps the shape the code gives it, and an alert waits for a
\* classifier (aca/agent.py:61, self._pending) at most until its next step.
THEOREM SessionTyped == Spec => []TypeOK
<1>1. ASSUME WaitInv PROVE TypeOK
  <2>1. Shape /\ Waiting /\ Base
      BY <1>1 DEF WaitInv, Base
  <2>2. /\ now \in Nat /\ turn \in 0..LastTurn /\ Step \in Nat /\ Round \in Nat
        /\ (pruning.next = 0 => Round = now) /\ pruning.next \in Nat
        /\ (pruning.next > 0 => turn = LastTurn /\ now = Round + Step)
        /\ LastTurn \in Nat
      BY <2>1, ShapeOf
  <2>3. ASSUME NEW c \in Names, NEW i \in DOMAIN alerts[c]
        PROVE  now - alerts[c][i].ts_ms <= Step
    <3> DEFINE a == alerts[c][i]
    <3>1. Raised(a) /\ a.ts_ms >= Round - Step /\ (a.ts_ms < Round => turn <= Place(1, c))
        BY <2>1 DEF Waiting, Waits, Items
    <3>2. a.ts_ms \in Nat
        BY <3>1 DEF Raised, AlertRecords
    <3>3. Place(1, c) \in Nat /\ Place(1, c) < LastTurn
        BY PlacesApart
    <3> HIDE DEF a
    <3>4. now - a.ts_ms <= Step
        BY <2>2, <3>1, <3>2, <3>3
    <3> QED BY <3>4 DEF a
  <2>4. \A s \in Names : /\ baseline[s].samples \in 0..Warmup
                         /\ Warm(s) <=> baseline[s].warm_ms # None
                         /\ lastAlert[s] \in Nat \cup {LongAgo}
                         /\ alerts[s] \in Seq(AlertRecords)
                         /\ recent[s] \in AlertRecords \cup {None}
      BY <2>1 DEF Shape, Baselines
  <2>5. /\ {specs[i] : i \in DOMAIN specs} \subseteq injected
        /\ traffic \in [Names -> {"clean", "faint", "loud"}]
        /\ health \in [Names -> {"NORMAL", "UNDER_ATTACK"}]
        /\ defenses \in [Names -> SUBSET ResponseTypes] /\ learnDue \in [Names -> BOOLEAN]
      BY <2>1 DEF Shape, Items
  <2> QED BY <2>2, <2>3, <2>4, <2>5 DEF TypeOK
<1> QED BY <1>1, WaitInit, WaitStep, PTL DEF Spec

-----------------------------------------------------------------------------
(* The events *)

\* The alert that an event publishes.
AlertIn(e) == [segment |-> e.agent_id, ts_ms |-> e.wall_ms]

\* Alerts are written when they are raised, with a deviation that calls for
\* them; a classifier writes at most a step later, and reports what it does not
\* find normal.
EventOK(e) ==
    /\ e.wall_ms \in Nat /\ e.wall_ms <= Round /\ e.agent_id \in Names
    /\ e.event_type = "ALERT_PUBLISHED" =>
          Raised(AlertIn(e)) /\ e.latency_ms = 0 /\ Get(e, "deviation_score", 0) = 201
    /\ e.event_type = "THREAT_CLASSIFIED" =>
          /\ e.latency_ms \in 0..Step
          /\ Get(e, "classification", None) \in {"CONFIRMED_THREAT", "SUSPICIOUS"} =>
                Get(e, "reported", FALSE) = TRUE
LogInv == \A e \in Items(log) : EventOK(e)

LEMMA EventStays ==
    ASSUME Base, [Next]_vars, NEW e, EventOK(e)
    PROVE  EventOK(e)'
<1>1. /\ Round \in Nat /\ Step \in Nat /\ (Round' = Round \/ Round' = Round + Step)
    BY ShapeOf, Rounds
<1>2. e.wall_ms \in Nat /\ e.wall_ms <= Round /\ e.agent_id \in Names
    BY DEF EventOK
<1>3. e.wall_ms <= Round'
    BY <1>1, <1>2
<1>4. e.event_type = "ALERT_PUBLISHED" => Raised(AlertIn(e))'
  <2> SUFFICES ASSUME e.event_type = "ALERT_PUBLISHED" PROVE Raised(AlertIn(e))'
      OBVIOUS
  <2>1. Raised(AlertIn(e))
      BY DEF EventOK
  <2>2. \A a : Raised(a) => Raised(a)'
      BY RaisedStays
  <2>3. Raised(AlertIn(e)) => Raised(AlertIn(e))'
      BY <2>2 DEF AlertIn
  <2> QED BY <2>1, <2>3
<1> QED BY <1>2, <1>3, <1>4 DEF EventOK, Get, Names, AlertIn

\* Old events stay as they are, so only the new ones matter.
LEMMA LogGrows ==
    ASSUME Base, LogInv, [Next]_vars, Extends(log, log'),
           \A i \in New : \A e : e = log'[i] => EventOK(e)'
    PROVE  LogInv'
<1> SUFFICES ASSUME NEW e \in Items(log') PROVE EventOK(e)'
    BY DEF LogInv
<1>1. PICK i \in DOMAIN log' : e = log'[i]
    BY DEF Items
<1>2. CASE i \in DOMAIN log
  <2>1. e \in Items(log)
      BY <1>1, <1>2 DEF Extends, Items
  <2> QED BY <2>1, EventStays DEF LogInv
<1>3. CASE i \notin DOMAIN log
    BY <1>1, <1>3 DEF New
<1> QED BY <1>2, <1>3

LEMMA AlertWritten ==
    ASSUME Base, NEW s \in Names, NEW deviates \in BOOLEAN, TmaStep(s, deviates)
    PROVE  EventOK(AlertPublished(s))' /\ AlertPublished(s)' = AlertPublished(s)
           /\ AlertIn(AlertPublished(s)) = AlertOf(s) /\ Raised(AlertOf(s))'
<1>1. /\ turn = Place(0, s) /\ turn' = turn + 1 /\ Round' = now /\ now' = now
    BY TmaDoes
<1>2. now \in Nat /\ turn \in Nat
    BY ShapeOf
<1>3. /\ AlertPublished(s).event_type = "ALERT_PUBLISHED" /\ AlertPublished(s).agent_id = s
      /\ AlertPublished(s).wall_ms = now /\ AlertPublished(s).latency_ms = 0
      /\ Get(AlertPublished(s), "deviation_score", 0) = 201
    BY AlertEvent
<1>4. AlertPublished(s)' = AlertPublished(s) /\ AlertOf(s)' = AlertOf(s)
    BY <1>1 DEF AlertPublished, AlertOf, Event
<1>5. AlertIn(AlertPublished(s)) = AlertOf(s)
    BY <1>3 DEF AlertIn, AlertOf
<1>6. /\ AlertOf(s) \in AlertRecords /\ AlertOf(s).ts_ms = now /\ AlertOf(s).segment = s
    BY <1>2 DEF AlertOf, AlertRecords
<1>7. Raised(AlertOf(s))'
  <2>1. turn' > Place(0, AlertOf(s).segment)
      BY <1>1, <1>2, <1>6
  <2> QED BY <1>1, <1>2, <1>4, <1>6, <2>1 DEF Raised, Place, Index, NSeg, AlertRecords, Names
<1>8. EventOK(AlertPublished(s))'
  <2>1. \A e : (/\ e.wall_ms \in Nat /\ e.wall_ms <= Round' /\ e.agent_id \in Names
                /\ e.event_type = "ALERT_PUBLISHED" /\ Raised(AlertIn(e))'
                /\ e.latency_ms = 0 /\ Get(e, "deviation_score", 0) = 201) => EventOK(e)'
      BY DEF EventOK, Get, Names
  <2>2. Raised(AlertIn(AlertPublished(s)))'
      BY <1>1, <1>4, <1>5, <1>7 DEF AlertIn
  <2> HIDE DEF AlertPublished
  <2> QED BY <1>1, <1>2, <1>3, <1>4, <2>1, <2>2
<1> QED BY <1>4, <1>5, <1>7, <1>8

\* What a classifier writes of an alert that waits for it.
LEMMA ThreatWritten ==
    ASSUME Base, NEW c \in Names, NEW a, Waits(c, a), NEW readings, AcaStep(c, readings),
           NEW k \in DOMAIN alerts[c]
    PROVE  \A e : e = ThreatClassified(c, a, Verdicts(c, readings)[k]) => EventOK(e)'
<1> DEFINE v == Verdicts(c, readings)[k]
<1>1. Round = now /\ Round' = now /\ now \in Nat /\ Step \in Nat
    BY AcaDoes, ShapeOf
<1>2. a.ts_ms \in Nat /\ a.ts_ms <= Round /\ a.ts_ms >= Round - Step
    BY DEF Waits, Raised, AlertRecords
<1> SUFFICES ASSUME NEW e, e = ThreatClassified(c, a, v) PROVE EventOK(e)'
    OBVIOUS
<1> HIDE DEF v
<1>3. /\ e.event_type = "THREAT_CLASSIFIED" /\ e.agent_id = c /\ e.wall_ms = now
      /\ e.latency_ms = now - a.ts_ms /\ e.payload.alert = a
      /\ Get(e, "classification", None) = v.classification
      /\ (v.classification # "NORMAL") => (Get(e, "reported", FALSE) = TRUE)
  <2>1. Tags(c, a, v, e)
      BY ThreatEvent
  <2> QED BY <2>1 DEF Tags
<1>4. e.latency_ms \in 0..Step
    BY <1>1, <1>2, <1>3
<1>5. (Get(e, "classification", None) \in {"CONFIRMED_THREAT", "SUSPICIOUS"}) =>
          (Get(e, "reported", FALSE) = TRUE)
    BY <1>3
<1>6. e.wall_ms \in Nat /\ e.wall_ms <= Round' /\ e.agent_id \in Names
    BY <1>1, <1>3
<1>7. e.event_type # "ALERT_PUBLISHED"
    BY <1>3
<1> QED BY <1>4, <1>5, <1>6, <1>7 DEF EventOK, Get, Names

\* The other events.
LEMMA OtherWritten ==
    ASSUME NEW e, e.event_type \in {"ACTION_EXECUTED", "INCIDENT_RESOLVED"},
           e.agent_id \in Names, e.wall_ms = now, now \in Nat, Round' = now
    PROVE  EventOK(e)'
BY DEF EventOK, Names, Get, AlertIn

\* The events of a classifier's step: each is a lesson, or of an alert that waited.
LEMMA AcaNew ==
    ASSUME WaitInv, NEW c \in Names, NEW readings, AcaStep(c, readings),
           AcaEvents(c, readings), NEW i \in New
    PROVE  /\ \A e : e = log'[i] => EventOK(e)'
           /\ log'[i].event_type \in {"ACTION_EXECUTED", "THREAT_CLASSIFIED"}
             /\ log'[i].agent_id = c
           /\ log'[i].wall_ms = now
<1>1. Base /\ Round = now /\ Round' = now /\ now \in Nat
    BY AcaDoes, ShapeOf DEF WaitInv
<1>2. CASE log'[i] = OnlineUpdate(c)
  <2>1. /\ OnlineUpdate(c).event_type = "ACTION_EXECUTED" /\ OnlineUpdate(c).agent_id = c
        /\ OnlineUpdate(c).wall_ms = now
      BY DEF OnlineUpdate, Event
  <2>2. \A e : e = OnlineUpdate(c) => EventOK(e)'
      BY <1>1, <2>1, OtherWritten
  <2> QED BY <1>2, <2>1, <2>2
<1>3. ASSUME NEW k \in DOMAIN alerts[c], i = Len(log) + Offset(c) + k
      PROVE  /\ \A e : e = log'[i] => EventOK(e)'
             /\ log'[i].event_type \in {"ACTION_EXECUTED", "THREAT_CLASSIFIED"}
             /\ log'[i].agent_id = c
             /\ log'[i].wall_ms = now
  <2> DEFINE a == alerts[c][k]
             v == Verdicts(c, readings)[k]
  <2>1. log'[i] = ThreatClassified(c, a, v)
      BY <1>3 DEF AcaEvents
  <2>2. Waits(c, a)
      BY DEF WaitInv, Waiting, Items
  <2>3. \A e : e = ThreatClassified(c, a, v) =>
            /\ e.event_type = "THREAT_CLASSIFIED" /\ e.agent_id = c /\ e.wall_ms = now
            /\ e.payload.alert = a
    <3> HIDE DEF a, v
    <3> QED BY ThreatTags
  <2>4. \A e : e = ThreatClassified(c, a, v) => EventOK(e)'
      BY <1>1, <2>2, ThreatWritten
  <2> QED BY <2>1, <2>3, <2>4
<1> QED BY <1>2, <1>3 DEF AcaEvents

LoggedInv == WaitInv /\ LogInv

LEMMA LogInvStep == LoggedInv /\ [Next]_vars => LoggedInv'
<1> SUFFICES ASSUME LoggedInv, [Next]_vars PROVE LoggedInv'
    OBVIOUS
<1>1. WaitInv /\ WaitInv' /\ Base /\ LogInv
    BY WaitStep DEF LoggedInv, WaitInv
<1>2. ASSUME log' = log PROVE LogInv'
  <2>1. Extends(log, log') /\ New = {}
      BY <1>2 DEF Extends, New
  <2> QED BY <1>1, <2>1, LogGrows
<1>3. ASSUME NEW s \in Names, NEW deviates \in BOOLEAN, TmaStep(s, deviates) PROVE LogInv'
  <2>1. CASE ~Alerts(s, deviates)
      BY <1>1, <1>2, <1>3, <2>1, TmaDoes
  <2>2. CASE Alerts(s, deviates)
    <3>1. Logged(<<AlertPublished(s)>>)
        BY <1>1, <1>3, <2>2, TmaDoes
    <3>2. Extends(log, log') /\ \A i \in New : log'[i] = AlertPublished(s)
        BY <3>1 DEF Logged
    <3>3. \A e : e = AlertPublished(s) => EventOK(e)'
      <4>1. EventOK(AlertPublished(s))' /\ AlertPublished(s)' = AlertPublished(s)
          BY <1>1, <1>3, AlertWritten
      <4> HIDE DEF AlertPublished
      <4> QED BY <4>1 DEF EventOK, Get, AlertIn, Names
    <3> QED BY <1>1, <3>2, <3>3, LogGrows
  <2> QED BY <2>1, <2>2
<1>4. ASSUME NEW c \in Names, NEW readings, AcaStep(c, readings) PROVE LogInv'
  <2>1. CASE ~ClassifyTriggers(c)
      BY <1>1, <1>2, <1>4, <2>1, AcaDoes
  <2>2. CASE ClassifyTriggers(c)
    <3>1. AcaEvents(c, readings)
        BY <1>1, <1>4, <2>2, AcaDoes
    <3>2. Extends(log, log')
        BY <3>1 DEF AcaEvents
    <3>3. \A i \in New : \A e : e = log'[i] => EventOK(e)'
        BY <1>1, <1>4, <3>1, AcaNew
    <3> QED BY <1>1, <3>2, <3>3, LogGrows
  <2> QED BY <2>1, <2>2
<1>5. ASSUME NEW s \in Names, NEW done \in 0..Len(incidents[s]), NEW actions,
             RcaStep(s, done, actions)
      PROVE  LogInv'
  <2>1. Round' = now /\ now \in Nat /\ \E n \in Nat : RcaEvents(s, n)
      BY <1>1, <1>5, RcaDoes, ShapeOf
  <2>2. /\ Extends(log, log')
        /\ \A i \in New : /\ log'[i].event_type \in {"ACTION_EXECUTED", "INCIDENT_RESOLVED"}
                          /\ log'[i].agent_id = s /\ log'[i].wall_ms = now
      BY <2>1 DEF RcaEvents
  <2>3. \A i \in New : \A e : e = log'[i] => EventOK(e)'
      BY <2>1, <2>2, OtherWritten
  <2> QED BY <1>1, <2>2, <2>3, LogGrows
<1>6. ASSUME UNCHANGED vars PROVE LogInv'
    BY <1>2, <1>6 DEF vars
<1>7. LogInv'
  <2>1. ASSUME NEW a \in scenario.attacks, NEW t \in ReadTimes, Inject(a, t) PROVE LogInv'
      BY <1>2, <2>1 DEF Inject
  <2>2. CASE SimTick \/ PruneBegin \/ PruneNext \/ PruneEnd
      BY <1>2, <2>2 DEF SimTick, PruneBegin, PruneNext, PruneEnd
  <2> QED BY <1>3, <1>4, <1>5, <1>6, <2>1, <2>2 DEF Next
<1> QED BY <1>1, <1>7 DEF LoggedInv

LEMMA LogInvInit == Init => LoggedInv
<1>1. Init => LogInv
    BY DEF Init, LogInv, Items
<1> QED BY <1>1, WaitInit DEF LoggedInv

-----------------------------------------------------------------------------
(* Every alert is classified once *)

Published(a) == \E e \in Items(log) : e.event_type = "ALERT_PUBLISHED" /\ AlertIn(e) = a
ReportsOf(c, a) ==
    {j \in DOMAIN log : /\ log[j].event_type = "THREAT_CLASSIFIED" /\ log[j].agent_id = c
                        /\ log[j].payload.alert = a}
Injective(q) == \A i, j \in DOMAIN q : q[i] = q[j] => i = j

\* A published alert either waits for c or c has reported of it once; of one
\* that is not published there is nothing.
Accounted(c, a) ==
    /\ ~Published(a) => a \notin Items(alerts[c]) /\ ReportsOf(c, a) = {}
    /\ Published(a) => IF a \in Items(alerts[c]) THEN ReportsOf(c, a) = {}
                       ELSE \E j : ReportsOf(c, a) = {j}
Booked == \A c \in Names : Injective(alerts[c]) /\ \A a : Accounted(c, a)
BookInv == LoggedInv /\ Booked

LEMMA PublishedRaised ==
    ASSUME LoggedInv, NEW a
    PROVE  Published(a) => Raised(a)
<1> SUFFICES ASSUME NEW e \in Items(log), e.event_type = "ALERT_PUBLISHED", AlertIn(e) = a
             PROVE  Raised(a)
    BY DEF Published
<1> QED BY DEF LoggedInv, LogInv, EventOK

\* New events that are neither alerts nor reports of c change nothing for c.
LEMMA BookKept ==
    ASSUME BookInv, NEW c \in Names, alerts'[c] = alerts[c], Extends(log, log'),
           \A i \in New : /\ log'[i].event_type # "ALERT_PUBLISHED"
                          /\ log'[i].event_type = "THREAT_CLASSIFIED" => log'[i].agent_id # c
    PROVE  Injective(alerts'[c]) /\ \A a : Accounted(c, a)'
<1>1. Injective(alerts[c]) /\ \A a : Accounted(c, a)
    BY DEF BookInv, Booked
<1>2. DOMAIN log' = DOMAIN log \cup New /\ \A i \in DOMAIN log : log'[i] = log[i]
    BY DEF Extends, New
<1>3. ASSUME NEW a PROVE Published(a)' <=> Published(a)
    BY <1>2 DEF Published, Items, AlertIn
<1>4. ASSUME NEW a PROVE ReportsOf(c, a)' = ReportsOf(c, a)
    BY <1>2 DEF ReportsOf
<1>5. ASSUME NEW a PROVE Accounted(c, a)'
  <2>1. a \in Items(alerts'[c]) <=> a \in Items(alerts[c])
      OBVIOUS
  <2>2. Accounted(c, a)
      BY <1>1
  <2> QED BY <1>3, <1>4, <2>1, <2>2 DEF Accounted
<1> QED BY <1>1, <1>5

LEMMA BookTma ==
    ASSUME BookInv, NEW s \in Names, NEW deviates \in BOOLEAN, TmaStep(s, deviates),
           Alerts(s, deviates), NEW c \in Names
    PROVE  Injective(alerts'[c]) /\ \A a : Accounted(c, a)'
<1> DEFINE x == AlertOf(s)
           e == AlertPublished(s)
<1>1. LoggedInv /\ WaitInv /\ Base /\ Injective(alerts[c]) /\ \A a : Accounted(c, a)
    BY DEF BookInv, Booked, LoggedInv, WaitInv
<1>2. /\ turn = Place(0, s) /\ Round = now /\ Logged(<<e>>)
      /\ alerts' = [d \in Names |-> Append(alerts[d], x)]
    BY <1>1, TmaDoes
<1>3. alerts'[c] = Append(alerts[c], x) /\ IsSeq(alerts[c])
  <2>1. alerts[c] \in Seq(AlertRecords)
      BY <1>1 DEF Base, Shape
  <2> QED BY <1>2, <2>1, SeqShape
<1>4. ~Raised(x)
  <2>1. x.ts_ms = now /\ x.segment = s
      BY DEF AlertOf
  <2>2. Place(0, s) \in Nat
      BY PlacesApart
  <2> QED BY <1>2, <2>1, <2>2 DEF Raised
<1>5. ~Published(x) /\ x \notin Items(alerts[c]) /\ ReportsOf(c, x) = {}
  <2>1. ~Published(x)
      BY <1>1, <1>4, PublishedRaised
  <2> QED BY <1>1, <2>1 DEF Accounted
<1>6. AlertIn(e) = x /\ e.event_type = "ALERT_PUBLISHED"
  <2>1. AlertIn(e) = x
      BY <1>1, AlertWritten
  <2>2. e.event_type = "ALERT_PUBLISHED"
      BY AlertEvent
  <2> QED BY <2>1, <2>2
<1>7. /\ DOMAIN log' = DOMAIN log \cup New /\ \A i \in DOMAIN log : log'[i] = log[i]
      /\ \A i \in New : log'[i] = e
      /\ \E i \in New : log'[i] = e
  <2>1. 1 \in DOMAIN <<e>> /\ <<e>>[1] = e /\ DOMAIN <<e>> = {1}
      OBVIOUS
  <2>2. \A i \in New : log'[i] = e
    <3>1. \A i \in New : log'[i] = <<e>>[i - Len(log)] /\ i - Len(log) \in DOMAIN <<e>>
        BY <1>2 DEF Logged
    <3> QED BY <2>1, <3>1
  <2>3. Len(log) + 1 \in New
      BY <1>2, <2>1 DEF Logged
  <2>4. Extends(log, log')
      BY <1>2 DEF Logged
  <2> QED BY <2>2, <2>3, <2>4 DEF Extends, New
<1> HIDE DEF x, e
<1>8. /\ Items(alerts'[c]) = Items(alerts[c]) \cup {x}
      /\ DOMAIN alerts'[c] = 1..(Len(alerts[c]) + 1) /\ DOMAIN alerts[c] = 1..Len(alerts[c])
      /\ Len(alerts[c]) \in Nat /\ alerts'[c][Len(alerts[c]) + 1] = x
      /\ \A i \in DOMAIN alerts[c] : alerts'[c][i] = alerts[c][i]
  <2>1. /\ IsSeq(Append(alerts[c], x)) /\ Len(Append(alerts[c], x)) = Len(alerts[c]) + 1
        /\ Items(Append(alerts[c], x)) = Items(alerts[c]) \cup {x}
        /\ \A i \in DOMAIN alerts[c] : Append(alerts[c], x)[i] = alerts[c][i]
      BY <1>3, AppendItems
  <2>2. /\ DOMAIN Append(alerts[c], x) = 1..Len(Append(alerts[c], x))
        /\ DOMAIN alerts[c] = 1..Len(alerts[c]) /\ Len(alerts[c]) \in Nat
      BY <1>3, <2>1, SeqShape
  <2>3. Append(alerts[c], x)[Len(alerts[c]) + 1] = x
      BY <1>3 DEF IsSeq
  <2> QED BY <1>3, <2>1, <2>2, <2>3
<1>9. Injective(alerts'[c])
  <2> DEFINE n == Len(alerts[c])
             p == alerts[c]
             q == alerts'[c]
  <2>1. /\ n \in Nat /\ DOMAIN q = 1..(n + 1) /\ DOMAIN p = 1..n /\ q[n + 1] = x
        /\ \A i \in 1..n : q[i] = p[i] /\ p[i] # x
        /\ \A i, j \in 1..n : p[i] = p[j] => i = j
      BY <1>1, <1>5, <1>8 DEF Items, Injective
  <2> HIDE DEF n, p, q
  <2>2. \A i, j \in 1..(n + 1) : q[i] = q[j] => i = j
    <3> TAKE i, j \in 1..(n + 1)
    <3>1. (i \in 1..n \/ i = n + 1) /\ (j \in 1..n \/ j = n + 1)
        BY <2>1
    <3> QED BY <2>1, <3>1
  <2>3. Injective(q)
      BY <2>1, <2>2 DEF Injective
  <2> QED BY <2>3 DEF q
<1>10. ASSUME NEW a PROVE Published(a)' <=> Published(a) \/ a = x
  <2>1. Published(a)' <=> \E i \in DOMAIN log' : log'[i].event_type = "ALERT_PUBLISHED"
                                                   /\ AlertIn(log'[i]) = a
      BY DEF Published, Items, AlertIn
  <2>2. Published(a) <=> \E i \in DOMAIN log : log[i].event_type = "ALERT_PUBLISHED"
                                                 /\ AlertIn(log[i]) = a
      BY DEF Published, Items
  <2>3. \A i \in DOMAIN log' : i \in DOMAIN log \/ log'[i] = e
      BY <1>7
  <2>4. \A i \in DOMAIN log : i \in DOMAIN log' /\ log'[i] = log[i]
      BY <1>7
  <2>5. \E i \in DOMAIN log' : log'[i] = e
      BY <1>7
  <2> QED BY <1>6, <2>1, <2>2, <2>3, <2>4, <2>5
<1>11. ASSUME NEW a PROVE ReportsOf(c, a)' = ReportsOf(c, a)
    BY <1>6, <1>7 DEF ReportsOf
<1>12. ASSUME NEW a PROVE Accounted(c, a)'
  <2>1. a \in Items(alerts'[c]) <=> (a \in Items(alerts[c]) \/ a = x)
      BY <1>8
  <2>2. CASE a = x
    <3>1. ReportsOf(c, a)' = {} /\ a \in Items(alerts'[c]) /\ Published(a)'
        BY <1>5, <1>10, <1>11, <2>1, <2>2
    <3> QED BY <3>1 DEF Accounted
  <2>3. CASE a # x
    <3>1. Accounted(c, a)
        BY <1>1
    <3> QED BY <1>10, <1>11, <2>1, <2>3, <3>1 DEF Accounted
  <2> QED BY <2>2, <2>3
<1> QED BY <1>9, <1>12

LEMMA BookAca ==
    ASSUME BookInv, NEW c \in Names, NEW readings, AcaStep(c, readings), ClassifyTriggers(c)
    PROVE  Injective(alerts'[c]) /\ \A a : Accounted(c, a)'
<1> DEFINE o == Len(log) + Offset(c)
           q == alerts[c]
<1>1. WaitInv /\ Base /\ Injective(q) /\ \A a : Accounted(c, a)
    BY DEF BookInv, Booked, LoggedInv, WaitInv
<1>2. AcaState(c, readings) /\ AcaEvents(c, readings)
    BY <1>1, AcaDoes
<1>3. alerts'[c] = <<>> /\ Items(<<>>) = {} /\ Injective(<<>>)
  <2>1. DOMAIN alerts = Names
      BY <1>1 DEF Base, Shape
  <2> QED BY <1>2, <2>1 DEF AcaState, Items, Injective
<1>4. /\ DOMAIN log' = DOMAIN log \cup New /\ \A i \in DOMAIN log : log'[i] = log[i]
      /\ \A i \in New : i \notin DOMAIN log
    BY <1>2 DEF AcaEvents, Extends, New
<1>5. \A i \in New : log'[i].event_type # "ALERT_PUBLISHED"
    BY <1>1, <1>2, AcaNew
<1>6. ASSUME NEW a PROVE Published(a)' <=> Published(a)
    BY <1>4, <1>5 DEF Published, Items, AlertIn
<1>7. Len(log) \in Nat /\ Offset(c) \in Nat /\ o \in Nat /\ DOMAIN q = 1..Len(q) /\ Len(q) \in Nat
  <2>1. IsSeq(log) /\ q \in Seq(AlertRecords)
      BY <1>1 DEF Base, Shape
  <2>2. Offset(c) \in Nat
      BY DEF Offset
  <2> QED BY <2>1, <2>2, SeqShape
<1>8. \A k \in DOMAIN q :
          /\ o + k \in New /\ log'[o + k].event_type = "THREAT_CLASSIFIED"
          /\ log'[o + k].agent_id = c /\ log'[o + k].payload.alert = q[k]
  <2> TAKE k \in DOMAIN q
  <2>1. /\ o + k \in New
        /\ log'[o + k] = ThreatClassified(c, q[k], Verdicts(c, readings)[k])
      BY <1>2 DEF AcaEvents
  <2>2. \A e : e = ThreatClassified(c, q[k], Verdicts(c, readings)[k]) =>
            e.event_type = "THREAT_CLASSIFIED" /\ e.agent_id = c /\ e.payload.alert = q[k]
    <3> DEFINE v == Verdicts(c, readings)[k]
               a == q[k]
    <3>1. \A e : e = ThreatClassified(c, a, v) =>
            /\ e.event_type = "THREAT_CLASSIFIED" /\ e.agent_id = c /\ e.wall_ms = now
            /\ e.payload.alert = a
      <4> HIDE DEF a, v
      <4> QED BY ThreatTags
    <3> QED BY <3>1
  <2> QED BY <2>1, <2>2
<1>9. \A i \in New :
          \/ log'[i].event_type = "ACTION_EXECUTED"
          \/ \E k \in DOMAIN q : i = o + k
  <2>1. OnlineUpdate(c).event_type = "ACTION_EXECUTED"
      BY DEF OnlineUpdate, Event
  <2> QED BY <1>2, <2>1 DEF AcaEvents
<1> HIDE DEF o, q
<1>10. ASSUME NEW a, a \notin Items(q) PROVE ReportsOf(c, a)' = ReportsOf(c, a)
  <2>1. \A i \in New : ~(/\ log'[i].event_type = "THREAT_CLASSIFIED"
                         /\ log'[i].payload.alert = a)
      BY <1>8, <1>9, <1>10 DEF Items
  <2> QED BY <1>4, <2>1 DEF ReportsOf
<1>11. ASSUME NEW a, a \in Items(q), ReportsOf(c, a) = {} PROVE \E j : ReportsOf(c, a)' = {j}
  <2>1. PICK k \in DOMAIN q : a = q[k]
      BY <1>11 DEF Items
  <2>2. \A h \in DOMAIN q : q[h] = a => h = k
      BY <1>1, <2>1 DEF Injective, q
  <2>3. o + k \in ReportsOf(c, a)'
      BY <1>4, <1>8, <2>1 DEF ReportsOf
  <2>4. ASSUME NEW i \in ReportsOf(c, a)' PROVE i = o + k
    <3>1. i \in New /\ log'[i].event_type = "THREAT_CLASSIFIED" /\ log'[i].payload.alert = a
        BY <1>4, <1>11, <2>4 DEF ReportsOf
    <3>2. PICK h \in DOMAIN q : i = o + h
        BY <1>9, <3>1
    <3> QED BY <1>8, <2>2, <3>1, <3>2
  <2>5. ReportsOf(c, a)' = {o + k}
      BY <2>3, <2>4
  <2> QED BY <2>5
<1>12. ASSUME NEW a PROVE Accounted(c, a)'
  <2>1. Accounted(c, a) /\ a \notin Items(alerts'[c])
      BY <1>1, <1>3
  <2>2. (a \in Items(q)) => (\E j : ReportsOf(c, a)' = {j}) /\ Published(a)
    <3> SUFFICES ASSUME a \in Items(q)
                 PROVE  (\E j : ReportsOf(c, a)' = {j}) /\ Published(a)
        OBVIOUS
    <3>1. ReportsOf(c, a) = {} /\ Published(a)
        BY <2>1 DEF Accounted, q
    <3> QED BY <1>11, <3>1
  <2> QED BY <1>6, <1>10, <2>1, <2>2 DEF Accounted, q
<1> QED BY <1>3, <1>12

LEMMA BookStep == BookInv /\ [Next]_vars => BookInv'
<1> SUFFICES ASSUME BookInv, [Next]_vars PROVE BookInv'
    OBVIOUS
<1>1. LoggedInv' /\ LoggedInv /\ WaitInv /\ Base
    BY LogInvStep DEF BookInv, LoggedInv, WaitInv
<1>2. ASSUME log' = log, alerts' = alerts PROVE Booked'
  <2>1. Extends(log, log') /\ New = {}
      BY <1>2 DEF Extends, New
  <2>2. \A c \in Names : Injective(alerts'[c]) /\ \A a : Accounted(c, a)'
      BY <1>2, <2>1, BookKept
  <2> QED BY <2>2 DEF Booked, Names, Injective
<1>3. ASSUME NEW s \in Names, NEW deviates \in BOOLEAN, TmaStep(s, deviates) PROVE Booked'
  <2>1. CASE ~Alerts(s, deviates)
      BY <1>1, <1>2, <1>3, <2>1, TmaDoes
  <2>2. CASE Alerts(s, deviates)
    <3>1. \A c \in Names : Injective(alerts'[c]) /\ \A a : Accounted(c, a)'
        BY <1>3, <2>2, BookTma
    <3> QED BY <3>1 DEF Booked, Names, Injective
  <2> QED BY <2>1, <2>2
<1>4. ASSUME NEW d \in Names, NEW readings, AcaStep(d, readings) PROVE Booked'
  <2>1. CASE ~ClassifyTriggers(d)
      BY <1>1, <1>2, <1>4, <2>1, AcaDoes DEF acaVars
  <2>2. CASE ClassifyTriggers(d)
    <3>1. AcaState(d, readings) /\ AcaEvents(d, readings)
        BY <1>1, <1>4, <2>2, AcaDoes
    <3>2. Extends(log, log')
        BY <3>1 DEF AcaEvents
    <3>3. \A i \in New : log'[i].event_type # "ALERT_PUBLISHED" /\ log'[i].agent_id = d
        BY <1>1, <1>4, <3>1, AcaNew
    <3>4. ASSUME NEW c \in Names, c # d PROVE alerts'[c] = alerts[c]
      <4>1. DOMAIN alerts = Names
          BY <1>1 DEF Base, Shape
      <4> QED BY <3>1, <3>4, <4>1 DEF AcaState
    <3>5. \A c \in Names : Injective(alerts'[c]) /\ \A a : Accounted(c, a)'
        BY <1>4, <2>2, <3>2, <3>3, <3>4, BookKept, BookAca
    <3> QED BY <3>5 DEF Booked, Names, Injective
  <2> QED BY <2>1, <2>2
<1>5. ASSUME NEW s \in Names, NEW done \in 0..Len(incidents[s]), NEW actions,
             RcaStep(s, done, actions)
      PROVE  Booked'
  <2>1. alerts' = alerts /\ \E n \in Nat : RcaEvents(s, n)
      BY <1>1, <1>5, RcaDoes
  <2>2. /\ Extends(log, log')
        /\ \A i \in New : log'[i].event_type \in {"ACTION_EXECUTED", "INCIDENT_RESOLVED"}
      BY <2>1 DEF RcaEvents
  <2>3. \A c \in Names : Injective(alerts'[c]) /\ \A a : Accounted(c, a)'
      BY <2>1, <2>2, BookKept
  <2> QED BY <2>3 DEF Booked, Names, Injective
<1>6. ASSUME UNCHANGED vars PROVE Booked'
    BY <1>2, <1>6 DEF vars, acaVars
<1>7. Booked'
  <2>1. ASSUME NEW a \in scenario.attacks, NEW t \in ReadTimes, Inject(a, t) PROVE Booked'
      BY <1>2, <2>1 DEF Inject, acaVars
  <2>2. CASE SimTick \/ PruneBegin \/ PruneNext \/ PruneEnd
      BY <1>2, <2>2 DEF SimTick, PruneBegin, PruneNext, PruneEnd, acaVars
  <2> QED BY <1>3, <1>4, <1>5, <1>6, <2>1, <2>2 DEF Next
<1> QED BY <1>1, <1>7 DEF BookInv

LEMMA BookInit == Init => BookInv
<1> SUFFICES ASSUME Init PROVE BookInv
    OBVIOUS
<1>1. LoggedInv
    BY LogInvInit
<1>2. log = <<>> /\ \A c \in Names : alerts[c] = <<>>
    BY DEF Init
<1>3. Items(log) = {} /\ DOMAIN log = {}
    BY <1>2 DEF Items
<1>4. \A c \in Names : Items(alerts[c]) = {} /\ Injective(alerts[c])
    BY <1>2 DEF Items, Injective
<1>5. \A c \in Names : \A a : Accounted(c, a)
    BY <1>3, <1>4 DEF Accounted, Published, ReportsOf
<1> QED BY <1>1, <1>4, <1>5 DEF BookInv, Booked

LEMMA EveryEvent == LogInv => \A i \in DOMAIN log : EventOK(log[i])
BY DEF LogInv, Items

LEMMA BookedOnce ==
    ASSUME BookInv, turn = 0, NEW i \in select(log, "ALERT_PUBLISHED", None), NEW c \in Names,
           log[i].wall_ms < now - Step
    PROVE  Cardinality({j \in select(log, "THREAT_CLASSIFIED", None) :
                           /\ log[j].agent_id = c
                           /\ log[j].payload.alert = [segment |-> log[i].agent_id,
                                                      ts_ms |-> log[i].wall_ms]}) = 1
<1> DEFINE a == AlertIn(log[i])
           R == {j \in select(log, "THREAT_CLASSIFIED", None) :
                    log[j].agent_id = c /\ log[j].payload.alert = a}
<1>1. /\ "ALERT_PUBLISHED" \in Selectors /\ "THREAT_CLASSIFIED" \in Selectors
    BY DEF Selectors
<1>2. /\ i \in DOMAIN log /\ log[i].event_type = "ALERT_PUBLISHED"
      /\ select(log, "THREAT_CLASSIFIED", None) =
            {j \in DOMAIN log : log[j].event_type = "THREAT_CLASSIFIED"}
    BY <1>1, Selections
<1>3. LoggedInv /\ WaitInv /\ Base /\ LogInv
    BY DEF BookInv, LoggedInv, WaitInv
<1>4. now \in Nat /\ Step \in Nat /\ LastTurn \in Nat /\ Round = now
  <2>1. LastTurn # 0
      BY Turns
  <2> QED BY <1>3, <2>1, ShapeOf
<1>5. Published(a)
    BY <1>2 DEF Published, Items
<1>6. a \notin Items(alerts[c])
  <2> SUFFICES ASSUME a \in Items(alerts[c]) PROVE FALSE
      OBVIOUS
  <2>1. a.ts_ms >= Round - Step
      BY <1>3 DEF WaitInv, Waiting, Waits
  <2>2. a.ts_ms = log[i].wall_ms
      BY DEF AlertIn
  <2>3. log[i].wall_ms \in Nat
    <3>1. EventOK(log[i])
        BY <1>2, <1>3, EveryEvent
    <3> QED BY <3>1 DEF EventOK
  <2> HIDE DEF a
  <2> QED BY <1>4, <2>1, <2>2, <2>3
<1>7. \E j : ReportsOf(c, a) = {j}
    BY <1>5, <1>6 DEF BookInv, Booked, Accounted
<1>8. R = ReportsOf(c, a)
    BY <1>2 DEF ReportsOf
<1> HIDE DEF R, a
<1>9. Cardinality(R) = 1
    BY <1>7, <1>8, FS_Singleton
<1> QED BY <1>9 DEF R, a, AlertIn

LEMMA AlertsPass ==
    ASSUME LogInv, Step \in Nat, Step < 200
    PROVE  "FAIL" \notin {FR02(log), FR03(log), FR05(log), FR07(log)}
<1> DEFINE A == select(log, "ALERT_PUBLISHED", None)
           T == select(log, "THREAT_CLASSIFIED", None)
<1>1. /\ "ALERT_PUBLISHED" \in Selectors /\ "THREAT_CLASSIFIED" \in Selectors
    BY DEF Selectors
<1>2. /\ A = {i \in DOMAIN log : log[i].event_type = "ALERT_PUBLISHED"}
      /\ T = {i \in DOMAIN log : log[i].event_type = "THREAT_CLASSIFIED"}
    BY <1>1, Selections
<1> HIDE DEF A, T
<1>3. \A i \in A \cup T : EventOK(log[i])
    BY <1>2, EveryEvent
<1>4. \A i \in A : log[i].latency_ms = 0 /\ Get(log[i], "deviation_score", 0) = 201
    BY <1>2, <1>3 DEF EventOK
<1>5. /\ \A i \in T : log[i].latency_ms \in 0..Step
      /\ \A i \in T :
            (Get(log[i], "classification", None) \in {"CONFIRMED_THREAT", "SUSPICIOUS"}) =>
                Get(log[i], "reported", FALSE) = TRUE
    BY <1>2, <1>3 DEF EventOK
<1>6. FR02(log) # "FAIL"
    BY <1>4 DEF FR02, all_match, Grade, A
<1>7. FR03(log) # "FAIL"
    BY <1>4 DEF FR03, latency_lt, Grade, A
<1>8. FR05(log) # "FAIL"
  <2>1. \A x \in 0..Step : x < 200
      OBVIOUS
  <2>2. \A i \in T : log[i].latency_ms < 200
      BY <1>5, <2>1
  <2> HIDE DEF T
  <2> QED BY <2>2 DEF FR05, latency_lt, Grade, T
<1>9. FR07(log) # "FAIL"
    BY <1>5 DEF FR07, Classified, all_match, Grade, T
<1> QED BY <1>6, <1>7, <1>8, <1>9

\* FR-03, FR-05, FR-07: every alert reaches the classifier of every segment,
\* which classifies it once (aca/agent.py:61, 92) and within the step of the
\* session, which is shorter than the 200 ms that FR-05 allows.
THEOREM AlertsAreClassified ==
    ASSUME Step < 200
    PROVE  Spec => []EveryAlertClassified
<1>1. ASSUME BookInv PROVE EveryAlertClassified
  <2>1. LogInv /\ Step \in Nat
      BY <1>1, StepAssumption DEF BookInv, LoggedInv
  <2>2. "FAIL" \notin {FR02(log), FR03(log), FR05(log), FR07(log)}
      BY <2>1, AlertsPass
  <2> QED BY <1>1, <2>2, BookedOnce DEF EveryAlertClassified
<1> QED BY <1>1, BookInit, BookStep, PTL DEF Spec

-----------------------------------------------------------------------------
(* What is resolved is learnt from *)

Lesson(s, x) ==
    [event_type |-> "ACTION_EXECUTED", agent_id |-> s, wall_ms |-> x, latency_ms |-> None,
     decision_trace |-> FALSE, payload |-> [signal |-> "online_update"]]

LEMMA Lessons ==
    ASSUME NEW s
    PROVE  /\ OnlineUpdate(s) = Lesson(s, now)
           /\ \A x : [OnlineUpdate(s) EXCEPT !.wall_ms = x] = Lesson(s, x)
           /\ \A x : Lesson(s, x).wall_ms = x
                     /\ Lesson(s, x).event_type # "INCIDENT_RESOLVED"
<1>1. OnlineUpdate(s) = Lesson(s, now)
    BY DEF OnlineUpdate, Event, Lesson
<1>2. ASSUME NEW x, NEW y PROVE [Lesson(s, y) EXCEPT !.wall_ms = x] = Lesson(s, x)
  <2> DEFINE l == Lesson(s, y)
             m == Lesson(s, x)
             F == {"event_type", "agent_id", "wall_ms", "latency_ms", "decision_trace", "payload"}
  <2>1. DOMAIN l = F /\ DOMAIN m = F /\ m = [f \in F |-> m[f]]
      BY DEF Lesson
  <2>2. m["wall_ms"] = x /\ \A f \in F : f # "wall_ms" => m[f] = l[f]
      BY DEF Lesson
  <2> HIDE DEF l, m
  <2>3. [l EXCEPT !.wall_ms = x] = [f \in F |-> IF f = "wall_ms" THEN x ELSE l[f]]
      BY <2>1
  <2> HIDE DEF F
  <2>4. [l EXCEPT !.wall_ms = x] = m
      BY <2>1, <2>2, <2>3
  <2> QED BY <2>4 DEF l, m
<1>3. \A x : Lesson(s, x).wall_ms = x /\ Lesson(s, x).event_type # "INCIDENT_RESOLVED"
    BY DEF Lesson
<1> QED BY <1>1, <1>2, <1>3

\* The RCA of s wrote a resolution at i, at the time w; the ACA of s wrote a
\* lesson behind it in time, or it still has to, and can.
Resolution(i, s, w) ==
    /\ i \in DOMAIN log /\ log[i].event_type = "INCIDENT_RESOLVED"
    /\ log[i].agent_id = s /\ log[i].wall_ms = w
Taught(s, i, w) ==
    \E j \in DOMAIN log : j > i /\ log[j].wall_ms <= w + Step /\ log[j] = Lesson(s, log[j].wall_ms)
Pending(s, w) ==
    /\ learnDue[s] /\ recent[s] # None
    /\ w = Round \/ (w = Round - Step /\ turn <= Place(1, s))
Teaching ==
    \A i, w : \A s \in Names : Resolution(i, s, w) => Taught(s, i, w) \/ Pending(s, w)

\* An incident comes from a report, so there is a threat to learn from.
Reported == \A s \in Names : incidents[s] # <<>> => recent[s] # None
TeachInv == LoggedInv /\ Reported /\ Teaching

LEMMA ResolutionTime ==
    ASSUME LoggedInv, NEW i, NEW s, NEW w, Resolution(i, s, w)
    PROVE  w \in Nat /\ w <= Round /\ s \in Names /\ Round \in Nat /\ Step \in Nat /\ i \in Nat
<1>1. EventOK(log[i]) /\ i \in DOMAIN log
    BY EveryEvent DEF LoggedInv, Resolution
<1>2. Round \in Nat /\ Step \in Nat
    BY ShapeOf DEF LoggedInv, WaitInv
<1>3. IsSeq(log)
    BY DEF LoggedInv, WaitInv, Base, Shape
<1>4. DOMAIN log = 1..Len(log) /\ Len(log) \in Nat
    BY <1>3, SeqShape
<1> QED BY <1>1, <1>2, <1>4 DEF EventOK, Resolution

LEMMA PendingOn ==
    ASSUME Base, [Next]_vars, NEW s \in Names, NEW w \in Nat, Pending(s, w),
           learnDue'[s], recent'[s] # None, turn = Place(1, s) => turn' # turn + 1
    PROVE  Pending(s, w)'
<1>1. /\ Round \in Nat /\ turn \in Nat /\ Step \in Nat /\ Step > 0 /\ LastTurn \in Nat
    BY ShapeOf
<1>2. Place(1, s) \in Nat /\ Place(1, s) < LastTurn
    BY PlacesApart
<1> DEFINE p == Place(1, s)
<1>3. /\ w = Round \/ (w = Round - Step /\ turn <= p)
      /\ turn = p => turn' # turn + 1
    BY DEF Pending
<1>4. \/ Round' = Round /\ turn' \in {turn, turn + 1}
      \/ turn = LastTurn /\ turn' = 0 /\ Round' = Round + Step
    BY Rounds
<1>5. w = Round' \/ (w = Round' - Step /\ turn' <= p)
  <2>1. p \in Nat /\ p < LastTurn
      BY <1>2
  <2> HIDE DEF p
  <2> QED BY <1>1, <1>3, <1>4, <2>1
<1> QED BY <1>5 DEF Pending, Place, Index, NSeg

\* Old resolutions stay settled when their ACA does not step, and when it does.
LEMMA TeachOld ==
    ASSUME TeachInv, [Next]_vars, Extends(log, log'), NEW s \in Names, NEW i \in DOMAIN log,
           NEW w, Resolution(i, s, w)',
           \/ /\ learnDue[s] => learnDue'[s]
              /\ recent[s] # None => recent'[s] # None
              /\ turn = Place(1, s) => turn' # turn + 1
           \/ (learnDue[s] /\ recent[s] # None) =>
                 \E j \in New : j > i /\ log'[j] = Lesson(s, Round)
    PROVE  Taught(s, i, w)' \/ Pending(s, w)'
<1>1. Resolution(i, s, w)
    BY DEF Resolution, Extends
<1>2. /\ Base /\ w \in Nat /\ Round \in Nat /\ Step \in Nat /\ Step > 0
      /\ Taught(s, i, w) \/ Pending(s, w)
  <2>1. LoggedInv /\ Base
      BY DEF TeachInv, LoggedInv, WaitInv
  <2>2. w \in Nat /\ Round \in Nat /\ Step \in Nat
      BY <1>1, <2>1, ResolutionTime
  <2>3. Step > 0
      BY StepAssumption
  <2> QED BY <1>1, <2>1, <2>2, <2>3 DEF TeachInv, Teaching
<1>3. CASE Taught(s, i, w)
  <2>1. PICK j \in DOMAIN log : j > i /\ log[j].wall_ms <= w + Step
                                /\ log[j] = Lesson(s, log[j].wall_ms)
      BY <1>3 DEF Taught
  <2>2. j \in DOMAIN log' /\ log'[j] = log[j]
      BY DEF Extends
  <2>3. Taught(s, i, w)'
      BY <2>1, <2>2 DEF Taught, Lesson
  <2> QED BY <2>3
<1>4. CASE Pending(s, w)
  <2>1. learnDue[s] /\ recent[s] # None /\ Round <= w + Step
      BY <1>2, <1>4 DEF Pending
  <2>2. CASE \E j \in New : j > i /\ log'[j] = Lesson(s, Round)
    <3>1. PICK j \in New : j > i /\ log'[j] = Lesson(s, Round)
        BY <2>2
    <3>2. j \in DOMAIN log' /\ log'[j].wall_ms = Round
        BY <3>1, Lessons DEF New
    <3>3. Taught(s, i, w)'
        BY <2>1, <3>1, <3>2 DEF Taught, Lesson
    <3> QED BY <3>3
  <2>3. CASE /\ learnDue'[s] /\ recent'[s] # None
             /\ turn = Place(1, s) => turn' # turn + 1
    <3>1. Pending(s, w)'
        BY <1>2, <1>4, <2>3, PendingOn
    <3> QED BY <3>1
  <2> QED BY <2>1, <2>2, <2>3
<1> QED BY <1>2, <1>3, <1>4

\* A step that writes no resolution and leaves what there is to learn alone.
LEMMA TeachKept ==
    ASSUME TeachInv, [Next]_vars, Extends(log, log'),
           \A i \in New : log'[i].event_type # "INCIDENT_RESOLVED",
           UNCHANGED <<learnDue, recent, incidents>>,
           \A s \in Names : (learnDue[s] /\ recent[s] # None) => ~(turn = Place(1, s) /\ turn' = turn + 1)
    PROVE  (Reported /\ Teaching)'
<1>1. Reported'
    BY DEF TeachInv, Reported, Names
<1>2. ASSUME NEW i, NEW w, NEW s \in Names, Resolution(i, s, w)'
      PROVE  Taught(s, i, w)' \/ Pending(s, w)'
  <2>1. i \in DOMAIN log
      BY <1>2 DEF New, Resolution
  <2> QED BY <1>2, <2>1, TeachOld
<1>3. Teaching'
    BY <1>2 DEF Teaching, Names
<1> QED BY <1>1, <1>3

LEMMA TeachAca ==
    ASSUME TeachInv, [Next]_vars, NEW c \in Names, NEW readings, AcaStep(c, readings)
    PROVE  (Reported /\ Teaching)'
<1>1. WaitInv /\ Base
    BY DEF TeachInv, LoggedInv, WaitInv
<1>2. /\ turn = Place(1, c) /\ turn' = turn + 1 /\ Round = now /\ turn \in Nat
      /\ learnDue \in [Names -> BOOLEAN] /\ IsSeq(log)
    BY <1>1, AcaDoes, ShapeOf DEF Base, Shape
<1>3. \A s \in Names : s # c => turn # Place(1, s)
    BY <1>2, Places3
<1>4. CASE ~ClassifyTriggers(c)
  <2>1. UNCHANGED <<log, learnDue, recent, incidents>>
      BY <1>1, <1>4, AcaDoes DEF acaVars
  <2>2. ~learnDue[c]
      BY <1>4 DEF ClassifyTriggers
  <2>3. Extends(log, log') /\ New = {}
      BY <2>1 DEF Extends, New
  <2> QED BY <1>3, <2>1, <2>2, <2>3, TeachKept
<1>5. CASE ClassifyTriggers(c)
  <2>1. AcaState(c, readings) /\ AcaEvents(c, readings)
      BY <1>1, <1>5, AcaDoes
  <2>2. Reported'
    <3>1. SevereOf(c, readings) \subseteq ReportedOf(c, readings)
        BY DEF SevereOf, ReportedOf, Severe
    <3>2. \A s \in Names : incidents'[s] # <<>> => recent'[s] # None
        BY <2>1, <3>1 DEF AcaState, TeachInv, Reported
    <3> QED BY <3>2 DEF Reported, Names
  <2>3. /\ Extends(log, log') /\ \A i \in DOMAIN log, j \in New : i < j
        /\ \A i \in New : log'[i].event_type \in {"ACTION_EXECUTED", "THREAT_CLASSIFIED"}
    <3>1. \A i \in New : log'[i].event_type \in {"ACTION_EXECUTED", "THREAT_CLASSIFIED"}
        BY <1>1, <2>1, AcaNew
    <3> QED BY <2>1, <3>1 DEF AcaEvents
  <2>4. ASSUME NEW s \in Names, s # c
        PROVE  learnDue'[s] = learnDue[s] /\ recent'[s] = recent[s]
      BY <1>2, <2>1, <2>4 DEF AcaState
  <2>5. ASSUME NEW i \in DOMAIN log, learnDue[c] /\ recent[c] # None
        PROVE  \E j \in New : j > i /\ log'[j] = Lesson(c, Round)
    <3>1. PICK j \in New : log'[j] = OnlineUpdate(c)
        BY <2>1, <2>5 DEF AcaEvents, Learns
    <3>2. OnlineUpdate(c) = Lesson(c, Round)
        BY <1>2, Lessons
    <3>3. i < j
        BY <2>3
    <3>4. i \in Int /\ j \in Int
      <4>1. DOMAIN log = 1..Len(log) /\ Len(log) \in Nat
          BY <1>2, SeqShape
      <4>2. IsSeq(log')
          BY <2>1 DEF AcaEvents
      <4>3. DOMAIN log' = 1..Len(log') /\ Len(log') \in Nat
          BY <4>2, SeqShape
      <4> QED BY <4>1, <4>3 DEF New
    <3> QED BY <3>1, <3>2, <3>3, <3>4
  <2>6. ASSUME NEW i, NEW w, NEW s \in Names, Resolution(i, s, w)'
        PROVE  Taught(s, i, w)' \/ Pending(s, w)'
    <3>1. i \in DOMAIN log
        BY <2>3, <2>6 DEF New, Resolution
    <3>2. CASE s # c
        BY <1>3, <2>3, <2>4, <2>6, <3>1, <3>2, TeachOld
    <3>3. CASE s = c
        BY <2>3, <2>5, <2>6, <3>1, <3>3, TeachOld
    <3> QED BY <3>2, <3>3
  <2>7. Teaching'
      BY <2>6 DEF Teaching, Names
  <2> QED BY <2>2, <2>7
<1> QED BY <1>4, <1>5

LEMMA TeachRca ==
    ASSUME TeachInv, [Next]_vars, NEW s \in Names, NEW done \in 0..Len(incidents[s]),
           NEW actions, RcaStep(s, done, actions)
    PROVE  (Reported /\ Teaching)'
<1>1. Base
    BY DEF TeachInv, LoggedInv, WaitInv
<1>2. /\ turn = Place(2, s) /\ Round' = now /\ recent' = recent
      /\ \E n \in Nat : RcaState(s, n) /\ RcaEvents(s, n)
    BY <1>1, RcaDoes
<1>3. PICK n \in Nat : RcaState(s, n) /\ RcaEvents(s, n)
    BY <1>2
<1>4. \A r \in Names : turn # Place(1, r)
    BY <1>2, PlacesApart
<1>5. /\ \A r \in Names : learnDue'[r] = (learnDue[r] \/ n > 0)
      /\ \A r \in Names : incidents'[r] # <<>> => incidents[r] # <<>>
      /\ n > 0 => incidents[s] # <<>>
    BY <1>3 DEF RcaState
<1>6. Reported'
  <2>1. \A r \in Names : incidents'[r] # <<>> => recent'[r] # None
      BY <1>2, <1>5 DEF TeachInv, Reported
  <2> QED BY <2>1 DEF Reported, Names
<1>7. /\ Extends(log, log')
      /\ \A i \in New : n > 0 /\ log'[i].agent_id = s /\ log'[i].wall_ms = now
    BY <1>3 DEF RcaEvents
<1>8. ASSUME NEW i, NEW w, NEW r \in Names, Resolution(i, r, w)'
      PROVE  Taught(r, i, w)' \/ Pending(r, w)'
  <2>1. CASE i \in DOMAIN log
      BY <1>2, <1>4, <1>5, <1>7, <1>8, <2>1, TeachOld
  <2>2. CASE i \notin DOMAIN log
    <3>1. i \in New /\ log'[i].agent_id = r /\ log'[i].wall_ms = w
        BY <1>8, <2>2 DEF New, Resolution
    <3>2. r = s /\ w = Round' /\ n > 0
        BY <1>2, <1>7, <3>1
    <3>3. learnDue'[r] /\ recent'[r] # None
        BY <1>2, <1>5, <3>2 DEF TeachInv, Reported
    <3>4. Pending(r, w)'
        BY <3>2, <3>3 DEF Pending
    <3> QED BY <3>4
  <2> QED BY <2>1, <2>2
<1>9. Teaching'
    BY <1>8 DEF Teaching, Names
<1> QED BY <1>6, <1>9

LEMMA TeachStep == TeachInv /\ [Next]_vars => TeachInv'
<1> SUFFICES ASSUME TeachInv, [Next]_vars PROVE TeachInv'
    OBVIOUS
<1>1. LoggedInv' /\ LoggedInv /\ Base
    BY LogInvStep DEF TeachInv, LoggedInv, WaitInv
<1>2. turn \in Nat /\ \A c \in Names : Place(1, c) \in Nat /\ Place(1, c) # 0
    <2>1. \A c \in Names : Place(1, c) = Place(0, c) + 1 /\ Place(0, c) \in Nat
        BY Places3, PlacesApart
    <2> QED BY <1>1, <2>1, ShapeOf
<1>3. ASSUME log' = log, UNCHANGED <<learnDue, recent, incidents>>, turn' # turn + 1 \/ turn = 0
      PROVE  (Reported /\ Teaching)'
  <2>1. Extends(log, log') /\ New = {}
      BY <1>3 DEF Extends, New
  <2> QED BY <1>2, <1>3, <2>1, TeachKept
<1>4. ASSUME NEW s \in Names, NEW deviates \in BOOLEAN, TmaStep(s, deviates)
      PROVE  (Reported /\ Teaching)'
  <2>1. /\ turn = Place(0, s) /\ UNCHANGED <<learnDue, recent, incidents>>
        /\ (Alerts(s, deviates) => Logged(<<AlertPublished(s)>>))
        /\ (~Alerts(s, deviates) => Logged(<<>>))
      BY <1>1, <1>4, TmaDoes
  <2>2. \A c \in Names : turn # Place(1, c)
      BY <2>1, PlacesApart
  <2>3. AlertPublished(s).event_type = "ALERT_PUBLISHED"
      BY AlertEvent
  <2>4. Extends(log, log') /\ \A i \in New : log'[i].event_type # "INCIDENT_RESOLVED"
    <3>1. CASE Logged(<<>>)
        BY <3>1 DEF Logged
    <3>2. CASE Logged(<<AlertPublished(s)>>)
      <4>1. Extends(log, log') /\ \A i \in New : log'[i] = AlertPublished(s)
          BY <3>2 DEF Logged
      <4> QED BY <2>3, <4>1
    <3> QED BY <2>1, <3>1, <3>2
  <2> QED BY <2>1, <2>2, <2>4, TeachKept
<1>5. ASSUME NEW c \in Names, NEW readings, AcaStep(c, readings) PROVE (Reported /\ Teaching)'
    BY <1>5, TeachAca
<1>6. ASSUME NEW s \in Names, NEW done \in 0..Len(incidents[s]), NEW actions,
             RcaStep(s, done, actions)
      PROVE  (Reported /\ Teaching)'
    BY <1>6, TeachRca
<1>7. ASSUME UNCHANGED vars PROVE (Reported /\ Teaching)'
    BY <1>2, <1>3, <1>7 DEF vars, acaVars
<1>8. (Reported /\ Teaching)'
  <2>1. ASSUME NEW a \in scenario.attacks, NEW t \in ReadTimes, Inject(a, t)
        PROVE  (Reported /\ Teaching)'
      BY <1>2, <1>3, <2>1 DEF Inject, acaVars
  <2>2. CASE SimTick \/ PruneBegin \/ PruneNext \/ PruneEnd
    <3>1. /\ log' = log /\ UNCHANGED <<learnDue, recent, incidents>>
          /\ turn = 0 \/ turn' = turn \/ turn' = 0
        BY <2>2 DEF SimTick, PruneBegin, PruneNext, PruneEnd, acaVars
    <3> QED BY <1>2, <1>3, <3>1
  <2> QED BY <1>4, <1>5, <1>6, <1>7, <2>1, <2>2 DEF Next
<1> QED BY <1>1, <1>8 DEF TeachInv

LEMMA TeachInit == Init => TeachInv
<1> SUFFICES ASSUME Init PROVE TeachInv
    OBVIOUS
<1>1. LoggedInv
    BY LogInvInit
<1>2. log = <<>> /\ \A c \in Names : incidents[c] = <<>>
    BY DEF Init
<1>3. DOMAIN log = {}
    BY <1>2
<1> QED BY <1>1, <1>2, <1>3 DEF TeachInv, Reported, Teaching, Resolution

\* FR-08: the notice of a resolution makes the ACA of the segment learn from
\* its last threat in its next step (aca/agent.py:76, 84), whether an alert
\* comes or not, and there is always a threat to learn from.
THEOREM ResolutionsTeach == Spec => []ResolutionTeaches
<1>1. ASSUME TeachInv PROVE ResolutionTeaches
  <2> SUFFICES ASSUME turn = 0, NEW i \in select(log, "INCIDENT_RESOLVED", None),
                      log[i].wall_ms < now - Step
               PROVE  \E j \in (i + 1)..Len(log) :
                         /\ log[j] = [OnlineUpdate(log[i].agent_id) EXCEPT
                                        !.wall_ms = log[j].wall_ms]
                         /\ log[j].wall_ms <= log[i].wall_ms + Step
      BY DEF ResolutionTeaches
  <2> DEFINE s == log[i].agent_id
             w == log[i].wall_ms
  <2>1. i \in DOMAIN log /\ log[i].event_type = "INCIDENT_RESOLVED"
    <3>1. "INCIDENT_RESOLVED" \in Selectors
        BY DEF Selectors
    <3> QED BY <3>1, Selections
  <2>2. Resolution(i, s, w) /\ LoggedInv /\ Base
      BY <1>1, <2>1 DEF Resolution, TeachInv, LoggedInv, WaitInv
  <2> HIDE DEF s, w
  <2>3. w \in Nat /\ s \in Names /\ Round \in Nat /\ Step \in Nat
      BY <2>2, ResolutionTime
  <2>4. Round = now
    <3>1. LastTurn # 0
        BY Turns
    <3> QED BY <2>2, <3>1, ShapeOf
  <2>5. Taught(s, i, w) \/ Pending(s, w)
      BY <1>1, <2>2, <2>3 DEF TeachInv, Teaching
  <2>6. w < Round - Step
      BY <2>4 DEF w
  <2>7. ~Pending(s, w)
      BY <2>3, <2>6 DEF Pending
  <2>8. PICK j \in DOMAIN log : j > i /\ log[j].wall_ms <= w + Step
                                /\ log[j] = Lesson(s, log[j].wall_ms)
      BY <2>5, <2>7 DEF Taught
  <2>9. DOMAIN log = 1..Len(log) /\ Len(log) \in Nat
    <3>1. IsSeq(log)
        BY <2>2 DEF Base, Shape
    <3> QED BY <3>1, SeqShape
  <2>10. j \in (i + 1)..Len(log)
      BY <2>1, <2>8, <2>9
  <2>11. [OnlineUpdate(s) EXCEPT !.wall_ms = log[j].wall_ms] = Lesson(s, log[j].wall_ms)
      BY Lessons
  <2> QED BY <2>8, <2>10, <2>11 DEF s, w
<1> QED BY <1>1, TeachInit, TeachStep, PTL DEF Spec

-----------------------------------------------------------------------------
(* Attacks are seen *)

\* What no step takes back.
Grows ==
    /\ Extends(log, log') /\ injected \subseteq injected' /\ now <= now'
    /\ \A s \in Names : Quarantined(s) => Quarantined(s)'
Warms(s) ==
    /\ Warm(s) => Warm(s)' /\ baseline'[s].warm_ms = baseline[s].warm_ms
    /\ ~Warm(s) /\ Warm(s)' => baseline'[s].warm_ms = now

LEMMA Growing ==
    ASSUME Base, [Next]_vars
    PROVE  Grows
<1>1. now <= now'
  <2>1. now \in Nat /\ Step \in Nat
      BY ShapeOf
  <2> QED BY <2>1, Rounds
<1>2. Extends(log, log)
    BY DEF Extends
<1>3. ASSUME NEW a \in scenario.attacks, NEW t \in ReadTimes, Inject(a, t) PROVE Grows
    BY <1>1, <1>2, <1>3 DEF Inject, Grows, Quarantined
<1>4. CASE SimTick
    BY <1>1, <1>2, <1>4 DEF SimTick, Grows, Quarantined
<1>5. ASSUME NEW s \in Names, NEW deviates \in BOOLEAN, TmaStep(s, deviates) PROVE Grows
  <2>1. UNCHANGED <<simVars, defenses>> /\ Extends(log, log')
      BY <1>5, TmaDoes DEF Logged
  <2> QED BY <1>1, <2>1 DEF Grows, Quarantined, simVars
<1>6. ASSUME NEW c \in Names, NEW readings, AcaStep(c, readings) PROVE Grows
  <2>1. UNCHANGED <<simVars, defenses>> /\ Extends(log, log')
      BY <1>6, AcaDoes DEF Logged, AcaEvents
  <2> QED BY <1>1, <2>1 DEF Grows, Quarantined, simVars
<1>7. ASSUME NEW s \in Names, NEW done \in 0..Len(incidents[s]), NEW actions,
             RcaStep(s, done, actions)
      PROVE  Grows
  <2>1. injected' = injected /\ \E n \in Nat : RcaState(s, n) /\ RcaEvents(s, n)
      BY <1>7, RcaDoes
  <2>2. Extends(log, log') /\ \A d \in Names : defenses[d] \subseteq defenses'[d]
      BY <2>1 DEF RcaState, RcaEvents
  <2> QED BY <1>1, <2>1, <2>2 DEF Grows, Quarantined
<1>8. CASE PruneBegin \/ PruneNext \/ PruneEnd
    BY <1>1, <1>2, <1>8 DEF PruneBegin, PruneNext, PruneEnd, Grows, Quarantined
<1>9. CASE UNCHANGED vars
    BY <1>1, <1>2, <1>9 DEF vars, simVars, Grows, Quarantined
<1> QED BY <1>3, <1>4, <1>5, <1>6, <1>7, <1>8, <1>9 DEF Next

\* Only a monitor touches a baseline, its own; it learns from what does not deviate.
BaselineStep(s) ==
    \/ baseline'[s] = baseline[s]
    \/ baseline'[s] = Updated(s) /\ \E deviates \in Deviates(s) : ~deviates

LEMMA BaselineSteps ==
    ASSUME Base, [Next]_vars, NEW s \in Names
    PROVE  BaselineStep(s) /\ Warms(s)
<1>1. BaselineStep(s)
  <2>1. ASSUME NEW r \in Names, NEW deviates \in BOOLEAN, TmaStep(r, deviates)
        PROVE  BaselineStep(s)
    <3>1. /\ deviates \in Deviates(r)
          /\ baseline' = [baseline EXCEPT ![r] = IF LearnsFrom(deviates) THEN Updated(r) ELSE @]
        BY <2>1 DEF TmaStep
    <3>2. DOMAIN baseline = Names
        BY DEF Base, Shape
    <3> QED BY <3>1, <3>2 DEF BaselineStep, LearnsFrom
  <2>2. ASSUME baseline' = baseline PROVE BaselineStep(s)
      BY <2>2 DEF BaselineStep
  <2>3. ASSUME NEW a \in scenario.attacks, NEW t \in ReadTimes, Inject(a, t)
        PROVE  BaselineStep(s)
      BY <2>2, <2>3 DEF Inject, tmaVars
  <2>4. ASSUME NEW c \in Names, NEW readings, AcaStep(c, readings) PROVE BaselineStep(s)
      BY <2>2, <2>4 DEF AcaStep, tmaVars
  <2>5. ASSUME NEW r \in Names, NEW done, NEW actions, RcaStep(r, done, actions)
        PROVE  BaselineStep(s)
      BY <2>2, <2>5 DEF RcaStep, tmaVars
  <2>6. CASE SimTick \/ PruneBegin \/ PruneNext \/ PruneEnd \/ UNCHANGED vars
      BY <2>2, <2>6 DEF SimTick, PruneBegin, PruneNext, PruneEnd, vars, tmaVars
  <2> QED BY <2>1, <2>3, <2>4, <2>5, <2>6 DEF Next
<1>2. CASE baseline'[s] = baseline[s]
    BY <1>1, <1>2 DEF Warms, Warm
<1>3. CASE baseline'[s] = Updated(s)
  <2>1. /\ baseline[s] \in Baselines /\ (Warm(s) <=> baseline[s].warm_ms # None)
        /\ Updated(s).samples >= Warmup <=> Updated(s).warm_ms # None
      BY UpdatedBaseline DEF Base, Shape
  <2>2. Warm(s)' <=> Updated(s).warm_ms # None
      BY <1>3, <2>1 DEF Warm
  <2>3. Updated(s).samples \in {baseline[s].samples + 1, Warmup}
        /\ Updated(s).warm_ms \in {now, baseline[s].warm_ms}
        /\ (baseline[s].warm_ms # None => Updated(s).warm_ms = baseline[s].warm_ms)
      BY DEF Updated, Min2
  <2> QED BY <1>1, <1>3, <2>1, <2>2, <2>3 DEF Warms
<1> QED BY <1>1, <1>2, <1>3 DEF BaselineStep

\* A loud attack of segment s that began at time t at the latest.
LoudBy(s, t) == \E b \in injected : b.segment = s /\ b.loud /\ b.at_ms <= t

\* What a loud attack is behind, and what an alert is behind.
SeenInv ==
    /\ LoggedInv
    /\ \A s \in Names :
          /\ traffic[s] = "loud" => LoudBy(s, now)
          /\ baseline[s].polluted => LoudBy(s, IF Warm(s) THEN baseline[s].warm_ms ELSE now)
          /\ lastAlert[s] # LongAgo =>
                \E e \in Items(log) : /\ e.event_type = "ALERT_PUBLISHED" /\ e.agent_id = s
                                      /\ e.wall_ms = lastAlert[s]

LEMMA LoudStays ==
    ASSUME Base, [Next]_vars, NEW s, NEW t \in Nat, NEW u \in Nat, t <= u, LoudBy(s, t)
    PROVE  \E b \in injected' : b.segment = s /\ b.loud /\ b.at_ms <= u
<1>1. PICK b \in injected : b.segment = s /\ b.loud /\ b.at_ms <= t
    BY DEF LoudBy
<1>2. b.at_ms \in Nat
    BY <1>1 DEF Base, LossInv, PruneOK, Specs
<1>3. b \in injected' /\ b.at_ms <= u
    BY <1>1, <1>2, Growing DEF Grows
<1> QED BY <1>1, <1>3

LEMMA TrafficSteps ==
    ASSUME Base, [Next]_vars, NEW s \in Names, traffic'[s] = "loud"
    PROVE  traffic[s] = "loud" \/ LoudBy(s, now)
<1>1. CASE SimTick
  <2>1. Overlay(s) = "loud"
      BY <1>1 DEF SimTick
  <2>2. PICK i \in Malicious(s) : specs[i].loud
      BY <2>1 DEF Overlay
  <2>3. i \in DOMAIN specs /\ specs[i].segment = s
      BY <2>2 DEF Malicious, Active
  <2>4. specs[i] \in injected
      BY <2>3 DEF Base, Shape, Items
  <2>5. specs[i].at_ms <= now
      BY <2>4 DEF Base, LossInv, PruneOK, Specs
  <2> QED BY <2>2, <2>3, <2>4, <2>5 DEF LoudBy
<1>2. CASE traffic' = traffic
    BY <1>2
<1>3. CASE ~SimTick
  <2>1. ASSUME NEW a \in scenario.attacks, NEW t \in ReadTimes, Inject(a, t)
        PROVE  traffic' = traffic
      BY <2>1 DEF Inject
  <2>2. ASSUME NEW r \in Names, NEW deviates \in BOOLEAN, TmaStep(r, deviates)
        PROVE  traffic' = traffic
      BY <2>2 DEF TmaStep, simVars
  <2>3. ASSUME NEW c \in Names, NEW readings, AcaStep(c, readings) PROVE traffic' = traffic
      BY <2>3 DEF AcaStep, simVars
  <2>4. ASSUME NEW r \in Names, NEW done, NEW actions, RcaStep(r, done, actions)
        PROVE  traffic' = traffic
      BY <2>4 DEF RcaStep
  <2>5. CASE PruneBegin \/ PruneNext \/ PruneEnd \/ UNCHANGED vars
      BY <2>5 DEF PruneBegin, PruneNext, PruneEnd, vars, simVars
  <2> QED BY <1>2, <1>3, <2>1, <2>2, <2>3, <2>4, <2>5 DEF Next
<1> QED BY <1>1, <1>3

LEMMA PollutionSteps ==
    ASSUME SeenInv, [Next]_vars, NEW s \in Names, baseline'[s].polluted
    PROVE  LoudBy(s, IF Warm(s) THEN baseline[s].warm_ms ELSE now)
<1>1. Base /\ BaselineStep(s)
    BY BaselineSteps DEF SeenInv, LoggedInv, WaitInv
<1>2. CASE baseline[s].polluted
    BY <1>2 DEF SeenInv
<1>3. CASE ~baseline[s].polluted
  <2>1. baseline'[s] = Updated(s) /\ \E deviates \in Deviates(s) : ~deviates
      BY <1>1, <1>3 DEF BaselineStep
  <2>2. traffic[s] = "loud"
    <3> DEFINE p == baseline[s].polluted \/ traffic[s] = "loud"
               n == Min2(baseline[s].samples + 1, Warmup)
               w == IF n = Warmup /\ baseline[s].warm_ms = None THEN now ELSE baseline[s].warm_ms
    <3>1. Updated(s) = [samples |-> n, polluted |-> p, warm_ms |-> w]
        BY DEF Updated
    <3> HIDE DEF p, n, w
    <3>2. Updated(s).polluted = p
        BY <3>1
    <3>3. p
        BY <2>1, <3>2
    <3> QED BY <1>3, <3>3 DEF p
  <2>3. ~Warm(s)
      BY <1>3, <2>1, <2>2 DEF Deviates
  <2> QED BY <2>2, <2>3 DEF SeenInv
<1> QED BY <1>2, <1>3

LEMMA LastAlertSteps ==
    ASSUME SeenInv, [Next]_vars, NEW s \in Names, lastAlert'[s] # LongAgo
    PROVE  \E e \in Items(log') : /\ e.event_type = "ALERT_PUBLISHED" /\ e.agent_id = s
                                  /\ e.wall_ms = lastAlert'[s]
<1>1. Base /\ Extends(log, log')
    BY Growing DEF SeenInv, LoggedInv, WaitInv, Grows
<1>2. CASE lastAlert'[s] = lastAlert[s]
  <2>1. PICK e \in Items(log) : /\ e.event_type = "ALERT_PUBLISHED" /\ e.agent_id = s
                                /\ e.wall_ms = lastAlert[s]
      BY <1>2 DEF SeenInv
  <2>2. e \in Items(log')
      BY <1>1 DEF Extends, Items
  <2> QED BY <1>2, <2>1, <2>2
<1>3. CASE lastAlert' # lastAlert
  <2>1. PICK r \in Names, deviates \in BOOLEAN : TmaStep(r, deviates)
    <3>1. ASSUME NEW a \in scenario.attacks, NEW t \in ReadTimes, Inject(a, t) PROVE FALSE
        BY <1>3, <3>1 DEF Inject, tmaVars
    <3>2. ASSUME NEW c \in Names, NEW readings, AcaStep(c, readings) PROVE FALSE
        BY <1>3, <3>2 DEF AcaStep, tmaVars
    <3>3. ASSUME NEW r \in Names, NEW done, NEW actions, RcaStep(r, done, actions) PROVE FALSE
        BY <1>3, <3>3 DEF RcaStep, tmaVars
    <3>4. ASSUME SimTick \/ PruneBegin \/ PruneNext \/ PruneEnd \/ UNCHANGED vars PROVE FALSE
        BY <1>3, <3>4 DEF SimTick, PruneBegin, PruneNext, PruneEnd, vars, tmaVars
    <3> QED BY <3>1, <3>2, <3>3, <3>4 DEF Next
  <2>2. Alerts(r, deviates) /\ Logged(<<AlertPublished(r)>>)
        /\ lastAlert' = [lastAlert EXCEPT ![r] = now]
      BY <1>1, <1>3, <2>1, TmaDoes
  <2>3. CASE r = s
    <3> DEFINE e == AlertPublished(s)
    <3>1. e.event_type = "ALERT_PUBLISHED" /\ e.agent_id = s /\ e.wall_ms = now
        BY AlertEvent
    <3>2. e \in Items(log')
      <4>1. 1 \in DOMAIN <<e>> /\ <<e>>[1] = e
          OBVIOUS
      <4>2. Len(log) + 1 \in New /\ log'[Len(log) + 1] = e
          BY <2>2, <2>3, <4>1 DEF Logged
      <4> QED BY <4>2 DEF New, Items
    <3>3. lastAlert'[s] = now
        BY <1>1, <2>2, <2>3 DEF Base, Shape
    <3> HIDE DEF e
    <3> QED BY <3>1, <3>2, <3>3
  <2>4. CASE r # s
      BY <1>1, <1>2, <2>2, <2>4 DEF Base, Shape
  <2> QED BY <2>3, <2>4
<1> QED BY <1>2, <1>3

LEMMA SeenStep == SeenInv /\ [Next]_vars => SeenInv'
<1> SUFFICES ASSUME SeenInv, [Next]_vars PROVE SeenInv'
    OBVIOUS
<1>1. LoggedInv /\ LoggedInv' /\ Base /\ Base'
    BY LogInvStep DEF SeenInv, LoggedInv, WaitInv
<1>2. now \in Nat /\ now' \in Nat /\ now <= now'
    BY <1>1, Growing DEF Base, LossInv, PruneOK, Grows
<1>3. ASSUME NEW s \in Names, traffic'[s] = "loud" PROVE LoudBy(s, now)'
  <2>1. LoudBy(s, now)
      BY <1>1, <1>3, TrafficSteps DEF SeenInv
  <2>2. \E b \in injected' : b.segment = s /\ b.loud /\ b.at_ms <= now'
      BY <1>1, <1>2, <2>1, LoudStays
  <2> QED BY <2>2 DEF LoudBy
<1>4. ASSUME NEW s \in Names, baseline'[s].polluted
      PROVE  LoudBy(s, IF Warm(s) THEN baseline[s].warm_ms ELSE now)'
  <2> DEFINE t == IF Warm(s) THEN baseline[s].warm_ms ELSE now
             u == IF Warm(s)' THEN baseline'[s].warm_ms ELSE now'
  <2>1. LoudBy(s, t)
      BY <1>4, PollutionSteps
  <2>2. Warms(s)
      BY <1>1, BaselineSteps
  <2>3. /\ baseline[s] \in Baselines /\ (Warm(s) <=> baseline[s].warm_ms # None)
        /\ baseline'[s] \in Baselines /\ (Warm(s)' <=> baseline'[s].warm_ms # None)
      BY <1>1 DEF Base, Shape, Baselines
  <2>4. t \in Nat /\ u \in Nat /\ t <= u
    <3>1. t \in Nat /\ u \in Nat
        BY <1>2, <2>3 DEF Baselines
    <3>2. CASE Warm(s)
        BY <2>2, <3>1, <3>2 DEF Warms
    <3>3. CASE ~Warm(s)
        BY <1>2, <2>2, <3>1, <3>3 DEF Warms
    <3> QED BY <3>1, <3>2, <3>3
  <2> HIDE DEF t, u
  <2>5. \E b \in injected' : b.segment = s /\ b.loud /\ b.at_ms <= u
      BY <1>1, <2>1, <2>4, LoudStays
  <2> QED BY <2>5 DEF LoudBy, u
<1>5. ASSUME NEW s \in Names, lastAlert'[s] # LongAgo
      PROVE  \E e \in Items(log') : /\ e.event_type = "ALERT_PUBLISHED" /\ e.agent_id = s
                                    /\ e.wall_ms = lastAlert'[s]
    BY <1>5, LastAlertSteps
<1> QED BY <1>1, <1>3, <1>4, <1>5 DEF SeenInv, Names, LongAgo

LEMMA SeenInit == Init => SeenInv
<1> SUFFICES ASSUME Init PROVE SeenInv
    OBVIOUS
<1>1. LoggedInv
    BY LogInvInit
<1>2. \A s \in Names : traffic[s] = "clean" /\ ~baseline[s].polluted /\ lastAlert[s] = LongAgo
    BY DEF Init
<1> QED BY <1>1, <1>2 DEF SeenInv

\* An attack that its segment's monitor can see and that is long enough to meet it.
Big(a) == a.loud /\ (a.duration_ms = 0 \/ a.start_ms + a.duration_ms >= Due(a))
AlertSeen(a) ==
    \E e \in Items(log) :
        /\ e.event_type = "ALERT_PUBLISHED" /\ e.agent_id = a.segment
        /\ e.wall_ms <= Due(a) /\ Due(a) - e.wall_ms < Cooldown
Handled(a) ==
    \/ Quarantined(a.segment)
    \/ ~(Warm(a.segment) /\ Clean(a.segment))
    \/ AlertSeen(a)

\* From the tick of the round that is due the attack is in its segment's
\* traffic, and from that round's step of the monitor it is handled.
WatchOK(a) ==
    /\ a.at_ms \in {Round, now} \/ Round >= Due(a)
    /\ Big(a) =>
         /\ (Round = Due(a) /\ turn \in 1..Place(0, a.segment))
               => (Quarantined(a.segment) \/ traffic[a.segment] = "loud")
         /\ (Round > Due(a) \/ (Round = Due(a) /\ turn > Place(0, a.segment)))
               => Handled(a)
WatchInv == SeenInv /\ \A a \in injected : WatchOK(a)

LEMMA InjectedOf ==
    ASSUME Base, NEW a \in injected
    PROVE  /\ a.segment \in Names /\ a.at_ms \in Nat /\ a.duration_ms \in Nat
           /\ a.start_ms \in Nat /\ a.start_ms <= a.at_ms
           /\ a.loud \in BOOLEAN /\ Due(a) = a.at_ms + Step /\ Due(a) \in Nat
BY StepAssumption DEF Base, LossInv, PruneOK, Specs, Due

\* Only the tick changes the traffic or begins the turns of a round.
LEMMA TickOnly ==
    ASSUME Base, [Next]_vars, ~SimTick
    PROVE  traffic' = traffic /\ (turn = 0 => turn' = 0)
<1>1. LastTurn \in Nat /\ LastTurn # 0
    BY Turns
<1>2. ASSUME NEW a \in scenario.attacks, NEW t \in ReadTimes, Inject(a, t)
      PROVE  traffic' = traffic /\ turn' = turn
    BY <1>2 DEF Inject
<1>3. ASSUME NEW r \in Names, NEW deviates \in BOOLEAN, TmaStep(r, deviates)
      PROVE  traffic' = traffic /\ turn # 0
  <2>1. turn \in 1..(LastTurn - 1) /\ UNCHANGED simVars
      BY <1>3, TmaDoes
  <2> QED BY <1>1, <2>1 DEF simVars
<1>4. ASSUME NEW c \in Names, NEW readings, AcaStep(c, readings)
      PROVE  traffic' = traffic /\ turn # 0
    BY <1>4, AcaDoes DEF simVars
<1>5. ASSUME NEW r \in Names, NEW done \in 0..Len(incidents[r]), NEW actions,
             RcaStep(r, done, actions)
      PROVE  traffic' = traffic /\ turn # 0
    BY <1>5, RcaDoes
<1>6. CASE PruneBegin \/ PruneNext \/ PruneEnd
    BY <1>1, <1>6 DEF PruneBegin, PruneNext, PruneEnd
<1>7. CASE UNCHANGED vars
    BY <1>7 DEF vars, simVars
<1> QED BY <1>2, <1>3, <1>4, <1>5, <1>6, <1>7 DEF Next

\* When it is a monitor's turn, only its own step ends that turn.
LEMMA MonitorTurn ==
    ASSUME Base, [Next]_vars, NEW s \in Names, turn = Place(0, s), turn' # turn
    PROVE  \E deviates \in BOOLEAN : TmaStep(s, deviates)
<1>1. /\ turn # 0 /\ turn # LastTurn /\ \A r \in Names : Place(0, r) = turn => r = s
      /\ \A r \in Names : Place(1, r) # turn /\ Place(2, r) # turn
  <2>1. /\ Place(0, s) \in 1..(LastTurn - 3) /\ LastTurn \in Nat
        /\ \A r \in Names : Place(0, r) = Place(0, s) => r = s
      BY Places3
  <2>2. \A r \in Names : Place(1, r) # Place(0, s) /\ Place(2, r) # Place(0, s)
      BY PlacesApart
  <2> QED BY <2>1, <2>2
<1>2. ASSUME NEW a \in scenario.attacks, NEW t \in ReadTimes, Inject(a, t) PROVE FALSE
    BY <1>2 DEF Inject
<1>3. ASSUME NEW r \in Names, NEW deviates \in BOOLEAN, TmaStep(r, deviates)
      PROVE  TmaStep(s, deviates)
  <2>1. turn = Place(0, r)
      BY <1>3, TmaDoes
  <2> QED BY <1>1, <1>3, <2>1
<1>4. ASSUME NEW c \in Names, NEW readings, AcaStep(c, readings) PROVE FALSE
    BY <1>1, <1>4, AcaDoes
<1>5. ASSUME NEW r \in Names, NEW done \in 0..Len(incidents[r]), NEW actions,
             RcaStep(r, done, actions)
      PROVE  FALSE
    BY <1>1, <1>5, RcaDoes
<1>6. ASSUME SimTick \/ PruneBegin \/ PruneNext \/ PruneEnd PROVE FALSE
    BY <1>1, <1>6 DEF SimTick, PruneBegin, PruneNext, PruneEnd
<1>7. ASSUME UNCHANGED vars PROVE FALSE
    BY <1>7 DEF vars
<1> QED BY <1>2, <1>3, <1>4, <1>5, <1>6, <1>7 DEF Next

\* New alerts only add to the log, and a baseline that warms up later warms up
\* under the attack.
LEMMA HandledStays ==
    ASSUME Base, [Next]_vars, NEW a \in injected, a.loud, Round >= Due(a), Handled(a)
    PROVE  Handled(a)'
<1> DEFINE s == a.segment
<1>1. /\ s \in Names /\ a.at_ms \in Nat /\ Due(a) = a.at_ms + Step
      /\ Step \in Nat /\ Step > 0 /\ now \in Nat /\ Round \in Nat /\ Round <= now
    BY InjectedOf, ShapeOf
<1>2. Grows /\ Warms(s)
    BY <1>1, Growing, BaselineSteps
<1>3. CASE Quarantined(s)
  <2>1. Quarantined(s)'
      BY <1>1, <1>2, <1>3 DEF Grows
  <2> QED BY <2>1 DEF Handled, Quarantined
<1>4. CASE AlertSeen(a)
  <2>1. PICK e \in Items(log) :
            /\ e.event_type = "ALERT_PUBLISHED" /\ e.agent_id = a.segment
            /\ e.wall_ms <= Due(a) /\ Due(a) - e.wall_ms < Cooldown
      BY <1>4 DEF AlertSeen
  <2>2. e \in Items(log')
      BY <1>2 DEF Grows, Extends, Items
  <2>3. AlertSeen(a)'
      BY <2>1, <2>2 DEF AlertSeen, Due
  <2> QED BY <2>3 DEF Handled, AlertSeen
<1>5. CASE ~(Warm(s) /\ Clean(s))
  <2> SUFFICES ASSUME Warm(s)', Clean(s)' PROVE FALSE
      BY DEF Handled, Warm, Clean
  <2>1. a \in injected' /\ injected \subseteq injected'
      BY <1>2 DEF Grows
  <2>2. \A b \in injected' : b.segment = s /\ b.loud => b.at_ms > baseline'[s].warm_ms
      BY DEF Clean
  <2>3. CASE Warm(s)
    <3>1. baseline'[s].warm_ms = baseline[s].warm_ms
        BY <1>2, <2>3 DEF Warms
    <3>2. Clean(s)
        BY <2>1, <2>2, <3>1 DEF Clean
    <3> QED BY <1>5, <2>3, <3>2
  <2>4. CASE ~Warm(s)
    <3>1. baseline'[s].warm_ms = now
        BY <1>2, <2>4 DEF Warms
    <3>2. a.at_ms > now
        BY <2>1, <2>2, <3>1
    <3> QED BY <1>1, <3>2
  <2> QED BY <2>3, <2>4
<1> QED BY <1>3, <1>4, <1>5 DEF Handled

\* The tick of the round that is due puts the attack into the traffic.
LEMMA WatchTick ==
    ASSUME Base, SimTick, NEW a \in injected, Big(a), Round = Due(a)
    PROVE  Quarantined(a.segment) \/ traffic'[a.segment] = "loud"
<1> DEFINE s == a.segment
<1> SUFFICES ASSUME ~Quarantined(s) PROVE traffic'[s] = "loud"
    OBVIOUS
<1>1. /\ s \in Names /\ a.at_ms \in Nat /\ a.duration_ms \in Nat
      /\ a.start_ms \in Nat /\ a.start_ms <= a.at_ms
      /\ Due(a) = a.at_ms + Step /\ Step \in Nat /\ LastTurn \in Nat /\ LastTurn # 0
    BY InjectedOf, ShapeOf, Turns
<1>2. turn = 0 /\ traffic' = [r \in Names |-> Overlay(r)]
    BY DEF SimTick
<1>3. Round = now /\ now \in Nat
    BY <1>1, <1>2, ShapeOf
<1>4. ~Elapsed(a) /\ Active(a, s)
    BY <1>1, <1>3 DEF Elapsed, Active, Big
<1>5. a \in Items(specs)
    BY <1>4 DEF Base, LossInv, NoAttackLost, Items
<1>6. PICK i \in DOMAIN specs : specs[i] = a
    BY <1>5 DEF Items
<1>7. i \in Malicious(s) /\ specs[i].loud
    BY <1>4, <1>6 DEF Malicious, Big
<1>8. Overlay(s) = "loud"
    BY <1>7 DEF Overlay
<1> QED BY <1>1, <1>2, <1>8

\* The monitor's step of that round alerts, or it cools down from an alert.
LEMMA WatchTma ==
    ASSUME SeenInv, [Next]_vars, NEW a \in injected, Big(a), Round = Due(a),
           Quarantined(a.segment) \/ traffic[a.segment] = "loud",
           NEW deviates \in BOOLEAN, TmaStep(a.segment, deviates)
    PROVE  Handled(a)'
<1> DEFINE s == a.segment
<1>0. Base /\ LogInv
    BY DEF SeenInv, LoggedInv, WaitInv
<1>1. /\ s \in Names /\ a.at_ms \in Nat /\ Due(a) = a.at_ms + Step
      /\ Step \in Nat /\ Step > 0 /\ a.loud /\ now \in Nat
    BY <1>0, InjectedOf, ShapeOf DEF Big
<1>2. /\ Round = now /\ UNCHANGED <<now, simVars, defenses>>
      /\ Alerts(s, deviates) => Logged(<<AlertPublished(s)>>)
      /\ Logged(<<>>) \/ Logged(<<AlertPublished(s)>>)
    BY <1>0, <1>1, TmaDoes
<1>3. Grows /\ Warms(s)
    BY <1>0, <1>1, Growing, BaselineSteps
<1>4. CASE Quarantined(s)
    BY <1>2, <1>4 DEF Handled, Quarantined
<1>5. CASE ~Quarantined(s)
  <2> SUFFICES ASSUME Warm(s)', Clean(s)' PROVE AlertSeen(a)'
      BY DEF Handled, Warm, Clean, AlertSeen
  <2>1. injected' = injected
      BY <1>2 DEF simVars
  <2>2. \A b \in injected : b.segment = s /\ b.loud => b.at_ms > baseline'[s].warm_ms
      BY <2>1 DEF Clean
  <2>3. Warm(s) /\ baseline'[s].warm_ms = baseline[s].warm_ms
    <3>1. ASSUME ~Warm(s) PROVE FALSE
      <4>1. baseline'[s].warm_ms = now
          BY <1>3, <3>1 DEF Warms
      <4>2. a.at_ms > now
          BY <1>1, <2>2, <4>1
      <4> QED BY <1>1, <1>2, <4>2
    <3> QED BY <1>3, <3>1 DEF Warms
  <2>4. ~baseline[s].polluted
    <3> SUFFICES ASSUME baseline[s].polluted PROVE FALSE
        OBVIOUS
    <3>1. LoudBy(s, baseline[s].warm_ms)
        BY <1>1, <2>3 DEF SeenInv
    <3>2. PICK b \in injected : b.segment = s /\ b.loud /\ b.at_ms <= baseline[s].warm_ms
        BY <3>1 DEF LoudBy
    <3>3. b.at_ms > baseline[s].warm_ms
        BY <2>2, <2>3, <3>2
    <3>4. b.at_ms \in Nat /\ baseline[s].warm_ms \in Nat
        BY <1>0, <1>1, <2>3, <3>2, InjectedOf DEF Base, Shape, Baselines
    <3> QED BY <3>2, <3>3, <3>4
  <2>5. deviates
    <3>1. deviates \in Deviates(s) /\ traffic[s] = "loud"
        BY <1>5 DEF TmaStep
    <3>2. Deviates(s) = {TRUE}
        BY <2>3, <2>4, <3>1 DEF Deviates
    <3> QED BY <3>1, <3>2
  <2>6. CASE Alerts(s, deviates)
    <3> DEFINE e == AlertPublished(s)
    <3>1. e.event_type = "ALERT_PUBLISHED" /\ e.agent_id = s /\ e.wall_ms = now
        BY AlertEvent
    <3>2. e \in Items(log')
      <4>1. 1 \in DOMAIN <<e>> /\ <<e>>[1] = e
          OBVIOUS
      <4>2. Len(log) + 1 \in New /\ log'[Len(log) + 1] = e
          BY <1>2, <2>6, <4>1 DEF Logged
      <4> QED BY <4>2 DEF New, Items
    <3>3. e.wall_ms <= Due(a) /\ Due(a) - e.wall_ms < Cooldown
      <4>1. Cooldown \in Nat /\ Cooldown > 0
          BY CooldownAssumption
      <4> HIDE DEF e
      <4> QED BY <1>1, <1>2, <3>1, <4>1
    <3> HIDE DEF e
    <3> QED BY <3>1, <3>2, <3>3 DEF AlertSeen, Due
  <2>7. CASE ~Alerts(s, deviates)
    <3>1. now - lastAlert[s] < Cooldown
        BY <2>5, <2>7 DEF Alerts, CoolingDown
    <3>2. lastAlert[s] # LongAgo
      <4>1. Cooldown \in Nat /\ Cooldown + LongAgo <= 0 /\ LongAgo \in Int
          BY CooldownAssumption, LongAgoIsPast
      <4> QED BY <1>1, <3>1, <4>1
    <3>3. PICK e \in Items(log) : /\ e.event_type = "ALERT_PUBLISHED" /\ e.agent_id = s
                                  /\ e.wall_ms = lastAlert[s]
        BY <1>1, <3>2 DEF SeenInv
    <3>4. e.wall_ms \in Nat /\ e.wall_ms <= Round
        BY <1>0, <3>3 DEF LogInv, EventOK
    <3>5. e \in Items(log')
        BY <1>3, <3>3 DEF Grows, Extends, Items
    <3>6. e.wall_ms <= Due(a) /\ Due(a) - e.wall_ms < Cooldown
        BY <1>2, <3>1, <3>3, <3>4
    <3> QED BY <3>3, <3>5, <3>6 DEF AlertSeen, Due
  <2> QED BY <2>6, <2>7
<1> QED BY <1>4, <1>5

LEMMA WatchTime ==
    ASSUME Base, Base', [Next]_vars, NEW a \in injected, a.at_ms \in {Round, now} \/ Round >= Due(a)
    PROVE  a.at_ms \in {Round', now'} \/ Round' >= Due(a)
<1>1. a.at_ms \in Nat /\ Due(a) = a.at_ms + Step
    BY InjectedOf
<1>2. /\ Step \in Nat /\ Step > 0 /\ now \in Nat /\ Round \in Nat
      /\ now = Round \/ now = Round + Step
  <2>1. pruning.next \in Nat
      BY ShapeOf
  <2> QED BY <2>1, ShapeOf
<1>3. now' = Round' \/ now' = Round' + Step
  <2>1. now' \in Nat
      BY DEF Base, LossInv, PruneOK
  <2>2. Step \in Nat
      BY <1>2
  <2>3. Round' = now' \/ Round' = now' - Step
      BY DEF Round
  <2> QED BY <2>1, <2>2, <2>3
<1>4. \/ Round' = Round /\ now' \in {now, now + Step}
      \/ Round' = Round + Step /\ now' = now
    BY Rounds
<1>5. a.at_ms = Round \/ a.at_ms = now \/ Round >= Due(a)
    OBVIOUS
<1>6. CASE Round' = Round /\ now' = now
    BY <1>6
<1>7. CASE Round' = Round /\ now' = now + Step
    BY <1>1, <1>2, <1>3, <1>5, <1>7
<1>8. CASE Round' = Round + Step /\ now' = now
    BY <1>1, <1>2, <1>3, <1>5, <1>8
<1> QED BY <1>4, <1>6, <1>7, <1>8

\* An attack is injected with its time, so it is due in a round to come.
LEMMA NewAttack ==
    ASSUME Base, Base', [Next]_vars, NEW a \in injected', a \notin injected
    PROVE  /\ a.at_ms = now' /\ UNCHANGED <<now, turn, pruning>>
           /\ a.at_ms \in Nat /\ Due(a) = a.at_ms + Step
<1>1. PICK x \in scenario.attacks, t \in ReadTimes : Inject(x, t)
  <2>1. ASSUME SimTick \/ PruneBegin \/ PruneNext \/ PruneEnd \/ UNCHANGED vars PROVE FALSE
      BY <2>1 DEF SimTick, PruneBegin, PruneNext, PruneEnd, vars, simVars
  <2>2. ASSUME NEW r \in Names, NEW deviates \in BOOLEAN, TmaStep(r, deviates) PROVE FALSE
      BY <2>2 DEF TmaStep, simVars
  <2>3. ASSUME NEW c \in Names, NEW readings, AcaStep(c, readings) PROVE FALSE
      BY <2>3 DEF AcaStep, simVars
  <2>4. ASSUME NEW r \in Names, NEW done, NEW actions, RcaStep(r, done, actions) PROVE FALSE
      BY <2>4 DEF RcaStep
  <2> QED BY <2>1, <2>2, <2>3, <2>4 DEF Next
<1>2. UNCHANGED <<now, turn, pruning>> /\ a.at_ms = now
    BY <1>1 DEF Inject
<1>3. now \in Nat
    BY ShapeOf
<1> QED BY <1>2, <1>3 DEF Due

\* Of an attack that was there, the promises of the round are kept.
LEMMA WatchOld ==
    ASSUME SeenInv, Base', [Next]_vars, NEW a \in injected, WatchOK(a)
    PROVE  WatchOK(a)'
<1> DEFINE s == a.segment
<1>0. Base /\ Base'
    BY DEF SeenInv, LoggedInv, WaitInv
<1>1. /\ s \in Names /\ a.at_ms \in Nat /\ Due(a) = a.at_ms + Step /\ Due(a) \in Nat
      /\ Step \in Nat /\ Step > 0 /\ turn \in Nat /\ Round \in Nat /\ Round <= now
      /\ LastTurn \in Nat /\ now \in Nat
    BY <1>0, InjectedOf, ShapeOf
<1>2. /\ Place(0, s) \in Nat /\ 0 < Place(0, s) /\ Place(0, s) < LastTurn
  <2>1. Place(0, s) \in 1..(LastTurn - 3)
      BY <1>1, Places3
  <2> QED BY <1>1, <2>1
<1>3. \/ Round' = Round /\ turn' \in {turn, turn + 1}
      \/ turn = LastTurn /\ turn' = 0 /\ Round' = Round + Step
    BY <1>0, Rounds
<1>4. a.at_ms \in {Round', now'} \/ Round' >= Due(a)
    BY <1>0, WatchTime DEF WatchOK
<1>5. ASSUME Big(a), Round' = Due(a), turn' \in 1..Place(0, s)
      PROVE  Quarantined(s)' \/ traffic'[s] = "loud"
  <2>1. Round = Due(a) /\ turn' \in {turn, turn + 1}
      BY <1>1, <1>3, <1>5
  <2>2. Quarantined(s) => Quarantined(s)'
      BY <1>0, <1>1, Growing DEF Grows
  <2>3. CASE SimTick
      BY <1>0, <1>5, <2>1, <2>2, <2>3, WatchTick
  <2>4. CASE ~SimTick
    <3>1. traffic' = traffic /\ turn # 0
        BY <1>0, <1>5, <2>4, TickOnly
    <3>2. turn \in 1..Place(0, s)
        BY <1>1, <1>2, <1>5, <2>1, <3>1
    <3>3. Quarantined(s) \/ traffic[s] = "loud"
        BY <1>5, <2>1, <3>2 DEF WatchOK
    <3> QED BY <2>2, <3>1, <3>3
  <2> QED BY <2>3, <2>4
<1>6. ASSUME Big(a), Round' > Due(a) \/ (Round' = Due(a) /\ turn' > Place(0, s))
      PROVE  Handled(a)'
  <2>1. a.loud
      BY <1>6 DEF Big
  <2>2. CASE Round > Due(a) \/ (Round = Due(a) /\ turn > Place(0, s))
    <3>1. Handled(a) /\ Round >= Due(a)
        BY <1>1, <1>6, <2>2 DEF WatchOK
    <3> QED BY <1>0, <2>1, <3>1, HandledStays
  <2>3. CASE ~(Round > Due(a) \/ (Round = Due(a) /\ turn > Place(0, s)))
    <3>1. Round' = Round /\ turn' \in {turn, turn + 1}
      <4>1. ASSUME turn = LastTurn, turn' = 0, Round' = Round + Step PROVE FALSE
        <5>1. Round' > Due(a)
            BY <1>2, <1>6, <4>1
        <5>2. Round < Due(a)
            BY <1>1, <1>2, <2>3, <4>1
        <5>3. a.at_ms \in {Round, now}
            BY <1>1, <5>2 DEF WatchOK
        <5> QED BY <1>1, <4>1, <5>1, <5>3
      <4> QED BY <1>3, <4>1
    <3>2. Round = Due(a) /\ turn = Place(0, s) /\ turn' # turn
        BY <1>1, <1>2, <1>6, <2>3, <3>1
    <3>3. PICK deviates \in BOOLEAN : TmaStep(s, deviates)
        BY <1>0, <1>1, <3>2, MonitorTurn
    <3>4. Quarantined(s) \/ traffic[s] = "loud"
      <4>1. turn \in 1..Place(0, s)
          BY <1>2, <3>2
      <4> QED BY <1>6, <3>2, <4>1 DEF WatchOK
    <3> QED BY <1>6, <3>2, <3>3, <3>4, WatchTma
  <2> QED BY <2>2, <2>3
<1> QED BY <1>4, <1>5, <1>6 DEF WatchOK, Big, Due, Place, Index, NSeg

LEMMA WatchStep == WatchInv /\ [Next]_vars => WatchInv'
<1> SUFFICES ASSUME WatchInv, [Next]_vars PROVE WatchInv'
    OBVIOUS
<1>1. SeenInv /\ SeenInv' /\ Base /\ Base'
  <2>1. SeenInv /\ SeenInv'
      BY SeenStep DEF WatchInv
  <2> QED BY <2>1 DEF SeenInv, LoggedInv, WaitInv
<1>2. ASSUME NEW a \in injected' PROVE WatchOK(a)'
  <2>1. CASE a \in injected
      BY <1>1, <2>1, WatchOld DEF WatchInv
  <2>2. CASE a \notin injected
    <3>1. /\ a.at_ms = now' /\ UNCHANGED <<now, turn, pruning>>
          /\ a.at_ms \in Nat /\ Due(a) = a.at_ms + Step
        BY <1>1, <2>2, NewAttack
    <3>2. Round' = Round /\ Round <= now /\ Round \in Nat /\ Step \in Nat /\ Step > 0
      <4>1. Round' = Round
          BY <3>1 DEF Round
      <4> QED BY <1>1, <4>1, ShapeOf
    <3>3. Round' < Due(a)
        BY <3>1, <3>2
    <3>4. ~(Round' = Due(a)) /\ ~(Round' > Due(a)) /\ a.at_ms \in {Round', now'}
        BY <3>1, <3>2, <3>3
    <3> QED BY <3>4 DEF WatchOK, Due
  <2> QED BY <2>1, <2>2
<1> QED BY <1>1, <1>2 DEF WatchInv

LEMMA WatchInit == Init => WatchInv
<1> SUFFICES ASSUME Init PROVE WatchInv
    OBVIOUS
<1>1. injected = {}
    BY DEF Init
<1> QED BY <1>1, SeenInit DEF WatchInv

\* FR-02: a loud attack is answered by an alert in the first round that surely
\* sees it.  tma/agent.py:59 keeps its baseline from samples that do not deviate,
\* and cools down after an alert; an isolated segment needs none.
THEOREM AttacksAreSeen == Spec => []AttackSeen
<1>1. ASSUME WatchInv PROVE AttackSeen
  <2> SUFFICES ASSUME NEW a \in injected,
                      a.loud, ~Quarantined(a.segment), now > Due(a),
                      a.duration_ms = 0 \/ a.start_ms + a.duration_ms >= Due(a),
                      Warm(a.segment), Clean(a.segment)
               PROVE  \E i \in AlertsOf(a.segment) :
                          log[i].wall_ms <= Due(a) /\ Due(a) - log[i].wall_ms < Cooldown
      BY DEF AttackSeen
  <2>1. WatchOK(a) /\ Big(a) /\ Base
      BY <1>1 DEF WatchInv, Big, SeenInv, LoggedInv, WaitInv
  <2>2. /\ a.segment \in Names /\ a.at_ms \in Nat /\ Due(a) = a.at_ms + Step
        /\ Round \in Nat /\ now \in Nat /\ Step \in Nat /\ Step > 0 /\ LastTurn \in Nat
        /\ pruning.next \in Nat /\ (pruning.next = 0 => Round = now)
        /\ (pruning.next > 0 => turn = LastTurn /\ now = Round + Step)
      BY <2>1, InjectedOf, ShapeOf
  <2>3. Place(0, a.segment) \in 1..(LastTurn - 3)
      BY <2>2, Places3
  <2>4. Round > Due(a) \/ (Round = Due(a) /\ turn > Place(0, a.segment))
    <3>1. CASE pruning.next = 0
        BY <2>2, <3>1
    <3>2. CASE pruning.next > 0
      <4>1. turn = LastTurn /\ now = Round + Step /\ turn > Place(0, a.segment)
          BY <2>2, <2>3, <3>2
      <4>2. Round >= Due(a)
          BY <2>1, <2>2, <4>1 DEF WatchOK
      <4> QED BY <2>2, <4>1, <4>2
    <3> QED BY <2>2, <3>1, <3>2
  <2>5. AlertSeen(a)
    <3>1. Handled(a)
        BY <2>1, <2>4 DEF WatchOK
    <3> QED BY <3>1 DEF Handled
  <2>6. PICK i \in DOMAIN log :
            /\ log[i].event_type = "ALERT_PUBLISHED" /\ log[i].agent_id = a.segment
            /\ log[i].wall_ms <= Due(a) /\ Due(a) - log[i].wall_ms < Cooldown
      BY <2>5 DEF AlertSeen, Items
  <2>7. "ALERT_PUBLISHED" \in Selectors
      BY DEF Selectors
  <2>8. i \in AlertsOf(a.segment)
      BY <2>6, <2>7, Selections DEF AlertsOf
  <2> QED BY <2>6, <2>8
<1> QED BY <1>1, WatchInit, WatchStep, PTL DEF Spec

=============================================================================
