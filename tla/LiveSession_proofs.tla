------------------------ MODULE LiveSession_proofs -------------------------
(***************************************************************************)
(* What the gate of the live session guarantees for any number of threads  *)
(* and of control requests.                                                *)
(***************************************************************************)
EXTENDS LiveSession, TLAPS

LEMMA TypeInit == Init => TypeOK
<1> SUFFICES ASSUME Init PROVE TypeOK
    OBVIOUS
<1>1. mode \in {"auto", "step"} /\ next \in BOOLEAN /\ woken \in BOOLEAN
    BY DEF Init
<1>2. running \in BOOLEAN /\ awaiting \in BOOLEAN /\ asked \in BOOLEAN
    BY DEF Init
<1>3. /\ pc \in Gated \cup {"new", "loop", "round", "sleep", "done"}
      /\ pc # "done" => (awaiting <=> pc \in Gated)
      /\ (woken \/ pc = "pass") => next
    BY DEF Init, Gated
<1>4. /\ pending \subseteq Threads
      /\ requests \in 0..MaxRequests /\ releases \in Nat /\ passes \in Nat
    BY RequestsAssumption DEF Init
<1> QED BY <1>1, <1>2, <1>3, <1>4 DEF TypeOK

\* The parts of TypeOK, each with the variables it reads.
Flags ==
    /\ next \in BOOLEAN /\ woken \in BOOLEAN /\ running \in BOOLEAN
    /\ awaiting \in BOOLEAN /\ asked \in BOOLEAN
Place ==
    /\ pc \in Gated \cup {"new", "loop", "round", "sleep", "done"}
    /\ pc # "done" => (awaiting <=> pc \in Gated)
Raised == (woken \/ pc = "pass") => next
Counts ==
    /\ mode \in {"auto", "step"} /\ pending \subseteq Threads
    /\ requests \in 0..MaxRequests /\ releases \in Nat /\ passes \in Nat

LEMMA TypeParts == TypeOK <=> Flags /\ Place /\ Raised /\ Counts
BY DEF TypeOK, Flags, Place, Raised, Counts

\* A release keeps the flags Boolean and the flag up for whoever it wakes.
LEMMA SetEventFacts ==
    ASSUME TypeOK, SetEvent, pc' = pc
    PROVE  next' /\ next' \in BOOLEAN /\ woken' \in BOOLEAN /\ Raised' /\ releases' \in Nat
BY DEF TypeOK, SetEvent, Raised

LEMMA StepFlags == TypeOK /\ [Next]_vars => Flags'
<1> SUFFICES ASSUME TypeOK, [Next]_vars PROVE Flags'
    OBVIOUS
<1> USE DEF TypeOK, Flags
<1>1. CASE UNCHANGED vars
    BY <1>1 DEF vars
<1>2. CASE StartRun
    BY <1>2 DEF StartRun
<1>3. CASE Gate
    BY <1>3 DEF Gate, NextAtGate
<1>4. CASE PassGate
    BY <1>4 DEF PassGate, NextAfterPass, AwaitingAfterPass
<1>5. CASE Finish \/ LookAtEvent \/ RegisterFuture \/ SkipGate \/ Round
    BY <1>5 DEF Finish, LookAtEvent, RegisterFuture, SkipGate, Round
<1>6. CASE Stop
    BY <1>6, SetEventFacts DEF Stop, ReleaseAtStop
<1>7. CASE Shutdown
    BY <1>7 DEF Shutdown
<1>8. CASE Connect \/ SetStep
    BY <1>8 DEF Connect, SetStep
<1>9. CASE RequestNext
    BY <1>9, SetEventFacts DEF RequestNext
<1>10. ASSUME NEW w \in Threads, SetAuto(w) \/ ReleaseGate(w) PROVE Flags'
    BY <1>10, SetEventFacts DEF SetAuto, ReleaseGate, Release
<1> QED BY <1>1, <1>2, <1>3, <1>4, <1>5, <1>6, <1>7, <1>8, <1>9, <1>10 DEF Next, RunStep

LEMMA StepPlace == TypeOK /\ [Next]_vars => Place'
<1> SUFFICES ASSUME TypeOK, [Next]_vars PROVE Place'
    OBVIOUS
<1> USE DEF TypeOK, Place, Gated
<1>1. CASE UNCHANGED <<pc, awaiting>>
    BY <1>1
<1>2. CASE StartRun
    BY <1>2 DEF StartRun
<1>3. CASE Finish \/ Shutdown
    BY <1>3 DEF Finish, Shutdown
<1>4. CASE Gate
    BY <1>4 DEF Gate
<1>5. CASE LookAtEvent \/ RegisterFuture
    BY <1>5 DEF LookAtEvent, RegisterFuture
<1>6. CASE PassGate
    BY <1>6 DEF PassGate, AwaitingAfterPass
<1>7. CASE SkipGate \/ Round
    BY <1>7 DEF SkipGate, Round, AtTop
<1>8. ASSUME ~RunStep, ~Shutdown PROVE UNCHANGED <<pc, awaiting>>
    BY <1>8 DEF Next, Stop, Connect, SetStep, RequestNext, SetAuto, ReleaseGate, vars
<1> QED BY <1>1, <1>2, <1>3, <1>4, <1>5, <1>6, <1>7, <1>8 DEF RunStep

LEMMA StepRaised == TypeOK /\ [Next]_vars => Raised'
<1> SUFFICES ASSUME TypeOK, [Next]_vars PROVE Raised'
    OBVIOUS
<1> USE DEF TypeOK, Raised, Gated
<1>1. CASE UNCHANGED vars
    BY <1>1 DEF vars
<1>2. CASE Gate
    BY <1>2 DEF Gate, NextAtGate
<1>3. CASE LookAtEvent
    BY <1>3 DEF LookAtEvent
<1>4. CASE PassGate
    BY <1>4 DEF PassGate
<1>5. CASE StartRun \/ Finish \/ RegisterFuture \/ SkipGate \/ Round
    BY <1>5 DEF StartRun, Finish, RegisterFuture, SkipGate, Round
<1>6. CASE Stop
    BY <1>6, SetEventFacts DEF Stop, ReleaseAtStop
<1>7. CASE Shutdown
    BY <1>7 DEF Shutdown
<1>8. CASE Connect \/ SetStep
    BY <1>8 DEF Connect, SetStep
<1>9. CASE RequestNext
    BY <1>9, SetEventFacts DEF RequestNext
<1>10. ASSUME NEW w \in Threads, SetAuto(w) \/ ReleaseGate(w) PROVE Raised'
    BY <1>10, SetEventFacts DEF SetAuto, ReleaseGate, Release
<1> QED BY <1>1, <1>2, <1>3, <1>4, <1>5, <1>6, <1>7, <1>8, <1>9, <1>10 DEF Next, RunStep

LEMMA StepCounts == TypeOK /\ [Next]_vars => Counts'
<1> SUFFICES ASSUME TypeOK, [Next]_vars PROVE Counts'
    OBVIOUS
<1> USE RequestsAssumption DEF TypeOK, Counts
<1>1. CASE UNCHANGED vars
    BY <1>1 DEF vars
<1>2. CASE StartRun \/ Finish \/ Gate \/ LookAtEvent \/ RegisterFuture \/ SkipGate \/ Round
    BY <1>2 DEF StartRun, Finish, Gate, LookAtEvent, RegisterFuture, SkipGate, Round
<1>3. CASE PassGate
    BY <1>3 DEF PassGate
<1>4. CASE Stop \/ Shutdown
    BY <1>4 DEF Stop, ReleaseAtStop, SetEvent, Shutdown
<1>5. CASE Connect
    BY <1>5 DEF Connect
<1>6. CASE SetStep \/ RequestNext
    BY <1>6 DEF SetStep, RequestNext, Request, SetEvent
<1>7. ASSUME NEW w \in Threads, SetAuto(w) PROVE Counts'
    BY <1>7 DEF SetAuto, Request
<1>8. ASSUME NEW w \in Threads, ReleaseGate(w) PROVE Counts'
    BY <1>8 DEF ReleaseGate, Release, SetEvent
<1> QED BY <1>1, <1>2, <1>3, <1>4, <1>5, <1>6, <1>7, <1>8 DEF Next, RunStep

LEMMA TypeStep == TypeOK /\ [Next]_vars => TypeOK'
<1> SUFFICES ASSUME TypeOK, [Next]_vars PROVE TypeOK'
    OBVIOUS
<1>1. Flags' /\ Place' /\ Raised' /\ Counts'
    BY StepFlags, StepPlace, StepRaised, StepCounts
<1>2. (TypeOK <=> Flags /\ Place /\ Raised /\ Counts)'
    BY TypeParts, PTL
<1> QED BY <1>1, <1>2

\* The session's state keeps its shape: awaiting_next says that the loop is at
\* its gate, and the loop returns from the event's wait with the flag up only
\* (live/session.py run).
THEOREM TypeCorrect == Spec => []TypeOK
BY TypeInit, TypeStep, PTL DEF Spec

-----------------------------------------------------------------------------
LEMMA ReleaseInit == Init => OneRoundPerRelease
BY DEF Init, OneRoundPerRelease

\* Only PassGate counts a pass, and it clears a flag that was up; every step
\* that raises the flag counts a release.
LEMMA ReleaseStep == TypeOK /\ OneRoundPerRelease /\ [Next]_vars => OneRoundPerRelease'
<1> SUFFICES ASSUME TypeOK, OneRoundPerRelease, [Next]_vars PROVE OneRoundPerRelease'
    OBVIOUS
<1> USE DEF TypeOK, OneRoundPerRelease
<1>1. CASE UNCHANGED <<next, passes, releases>>
    BY <1>1
<1>2. CASE PassGate
  <2>1. next
    BY <1>2 DEF PassGate
  <2> QED BY <1>2, <2>1 DEF PassGate, NextAfterPass
<1>3. CASE passes' = passes /\ releases' = releases + 1
    BY <1>3
<1>4. CASE Stop \/ Shutdown \/ RequestNext
    BY <1>3, <1>4 DEF Stop, Shutdown, RequestNext, ReleaseAtStop, SetEvent
<1>5. ASSUME NEW w \in Threads, ReleaseGate(w) PROVE OneRoundPerRelease'
    BY <1>3, <1>5 DEF ReleaseGate, Release, SetEvent
<1>6. ASSUME ~PassGate, ~Stop, ~Shutdown, ~RequestNext, \A w \in Threads : ~ReleaseGate(w)
      PROVE  UNCHANGED <<next, passes, releases>>
    BY <1>6 DEF Next, RunStep, StartRun, Finish, Gate, NextAtGate, LookAtEvent,
                RegisterFuture, SkipGate, Round, Connect, SetStep, SetAuto, vars
<1> QED BY <1>1, <1>2, <1>4, <1>5, <1>6

\* One release of the gate lets one round through, for any number of requests
\* and any interleaving of them with the loop (live/session.py run, set_mode,
\* request_next, stop).
THEOREM OneRoundPerReleaseHolds == Spec => []OneRoundPerRelease
<1>1. Init => TypeOK /\ OneRoundPerRelease
    BY TypeInit, ReleaseInit
<1>2. TypeOK /\ OneRoundPerRelease /\ [Next]_vars => (TypeOK /\ OneRoundPerRelease)'
    BY TypeStep, ReleaseStep
<1> QED BY <1>1, <1>2, PTL DEF Spec

-----------------------------------------------------------------------------
LEMMA ShownStep == TypeOK /\ GateIsShown /\ [Next]_vars => GateIsShown'
<1> SUFFICES ASSUME TypeOK, GateIsShown, [Next]_vars PROVE GateIsShown'
    OBVIOUS
<1> USE DEF TypeOK, GateIsShown, EmitStatus, Gated
<1>1. CASE UNCHANGED <<pc, shown>>
    BY <1>1
<1>2. CASE Gate
    BY <1>2 DEF Gate, ShownAtGate
<1>3. CASE LookAtEvent \/ RegisterFuture
    BY <1>3 DEF LookAtEvent, RegisterFuture
<1>4. CASE Connect
  <2>1. pc' \in Gated => awaiting
    BY <1>4 DEF Connect
  <2>2. shown'.awaiting = awaiting
    BY <1>4 DEF Connect
  <2> QED BY <2>1, <2>2
<1>5. ASSUME StartRun \/ Finish \/ PassGate \/ SkipGate \/ Round \/ Shutdown
      PROVE  pc' \notin Gated
    BY <1>5 DEF StartRun, Finish, PassGate, SkipGate, Round, Shutdown
<1>6. ASSUME ~RunStep, ~Connect, ~Shutdown PROVE UNCHANGED <<pc, shown>>
    BY <1>6 DEF Next, Stop, SetStep, RequestNext, SetAuto, ReleaseGate, vars
<1> QED BY <1>1, <1>2, <1>3, <1>4, <1>5, <1>6 DEF RunStep

\* While the loop waits for Next every dashboard's last status frame says so
\* (live/session.py run, live/app.py ws_events).
THEOREM GateIsShownHolds == Spec => []GateIsShown
<1>1. Init => TypeOK /\ GateIsShown
    BY TypeInit DEF Init, GateIsShown, Gated
<1>2. TypeOK /\ GateIsShown /\ [Next]_vars => (TypeOK /\ GateIsShown)'
    BY TypeStep, ShownStep
<1> QED BY <1>1, <1>2, PTL DEF Spec
=============================================================================
