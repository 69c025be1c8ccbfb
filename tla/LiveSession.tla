---------------------------- MODULE LiveSession ----------------------------
(***************************************************************************)
(* The run loop of the live session (live/session.py): rounds go on by     *)
(* themselves in auto mode and wait at a gate, an asyncio.Event, in step   *)
(* mode.  The control endpoints of live/app.py are plain functions: they   *)
(* run on worker threads and set the event while the loop's thread is      *)
(* anywhere in its round, inside Event.wait too.  Starting, stopping and   *)
(* connecting run on the loop's own thread, at its awaits.  A thread is    *)
(* switched out at calls only (CPython 3.11).                              *)
(*                                                                         *)
(* A name with an underscore is a wrong version of the definition it       *)
(* stands before; the properties are tested against it.                    *)
(***************************************************************************)
EXTENDS Integers

CONSTANTS
    Threads,       \* worker threads that serve control requests
    MaxRequests    \* bound: control requests

ASSUME RequestsAssumption == MaxRequests \in Nat

VARIABLES
    mode,       \* mode
    next,       \* the flag _value of the event _next
    woken,      \* the result of the loop's future in _next is set
    running,    \* _running
    awaiting,   \* awaiting_next
    pc,         \* where run() is
    pending,    \* threads between the two statements of set_mode("auto")
    shown,      \* the last simulation_state frame: mode and awaiting_next
    requests,   \* control requests served
    releases,   \* times _next was set
    passes,     \* times the loop went past the gate
    asked       \* Next was requested since the loop last went past the gate

vars == <<mode, next, woken, running, awaiting, pc, pending, shown, requests, releases,
          passes, asked>>

\* At the gate: about to look at the event, about to register a future, waiting
\* on it, or returned.
Gated == {"gate", "register", "wait", "pass"}
\* Where the loop's thread is free to run something else.
Awaits == {"new", "wait", "sleep", "done"}

Init ==
    /\ mode = "auto" /\ next = FALSE /\ woken = FALSE
    /\ running = FALSE /\ awaiting = FALSE
    /\ pc = "new"
    /\ pending = {}
    /\ shown = [mode |-> "none", awaiting |-> FALSE]
    /\ requests = 0 /\ releases = 0 /\ passes = 0
    /\ asked = FALSE

-----------------------------------------------------------------------------
(* Control requests *)

Request == requests < MaxRequests /\ requests' = requests + 1

\* asyncio.Event.set: nothing if the flag is up already; else the future that
\* is registered, if there is one, gets its result.
SetEvent ==
    /\ next' = TRUE
    /\ woken' = (woken \/ (~next /\ pc = "wait"))
    /\ releases' = releases + 1

SetStep ==
    /\ Request
    /\ mode' = "step"
    /\ UNCHANGED <<next, woken, running, awaiting, pc, pending, shown, releases,
                   passes, asked>>

SetAuto(w) ==
    /\ Request
    /\ w \notin pending
    /\ mode' = "auto"
    /\ pending' = pending \cup {w}
    /\ UNCHANGED <<next, woken, running, awaiting, pc, shown, releases, passes, asked>>

Release_Forgotten == UNCHANGED <<next, woken, releases>>
Release == SetEvent

\* set_mode("auto"), second statement: release any pending step gate.
ReleaseGate(w) ==
    /\ w \in pending
    /\ pending' = pending \ {w}
    /\ Release
    /\ UNCHANGED <<mode, running, awaiting, pc, shown, requests, passes, asked>>

RequestNext ==
    /\ Request
    /\ SetEvent
    /\ asked' = TRUE
    /\ UNCHANGED <<mode, running, awaiting, pc, pending, shown, passes>>

-----------------------------------------------------------------------------
(* On the loop's thread, at its awaits *)

ReleaseAtStop_Forgotten == UNCHANGED <<next, woken, releases>>
ReleaseAtStop == SetEvent

Stop ==
    /\ running /\ pc \in Awaits
    /\ running' = FALSE
    /\ ReleaseAtStop
    /\ UNCHANGED <<mode, awaiting, pc, pending, shown, requests, passes, asked>>

\* The application's shutdown stops the session and cancels the run task.
Shutdown ==
    /\ running /\ pc \in Awaits
    /\ running' = FALSE
    /\ pc' = "done"
    /\ next' = TRUE /\ releases' = releases + 1
    /\ woken' = FALSE
    /\ UNCHANGED <<mode, awaiting, pending, shown, requests, passes, asked>>

EmitStatus(waiting) == shown' = [mode |-> mode, awaiting |-> waiting]

\* ws_events sends a new dashboard a snapshot.
Connect ==
    /\ pc \in Awaits
    /\ EmitStatus(awaiting)
    /\ UNCHANGED <<mode, next, woken, running, awaiting, pc, pending, requests,
                   releases, passes, asked>>

-----------------------------------------------------------------------------
(* run: a round, the gate and the sleep between rounds *)

StartRun ==
    /\ pc = "new"
    /\ running' = TRUE
    /\ EmitStatus(awaiting)
    /\ pc' = "loop"
    /\ UNCHANGED <<mode, next, woken, awaiting, pending, requests, releases, passes,
                   asked>>

AtTop == pc \in {"loop", "sleep"}

Finish ==
    /\ AtTop /\ ~running
    /\ pc' = "done"
    /\ UNCHANGED <<mode, next, woken, running, awaiting, pending, shown, requests,
                   releases, passes, asked>>

ShownAtGate_Before == awaiting
ShownAtGate == TRUE

NextAtGate_Cleared == FALSE
NextAtGate == next

Gate ==
    /\ AtTop /\ running /\ mode = "step"
    /\ awaiting' = TRUE
    /\ EmitStatus(ShownAtGate)
    /\ next' = NextAtGate
    /\ pc' = "gate"
    /\ UNCHANGED <<mode, woken, running, pending, requests, releases, passes, asked>>

\* asyncio.Event.wait looks at the flag, ...
LookAtEvent ==
    /\ pc = "gate"
    /\ pc' = IF next THEN "pass" ELSE "register"
    /\ UNCHANGED <<mode, next, woken, running, awaiting, pending, shown, requests,
                   releases, passes, asked>>

\* ... and after a call, create_future(), adds a future to those set() wakes.
RegisterFuture ==
    /\ pc = "register"
    /\ pc' = "wait"
    /\ UNCHANGED <<mode, next, woken, running, awaiting, pending, shown, requests,
                   releases, passes, asked>>

NextAfterPass_Kept == next
NextAfterPass == FALSE

AwaitingAfterPass_Kept == awaiting
AwaitingAfterPass == FALSE

\* wait() returned: clear the event, and run one round unless the session stopped.
PassGate ==
    /\ pc = "pass" \/ (pc = "wait" /\ woken)
    /\ next' = NextAfterPass
    /\ woken' = FALSE
    /\ awaiting' = AwaitingAfterPass
    /\ passes' = passes + 1
    /\ asked' = FALSE
    /\ pc' = IF running THEN "round" ELSE "done"
    /\ UNCHANGED <<mode, running, pending, shown, requests, releases>>

SkipGate ==
    /\ AtTop /\ running /\ mode = "auto"
    /\ pc' = "round"
    /\ UNCHANGED <<mode, next, woken, running, awaiting, pending, shown, requests,
                   releases, passes, asked>>

\* tick_round ends with a status frame; sleep follows.
Round ==
    /\ pc = "round"
    /\ EmitStatus(awaiting)
    /\ pc' = "sleep"
    /\ UNCHANGED <<mode, next, woken, running, awaiting, pending, requests, releases,
                   passes, asked>>

RunStep ==
    \/ StartRun \/ Finish \/ Gate \/ LookAtEvent \/ RegisterFuture \/ PassGate
    \/ SkipGate \/ Round

Next ==
    \/ RunStep \/ Stop \/ Shutdown \/ Connect
    \/ SetStep \/ RequestNext
    \/ \E w \in Threads : SetAuto(w) \/ ReleaseGate(w)

Spec == Init /\ [][Next]_vars

\* The loop is scheduled, and a request that began ends.
Fairness == WF_vars(RunStep) /\ \A w \in Threads : WF_vars(ReleaseGate(w))
FairSpec == Spec /\ Fairness

-----------------------------------------------------------------------------
(* Properties *)

\* The shape of the session's state: awaiting_next says that the loop is at the
\* gate (until a shutdown), and it gets past the gate with the flag up only.
TypeOK ==
    /\ mode \in {"auto", "step"}
    /\ next \in BOOLEAN /\ woken \in BOOLEAN /\ running \in BOOLEAN
    /\ awaiting \in BOOLEAN /\ asked \in BOOLEAN
    /\ pc \in Gated \cup {"new", "loop", "round", "sleep", "done"}
    /\ pc # "done" => (awaiting <=> pc \in Gated)
    /\ (woken \/ pc = "pass") => next
    /\ pending \subseteq Threads
    /\ requests \in 0..MaxRequests
    /\ releases \in Nat /\ passes \in Nat

\* Every pass of the gate uses up a release of its own: one click on Next never
\* runs two rounds, however the request and the loop interleave.
OneRoundPerRelease == passes + (IF next THEN 1 ELSE 0) <= releases

\* While the loop waits for Next, the dashboards show that it does.
GateIsShown == pc \in Gated => shown.awaiting

\* session.py:72 "release any pending step gate": a release wakes the loop that
\* waits at the gate.
ReleaseWakes == (pc = "wait" /\ next) => woken

(* asyncio.Event is not for threads: a release that comes while wait() is   *)
(* between its look and its registration is lost.  The liveness of the gate *)
(* is stated for the behaviours without one.                                *)

\* A stop ends the loop wherever it is, at the gate included.
StopEnds == []ReleaseWakes => ((pc # "new" /\ ~running) ~> pc = "done")

\* Leaving step mode frees the gate: in auto mode rounds go on.
AutoAdvances ==
    []ReleaseWakes => (<>[](mode = "auto" /\ running) => []<>(pc = "round"))

\* Next is never forgotten by a loop at its gate: a round follows, or the loop
\* stops.
NextRunsRound ==
    []ReleaseWakes => ((asked /\ pc \in Gated) ~> (pc = "round" \/ pc = "done"))
=============================================================================
