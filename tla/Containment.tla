---------------------------- MODULE Containment ----------------------------
(***************************************************************************)
(* What the response side of the system promises of a network, with        *)
(* neither agents nor messages: a segment is touched only after a          *)
(* confirmed, severe threat to it was reported; it is isolated only once   *)
(* its coalition has granted that; and isolation is the last thing that is *)
(* done to it.  Every step is one segment's, so segments never wait for    *)
(* one another.  ResponseCoordinator implements this specification.        *)
(***************************************************************************)
CONSTANTS
    Segments,  \* the segments of the network
    Measures   \* what may be done to a segment short of isolating it

VARIABLES
    alarmed,   \* the segments with a reported threat that must be answered
    granted,   \* the segments whose coalition has agreed to isolate them
    defenses   \* segment -> what has been done to it

Isolated(s) == "QUARANTINE" \in defenses[s]

Init ==
    /\ alarmed = {}
    /\ granted = {}
    /\ defenses = [s \in Segments |-> {}]

Alarm(s) ==
    /\ alarmed' = alarmed \cup {s}
    /\ UNCHANGED <<granted, defenses>>

Grant(s) ==
    /\ s \in alarmed
    /\ ~Isolated(s)
    /\ granted' = granted \cup {s}
    /\ UNCHANGED <<alarmed, defenses>>

Defend(s, measure) ==
    /\ s \in alarmed
    /\ ~Isolated(s)
    /\ defenses' = [defenses EXCEPT ![s] = @ \cup {measure}]
    /\ UNCHANGED <<alarmed, granted>>

Isolate(s) ==
    /\ s \in granted
    /\ ~Isolated(s)
    /\ defenses' = [defenses EXCEPT ![s] = @ \cup {"QUARANTINE"}]
    /\ UNCHANGED <<alarmed, granted>>

Next ==
    \E s \in Segments :
        \/ Alarm(s) \/ Grant(s) \/ Isolate(s)
        \/ \E measure \in Measures : Defend(s, measure)

Spec == Init /\ [][Next]_<<alarmed, granted, defenses>>
=============================================================================
