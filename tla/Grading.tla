------------------------------ MODULE Grading ------------------------------
(***************************************************************************)
(* A scenario's event log as it grows (InMemorySink of                     *)
(* common/logging/event_log.py), and what the verdicts of the FR checkers  *)
(* mean for it.  One clock stamps all events, so stamps never decrease.    *)
(***************************************************************************)
EXTENDS Constraints

CONSTANTS
    Kinds,      \* the events agents may log, without their stamp
    Stamps,     \* the times at which they may log them
    MaxEvents   \* bound on the length of the log

ASSUME BoundsAssumption == MaxEvents \in Nat /\ Stamps \subseteq Nat

\* What the agents put into an event: an executed action alone may be a
\* quarantine, a vote comes with its id and its counts, an auction with its
\* bids, one per bidder, its slots and its winners.
WellFormed(e) ==
    /\ {"event_type", "payload"} \subseteq DOMAIN e
    /\ Get(e, "action", None) = "QUARANTINE" => e.event_type = "ACTION_EXECUTED"
    /\ e.event_type = "VOTE_CAST" =>
          {"vote_id", "accept_count", "member_count"} \subseteq DOMAIN e.payload
    /\ e.event_type = "AUCTION_COMPLETED" =>
          LET p == e.payload
          IN /\ {"bids", "slots", "granted"} \subseteq DOMAIN p
             /\ p.bids \in Seq(STRING \X Int) /\ p.slots \in Nat
             /\ \A j, k \in DOMAIN p.bids : p.bids[j][1] = p.bids[k][1] => j = k
ASSUME KindsAssumption == \A e \in Kinds : WellFormed(e)

VARIABLE log

Init == log = <<>>

Stamped(e, t) == [x \in DOMAIN e \cup {"wall_ms"} |-> IF x = "wall_ms" THEN t ELSE e[x]]
Write(e, t) ==
    /\ Len(log) < MaxEvents
    /\ log # <<>> => t >= log[Len(log)].wall_ms
    /\ log' = Append(log, Stamped(e, t))

Next == \E e \in Kinds, t \in Stamps : Write(e, t)
Spec == Init /\ [][Next]_log

-----------------------------------------------------------------------------
(* Properties *)

TypeOK ==
    /\ Len(log) <= MaxEvents
    /\ LET grades == LogGrades(log)
       IN \A fr \in DOMAIN grades : grades[fr] \in Statuses

\* The requirements that a later event can still meet: somebody must learn,
\* vote, form a coalition, recognise the zero-day or take over.
Open == {"FR08", "FR11", "FR17", "FR26", "FR34"}

\* A run that goes on cannot talk its way out of a violation: once a checker of
\* any other requirement says FAIL it says so for every longer log, and no
\* checker ever takes a requirement for not exercised again.
FailuresStick ==
    [][LET before == LogGrades(log)
           after == LogGrades(log')
       IN \A fr \in DOMAIN before :
             /\ before[fr] # "NA" => after[fr] # "NA"
             /\ (before[fr] = "FAIL" /\ fr \notin Open) => after[fr] = "FAIL"]_log

\* FR-18 against its words, a list every second: from the first list to the
\* last there is, at every moment, one less than a second old.
Moments == Stamps \cup {t - 1 : t \in Stamps}
FreshList(lists, t) == \E i \in lists : t - 1000 < log[i].wall_ms /\ log[i].wall_ms <= t
FreshListsGraded ==
    LET lists == select(log, None, "priority_list")
        first == CHOOSE i \in lists : \A j \in lists : log[i].wall_ms <= log[j].wall_ms
        last == CHOOSE i \in lists : \A j \in lists : log[i].wall_ms >= log[j].wall_ms
    IN FR18(log) # "NA" =>
          (FR18(log) = "PASS"
              <=> \A t \in {t \in Moments : log[first].wall_ms <= t /\ t <= log[last].wall_ms} :
                     FreshList(lists, t))

\* FR-20 against its words, the highest severities win: an auction that is
\* graded PASS granted as many slots as it could, and no bidder it turned away
\* bid more than one it served.
GrantsAreTopBids ==
    \A i \in DOMAIN log :
        (log[i].event_type = "AUCTION_COMPLETED" /\ FR20(log) = "PASS") =>
            LET p == log[i].payload
            IN /\ Cardinality(p.granted) =
                     IF p.slots < Len(p.bids) THEN p.slots ELSE Len(p.bids)
               /\ \A j, k \in DOMAIN p.bids :
                     (p.bids[j][1] \in p.granted /\ p.bids[k][1] \notin p.granted)
                         => p.bids[j][2] >= p.bids[k][2]

\* FR-11 for the scenario as a whole: as long as it is not FAIL, every
\* quarantine has a vote of its own id that more than half of the members
\* accepted, however many failed votes of other ids there are.
QuarantinesHaveMajority ==
    FR11(log) # "FAIL" =>
        \A i \in DOMAIN log : Get(log[i], "action", None) = "QUARANTINE" =>
            \E j \in DOMAIN log :
                /\ log[j].event_type = "VOTE_CAST"
                /\ log[j].payload.vote_id = Get(log[i], "vote_id", None)
                /\ 2 * log[j].payload.accept_count > log[j].payload.member_count
=============================================================================
