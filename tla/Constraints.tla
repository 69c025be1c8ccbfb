---------------------------- MODULE Constraints ----------------------------
(***************************************************************************)
(* The FR checkers of validator/constraints.py, which grade a recorded     *)
(* event log PASS, FAIL or NA (not exercised).                             *)
(*                                                                         *)
(* An event is a record with the fields the checkers read.  Its payload is *)
(* the code's dict: a record that has only the keys that were logged.      *)
(* Floats are integers here: severities, scores and rates in hundredths,   *)
(* times in milliseconds.  `bids' is a dict, so it keeps insertion order:  *)
(* a sequence of <<bidder, value>>.                                        *)
(*                                                                         *)
(* A name with an underscore and a capital, as in FR11_AnyVote, is a wrong *)
(* version of the definition after it; the properties are tested on it.    *)
(***************************************************************************)
EXTENDS Integers, Sequences, FiniteSets, TLC

CONSTANT None    \* Python's None

\* The event types and signals that the checkers select by.
Selectors ==
    {"ALERT_PUBLISHED", "THREAT_CLASSIFIED", "ACTION_EXECUTED", "INCIDENT_RESOLVED",
     "VOTE_CAST", "COALITION_FORMED", "AUCTION_COMPLETED", "RESOURCE_ALLOCATED",
     "AGENT_FAILED", "response", "threat_model_update", "correlation", "reclaim",
     "baseline_update", "priority_list", "sampling", "rejection", "online_update",
     "attack_action", "coverage_reassigned"}

ASSUME NoneAssumption == None \notin STRING /\ None \notin Int /\ Selectors \subseteq STRING

Statuses == {"PASS", "FAIL", "NA"}

Get(e, key, default) == IF key \in DOMAIN e.payload THEN e.payload[key] ELSE default
Grade_NoNA(exercised, ok) == IF ~exercised THEN None ELSE IF ok THEN "PASS" ELSE "FAIL"
Grade(exercised, ok) == IF ~exercised THEN "NA" ELSE IF ok THEN "PASS" ELSE "FAIL"

-----------------------------------------------------------------------------
(* Selections are sets of positions of the log. *)

select(log, ofType, signal) ==
    {i \in DOMAIN log : /\ ofType = None \/ log[i].event_type = ofType
                        /\ signal = None \/ Get(log[i], "signal", None) = signal}

-----------------------------------------------------------------------------
(* Checker factories *)

latency_lt_Fastest(log, selected, bound) ==
    LET timed == {i \in selected : log[i].latency_ms # None}
    IN Grade(timed # {}, \E i \in timed : log[i].latency_ms < bound)
latency_lt(log, selected, bound) ==
    LET timed == {i \in selected : log[i].latency_ms # None}
    IN Grade(timed # {}, \A i \in timed : log[i].latency_ms < bound)

metric_cmp(metrics, ok) == Grade(metrics # None, ok)

all_match(selected, good) == Grade(selected # {}, selected \subseteq good)

\* The widest gap between neighbours, in the order of their time, of an agent's
\* events, or of all events.
max_interval_lte_FirstLast(log, selected, bound, perAgent) ==
    Grade(Cardinality(selected) >= 2,
          \A i, j \in selected : log[j].wall_ms - log[i].wall_ms <= bound)
max_interval_lte(log, selected, bound, perAgent) ==
    LET After(i) == {j \in selected : /\ log[j].wall_ms > log[i].wall_ms
                                      /\ perAgent => log[j].agent_id = log[i].agent_id}
    IN Grade(Cardinality(selected) >= 2,
             \A i \in selected :
                 After(i) # {} =>
                     \E j \in After(i) : log[j].wall_ms - log[i].wall_ms <= bound)

-----------------------------------------------------------------------------
(* Latencies and intervals *)

FR03(log) == latency_lt(log, select(log, "ALERT_PUBLISHED", None), 100)
FR05(log) == latency_lt(log, select(log, "THREAT_CLASSIFIED", None), 200)
FR10(log) ==
    latency_lt(log, {i \in select(log, "ACTION_EXECUTED", "response") :
                        Get(log[i], "severity", 0) >= 70}, 500)
FR15(log) == latency_lt(log, select(log, "ACTION_EXECUTED", "threat_model_update"), 500)
FR16(log) == latency_lt(log, select(log, "ACTION_EXECUTED", "correlation"), 1000)
FR19(log) == latency_lt(log, select(log, "AUCTION_COMPLETED", None), 300)
FR22(log) == latency_lt(log, select(log, "RESOURCE_ALLOCATED", "reclaim"), 500)

FR04(log) == max_interval_lte(log, select(log, None, "baseline_update"), 60000, TRUE)
FR18(log) == max_interval_lte(log, select(log, None, "priority_list"), 1000, FALSE)

-----------------------------------------------------------------------------
(* Metrics, in ten-thousandths (compute_metrics rounds to four digits) *)

FR09(metrics) == metric_cmp(metrics, metrics.fpr < 1000)
FR23(metrics) == metric_cmp(metrics, metrics.resource_overhead < 4000)
FR29(metrics) == metric_cmp(metrics, metrics.dr >= 9000)
FR30(metrics) == metric_cmp(metrics, metrics.mttr_response_ms < 1000)
FR31(metrics) == metric_cmp(metrics, metrics.availability > 9900)
\* Fewer than five incidents do not exercise the requirement.
FR33(metrics) == Grade(metrics # None /\ metrics.concurrent_incidents >= 5, TRUE)

-----------------------------------------------------------------------------
(* Every event of a kind satisfies a predicate *)

FR02(log) ==
    LET alerts == select(log, "ALERT_PUBLISHED", None)
    IN all_match(alerts, {i \in alerts : Get(log[i], "deviation_score", 0) >= 200})

Classified(log, kinds) ==
    {i \in select(log, "THREAT_CLASSIFIED", None) :
        Get(log[i], "classification", None) \in kinds}
FR06(log) ==
    LET confirmed == Classified(log, {"CONFIRMED_THREAT"})
    IN all_match(confirmed, {i \in confirmed : Get(log[i], "severity", -1) \in 0..100})
FR07(log) ==
    LET threats == Classified(log, {"CONFIRMED_THREAT", "SUSPICIOUS"})
    IN all_match(threats, {i \in threats : Get(log[i], "reported", FALSE)})

Responses(log) == select(log, "ACTION_EXECUTED", "response")
FR12(log) ==
    all_match(Responses(log), {i \in Responses(log) : log[i].decision_trace})
FR13(log) ==
    all_match(Responses(log),
              {i \in Responses(log) : Get(log[i], "proportionality_score", 0) >= 70})

FR14(log) ==
    LET resolved == select(log, "INCIDENT_RESOLVED", None)
    IN all_match(resolved, {i \in resolved : Get(log[i], "resolution_id", None) # None})
FR21(log) ==
    LET auctions == select(log, "AUCTION_COMPLETED", None)
    IN all_match(auctions,
                 {i \in auctions : Get(log[i], "notify_latency_ms", 1000000000) < 100})
FR32(log) ==
    LET rejections == select(log, "ACTION_EXECUTED", "rejection")
    IN all_match(rejections, {i \in rejections : Get(log[i], "reason", "") # ""})

-----------------------------------------------------------------------------
(* Checkers of their own *)

FR01(log) ==
    LET sampling == select(log, None, "sampling")
    IN Grade(sampling # {}, \A i \in sampling : Get(log[i], "sample_rate_hz", 0) >= 10)

\* Order is not asked for: an update before the resolution counts.
FR08(log) ==
    Grade(select(log, "INCIDENT_RESOLVED", None) # {},
          select(log, None, "online_update") # {})

\* A quarantine is authorised by a majority vote of its vote_id, logged before
\* it or after.
FR11_AnyVote(log) ==
    LET quarantines == {i \in select(log, "ACTION_EXECUTED", None) :
                           Get(log[i], "action", None) = "QUARANTINE"}
        decided == {Get(log[j], "vote_id", None) : j \in select(log, "VOTE_CAST", None)}
    IN Grade(quarantines # {},
             \A i \in quarantines : Get(log[i], "vote_id", None) \in decided)
FR11(log) ==
    LET quarantines == {i \in select(log, "ACTION_EXECUTED", None) :
                           Get(log[i], "action", None) = "QUARANTINE"}
        majority == {Get(log[j], "vote_id", None) : j \in
                        {k \in select(log, "VOTE_CAST", None) :
                            2 * Get(log[k], "accept_count", 0)
                                > Get(log[k], "member_count", 0)}}
    IN Grade(quarantines # {},
             \A i \in quarantines : Get(log[i], "vote_id", None) \in majority)

\* Any coalition will do for any correlation.
FR17(log) ==
    LET correlated == {i \in select(log, None, "correlation") :
                          Cardinality(Get(log[i], "segments", {})) >= 2}
    IN Grade(correlated # {}, select(log, "COALITION_FORMED", None) # {})

\* The bidders in the first `slots' places, by value; equal values keep the
\* order of the dict, for the sort is stable.
Outranks(bids, j, k) == bids[j][2] > bids[k][2] \/ (bids[j][2] = bids[k][2] /\ j < k)
TopBidders_AllTies(bids, slots) ==
    {bids[i][1] : i \in {k \in DOMAIN bids :
        Cardinality({j \in DOMAIN bids : bids[j][2] > bids[k][2]}) < slots}}
TopBidders(bids, slots) ==
    {bids[i][1] : i \in {k \in DOMAIN bids :
        Cardinality({j \in DOMAIN bids : Outranks(bids, j, k)}) < slots}}
FR20(log) ==
    LET auctions == select(log, "AUCTION_COMPLETED", None)
    IN all_match(auctions,
          {i \in auctions : Get(log[i], "granted", {}) =
              TopBidders(Get(log[i], "bids", <<>>), Get(log[i], "slots", 0))})

AttackActions(log, attackType) ==
    {i \in select(log, None, "attack_action") :
        Get(log[i], "attack_type", None) = attackType}
FR24(log) ==
    LET ddos == AttackActions(log, "DDOS")
    IN all_match(ddos, {i \in ddos :
          Cardinality(Get(log[i], "src_ips", {})) >= Get(log[i], "min_unique_ips", 20)})
Sorted(s) == \A i \in 1..(Len(s) - 1) : s[i] <= s[i + 1]
FR25(log) ==
    LET scans == AttackActions(log, "PORT_SCAN")
    IN all_match(scans, {i \in scans : ~Sorted(Get(log[i], "ports", <<>>))})
FR26(log) ==
    Grade(AttackActions(log, "ZERO_DAY") # {},
          \E i \in select(log, "THREAT_CLASSIFIED", None) :
              Get(log[i], "attack_type", None) \in {"NOVEL", "ZERO_DAY"})
FR27(log) == Grade(select(log, None, "attack_action") # {}, TRUE)
\* Coordinated attackers act within 50 ms; independent ones are not measured.
FR28(log) ==
    LET actions == select(log, None, "attack_action")
        coordinated == {i \in actions : Get(log[i], "mode", None) = "coordinated"}
    IN Grade(actions # {},
             \A i, j \in coordinated : log[i].wall_ms - log[j].wall_ms < 50)

\* Coverage of a failed agent's segment passes to somebody within 2 s: the
\* first reassignment of that segment after the failure counts.
FR34(log) ==
    LET failures == select(log, "AGENT_FAILED", None)
        Reassigned(i) == {j \in select(log, None, "coverage_reassigned") :
                             /\ Get(log[j], "segment", None) = Get(log[i], "segment", None)
                             /\ log[j].wall_ms >= log[i].wall_ms}
    IN Grade(failures # {},
             \A i \in failures :
                 \E j \in Reassigned(i) : log[j].wall_ms - log[i].wall_ms <= 2000)

-----------------------------------------------------------------------------
LogGrades(log) ==
    [FR01 |-> FR01(log), FR02 |-> FR02(log), FR03 |-> FR03(log), FR04 |-> FR04(log),
     FR05 |-> FR05(log), FR06 |-> FR06(log), FR07 |-> FR07(log), FR08 |-> FR08(log),
     FR10 |-> FR10(log), FR11 |-> FR11(log), FR12 |-> FR12(log), FR13 |-> FR13(log),
     FR14 |-> FR14(log), FR15 |-> FR15(log), FR16 |-> FR16(log), FR17 |-> FR17(log),
     FR18 |-> FR18(log), FR19 |-> FR19(log), FR20 |-> FR20(log), FR21 |-> FR21(log),
     FR22 |-> FR22(log), FR24 |-> FR24(log), FR25 |-> FR25(log), FR26 |-> FR26(log),
     FR27 |-> FR27(log), FR28 |-> FR28(log), FR32 |-> FR32(log), FR34 |-> FR34(log)]
MetricGrades(metrics) ==
    [FR09 |-> FR09(metrics), FR23 |-> FR23(metrics), FR29 |-> FR29(metrics),
     FR30 |-> FR30(metrics), FR31 |-> FR31(metrics), FR33 |-> FR33(metrics)]
check_all(log, metrics) == LogGrades(log) @@ MetricGrades(metrics)
=============================================================================
