--------------------------- MODULE Grading_proofs ---------------------------
(***************************************************************************)
(* What the verdicts of the FR checkers mean, for any kinds of event, any  *)
(* stamps and logs of any length.                                          *)
(***************************************************************************)
EXTENDS Grading, Constraints_proofs

-----------------------------------------------------------------------------
(* The log is ordered *)

Written == {Stamped(e, t) : e \in Kinds, t \in Stamps}
Ordered(l) == \A i, j \in DOMAIN l : i <= j => l[i].wall_ms <= l[j].wall_ms
LogOK ==
    /\ log \in Seq(Written) /\ Len(log) <= MaxEvents
    /\ \A i \in DOMAIN log : log[i].wall_ms \in Stamps
    /\ Ordered(log)

LEMMA StampsAreTimes == \A t \in Stamps : t \in Nat /\ t \in Int
<1>1. \A t \in Stamps : t \in Nat
    BY BoundsAssumption
<1> QED BY <1>1

LEMMA StampedFields ==
    ASSUME NEW e, NEW t
    PROVE  /\ Stamped(e, t).wall_ms = t
           /\ \A x \in DOMAIN e : x # "wall_ms" => Stamped(e, t)[x] = e[x]
BY DEF Stamped

LEMMA LogInit == Init => LogOK
BY BoundsAssumption DEF Init, LogOK, Ordered

LEMMA LogStep == LogOK /\ [Next]_log => LogOK' /\ Extends(log, log')
<1> SUFFICES ASSUME LogOK, [Next]_log PROVE LogOK' /\ Extends(log, log')
    OBVIOUS
<1>1. CASE UNCHANGED log
    BY <1>1 DEF LogOK, Ordered, Extends
<1>2. ASSUME NEW e \in Kinds, NEW t \in Stamps, Write(e, t)
      PROVE  LogOK' /\ Extends(log, log')
    <2> DEFINE n == Len(log)
               new == Stamped(e, t)
    <2>1. /\ n \in Nat /\ n < MaxEvents /\ log' = Append(log, new)
          /\ n > 0 => t >= log[n].wall_ms
        BY <1>2 DEF Write, LogOK
    <2>2. new \in Written /\ new.wall_ms = t
        BY StampedFields DEF Written
    <2> HIDE DEF new
    <2>3. /\ Len(log') = n + 1 /\ DOMAIN log = 1..n /\ DOMAIN log' = 1..(n + 1)
          /\ \A i \in 1..n : log'[i] = log[i]
          /\ log'[n + 1] = new /\ log' \in Seq(Written)
        BY <2>1, <2>2 DEF LogOK
    <2> HIDE DEF n
    <2>4. \A i \in DOMAIN log' : log'[i].wall_ms \in Stamps
        BY <2>1, <2>2, <2>3 DEF LogOK
    <2>5. \A i \in 1..n : log[i].wall_ms <= t
        <3> SUFFICES ASSUME NEW i \in 1..n PROVE log[i].wall_ms <= t
            OBVIOUS
        <3>1. log[i].wall_ms <= log[n].wall_ms /\ log[n].wall_ms <= t
            BY <2>1, <2>3 DEF LogOK, Ordered
        <3>2. \A j \in 1..n : log[j].wall_ms \in Stamps
            BY <2>3 DEF LogOK
        <3>3. i \in 1..n /\ n \in 1..n /\ \A x \in Stamps : x \in Nat
            BY <2>1, BoundsAssumption
        <3>4. log[i].wall_ms \in Nat /\ log[n].wall_ms \in Nat /\ t \in Nat
            BY <3>2, <3>3
        <3> QED BY <3>1, <3>4
    <2>6. Ordered(log')
        BY <2>1, <2>2, <2>3, <2>5, BoundsAssumption DEF LogOK, Ordered
    <2>7. Extends(log, log')
        BY <2>1, <2>3 DEF Extends
    <2> QED BY <2>1, <2>3, <2>4, <2>6, <2>7, BoundsAssumption DEF LogOK
<1> QED BY <1>1, <1>2 DEF Next

-----------------------------------------------------------------------------
(* Failures stick *)

LEMMA LatenciesStick ==
    ASSUME NEW l, NEW m, Extends(l, m)
    PROVE  /\ Sticks(FR03(l), FR03(m)) /\ Sticks(FR05(l), FR05(m))
           /\ Sticks(FR10(l), FR10(m)) /\ Sticks(FR15(l), FR15(m))
           /\ Sticks(FR16(l), FR16(m)) /\ Sticks(FR19(l), FR19(m))
           /\ Sticks(FR22(l), FR22(m))
<1>1. \A a, b : /\ select(l, a, b) \subseteq select(m, a, b)
                /\ select(l, a, b) = select(m, a, b) \cap DOMAIN l
    BY SelectGrows
<1>2. \A S, T, bound : S \subseteq T /\ S \subseteq DOMAIN l
                         => Sticks(latency_lt(l, S, bound), latency_lt(m, T, bound))
    BY LatencySticks
<1>3. Sticks(FR03(l), FR03(m)) /\ Sticks(FR05(l), FR05(m)) /\ Sticks(FR15(l), FR15(m))
    BY <1>1, <1>2 DEF FR03, FR05, FR15
<1>4. Sticks(FR16(l), FR16(m)) /\ Sticks(FR19(l), FR19(m)) /\ Sticks(FR22(l), FR22(m))
    BY <1>1, <1>2 DEF FR16, FR19, FR22
<1>5. Sticks(FR10(l), FR10(m))
    <2> DEFINE Severe(x) == {i \in select(x, "ACTION_EXECUTED", "response") :
                               Get(x[i], "severity", 0) >= 70}
    <2>1. Severe(l) \subseteq Severe(m) /\ Severe(l) \subseteq DOMAIN l
        BY <1>1 DEF Extends
    <2> QED BY <1>2, <2>1 DEF FR10
<1> QED BY <1>3, <1>4, <1>5

LEMMA MatchesStick ==
    ASSUME NEW l, NEW m, Extends(l, m)
    PROVE  /\ Sticks(FR02(l), FR02(m)) /\ Sticks(FR06(l), FR06(m))
           /\ Sticks(FR07(l), FR07(m)) /\ Sticks(FR12(l), FR12(m))
           /\ Sticks(FR13(l), FR13(m)) /\ Sticks(FR14(l), FR14(m))
           /\ Sticks(FR20(l), FR20(m)) /\ Sticks(FR21(l), FR21(m))
           /\ Sticks(FR24(l), FR24(m)) /\ Sticks(FR25(l), FR25(m))
           /\ Sticks(FR32(l), FR32(m))
<1>1. \A a, b : /\ select(l, a, b) \subseteq select(m, a, b)
                /\ \A i \in select(l, a, b) : m[i] = l[i]
    BY SelectGrows DEF Extends
<1>2. \A S, T, A, B : S \subseteq T /\ (\A i \in S : i \in B => i \in A)
                         => Sticks(all_match(S, A), all_match(T, B))
    BY MatchSticks
<1>3. Sticks(FR02(l), FR02(m)) /\ Sticks(FR14(l), FR14(m))
    BY <1>1, <1>2 DEF FR02, FR14
<1>4. /\ \A k : Classified(l, k) \subseteq Classified(m, k)
      /\ \A k : \A i \in Classified(l, k) : m[i] = l[i]
    BY <1>1 DEF Classified
<1>5. Sticks(FR06(l), FR06(m)) /\ Sticks(FR07(l), FR07(m))
    BY <1>2, <1>4 DEF FR06, FR07
<1>6. Sticks(FR12(l), FR12(m)) /\ Sticks(FR13(l), FR13(m))
    BY <1>1, <1>2 DEF FR12, FR13, Responses
<1>7. Sticks(FR20(l), FR20(m))
    BY <1>1, <1>2 DEF FR20
<1>8. Sticks(FR32(l), FR32(m))
    BY <1>1, <1>2 DEF FR32
<1>11. Sticks(FR21(l), FR21(m))
    <2> DEFINE S(x) == select(x, "AUCTION_COMPLETED", None)
               A(x) == {i \in S(x) : Get(x[i], "notify_latency_ms", 1000000000) < 100}
    <2>1. S(l) \subseteq S(m) /\ \A i \in S(l) : m[i] = l[i]
        BY <1>1
    <2>2. \A i \in S(l) : i \in A(m) => i \in A(l)
        BY <2>1, SMT
    <2>3. FR21(l) = all_match(S(l), A(l)) /\ FR21(m) = all_match(S(m), A(m))
        BY SMT DEF FR21
    <2> HIDE DEF S, A
    <2> QED BY <1>2, <2>1, <2>2, <2>3
<1>9. /\ \A k : AttackActions(l, k) \subseteq AttackActions(m, k)
      /\ \A k : \A i \in AttackActions(l, k) : m[i] = l[i]
    BY <1>1 DEF AttackActions
<1>10. Sticks(FR24(l), FR24(m)) /\ Sticks(FR25(l), FR25(m))
    BY <1>2, <1>9 DEF FR24, FR25
<1> QED BY <1>3, <1>5, <1>6, <1>7, <1>8, <1>10, <1>11

LEMMA OthersStick ==
    ASSUME NEW l, NEW m, Extends(l, m)
    PROVE  /\ Sticks(FR01(l), FR01(m)) /\ Sticks(FR27(l), FR27(m))
           /\ Sticks(FR28(l), FR28(m))
           /\ Exercised(FR08(l), FR08(m)) /\ Exercised(FR11(l), FR11(m))
           /\ Exercised(FR17(l), FR17(m)) /\ Exercised(FR26(l), FR26(m))
           /\ Exercised(FR34(l), FR34(m))
<1>1. \A a, b : /\ select(l, a, b) \subseteq select(m, a, b)
                /\ \A i \in select(l, a, b) : m[i] = l[i]
    BY SelectGrows DEF Extends
<1>2. Sticks(FR01(l), FR01(m))
    BY <1>1 DEF FR01, Grade, Sticks, Exercised
<1>3. Sticks(FR27(l), FR27(m))
    BY <1>1 DEF FR27, Grade, Sticks, Exercised
<1>4. Sticks(FR28(l), FR28(m))
    <2> DEFINE C(x) == {i \in select(x, None, "attack_action") :
                          Get(x[i], "mode", None) = "coordinated"}
    <2>1. C(l) \subseteq C(m) /\ \A i \in C(l) : m[i] = l[i]
        BY <1>1
    <2>2. \A x : FR28(x) = Grade(select(x, None, "attack_action") # {},
                     \A i, j \in C(x) : x[i].wall_ms - x[j].wall_ms < 50)
        BY DEF FR28
    <2> HIDE DEF C
    <2> QED BY <1>1, <2>1, <2>2 DEF Grade, Sticks, Exercised
<1>5. Exercised(FR08(l), FR08(m)) /\ Exercised(FR34(l), FR34(m))
    BY <1>1 DEF FR08, FR34, Grade, Exercised
<1>6. Exercised(FR11(l), FR11(m))
    <2> DEFINE Q(x) == {i \in select(x, "ACTION_EXECUTED", None) :
                          Get(x[i], "action", None) = "QUARANTINE"}
    <2>1. Q(l) \subseteq Q(m)
        BY <1>1
    <2>2. \A x : FR11(x) = "NA" <=> Q(x) = {}
        BY DEF FR11, Grade
    <2> HIDE DEF Q
    <2> QED BY <2>1, <2>2 DEF Exercised
<1>7. Exercised(FR17(l), FR17(m))
    <2> DEFINE C(x) == {i \in select(x, None, "correlation") :
                          Cardinality(Get(x[i], "segments", {})) >= 2}
    <2>1. C(l) \subseteq C(m)
        BY <1>1
    <2>2. \A x : FR17(x) = "NA" <=> C(x) = {}
        BY DEF FR17, Grade
    <2> HIDE DEF C
    <2> QED BY <2>1, <2>2 DEF Exercised
<1>8. Exercised(FR26(l), FR26(m))
    <2>1. AttackActions(l, "ZERO_DAY") \subseteq AttackActions(m, "ZERO_DAY")
        BY <1>1 DEF AttackActions
    <2>2. \A x : FR26(x) = "NA" <=> AttackActions(x, "ZERO_DAY") = {}
        BY DEF FR26, Grade
    <2> QED BY <2>1, <2>2 DEF Exercised
<1> QED BY <1>2, <1>3, <1>4, <1>5, <1>6, <1>7, <1>8

LEMMA IntervalsStick ==
    ASSUME LogOK, LogOK', Extends(log, log')
    PROVE  Sticks(FR04(log), FR04(log')) /\ Sticks(FR18(log), FR18(log'))
<1>1. /\ \A i \in DOMAIN log' : log'[i].wall_ms \in Int
      /\ \A i \in DOMAIN log, j \in DOMAIN log' \ DOMAIN log :
            log'[i].wall_ms <= log'[j].wall_ms
    <2>1. DOMAIN log = 1..Len(log) /\ DOMAIN log' = 1..Len(log')
          /\ Len(log) \in Nat /\ Len(log') \in Nat
        BY DEF LogOK
    <2>2. \A i \in DOMAIN log, j \in DOMAIN log' \ DOMAIN log : i \in DOMAIN log' /\ i <= j
        BY <2>1 DEF Extends
    <2> QED BY <2>2, StampsAreTimes DEF LogOK, Ordered
<1>2. \A a, b : /\ IsFiniteSet(select(log', a, b)) /\ select(log', a, b) \subseteq DOMAIN log'
                /\ select(log, a, b) = select(log', a, b) \cap DOMAIN log
    <2>1. IsFiniteSet(DOMAIN log')
        BY FS_Interval DEF LogOK
    <2>2. \A a, b : select(log', a, b) \in SUBSET DOMAIN log'
        BY DEF select
    <2> QED BY <2>1, <2>2, FS_Subset, SelectGrows
<1>3. \A S, T, bound : (/\ IsFiniteSet(T) /\ T \subseteq DOMAIN log' /\ S = T \cap DOMAIN log
                        /\ bound \in Int)
          => \A p \in BOOLEAN : Sticks(max_interval_lte(log, S, bound, p),
                                       max_interval_lte(log', T, bound, p))
    BY <1>1, IntervalSticks
<1>4. ASSUME NEW a, NEW bound \in Int
      PROVE  /\ Sticks(max_interval_lte(log, select(log, None, a), bound, TRUE),
                       max_interval_lte(log', select(log', None, a), bound, TRUE))
             /\ Sticks(max_interval_lte(log, select(log, None, a), bound, FALSE),
                       max_interval_lte(log', select(log', None, a), bound, FALSE))
    BY <1>2, <1>3
<1> DEFINE minute == 60000
           second == 1000
<1>5. minute \in Int /\ second \in Int
    BY SMT
<1> HIDE DEF minute, second
<1>6. /\ Sticks(max_interval_lte(log, select(log, None, "baseline_update"), minute, TRUE),
                max_interval_lte(log', select(log', None, "baseline_update"), minute, TRUE))
      /\ Sticks(max_interval_lte(log, select(log, None, "priority_list"), second, FALSE),
                max_interval_lte(log', select(log', None, "priority_list"), second, FALSE))
    BY <1>4, <1>5
<1> QED BY <1>6, SMT DEF FR04, FR18, max_interval_lte, Grade, minute, second

Requirements ==
    {"FR01", "FR02", "FR03", "FR04", "FR05", "FR06", "FR07", "FR08", "FR10", "FR11",
     "FR12", "FR13", "FR14", "FR15", "FR16", "FR17", "FR18", "FR19", "FR20", "FR21",
     "FR22", "FR24", "FR25", "FR26", "FR27", "FR28", "FR32", "FR34"}

LEMMA GradeFields ==
    ASSUME NEW l
    PROVE  /\ DOMAIN LogGrades(l) = Requirements
           /\ LogGrades(l).FR01 = FR01(l) /\ LogGrades(l).FR02 = FR02(l)
           /\ LogGrades(l).FR03 = FR03(l) /\ LogGrades(l).FR04 = FR04(l)
           /\ LogGrades(l).FR05 = FR05(l) /\ LogGrades(l).FR06 = FR06(l)
           /\ LogGrades(l).FR07 = FR07(l) /\ LogGrades(l).FR08 = FR08(l)
           /\ LogGrades(l).FR10 = FR10(l) /\ LogGrades(l).FR11 = FR11(l)
           /\ LogGrades(l).FR12 = FR12(l) /\ LogGrades(l).FR13 = FR13(l)
           /\ LogGrades(l).FR14 = FR14(l) /\ LogGrades(l).FR15 = FR15(l)
           /\ LogGrades(l).FR16 = FR16(l) /\ LogGrades(l).FR17 = FR17(l)
           /\ LogGrades(l).FR18 = FR18(l) /\ LogGrades(l).FR19 = FR19(l)
           /\ LogGrades(l).FR20 = FR20(l) /\ LogGrades(l).FR21 = FR21(l)
           /\ LogGrades(l).FR22 = FR22(l) /\ LogGrades(l).FR24 = FR24(l)
           /\ LogGrades(l).FR25 = FR25(l) /\ LogGrades(l).FR26 = FR26(l)
           /\ LogGrades(l).FR27 = FR27(l) /\ LogGrades(l).FR28 = FR28(l)
           /\ LogGrades(l).FR32 = FR32(l) /\ LogGrades(l).FR34 = FR34(l)
BY DEF LogGrades, Requirements

LEMMA GradesStick ==
    ASSUME LogOK, LogOK', Extends(log, log')
    PROVE  \A fr \in DOMAIN LogGrades(log) :
              /\ Exercised(LogGrades(log)[fr], LogGrades(log')[fr])
              /\ fr \notin Open => Sticks(LogGrades(log)[fr], LogGrades(log')[fr])
<1>1. /\ Sticks(FR01(log), FR01(log')) /\ Sticks(FR02(log), FR02(log'))
      /\ Sticks(FR03(log), FR03(log')) /\ Sticks(FR04(log), FR04(log'))
      /\ Sticks(FR05(log), FR05(log')) /\ Sticks(FR06(log), FR06(log'))
      /\ Sticks(FR07(log), FR07(log')) /\ Sticks(FR10(log), FR10(log'))
      /\ Sticks(FR12(log), FR12(log')) /\ Sticks(FR13(log), FR13(log'))
      /\ Sticks(FR14(log), FR14(log')) /\ Sticks(FR15(log), FR15(log'))
      /\ Sticks(FR16(log), FR16(log')) /\ Sticks(FR18(log), FR18(log'))
      /\ Sticks(FR19(log), FR19(log')) /\ Sticks(FR20(log), FR20(log'))
      /\ Sticks(FR21(log), FR21(log')) /\ Sticks(FR22(log), FR22(log'))
      /\ Sticks(FR24(log), FR24(log')) /\ Sticks(FR25(log), FR25(log'))
      /\ Sticks(FR27(log), FR27(log')) /\ Sticks(FR28(log), FR28(log'))
      /\ Sticks(FR32(log), FR32(log'))
    BY LatenciesStick, MatchesStick, OthersStick, IntervalsStick
<1>2. /\ Exercised(FR08(log), FR08(log')) /\ Exercised(FR11(log), FR11(log'))
      /\ Exercised(FR17(log), FR17(log')) /\ Exercised(FR26(log), FR26(log'))
      /\ Exercised(FR34(log), FR34(log'))
    BY OthersStick
<1> QED BY <1>1, <1>2, GradeFields DEF Requirements, Open, Sticks

\* A violation cannot be talked away: whatever is logged after it, a FAIL of a
\* requirement that no later event can meet stays a FAIL, and what was exercised
\* stays exercised (the checkers of validator/constraints.py on a growing log).
THEOREM FailuresStay == Spec => FailuresStick
<1>1. LogOK /\ [Next]_log =>
         [LET before == LogGrades(log)
              after == LogGrades(log')
          IN \A fr \in DOMAIN before :
                /\ before[fr] # "NA" => after[fr] # "NA"
                /\ (before[fr] = "FAIL" /\ fr \notin Open) => after[fr] = "FAIL"]_log
    BY LogStep, GradesStick DEF Sticks, Exercised
<1> QED BY <1>1, LogInit, LogStep, PTL DEF Spec, FailuresStick

-----------------------------------------------------------------------------
(* What the verdicts mean *)

LEMMA LogsAreWellFormed == LogOK => \A i \in DOMAIN log : WellFormed(log[i])
<1> SUFFICES ASSUME LogOK, NEW i \in DOMAIN log PROVE WellFormed(log[i])
    OBVIOUS
<1>1. PICK e \in Kinds, t \in Stamps : log[i] = Stamped(e, t)
    BY DEF LogOK, Written
<1>2. WellFormed(e)
    BY KindsAssumption
<1>3. /\ log[i].event_type = e.event_type /\ log[i].payload = e.payload
      /\ {"event_type", "payload"} \subseteq DOMAIN log[i]
    BY <1>1, <1>2 DEF Stamped, WellFormed
<1> QED BY <1>2, <1>3 DEF WellFormed, Get

LEMMA MajorityGraded == LogOK => QuarantinesHaveMajority
<1> SUFFICES ASSUME LogOK, FR11(log) # "FAIL",
                    NEW i \in DOMAIN log, Get(log[i], "action", None) = "QUARANTINE"
             PROVE  \E j \in DOMAIN log :
                       /\ log[j].event_type = "VOTE_CAST"
                       /\ log[j].payload.vote_id = Get(log[i], "vote_id", None)
                       /\ 2 * log[j].payload.accept_count > log[j].payload.member_count
    BY DEF QuarantinesHaveMajority
<1> DEFINE quarantines == {k \in select(log, "ACTION_EXECUTED", None) :
                              Get(log[k], "action", None) = "QUARANTINE"}
           passed == {k \in select(log, "VOTE_CAST", None) :
                         2 * Get(log[k], "accept_count", 0) > Get(log[k], "member_count", 0)}
<1>1. FR11(log) = Grade(quarantines # {},
          \A k \in quarantines :
              Get(log[k], "vote_id", None) \in {Get(log[j], "vote_id", None) : j \in passed})
    BY DEF FR11
<1>2. i \in quarantines
    BY LogsAreWellFormed DEF WellFormed, select
<1>3. Get(log[i], "vote_id", None) \in {Get(log[j], "vote_id", None) : j \in passed}
    BY <1>1, <1>2 DEF Grade
<1>4. PICK j \in passed : Get(log[i], "vote_id", None) = Get(log[j], "vote_id", None)
    BY <1>3
<1>5. j \in DOMAIN log /\ log[j].event_type = "VOTE_CAST"
    <2>1. j \in select(log, "VOTE_CAST", None)
        BY <1>4
    <2>2. "VOTE_CAST" # None
        BY Selections DEF Selectors
    <2> QED BY <2>1, <2>2 DEF select
<1>6. WellFormed(log[j])
    BY <1>5, LogsAreWellFormed
<1>7. /\ Get(log[j], "vote_id", None) = log[j].payload.vote_id
      /\ Get(log[j], "accept_count", 0) = log[j].payload.accept_count
      /\ Get(log[j], "member_count", 0) = log[j].payload.member_count
    BY <1>5, <1>6 DEF WellFormed, Get
<1> QED BY <1>4, <1>5, <1>7

LEMMA GradesAreStatuses == \A l : \A fr \in DOMAIN LogGrades(l) : LogGrades(l)[fr] \in Statuses
<1> SUFFICES ASSUME NEW l PROVE \A fr \in Requirements : LogGrades(l)[fr] \in Statuses
    BY GradeFields
<1>1. /\ FR01(l) \in Statuses /\ FR08(l) \in Statuses /\ FR11(l) \in Statuses
      /\ FR17(l) \in Statuses /\ FR26(l) \in Statuses /\ FR27(l) \in Statuses
      /\ FR28(l) \in Statuses /\ FR34(l) \in Statuses
    BY SMT DEF FR01, FR08, FR11, FR17, FR26, FR27, FR28, FR34, Grade, Statuses
<1>2. /\ FR03(l) \in Statuses /\ FR05(l) \in Statuses /\ FR10(l) \in Statuses
      /\ FR15(l) \in Statuses /\ FR16(l) \in Statuses /\ FR19(l) \in Statuses
      /\ FR22(l) \in Statuses
    BY SMT DEF FR03, FR05, FR10, FR15, FR16, FR19, FR22, latency_lt, Grade, Statuses
<1>3. FR04(l) \in Statuses /\ FR18(l) \in Statuses
    BY SMT DEF FR04, FR18, max_interval_lte, Grade, Statuses
<1>4. /\ FR02(l) \in Statuses /\ FR06(l) \in Statuses /\ FR07(l) \in Statuses
      /\ FR12(l) \in Statuses /\ FR13(l) \in Statuses /\ FR14(l) \in Statuses
      /\ FR20(l) \in Statuses /\ FR21(l) \in Statuses /\ FR24(l) \in Statuses
      /\ FR25(l) \in Statuses /\ FR32(l) \in Statuses
    BY SMT DEF FR02, FR06, FR07, FR12, FR13, FR14, FR20, FR21, FR24, FR25, FR32,
               all_match, Grade, Statuses
<1> DEFINE g == LogGrades(l)
<1>5. /\ g.FR01 \in Statuses /\ g.FR02 \in Statuses /\ g.FR03 \in Statuses
      /\ g.FR04 \in Statuses /\ g.FR05 \in Statuses /\ g.FR06 \in Statuses
      /\ g.FR07 \in Statuses /\ g.FR08 \in Statuses /\ g.FR10 \in Statuses
      /\ g.FR11 \in Statuses /\ g.FR12 \in Statuses /\ g.FR13 \in Statuses
      /\ g.FR14 \in Statuses /\ g.FR15 \in Statuses /\ g.FR16 \in Statuses
      /\ g.FR17 \in Statuses /\ g.FR18 \in Statuses /\ g.FR19 \in Statuses
      /\ g.FR20 \in Statuses /\ g.FR21 \in Statuses /\ g.FR22 \in Statuses
      /\ g.FR24 \in Statuses /\ g.FR25 \in Statuses /\ g.FR26 \in Statuses
      /\ g.FR27 \in Statuses /\ g.FR28 \in Statuses /\ g.FR32 \in Statuses
      /\ g.FR34 \in Statuses
    BY <1>1, <1>2, <1>3, <1>4, GradeFields, SMTT(60)
<1> HIDE DEF g
<1>6. \A fr \in Requirements : g[fr] \in Statuses
    BY <1>5 DEF Requirements
<1> QED BY <1>6 DEF g

\* Times of a log, and the least and greatest position of some of its events.
LEMMA LogTimes ==
    ASSUME LogOK
    PROVE  /\ \A i \in DOMAIN log : log[i].wall_ms \in Int /\ log[i].wall_ms \in Stamps
           /\ \A S : S \subseteq DOMAIN log /\ S # {} =>
                 /\ \E i \in S : \A j \in S : i <= j /\ log[i].wall_ms <= log[j].wall_ms
                 /\ \E i \in S : \A j \in S : j <= i /\ log[j].wall_ms <= log[i].wall_ms
<1>1. \A i \in DOMAIN log : log[i].wall_ms \in Int /\ log[i].wall_ms \in Stamps
    BY StampsAreTimes DEF LogOK
<1>2. ASSUME NEW S, S \subseteq DOMAIN log, S # {}
      PROVE  /\ \E i \in S : \A j \in S : i <= j /\ log[i].wall_ms <= log[j].wall_ms
             /\ \E i \in S : \A j \in S : j <= i /\ log[j].wall_ms <= log[i].wall_ms
    <2>1. Len(log) \in Nat /\ S \subseteq 1..Len(log) /\ S \subseteq Nat
        BY <1>2 DEF LogOK
    <2>2. PICK i \in S : \A j \in S : i <= j
        BY <1>2, <2>1, LeastNat
    <2>3. PICK k \in S : \A j \in S : j <= k
        BY <1>2, <2>1, GreatestNat
    <2> QED BY <1>2, <2>2, <2>3 DEF LogOK, Ordered
<1> QED BY <1>1, <1>2

LEMMA FreshGraded == LogOK => FreshListsGraded
<1> DEFINE lists == select(log, None, "priority_list")
           w(i) == log[i].wall_ms
           After(i) == {j \in lists : w(j) > w(i)}
           Good == \A i \in lists : After(i) # {} => \E j \in After(i) : w(j) - w(i) <= 1000
           first == CHOOSE i \in lists : \A j \in lists : w(i) <= w(j)
           last == CHOOSE i \in lists : \A j \in lists : w(i) >= w(j)
<1> SUFFICES ASSUME LogOK, FR18(log) # "NA"
             PROVE  FR18(log) = "PASS" <=>
                       \A t \in {t \in Moments : w(first) <= t /\ t <= w(last)} :
                           FreshList(lists, t)
    BY DEF FreshListsGraded
<1>1. FR18(log) = Grade(Cardinality(lists) >= 2, Good)
    BY DEF FR18, max_interval_lte
<1>2. lists \subseteq DOMAIN log /\ lists # {} /\ (FR18(log) = "PASS" <=> Good)
    <2>1. lists # {}
        BY <1>1, FS_EmptySet DEF Grade
    <2> QED BY <1>1, <2>1 DEF Grade, select
<1> HIDE DEF lists
<1>3. /\ \A i \in lists : w(i) \in Int /\ w(i) \in Stamps
      /\ \A S : S \subseteq lists /\ S # {} =>
            /\ \E i \in S : \A j \in S : i <= j /\ w(i) <= w(j)
            /\ \E i \in S : \A j \in S : j <= i /\ w(j) <= w(i)
    BY <1>2, LogTimes
<1>4. /\ first \in lists /\ \A j \in lists : w(first) <= w(j)
      /\ last \in lists /\ \A j \in lists : w(last) >= w(j)
    <2>1. (\E i \in lists : \A j \in lists : w(i) <= w(j))
          /\ \E i \in lists : \A j \in lists : w(i) >= w(j)
        BY <1>2, <1>3
    <2> QED BY <2>1
<1> HIDE DEF first, last
<1>5. ASSUME Good, NEW t \in Moments, w(first) <= t, t <= w(last)
      PROVE  FreshList(lists, t)
    <2>1. t \in Int
        BY BoundsAssumption DEF Moments
    <2> DEFINE past == {i \in lists : w(i) <= t}
    <2>2. PICK i \in past : \A j \in past : w(j) <= w(i)
        <3>1. past \subseteq lists /\ past # {}
            BY <1>4, <1>5
        <3> QED BY <1>3, <3>1
    <2>3. CASE t - 1000 < w(i)
        BY <2>2, <2>3 DEF FreshList
    <2>4. CASE w(i) <= t - 1000
        <3>1. w(i) \in Int /\ w(last) \in Int
            BY <1>3, <1>4, <2>2
        <3>2. last \in After(i)
            BY <1>4, <1>5, <2>1, <2>4, <3>1
        <3>3. PICK j \in After(i) : w(j) - w(i) <= 1000
            BY <1>5, <2>2, <3>2
        <3>4. w(j) \in Int
            BY <1>3
        <3>5. j \in past
            BY <2>1, <2>4, <3>1, <3>3, <3>4
        <3> QED BY <2>2, <3>1, <3>3, <3>4, <3>5
    <2>5. w(i) \in Int
        BY <1>3, <2>2
    <2> QED BY <2>1, <2>3, <2>4, <2>5
<1>6. ASSUME NEW i \in lists, After(i) # {}, \A j \in After(i) : ~ (w(j) - w(i) <= 1000)
      PROVE  \E t \in Moments : w(first) <= t /\ t <= w(last) /\ ~FreshList(lists, t)
    <2>1. PICK j \in After(i) : \A k \in After(i) : w(j) <= w(k)
        BY <1>3, <1>6
    <2> DEFINE t == w(j) - 1
    <2>2. /\ w(i) \in Int /\ w(j) \in Int /\ w(first) \in Int /\ w(last) \in Int
          /\ w(j) > w(i) + 1000 /\ j \in lists /\ w(j) \in Stamps
        BY <1>3, <1>4, <1>6, <2>1
    <2>3. t \in Moments
        BY <2>2 DEF Moments
    <2>4. w(first) <= t /\ t <= w(last)
        <3>1. w(first) <= w(i) /\ w(j) <= w(last)
            BY <1>4, <2>2
        <3> QED BY <2>2, <3>1
    <2>5. ASSUME NEW k \in lists, t - 1000 < w(k), w(k) <= t PROVE FALSE
        <3>1. w(k) \in Int
            BY <1>3
        <3>2. w(k) > w(i) /\ w(k) < w(j)
            BY <2>2, <2>5, <3>1
        <3>3. w(j) <= w(k)
            BY <2>1, <3>2
        <3> QED BY <2>2, <3>1, <3>2, <3>3
    <2> QED BY <2>3, <2>4, <2>5 DEF FreshList
<1> QED BY <1>2, <1>5, <1>6

LEMMA TopBidsGraded == LogOK => GrantsAreTopBids
<1> SUFFICES ASSUME LogOK, FR20(log) = "PASS",
                    NEW i \in DOMAIN log, log[i].event_type = "AUCTION_COMPLETED"
             PROVE  LET p == log[i].payload
                    IN /\ Cardinality(p.granted) =
                             IF p.slots < Len(p.bids) THEN p.slots ELSE Len(p.bids)
                       /\ \A j, k \in DOMAIN p.bids :
                             (p.bids[j][1] \in p.granted /\ p.bids[k][1] \notin p.granted)
                                 => p.bids[j][2] >= p.bids[k][2]
    BY DEF GrantsAreTopBids
<1> DEFINE p == log[i].payload
<1>1. i \in select(log, "AUCTION_COMPLETED", None)
    BY DEF select
<1>2. Get(log[i], "granted", {}) = TopBidders(Get(log[i], "bids", <<>>), Get(log[i], "slots", 0))
    BY <1>1 DEF FR20, all_match, Grade
<1>3. /\ {"bids", "slots", "granted"} \subseteq DOMAIN p
      /\ p.bids \in Seq(STRING \X Int) /\ p.slots \in Nat
      /\ \A j, k \in DOMAIN p.bids : p.bids[j][1] = p.bids[k][1] => j = k
    BY LogsAreWellFormed DEF WellFormed
<1>4. p.granted = TopBidders(p.bids, p.slots)
    BY <1>2, <1>3 DEF Get
<1> HIDE DEF p
<1>5. /\ Cardinality(p.granted) = IF p.slots < Len(p.bids) THEN p.slots ELSE Len(p.bids)
      /\ \A j, k \in DOMAIN p.bids :
            (p.bids[j][1] \in p.granted /\ p.bids[k][1] \notin p.granted)
                => p.bids[j][2] >= p.bids[k][2]
    BY <1>3, <1>4, TopBiddersRank
<1> QED BY <1>5 DEF p

-----------------------------------------------------------------------------
(* The theorems *)

\* A log holds events of the given kinds in the order they were written, as
\* InMemorySink keeps them (event_log.py): the invariant of the theorems below.
THEOREM LogsAreOrdered == Spec => []LogOK
<1>1. LogOK /\ [Next]_log => LogOK'
    BY LogStep
<1> QED BY <1>1, LogInit, PTL DEF Spec

\* Each checker answers PASS, FAIL or NA, and the log stays within its bound.
THEOREM TypeCorrect == Spec => []TypeOK
<1>1. LogOK => TypeOK
    BY GradesAreStatuses DEF LogOK, TypeOK
<1> QED BY <1>1, LogsAreOrdered, PTL

\* What FR-18 PASS means: at every moment between the first list and the last
\* there is one that is less than a second old, and only then
\* (max_interval_lte, validator/constraints.py).
THEOREM FreshListsAreGraded == Spec => []FreshListsGraded
BY FreshGraded, LogsAreOrdered, PTL

\* What FR-20 PASS means: as many slots granted as there are, or bidders, and
\* nobody turned away bid more than one who was served.
THEOREM GrantsAreHighest == Spec => []GrantsAreTopBids
BY TopBidsGraded, LogsAreOrdered, PTL

\* What FR-11 not FAIL means: every quarantine of the scenario has a vote of its
\* own id that a strict majority of the members accepted.
THEOREM MajoritiesAreGraded == Spec => []QuarantinesHaveMajority
BY MajorityGraded, LogsAreOrdered, PTL
=============================================================================
