---------------------------- MODULE MCDetection ----------------------------
(* Instances of Detection for TLC. *)
EXTENDS Detection

MCSegments == <<"a", "b">>
Attack(s, loud, ms) == [segment |-> s, loud |-> loud, duration_ms |-> ms]
Reading(label, confidence) ==
    [label |-> label, confidence |-> confidence, outlier |-> FALSE, extreme |-> FALSE]
Normal == Reading("NORMAL", 90)
Flood == Reading("DDOS", 60)        \* answered by a throttle
Lateral == Reading("LATERAL", 90)   \* answered by a quarantine, if the vote passes

Brief(s) == Attack(s, TRUE, 150)
Lasting(s) == Attack(s, TRUE, 0)
Scan(s) == Attack(s, FALSE, 150)
Scenario(n, attacks, m, d, h, readings) ==
    [rounds |-> n, attacks |-> attacks, maxAttacks |-> m, deviations |-> d, held |-> h,
     readings |-> readings]
MCScenarios ==
    {Scenario(5, {Brief("a"), Lasting("b")}, 1, 1, 1, {Lateral}),
     Scenario(5, {Brief("a"), Lasting("a"), Scan("b")}, 2, 0, 1, {Normal}),
     Scenario(5, {Brief("b")}, 1, 0, 2, {Flood, Normal}),
     Scenario(3, {Brief("a"), Lasting("b")}, 2, 1, 1, {Flood, Lateral})}
=============================================================================
