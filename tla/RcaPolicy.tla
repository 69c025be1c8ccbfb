----------------------------- MODULE RcaPolicy -----------------------------
(***************************************************************************)
(* The pure decisions of the Response Coordinator: which response a        *)
(* threat deserves, how an RCA votes on a quarantine request, and when a   *)
(* quarantine is approved.  Severities and loads are the code's floats in  *)
(* hundredths.                                                             *)
(***************************************************************************)
EXTENDS Integers, FiniteSets

AttackTypes == {"VOLUME_SPIKE", "PORT_SCAN", "LATERAL", "NOVEL", "DDOS",
                "RANSOMWARE", "ZERO_DAY"}
Classifications == {"NORMAL", "SUSPICIOUS", "CONFIRMED_THREAT"}
ResponseTypes == {"THROTTLE", "BLOCK", "REDEPLOY", "QUARANTINE", "MONITOR"}
Decisions == {"ACCEPT", "REJECT"}
Severities == 0..100

Volumetric == {"DDOS", "VOLUME_SPIKE"}
Containment == {"LATERAL", "RANSOMWARE", "NOVEL", "ZERO_DAY"}

\* The least disruptive action that still neutralises the threat.
SelectProportionalAction(severity, attackType) ==
    CASE severity < 30               -> "MONITOR"
      [] severity >= 30 /\ attackType \in Volumetric ->
            IF severity >= 95 THEN "BLOCK" ELSE "THROTTLE"
      [] severity >= 30 /\ attackType = "PORT_SCAN"  -> "BLOCK"
      [] severity >= 30 /\ attackType \in Containment ->
            IF severity >= 85 THEN "QUARANTINE"
            ELSE IF severity >= 60 THEN "REDEPLOY" ELSE "BLOCK"

LocalSeverityThreshold == 70
LoadThreshold == 80

EvaluateVote(severity, load) ==
    IF severity >= LocalSeverityThreshold /\ load < LoadThreshold
    THEN "ACCEPT" ELSE "REJECT"

\* A wrong version, for the test of the properties: half is not a majority.
MajorityThreshold_Half(memberCount) == memberCount \div 2
\* Votes required to pass.
MajorityThreshold(memberCount) == memberCount \div 2 + 1

\* A ballot box is the code's dict voter -> decision, as a function over all
\* agents that is "NONE" where the dict has no key.
Ballots(Agents) == [Agents -> Decisions \cup {"NONE"}]
AcceptCount(ballots) == Cardinality({v \in DOMAIN ballots : ballots[v] = "ACCEPT"})
BallotCount(ballots) == Cardinality({v \in DOMAIN ballots : ballots[v] # "NONE"})
Tally(ballots, memberCount) == AcceptCount(ballots) >= MajorityThreshold(memberCount)
=============================================================================
