----------------------- MODULE MCResponseCoordinator -----------------------
(* Instances of ResponseCoordinator for TLC. *)
EXTENDS ResponseCoordinator

CONSTANTS a, b, c,          \* segments, and their RCAs
          t1, t2, t3, t4    \* threat reports

Severe(s, attack) ==
    [segment |-> s, severity |-> 95, attack_type |-> attack,
     classification |-> "CONFIRMED_THREAT"]

\* Two host compromises of segment a (QUARANTINE), a flood of b that is only
\* throttled, and a host compromise of b.
MCThreatOf == [t \in Threats |->
    CASE t \in {t1, t2} -> Severe(a, "LATERAL")
      [] t = t3         -> [Severe(b, "DDOS") EXCEPT !.severity = 90]
      [] t = t4         -> Severe(b, "LATERAL")]
=============================================================================
