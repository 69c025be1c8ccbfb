------------------------ MODULE Coordination_proofs ------------------------
(***************************************************************************)
(* What holds of the global agents and the failover, for any segments, any *)
(* scenario and any number of rounds.                                      *)
(*                                                                         *)
(*   TypesHold           the types                                         *)
(*   CoalitionsCover     correlated segments share a coalition             *)
(*                       (CoalitionInv)                                    *)
(*   BidsAreSettledOnce  every bid is in one auction or waits (AuctionInv) *)
(*   SeverityWins        an auction serves the highest bids (AuctionInv)   *)
(*   FailuresAreHandled  a death is flagged and covered in time (FailInv)  *)
(*   GradesAlwaysHold    the checkers never fail (ListInv, PunctualInv)    *)
(*                                                                         *)
(* All lean on TypeInv and on ClockInv, which says when it is.             *)
(***************************************************************************)
EXTENDS Coordination, Constraints_proofs

-----------------------------------------------------------------------------
(* The inductive invariant, in parts *)

\* The types, and what a scenario is.
TypeInv ==
    /\ TypeOK
    /\ rounds \in Nat /\ failAfter \in Nat /\ failAgent \in Agents \cup {None}
    /\ failAgent # None => pace = "lockstep"
    /\ budget \in [reports: Nat, bids: Nat, resolutions: Nat]
    /\ IsSeq(log) /\ \A i \in DOMAIN log : log[i].wall_ms \in Nat /\ log[i].wall_ms <= now
    /\ turn > 0 => round < WarmupRounds + rounds

\* In lockstep the clock counts rounds; one agent at most stops, in its round.
Stopped ==
    /\ failAgent # None
    /\ \/ round > WarmupRounds + failAfter
       \/ round = WarmupRounds + failAfter /\ turn > 0
ClockInv ==
    /\ pace = "lockstep" => now = round * Step
    /\ pace = "free" => now >= Step
    /\ dead = IF Stopped THEN {failAgent} ELSE {}

\* In lockstep the TIA perceives a report in the round it is published, and
\* every correlation it has reported has its coalition.
CoalitionInv ==
    /\ \A e \in map : e.ts_ms <= now
    /\ \A i \in DOMAIN intelInbox : intelInbox[i].ts_ms <= now
    /\ pace = "lockstep" /\ TIA \notin dead =>
          /\ \A i \in DOMAIN intelInbox : intelInbox[i].ts_ms = now
          /\ turn \notin 1..TiaTurn => intelInbox = <<>>
    /\ correlations \subseteq Coalitions
    /\ select(log, None, "correlation") # {} => Coalitions # {}
    /\ pace = "lockstep" =>
          \A e, f \in map : (e.segment # f.segment /\ e.ts_ms - f.ts_ms \in 0..Window) =>
              \E S \in Coalitions : {e.segment, f.segment} \subseteq S

\* A list is followed by another within a second, unless it is the last; while
\* the TIA lives the last one is not old.
Lists == select(log, None, "priority_list")
RankRounds == CHOOSE n \in 1..RankInterval : RankInterval = n * Step
LastListIsRecent ==
    \/ lastRank = LongAgo /\ round = 0 /\ turn <= TiaTurn
    \/ \E r \in 0..round : /\ lastRank = r * Step
                           /\ round - r <= RankRounds
                           /\ turn > TiaTurn => round - r < RankRounds
ListInv ==
    pace = "lockstep" =>
        /\ \A i \in Lists : lastRank \in Nat /\ log[i].wall_ms <= lastRank
        /\ \A i \in Lists : log[i].wall_ms < lastRank =>
              \E j \in Lists : /\ log[i].wall_ms < log[j].wall_ms
                               /\ log[j].wall_ms - log[i].wall_ms <= 1000
        /\ TIA \notin dead => LastListIsRecent

\* In lockstep nothing is ever late, and FR-20's ranking is the auction's.
Punctual(e) ==
    /\ Get(e, "signal", None) \in {"threat_model_update", "correlation", "reclaim"}
          => e.latency_ms = 0
    /\ e.event_type = "AUCTION_COMPLETED" =>
          /\ e.latency_ms = 0
          /\ Get(e, "notify_latency_ms", 1000000000) < 100
          /\ Get(e, "granted", {}) = TopBidders(Get(e, "bids", <<>>), Get(e, "slots", 0))
PunctualInv == pace = "lockstep" => \A i \in DOMAIN log : Punctual(log[i])

\* The bids that wait are the last ones of the history, later than every
\* auction; each of the others was made before some auction ended.
Taken == Len(bids) - Len(bidInbox)
Waiting ==
    /\ Len(bidInbox) <= Len(bids)
    /\ \A i \in DOMAIN bidInbox : bidInbox[i] = bids[Taken + i]
BidsInOrder ==
    /\ \A i, j \in DOMAIN bids : i <= j => bids[i].ts_ms <= bids[j].ts_ms
    /\ \A i \in DOMAIN bids : bids[i].ts_ms <= now /\ (pace = "free" => bids[i].ts_ms > 0)
BidsAndAuctions ==
    /\ \A k \in Auctions : log[k].wall_ms < now \/ turn > RaaTurn
    /\ \A i \in DOMAIN bids :
          IF i > Taken THEN \A k \in Auctions : bids[i].ts_ms > log[k].wall_ms
          ELSE \E k \in Auctions : bids[i].ts_ms <= log[k].wall_ms
RaaKeepsUp ==
    pace = "lockstep" /\ RAA \notin dead =>
        /\ \A i \in DOMAIN bidInbox : bidInbox[i].ts_ms = now
        /\ \A i \in DOMAIN resolutions : resolutions[i] = now
        /\ turn \notin 1..RaaTurn => bidInbox = <<>> /\ resolutions = <<>>

\* Event e settles the bids at the positions S of history B.
Top1(B, S, i) ==
    \A j \in S : B[j].bidder = B[i].bidder =>
        B[i].value > B[j].value \/ (B[i].value = B[j].value /\ i <= j)
Settled(B, S, e) ==
    LET bidders == {B[i].bidder : i \in S}
        granted == e.payload.granted
    IN /\ S # {}
       /\ {e.payload.bids[n] : n \in DOMAIN e.payload.bids} =
            {<<B[i].bidder, B[i].value>> : i \in
                {j \in S : \A h \in S : B[h].bidder = B[j].bidder
                                          => B[h].value <= B[j].value}}
       /\ \E i \in S : e.latency_ms = e.wall_ms - B[i].ts_ms
       /\ \A i \in S : e.latency_ms >= e.wall_ms - B[i].ts_ms
       /\ granted \subseteq bidders
       /\ Cardinality(granted) = Min2(Slots, Cardinality(bidders))
       /\ \A i, j \in S :
             (/\ Top1(B, S, i) /\ B[i].bidder \in granted
              /\ Top1(B, S, j) /\ B[j].bidder \notin granted) =>
                 \/ B[i].value > B[j].value
                 \/ B[i].value = B[j].value /\ B[i].ts_ms <= B[j].ts_ms
AuctionInv ==
    /\ Waiting /\ BidsInOrder /\ BidsAndAuctions /\ RaaKeepsUp
    /\ \A k \in Auctions : Settled(bids, Settles(k), log[k])

\* In lockstep, once agents beat, an agent that lives has beaten this round or,
\* before its turn, in the one before; the one that stopped has not since.
TurnOf(a) == IF a = TIA THEN TiaTurn ELSE IF a = RAA THEN RaaTurn
             ELSE CHOOSE t \in 1..NSeg : Segments[t] = a.segment
Beating(a) ==
    IF Running /\ turn > TurnOf(a) THEN a \in DOMAIN lastSeen /\ lastSeen[a] = now
    ELSE IF round > WarmupRounds THEN a \in DOMAIN lastSeen /\ lastSeen[a] = now - Step
    ELSE a \notin DOMAIN lastSeen
Silent ==
    /\ failAfter = 0 => failAgent \notin DOMAIN lastSeen
    /\ (failAfter > 0 /\ failAgent \notin DOMAIN lastSeen) => failAgent \in handled
    /\ failAgent \in DOMAIN lastSeen =>
          /\ lastSeen[failAgent] = LastBeat
          /\ failAgent \notin handled
          /\ now - Step - LastBeat <= Timeout
FailedOver(i) ==
    /\ log[i].payload.failed_agent = failAgent
    /\ log[i].wall_ms - LastBeat > Timeout
    /\ log[i].wall_ms - LastBeat <= Timeout + Step
    /\ (failAgent.segment # None /\ Peers # {}) =>
          /\ Get(log[i], "segment", None) = failAgent.segment
          /\ \E j \in select(log, None, "coverage_reassigned") :
                /\ log[j].wall_ms = log[i].wall_ms
                /\ Get(log[j], "segment", None) = failAgent.segment
                /\ log[j].payload.segment = failAgent.segment
                /\ log[j].payload.new_owner \in Peers
FailInv ==
    /\ handled \subseteq dead
    /\ pace = "lockstep" => \A a \in Agents \ dead : Beating(a)
    /\ Stopped => Silent
    /\ IF handled = {} THEN Failures = {}
       ELSE \E i \in Failures : Failures = {i} /\ FailedOver(i)

Inv ==
    TypeInv /\ ClockInv /\ CoalitionInv /\ ListInv /\ PunctualInv /\ AuctionInv /\ FailInv
-----------------------------------------------------------------------------
(* The segments and the fleet *)

LEMMA LongAgoIsPast == LongAgo \in Int /\ LongAgo < -1000
BY SMT DEF LongAgo

LEMMA SegmentFacts ==
    /\ NSeg \in Nat /\ NSeg > 0 /\ DOMAIN Segments = 1..NSeg
    /\ \A t \in 1..NSeg : Segments[t] \in STRING /\ Segments[t] # None
    /\ \A t, u \in 1..NSeg : Segments[t] = Segments[u] => t = u
<1>1. /\ NSeg \in Nat /\ DOMAIN Segments = 1..NSeg
      /\ \A t \in 1..NSeg : Segments[t] \in STRING
    BY SegmentsAssumption DEF NSeg
<1>2. NSeg > 0
    BY SegmentsAssumption DEF NSeg
<1>3. \A t \in 1..NSeg : Segments[t] # None
    BY <1>1, NoneAssumption
<1> QED BY <1>1, <1>2, <1>3, SegmentsAssumption

Crew(t) == {Agent("TMA", Segments[t]), Agent("ACA", Segments[t]), Agent("RCA", Segments[t])}

LEMMA AgentFields ==
    /\ \A t, s : Agent(t, s).type = t /\ Agent(t, s).segment = s
    /\ \A t, s, u, v : Agent(t, s) = Agent(u, v) <=> t = u /\ s = v
BY DEF Agent

Member(n) ==
    Agent(<<"TMA", "ACA", "RCA">>[((n - 1) % 3) + 1], Segments[((n - 1) \div 3) + 1])

LEMMA FleetShape ==
    /\ IsSeq(Fleet) /\ Len(Fleet) = 3 * NSeg + 2 /\ DOMAIN Fleet = 1..(3 * NSeg + 2)
    /\ \A n \in 1..(3 * NSeg) : Fleet[n] = Member(n)
    /\ Fleet[3 * NSeg + 1] = TIA /\ Fleet[3 * NSeg + 2] = RAA
<1> DEFINE m == 3 * NSeg
           f == [n \in 1..m |-> Member(n)]
           g == <<TIA, RAA>>
<1>1. m \in Nat
    BY SegmentFacts
<1>2. Fleet = f \o g
    BY DEF Fleet, Member, NSeg
<1>3. /\ f \in Seq({Member(n) : n \in 1..m}) /\ Len(f) = m
      /\ \A n \in 1..m : f[n] = Member(n)
    BY <1>1
<1>4. g \in Seq({TIA, RAA}) /\ Len(g) = 2 /\ DOMAIN g = 1..2 /\ g[1] = TIA /\ g[2] = RAA
    OBVIOUS
<1> HIDE DEF f, g, m
<1>5. IsSeq(f) /\ IsSeq(g) /\ DOMAIN f = 1..m
    BY <1>1, <1>3, <1>4, SeqShape
<1>8. /\ IsSeq(f \o g) /\ Len(f \o g) = Len(f) + Len(g)
      /\ \A i \in DOMAIN f : (f \o g)[i] = f[i]
      /\ \A j \in DOMAIN g : (f \o g)[Len(f) + j] = g[j]
    <2>1. IsSeq(f \o g) /\ Len(f \o g) = Len(f) + Len(g)
        BY <1>5, Concat
    <2>2. \A i \in DOMAIN f : (f \o g)[i] = f[i]
        BY <1>5, Concat
    <2>3. \A j \in DOMAIN g : (f \o g)[Len(f) + j] = g[j]
        BY <1>5, Concat, SeqShape
    <2> QED BY <2>1, <2>2, <2>3
<1>6. /\ IsSeq(f \o g) /\ Len(f \o g) = m + 2
      /\ \A i \in DOMAIN f : (f \o g)[i] = f[i]
      /\ \A j \in DOMAIN g : (f \o g)[m + j] = g[j]
    BY <1>8, <1>3, <1>4
<1>7. DOMAIN Fleet = 1..(m + 2)
    BY <1>2, <1>6, SeqShape
<1> QED BY <1>1, <1>2, <1>3, <1>4, <1>5, <1>6, <1>7 DEF m

\* The place of a segment's agent in the fleet.
LEMMA Places3 ==
    ASSUME NEW t \in 1..NSeg
    PROVE  /\ {3 * t - 2, 3 * t - 1, 3 * t} \subseteq 1..(3 * NSeg)
           /\ Member(3 * t - 2) = Agent("TMA", Segments[t])
           /\ Member(3 * t - 1) = Agent("ACA", Segments[t])
           /\ Member(3 * t) = Agent("RCA", Segments[t])
<1>1. NSeg \in Nat /\ t \in Int
    BY SegmentFacts
<1>2. /\ (3 * t - 2 - 1) % 3 = 0 /\ (3 * t - 2 - 1) \div 3 = t - 1
      /\ (3 * t - 1 - 1) % 3 = 1 /\ (3 * t - 1 - 1) \div 3 = t - 1
      /\ (3 * t - 1) % 3 = 2 /\ (3 * t - 1) \div 3 = t - 1
    BY <1>1, Z3
<1>3. t - 1 + 1 = t /\ 0 + 1 = 1 /\ 1 + 1 = 2 /\ 2 + 1 = 3
    BY <1>1
<1> DEFINE a == 3 * t - 2
           b == 3 * t - 1
           c == 3 * t
<1>4. /\ ((a - 1) % 3) + 1 = 1 /\ ((a - 1) \div 3) + 1 = t
      /\ ((b - 1) % 3) + 1 = 2 /\ ((b - 1) \div 3) + 1 = t
      /\ ((c - 1) % 3) + 1 = 3 /\ ((c - 1) \div 3) + 1 = t
    BY <1>2, <1>3
<1>5. a \in 1..(3 * NSeg) /\ b \in 1..(3 * NSeg) /\ c \in 1..(3 * NSeg)
    BY <1>1
<1> HIDE DEF a, b, c
<1>6. Member(a) = Agent("TMA", Segments[t])
    BY <1>4 DEF Member
<1>7. Member(b) = Agent("ACA", Segments[t])
    BY <1>4 DEF Member
<1>8. Member(c) = Agent("RCA", Segments[t])
    BY <1>4 DEF Member
<1> QED BY <1>5, <1>6, <1>7, <1>8 DEF a, b, c

LEMMA MemberOf ==
    ASSUME NEW n \in 1..(3 * NSeg)
    PROVE  \E t \in 1..NSeg : n \in {3 * t - 2, 3 * t - 1, 3 * t}
<1> DEFINE t == ((n - 1) \div 3) + 1
<1>1. NSeg \in Nat /\ n \in Int
    BY SegmentFacts
<1>2. t \in 1..NSeg /\ n \in {3 * t - 2, 3 * t - 1, 3 * t}
    BY <1>1, Z3
<1> QED BY <1>2

LEMMA Places3Differ ==
    ASSUME NEW t \in 1..NSeg, NEW u \in 1..NSeg, t # u
    PROVE  {3 * t - 2, 3 * t - 1, 3 * t} \cap {3 * u - 2, 3 * u - 1, 3 * u} = {}
BY SegmentFacts

LEMMA FleetFacts ==
    /\ Agents = (UNION {Crew(t) : t \in 1..NSeg}) \cup {TIA, RAA}
    /\ \A t \in 1..NSeg : /\ \A a \in Crew(t) : a.segment = Segments[t] /\ a # TIA /\ a # RAA
                          /\ \A u \in 1..NSeg : Crew(t) \cap Crew(u) # {} => t = u
    /\ TIA # RAA
    /\ \A i, j \in DOMAIN Fleet : Fleet[i] = Fleet[j] => i = j
<1>1. \A t \in 1..NSeg : \A a \in Crew(t) : a.segment = Segments[t] /\ a # TIA /\ a # RAA
    BY AgentFields, SegmentFacts DEF Crew, TIA, RAA
<1>2. \A t, u \in 1..NSeg : Crew(t) \cap Crew(u) # {} => t = u
    BY <1>1, SegmentFacts
<1>3. TIA # RAA
    BY AgentFields DEF TIA, RAA
<1>4. \A n \in 1..(3 * NSeg) : Fleet[n] = Member(n) /\ n \in DOMAIN Fleet
    BY FleetShape, SegmentFacts
<1>5. Agents = (UNION {Crew(t) : t \in 1..NSeg}) \cup {TIA, RAA}
    <2>1. ASSUME NEW i \in DOMAIN Fleet
          PROVE  Fleet[i] \in (UNION {Crew(t) : t \in 1..NSeg}) \cup {TIA, RAA}
        <3>1. CASE i \in 1..(3 * NSeg)
            <4>1. PICK t \in 1..NSeg : i \in {3 * t - 2, 3 * t - 1, 3 * t}
                BY <3>1, MemberOf
            <4>2. Member(i) \in Crew(t)
                BY <4>1, Places3 DEF Crew
            <4> QED BY <3>1, <4>2, FleetShape
        <3>2. CASE i \notin 1..(3 * NSeg)
            <4>1. i = 3 * NSeg + 1 \/ i = 3 * NSeg + 2
                BY <3>2, FleetShape, SegmentFacts
            <4>2. Fleet[i] \in {TIA, RAA}
                BY <4>1, FleetShape
            <4> QED BY <4>2
        <3> QED BY <3>1, <3>2
    <2>2. ASSUME NEW t \in 1..NSeg PROVE Crew(t) \subseteq Agents
        <3>1. {3 * t - 2, 3 * t - 1, 3 * t} \subseteq 1..(3 * NSeg)
            BY Places3
        <3>2. \A n \in {3 * t - 2, 3 * t - 1, 3 * t} : Member(n) \in Agents
            BY <1>4, <3>1 DEF Agents
        <3>3. \A a \in Crew(t) : a = Member(3 * t - 2) \/ a = Member(3 * t - 1) \/ a = Member(3 * t)
            BY Places3 DEF Crew
        <3> QED BY <3>2, <3>3
    <2>3. TIA \in Agents /\ RAA \in Agents
        <3>1. 3 * NSeg + 1 \in DOMAIN Fleet /\ 3 * NSeg + 2 \in DOMAIN Fleet
            BY FleetShape, SegmentFacts
        <3> QED BY <3>1, FleetShape DEF Agents
    <2>4. Agents \subseteq (UNION {Crew(t) : t \in 1..NSeg}) \cup {TIA, RAA}
        BY <2>1 DEF Agents
    <2>5. UNION {Crew(t) : t \in 1..NSeg} \subseteq Agents
        BY <2>2
    <2> QED BY <2>3, <2>4, <2>5
<1>6. \A i, j \in DOMAIN Fleet : Fleet[i] = Fleet[j] => i = j
    <2> SUFFICES ASSUME NEW i \in DOMAIN Fleet, NEW j \in DOMAIN Fleet, Fleet[i] = Fleet[j]
                 PROVE  i = j
        OBVIOUS
    <2>1. \A k \in DOMAIN Fleet : \/ k \in 1..(3 * NSeg)
                                  \/ k = 3 * NSeg + 1 /\ Fleet[k] = TIA
                                  \/ k = 3 * NSeg + 2 /\ Fleet[k] = RAA
        BY FleetShape, SegmentFacts
    <2>2. ASSUME NEW k \in 1..(3 * NSeg)
          PROVE  \E t \in 1..NSeg : k \in {3 * t - 2, 3 * t - 1, 3 * t} /\ Fleet[k] \in Crew(t)
        <3>1. PICK t \in 1..NSeg : k \in {3 * t - 2, 3 * t - 1, 3 * t}
            BY MemberOf
        <3>2. Member(k) \in Crew(t)
            BY <3>1, Places3 DEF Crew
        <3> QED BY <1>4, <3>1, <3>2
    <2>3. CASE i \in 1..(3 * NSeg) /\ j \in 1..(3 * NSeg)
        <3>1. PICK t \in 1..NSeg : i \in {3 * t - 2, 3 * t - 1, 3 * t} /\ Fleet[i] \in Crew(t)
            BY <2>2, <2>3
        <3>2. PICK u \in 1..NSeg : j \in {3 * u - 2, 3 * u - 1, 3 * u} /\ Fleet[j] \in Crew(u)
            BY <2>2, <2>3
        <3>3. t = u
            BY <1>2, <3>1, <3>2
        <3>4. /\ Fleet[3 * t - 2] = Agent("TMA", Segments[t])
              /\ Fleet[3 * t - 1] = Agent("ACA", Segments[t])
              /\ Fleet[3 * t] = Agent("RCA", Segments[t])
            BY <1>4, Places3
        <3>5. /\ Fleet[3 * t - 2] # Fleet[3 * t - 1] /\ Fleet[3 * t - 2] # Fleet[3 * t]
              /\ Fleet[3 * t - 1] # Fleet[3 * t]
            BY <3>4, AgentFields
        <3> QED BY <3>1, <3>2, <3>3, <3>5
    <2>4. CASE ~(i \in 1..(3 * NSeg) /\ j \in 1..(3 * NSeg))
        BY <1>1, <1>3, <2>1, <2>2, <2>4
    <2> QED BY <2>3, <2>4
<1> QED BY <1>1, <1>2, <1>3, <1>5, <1>6

LEMMA Turns ==
    /\ TurnOf(TIA) = TiaTurn /\ TurnOf(RAA) = RaaTurn
    /\ \A t \in 1..NSeg : \A a \in Crew(t) : TurnOf(a) = t
    /\ \A a \in Agents : TurnOf(a) \in 1..RaaTurn
<1>1. TurnOf(TIA) = TiaTurn /\ TurnOf(RAA) = RaaTurn
    BY FleetFacts DEF TurnOf
<1>2. ASSUME NEW t \in 1..NSeg, NEW a \in Crew(t) PROVE TurnOf(a) = t
    <2>1. TurnOf(a) = CHOOSE u \in 1..NSeg : Segments[u] = a.segment
        BY FleetFacts DEF TurnOf
    <2>2. a.segment = Segments[t] /\ \A u \in 1..NSeg : Segments[u] = a.segment <=> u = t
        BY FleetFacts, SegmentFacts
    <2> QED BY <2>1, <2>2
<1>3. \A a \in Agents : TurnOf(a) \in 1..RaaTurn
    <2>1. TiaTurn \in 1..RaaTurn /\ RaaTurn \in 1..RaaTurn /\ 1..NSeg \subseteq 1..RaaTurn
        BY SegmentFacts DEF TiaTurn, RaaTurn
    <2>2. ASSUME NEW a \in Agents PROVE a \in {TIA, RAA} \/ \E t \in 1..NSeg : a \in Crew(t)
        BY FleetFacts
    <2> QED BY <1>1, <1>2, <2>1, <2>2
<1> QED BY <1>1, <1>2, <1>3

-----------------------------------------------------------------------------
(* What the agents log *)

LEMMA EventFields ==
    \A type, agent, latency, payload :
        LET e == Event(type, agent, latency, payload)
        IN /\ e.event_type = type /\ e.wall_ms = now /\ e.latency_ms = latency
           /\ e.payload = payload
           /\ \A key, default :
                 Get(e, key, default) =
                     IF key \in DOMAIN payload THEN payload[key] ELSE default
BY DEF Event, Get

LEMMA TiaEvents ==
    /\ \A e \in {ModelUpdate, Correlation} :
          e.event_type = "ACTION_EXECUTED" /\ e.latency_ms = Latency
    /\ Get(ModelUpdate, "signal", None) = "threat_model_update"
    /\ Get(Correlation, "signal", None) = "correlation"
    /\ CoalitionFormed.event_type = "COALITION_FORMED"
    /\ Get(CoalitionFormed, "signal", None) = None
    /\ CoalitionFormed.payload.members = active_segments(Perceived)
    /\ PriorityList.event_type = "ACTION_EXECUTED"
    /\ Get(PriorityList, "signal", None) = "priority_list"
    /\ \A e \in {ModelUpdate, Correlation, CoalitionFormed, PriorityList} : e.wall_ms = now
<1>1. ModelUpdate.event_type = "ACTION_EXECUTED" /\ ModelUpdate.latency_ms = Latency
      /\ Get(ModelUpdate, "signal", None) = "threat_model_update" /\ ModelUpdate.wall_ms = now
    BY DEF ModelUpdate, Event, Get
<1>2. Correlation.event_type = "ACTION_EXECUTED" /\ Correlation.latency_ms = Latency
      /\ Get(Correlation, "signal", None) = "correlation" /\ Correlation.wall_ms = now
    BY DEF Correlation, Event, Get
<1>3. /\ CoalitionFormed.event_type = "COALITION_FORMED" /\ CoalitionFormed.wall_ms = now
      /\ Get(CoalitionFormed, "signal", None) = None
      /\ CoalitionFormed.payload.members = active_segments(Perceived)
    BY DEF CoalitionFormed, Event, Get
<1>4. /\ PriorityList.event_type = "ACTION_EXECUTED" /\ PriorityList.wall_ms = now
      /\ Get(PriorityList, "signal", None) = "priority_list"
    BY DEF PriorityList, Event, Get
<1> QED BY <1>1, <1>2, <1>3, <1>4

LEMMA RaaEvents ==
    /\ AuctionCompleted.event_type = "AUCTION_COMPLETED"
    /\ Get(AuctionCompleted, "signal", None) = None
    /\ AuctionCompleted.latency_ms = now - FirstBidTime
    /\ LET best == BestBids(bidInbox)
           pairs == [n \in DOMAIN best |-> <<best[n].bidder, best[n].value>>]
       IN /\ AuctionCompleted.payload.bids = pairs
          /\ Get(AuctionCompleted, "bids", <<>>) = pairs
          /\ AuctionCompleted.payload.granted = run_auction(best, Slots)
          /\ Get(AuctionCompleted, "granted", {}) = run_auction(best, Slots)
    /\ Get(AuctionCompleted, "slots", 0) = Slots
    /\ Get(AuctionCompleted, "notify_latency_ms", 1000000000) = 0
    /\ Reclaim.event_type = "RESOURCE_ALLOCATED" /\ Get(Reclaim, "signal", None) = "reclaim"
    /\ Reclaim.latency_ms = now - resolutions[Len(resolutions)]
    /\ MonitorOverhead.event_type = "RESOURCE_ALLOCATED"
    /\ Get(MonitorOverhead, "signal", None) = "overhead"
    /\ \A e \in {AuctionCompleted, Reclaim, MonitorOverhead} : e.wall_ms = now
<1> DEFINE best == BestBids(bidInbox)
           pairs == [n \in DOMAIN best |-> <<best[n].bidder, best[n].value>>]
           granted == run_auction(best, Slots)
           first == FirstBidTime
<1> HIDE DEF pairs, granted, first
<1>1. AuctionCompleted = Event("AUCTION_COMPLETED", "RAA", now - first,
          [bids |-> pairs, granted |-> granted, slots |-> Slots, notify_latency_ms |-> 0])
    BY DEF AuctionCompleted, pairs, granted, first
<1>2. /\ AuctionCompleted.event_type = "AUCTION_COMPLETED" /\ AuctionCompleted.wall_ms = now
      /\ AuctionCompleted.latency_ms = now - first
      /\ AuctionCompleted.payload.bids = pairs
      /\ AuctionCompleted.payload.granted = granted
    BY <1>1 DEF Event
<1>3. \A d : /\ Get(AuctionCompleted, "signal", d) = d
             /\ Get(AuctionCompleted, "bids", d) = pairs
             /\ Get(AuctionCompleted, "granted", d) = granted
             /\ Get(AuctionCompleted, "slots", d) = Slots
             /\ Get(AuctionCompleted, "notify_latency_ms", d) = 0
    BY <1>1 DEF Event, Get
<1>4. /\ Reclaim.event_type = "RESOURCE_ALLOCATED" /\ Get(Reclaim, "signal", None) = "reclaim"
      /\ Reclaim.latency_ms = now - resolutions[Len(resolutions)] /\ Reclaim.wall_ms = now
    BY DEF Reclaim, Event, Get
<1>5. /\ MonitorOverhead.event_type = "RESOURCE_ALLOCATED" /\ MonitorOverhead.wall_ms = now
      /\ Get(MonitorOverhead, "signal", None) = "overhead"
    BY DEF MonitorOverhead, Event, Get
<1>6. Get(AuctionCompleted, "notify_latency_ms", 1000000000) = 0
    BY <1>3, SMT
<1> QED BY <1>2, <1>3, <1>4, <1>5, <1>6, SMT DEF pairs, granted, first

LEMMA FailEvents ==
    \A a, s, p :
        /\ AgentFailed(a, s).event_type = "AGENT_FAILED" /\ AgentFailed(a, s).wall_ms = now
        /\ Get(AgentFailed(a, s), "signal", None) = None
        /\ AgentFailed(a, s).payload.failed_agent = a
        /\ Get(AgentFailed(a, s), "segment", None) = s
        /\ CoverageReassigned(s, p).event_type = "ACTION_EXECUTED"
        /\ CoverageReassigned(s, p).wall_ms = now
        /\ Get(CoverageReassigned(s, p), "signal", None) = "coverage_reassigned"
        /\ Get(CoverageReassigned(s, p), "segment", None) = s
        /\ CoverageReassigned(s, p).payload.segment = s
        /\ CoverageReassigned(s, p).payload.new_owner = p
BY DEF AgentFailed, CoverageReassigned, Event, Get

\* The events of X, and no others, are added to the log by a step.
Logged(X) ==
    /\ IsSeq(log') /\ Extends(log, log')
    /\ \A i \in DOMAIN log' \ DOMAIN log : log'[i] \in X
    /\ \A x \in X : \E i \in DOMAIN log' \ DOMAIN log : log'[i] = x
    /\ \A i \in DOMAIN log, j \in DOMAIN log' \ DOMAIN log : i < j

LEMMA Logging ==
    ASSUME NEW n, IsSeq(n), IsSeq(log), LogEvents(n)
    PROVE  /\ Logged(Items(n))
           /\ \A i \in DOMAIN log' \ DOMAIN log :
                 i - Len(log) \in DOMAIN n /\ log'[i] = n[i - Len(log)]
<1>1. log' = log \o n
    BY DEF LogEvents
<1>2. /\ IsSeq(log') /\ Extends(log, log')
      /\ \A i \in DOMAIN log' \ DOMAIN log :
            i - Len(log) \in DOMAIN n /\ log'[i] = n[i - Len(log)]
    BY <1>1, Concat DEF Extends
<1>3. \A j \in DOMAIN n : Len(log) + j \in DOMAIN log' /\ log'[Len(log) + j] = n[j]
    BY <1>1, Concat, SeqShape
<1>4. /\ DOMAIN n = 1..Len(n) /\ DOMAIN log = 1..Len(log) /\ DOMAIN log' = 1..Len(log')
      /\ Len(n) \in Nat /\ Len(log) \in Nat /\ Len(log') \in Nat
    BY <1>2, SeqShape
<1>5. \A j \in DOMAIN n : Len(log) + j \notin DOMAIN log
    BY <1>4
<1>6. \A i \in DOMAIN log, j \in DOMAIN log' \ DOMAIN log : i < j
    BY <1>4
<1> QED BY <1>2, <1>3, <1>5, <1>6 DEF Logged, Items

LEMMA TiaLog ==
    ASSUME TiaStep, IsSeq(log)
    PROVE  Logged((IF Fresh THEN {ModelUpdate} ELSE {})
                  \cup (IF Fresh /\ Correlates THEN {Correlation, CoalitionFormed} ELSE {})
                  \cup (IF RankDue THEN {PriorityList} ELSE {}))
<1> DEFINE a == IF Fresh THEN <<ModelUpdate>> ELSE <<>>
           b == IF Fresh /\ Correlates THEN <<Correlation, CoalitionFormed>> ELSE <<>>
           c == IF RankDue THEN <<PriorityList>> ELSE <<>>
<1>1. /\ IsSeq(a) /\ Items(a) = IF Fresh THEN {ModelUpdate} ELSE {}
      /\ IsSeq(b)
      /\ Items(b) = IF Fresh /\ Correlates THEN {Correlation, CoalitionFormed} ELSE {}
      /\ IsSeq(c) /\ Items(c) = IF RankDue THEN {PriorityList} ELSE {}
    BY Optional DEF Fresh, Correlates, RankDue
<1>2. LogEvents(a \o b \o c)
    BY DEF TiaStep
<1> HIDE DEF a, b, c
<1>3. IsSeq(a \o b) /\ Items(a \o b) = Items(a) \cup Items(b)
    BY <1>1, Concat
<1>4. IsSeq(a \o b \o c) /\ Items(a \o b \o c) = Items(a \o b) \cup Items(c)
    BY <1>1, <1>3, Concat
<1>5. Logged(Items(a) \cup Items(b) \cup Items(c))
    BY <1>2, <1>3, <1>4, Logging
<1> QED BY <1>1, <1>5

\* The auction comes before everything else that the RAA logs.
LEMMA RaaLog ==
    ASSUME RaaStep, IsSeq(log)
    PROVE  /\ Logged((IF bidInbox # <<>> THEN {AuctionCompleted} ELSE {})
                     \cup (IF resolutions # <<>> THEN {Reclaim} ELSE {})
                     \cup (IF MonitorDue THEN {MonitorOverhead} ELSE {}))
           /\ \A i, j \in DOMAIN log' \ DOMAIN log :
                 log'[i] = AuctionCompleted /\ log'[j] = AuctionCompleted => i = j
<1> DEFINE A == AuctionCompleted
           B == Reclaim
           C == MonitorOverhead
           a == IF bidInbox # <<>> THEN <<A>> ELSE <<>>
           b == IF resolutions # <<>> THEN <<B>> ELSE <<>>
           c == IF MonitorDue THEN <<C>> ELSE <<>>
<1>0. A # B /\ A # C
    BY RaaEvents DEF A, B, C
<1>2. LogEvents(a \o b \o c)
    BY DEF RaaStep
<1> HIDE DEF A, B, C
<1>1. /\ IsSeq(a) /\ Items(a) = IF bidInbox # <<>> THEN {A} ELSE {}
      /\ IsSeq(b) /\ Items(b) = IF resolutions # <<>> THEN {B} ELSE {}
      /\ IsSeq(c) /\ Items(c) = IF MonitorDue THEN {C} ELSE {}
    BY Optional DEF MonitorDue
<1>3. Len(a) \in Nat /\ Len(a) <= 1
    OBVIOUS
<1> HIDE DEF a, b, c
<1>4. IsSeq(b \o c) /\ Items(b \o c) = Items(b) \cup Items(c)
    BY <1>1, Concat
<1>5. a \o b \o c = a \o (b \o c)
    BY <1>1 DEF IsSeq
<1>6. /\ IsSeq(a \o (b \o c)) /\ Items(a \o (b \o c)) = Items(a) \cup Items(b \o c)
      /\ \A i \in DOMAIN (a \o (b \o c)) \ DOMAIN a :
            i - Len(a) \in DOMAIN (b \o c) /\ (a \o (b \o c))[i] = (b \o c)[i - Len(a)]
    BY <1>1, <1>4, Concat
<1> DEFINE n == a \o (b \o c)
<1>7. IsSeq(n) /\ Items(n) = Items(a) \cup Items(b) \cup Items(c) /\ LogEvents(n)
    BY <1>2, <1>4, <1>5, <1>6
<1>8. \A i \in DOMAIN n : n[i] = A => i = 1
    <2> SUFFICES ASSUME NEW i \in DOMAIN n, n[i] = A, i # 1 PROVE FALSE
        OBVIOUS
    <2>1. i \notin DOMAIN a
        BY <1>1, <1>3, <1>7, SeqShape
    <2>2. n[i] \in Items(b) \cup Items(c)
        BY <1>4, <1>6, <2>1 DEF Items
    <2> QED BY <1>0, <1>1, <2>2
<1> HIDE DEF n
<1>9. /\ Logged(Items(a) \cup Items(b) \cup Items(c))
      /\ \A i \in DOMAIN log' \ DOMAIN log :
            i - Len(log) \in DOMAIN n /\ log'[i] = n[i - Len(log)]
    BY <1>7, Logging
<1>10. \A i, j \in DOMAIN log' \ DOMAIN log : log'[i] = A /\ log'[j] = A => i = j
    <2>1. \A i \in DOMAIN log' : i \in Int
        BY <1>9, SeqShape DEF Logged
    <2>2. Len(log) \in Nat
        BY SeqShape
    <2>3. \A i \in DOMAIN log' \ DOMAIN log : log'[i] = A => i - Len(log) = 1
        BY <1>8, <1>9
    <2> QED BY <2>1, <2>2, <2>3
<1> QED BY <1>1, <1>9, <1>10 DEF A, B, C
-----------------------------------------------------------------------------
(* What a check of the failover logs *)

LEMMA ConcatEmpty ==
    ASSUME NEW s, IsSeq(s)
    PROVE  s \o <<>> = s /\ <<>> \o s = s
BY DEF IsSeq

\* One event list among empty ones is what they flatten to.
LEMMA FlattenOne ==
    ASSUME NEW s, IsSeq(s), NEW p \in DOMAIN s, IsSeq(s[p]),
           \A i \in DOMAIN s : i # p => s[i] = <<>>
    PROVE  FlattenSeq(s) = s[p]
<1> DEFINE n == Len(s)
           w == [i \in 1..n |-> IF i < p THEN <<>> ELSE s[p]]
           Sums(f) == f = [i \in 1..n |-> IF i = 1 THEN s[i] ELSE f[i - 1] \o s[i]]
           flat == CHOOSE f : Sums(f)
<1>1. n \in Nat /\ DOMAIN s = 1..n /\ p \in 1..n /\ n # 0
    BY SeqShape
<1>2. FlattenSeq(s) = flat[n]
    <2>1. FlattenSeq(s) = IF n = 0 THEN s ELSE flat[n]
        BY DEF FlattenSeq
    <2> QED BY <1>1, <2>1
<1>3. \A i \in 1..n : w[i] = IF i = 1 THEN s[i] ELSE w[i - 1] \o s[i]
    <2> SUFFICES ASSUME NEW i \in 1..n PROVE w[i] = IF i = 1 THEN s[i] ELSE w[i - 1] \o s[i]
        OBVIOUS
    <2>1. i \in Int /\ p \in Int /\ (i # 1 => i - 1 \in 1..n)
        BY <1>1
    <2>2. CASE i = 1
        BY <1>1, <2>1, <2>2
    <2>3. CASE i # 1 /\ i < p
        <3>1. w[i] = <<>> /\ w[i - 1] = <<>> /\ s[i] = <<>>
            BY <1>1, <2>1, <2>3
        <3> QED BY <2>3, <3>1
    <2>4. CASE i # 1 /\ i = p
        <3>1. w[i] = s[p] /\ w[i - 1] = <<>>
            BY <1>1, <2>1, <2>4
        <3> QED BY <2>4, <3>1, ConcatEmpty
    <2>5. CASE i # 1 /\ i > p
        <3>1. w[i] = s[p] /\ w[i - 1] = s[p] /\ s[i] = <<>>
            BY <1>1, <2>1, <2>5
        <3> QED BY <2>5, <3>1, ConcatEmpty
    <2> QED BY <2>1, <2>2, <2>3, <2>4, <2>5
<1>4. Sums(flat)
    <2>1. Sums(w)
        <3> DEFINE v == [i \in 1..n |-> IF i = 1 THEN s[i] ELSE w[i - 1] \o s[i]]
        <3>1. DOMAIN w = 1..n /\ DOMAIN v = 1..n /\ w = [i \in DOMAIN w |-> w[i]]
            OBVIOUS
        <3>2. \A i \in 1..n : v[i] = IF i = 1 THEN s[i] ELSE w[i - 1] \o s[i]
            OBVIOUS
        <3>3. v = [i \in DOMAIN v |-> v[i]]
            OBVIOUS
        <3> HIDE DEF w, v
        <3>4. DOMAIN w = DOMAIN v /\ \A i \in DOMAIN w : w[i] = v[i]
            BY <1>3, <3>1, <3>2
        <3>5. w = v
            BY <3>1, <3>3, <3>4
        <3> QED BY <3>5 DEF v
    <2> HIDE DEF Sums
    <2> QED BY <2>1
<1> HIDE DEF flat
<1>5. \A i \in 1..n : flat[i] = IF i = 1 THEN s[i] ELSE flat[i - 1] \o s[i]
    BY <1>4
<1>6. \A i \in 1..n : flat[i] = w[i]
    <2> DEFINE T == {i \in 1..n : flat[i] # w[i]}
    <2> HIDE DEF w
    <2>1. SUFFICES ASSUME T # {} PROVE FALSE
        OBVIOUS
    <2>2. PICK x \in T : \A y \in T : x <= y
        <3>1. T \subseteq Nat
            BY <1>1
        <3> HIDE DEF T
        <3> QED BY <2>1, <3>1, LeastNat
    <2>3. x \in 1..n /\ flat[x] # w[x]
        BY <2>2
    <2>4. x # 1
        BY <1>3, <1>5, <2>3
    <2>5. x - 1 \in 1..n /\ x - 1 \notin T
        BY <1>1, <2>2, <2>3, <2>4
    <2>6. flat[x - 1] = w[x - 1]
        BY <2>5
    <2> QED BY <1>3, <1>5, <2>3, <2>4, <2>6
<1>7. w[n] = s[p]
    BY <1>1
<1> QED BY <1>1, <1>2, <1>6, <1>7

LEMMA select_failover_peerFact ==
    ASSUME NEW C, C \subseteq Agents, C # {}
    PROVE  select_failover_peer(C) \in C
<1> DEFINE T == {i \in DOMAIN Fleet : Fleet[i] \in C}
<1>1. T \subseteq Nat /\ T # {}
    BY FleetShape, SegmentFacts DEF Agents
<1>2. PICK i \in T : \A j \in T : i <= j
    BY <1>1, LeastNat
<1>3. \A j \in 1..(i - 1) : j \in DOMAIN Fleet /\ Fleet[j] \notin C
    BY <1>2, FleetShape, SegmentFacts
<1>4. \E k \in DOMAIN Fleet : Fleet[k] \in C /\ \A j \in 1..(k - 1) : Fleet[j] \notin C
    BY <1>2, <1>3
<1> QED BY <1>4 DEF select_failover_peer

\* A check that finds at most one agent newly silent logs its failure, and who
\* takes over its segment if it has one and there is a peer.
LEMMA CheckLog ==
    ASSUME NEW segmentOf, NEW peers, peers \subseteq Agents, Check(segmentOf, peers),
           IsSeq(log), DOMAIN lastSeen \subseteq Agents,
           NEW a \in Agents, failed \ handled \subseteq {a}
    PROVE  LET new == failed \ handled
               taken == segmentOf[a] # None /\ peers \ {a} # {}
               peer == select_failover_peer(peers \ {a})
           IN /\ handled' = handled \cup new
              /\ lastSeen' = [b \in DOMAIN lastSeen \ new |-> lastSeen[b]]
              /\ Logged((IF new # {} THEN {AgentFailed(a, segmentOf[a])} ELSE {})
                        \cup (IF new # {} /\ taken THEN {CoverageReassigned(segmentOf[a], peer)}
                              ELSE {}))
              /\ taken => peer \in peers
              /\ \A i, j \in DOMAIN log' \ DOMAIN log :
                    (log'[i] = AgentFailed(a, segmentOf[a]) /\ log'[j] = log'[i]) => i = j
<1> DEFINE new == failed \ handled
           taken == segmentOf[a] # None /\ peers \ {a} # {}
           peer == select_failover_peer(peers \ {a})
           F == AgentFailed(a, segmentOf[a])
           C == CoverageReassigned(segmentOf[a], peer)
           x == IF taken THEN <<C>> ELSE <<>>
           n == IF new # {} THEN <<F>> \o x ELSE <<>>
           X == (IF new # {} THEN {F} ELSE {}) \cup (IF new # {} /\ taken THEN {C} ELSE {})
           Handled(b) == IF b \in new THEN Handling(b, segmentOf[b], peers) ELSE <<>>
           s == [i \in DOMAIN Fleet |-> Handled(Fleet[i])]
<1>1. taken => peer \in peers
    BY select_failover_peerFact
<1>2. /\ LogEvents(FlattenSeq(s)) /\ handled' = handled \cup new
      /\ lastSeen' = [b \in DOMAIN lastSeen \ new |-> lastSeen[b]]
    BY DEF Check
<1>3. a \in new => Handled(a) = <<F>> \o x
    BY DEF Handling
<1>4. F # C
    BY FailEvents
<1> HIDE DEF F, C, taken
<1>5. IsSeq(x) /\ Items(x) = IF taken THEN {C} ELSE {}
    <2>1. taken \in BOOLEAN
        BY DEF taken
    <2> QED BY <2>1, Optional
<1> HIDE DEF x
<1>6. IsSeq(<<F>>) /\ Items(<<F>>) = {F} /\ Len(<<F>>) = 1 /\ DOMAIN <<F>> = {1}
    BY Optional DEF Items, IsSeq
<1>7. /\ IsSeq(<<F>> \o x) /\ Items(<<F>> \o x) = {F} \cup Items(x)
      /\ \A i \in DOMAIN (<<F>> \o x) \ {1} : (<<F>> \o x)[i] \in Items(x)
    <2>1. /\ IsSeq(<<F>> \o x) /\ Items(<<F>> \o x) = Items(<<F>>) \cup Items(x)
          /\ \A i \in DOMAIN (<<F>> \o x) \ DOMAIN <<F>> :
                i - Len(<<F>>) \in DOMAIN x /\ (<<F>> \o x)[i] = x[i - Len(<<F>>)]
        BY <1>5, <1>6, Concat
    <2>2. \A i \in DOMAIN x : x[i] \in Items(x)
        BY DEF Items
    <2> QED BY <1>6, <2>1, <2>2
<1>8. IsSeq(<<>>) /\ Items(<<>>) = {} /\ DOMAIN <<>> = {}
    BY Optional DEF Items, IsSeq
<1>9. /\ IsSeq(n) /\ Items(n) = X
      /\ \A i \in DOMAIN n : n[i] = F => i = 1
    <2>1. CASE new # {}
        <3>1. n = <<F>> \o x
            BY <2>1
        <3> HIDE DEF n, new
        <3> QED BY <1>4, <1>5, <1>7, <2>1, <3>1
    <2>2. CASE new = {}
        <3>1. n = <<>> /\ X = {}
            BY <2>2
        <3> HIDE DEF n, new, X
        <3> QED BY <1>8, <3>1
    <2> QED BY <2>1, <2>2
<1>10. FlattenSeq(s) = n
    <2>1. PICK p \in DOMAIN Fleet : Fleet[p] = a
        BY DEF Agents
    <2>2. IsSeq(s) /\ DOMAIN s = DOMAIN Fleet
        <3> DEFINE m == 3 * NSeg + 2
        <3>1. DOMAIN Fleet = 1..m /\ m \in Nat
            BY FleetShape, SegmentFacts
        <3> HIDE DEF m
        <3>2. s \in Seq({Handled(Fleet[i]) : i \in 1..m})
            BY <3>1
        <3> QED BY <3>2, SeqShape
    <2>3. \A i \in DOMAIN s : i # p => s[i] = <<>>
        BY <2>1, FleetFacts
    <2>4. s[p] = n
        <3>1. s[p] = Handled(a)
            BY <2>1
        <3>2. new # {} <=> a \in new
            OBVIOUS
        <3> QED BY <1>3, <3>1, <3>2
    <2> HIDE DEF s, n
    <2> QED BY <1>9, <2>1, <2>2, <2>3, <2>4, FlattenOne
<1> HIDE DEF n, s, new, X
<1>11. /\ Logged(X)
       /\ \A i \in DOMAIN log' \ DOMAIN log :
             i - Len(log) \in DOMAIN n /\ log'[i] = n[i - Len(log)]
    BY <1>2, <1>9, <1>10, Logging
<1>12. \A i, j \in DOMAIN log' \ DOMAIN log : (log'[i] = F /\ log'[j] = log'[i]) => i = j
    <2>1. \A i \in DOMAIN log' : i \in Int
        BY <1>11, SeqShape DEF Logged
    <2>2. Len(log) \in Nat
        BY SeqShape
    <2>3. \A i \in DOMAIN log' \ DOMAIN log : log'[i] = F => i - Len(log) = 1
        BY <1>9, <1>11
    <2> QED BY <2>1, <2>2, <2>3
<1>13. /\ handled' = handled \cup new
       /\ lastSeen' = [b \in DOMAIN lastSeen \ new |-> lastSeen[b]]
       /\ Logged((IF new # {} THEN {F} ELSE {}) \cup (IF new # {} /\ taken THEN {C} ELSE {}))
       /\ taken => peer \in peers
       /\ \A i, j \in DOMAIN log' \ DOMAIN log : (log'[i] = F /\ log'[j] = log'[i]) => i = j
    BY <1>1, <1>2, <1>11, <1>12 DEF X
<1> QED BY <1>13, Zenon DEF F, C, taken, new
-----------------------------------------------------------------------------
(* What a step does to the log and to the heartbeats *)

TiaItems == (IF Fresh THEN {ModelUpdate} ELSE {})
            \cup (IF Fresh /\ Correlates THEN {Correlation, CoalitionFormed} ELSE {})
            \cup (IF RankDue THEN {PriorityList} ELSE {})
RaaItems == (IF bidInbox # <<>> THEN {AuctionCompleted} ELSE {})
            \cup (IF resolutions # <<>> THEN {Reclaim} ELSE {})
            \cup (IF MonitorDue THEN {MonitorOverhead} ELSE {})
Failure == AgentFailed(failAgent, failAgent.segment)
Cover == CoverageReassigned(failAgent.segment, select_failover_peer(Peers))

LEMMA Unlogged == IsSeq(log) /\ log' = log => Logged({})
BY DEF Logged, Extends

LEMMA BeatsFacts ==
    ASSUME NEW S, S \subseteq Agents, Beats(S), TypeInv
    PROVE  /\ DOMAIN lastSeen' \subseteq Agents
           /\ \A a \in DOMAIN lastSeen' : lastSeen'[a] \in Nat
           /\ ~(pace = "lockstep" /\ Running) => lastSeen' = lastSeen
           /\ (pace = "lockstep" /\ Running) =>
                 /\ DOMAIN lastSeen' = (S \ dead) \cup DOMAIN lastSeen
                 /\ \A a \in S \ dead : lastSeen'[a] = now
                 /\ \A a \in DOMAIN lastSeen \ (S \ dead) : lastSeen'[a] = lastSeen[a]
<1>1. /\ now \in Nat /\ DOMAIN lastSeen \subseteq Agents
      /\ \A a \in DOMAIN lastSeen : lastSeen[a] \in Nat
    BY DEF TypeInv, TypeOK
<1>2. CASE pace = "lockstep" /\ Running
    <2>1. lastSeen' = [a \in (S \ dead) \cup DOMAIN lastSeen |->
                          IF a \in S \ dead THEN now ELSE lastSeen[a]]
        BY <1>2 DEF Beats, Beat
    <2> QED BY <1>1, <1>2, <2>1
<1>3. CASE ~(pace = "lockstep" /\ Running)
    <2>1. lastSeen' = lastSeen
        BY <1>3 DEF Beats
    <2> QED BY <1>1, <1>3, <2>1
<1> QED BY <1>2, <1>3

\* At the end of a round only the agent that stopped can have fallen silent.
LEMMA SilentIsStopped ==
    ASSUME TypeInv, ClockInv, FailInv, turn = RoundEnd, failAgent # None, Running
    PROVE  /\ failed \subseteq dead /\ dead \subseteq {failAgent}
           /\ \A a \in Agents \ dead : a \in DOMAIN lastSeen /\ lastSeen[a] = now
<1>1. /\ now \in Nat /\ DOMAIN lastSeen \subseteq Agents /\ Timeout \in Nat
      /\ pace = "lockstep"
    BY TimeoutAssumption DEF TypeInv, TypeOK
<1>2. \A a \in Agents : turn > TurnOf(a)
    <2>1. \A a \in Agents : TurnOf(a) \in 1..RaaTurn
        BY Turns
    <2> QED BY <2>1, SegmentFacts DEF RaaTurn, RoundEnd
<1>3. \A a \in Agents \ dead : a \in DOMAIN lastSeen /\ lastSeen[a] = now
    BY <1>1, <1>2 DEF FailInv, Beating
<1>4. failed \subseteq dead
    BY <1>1, <1>3 DEF failed
<1> QED BY <1>3, <1>4 DEF ClockInv

LEMMA EndRoundLog ==
    ASSUME TypeInv, ClockInv, FailInv, EndRound
    PROVE  \/ /\ Logged({}) /\ handled' = handled /\ DOMAIN lastSeen' = DOMAIN lastSeen
              /\ \A b \in DOMAIN lastSeen : lastSeen'[b] = lastSeen[b]
              /\ Stopped => failed \subseteq handled
           \/ /\ dead = {failAgent} /\ failAgent \in Agents /\ failAgent \in failed \ handled
              /\ handled' = handled \cup {failAgent}
              /\ lastSeen' = [b \in DOMAIN lastSeen \ {failAgent} |-> lastSeen[b]]
              /\ Logged({Failure}
                        \cup (IF failAgent.segment # None /\ Peers # {} THEN {Cover} ELSE {}))
              /\ (failAgent.segment # None /\ Peers # {}) => select_failover_peer(Peers) \in Peers
              /\ \A i, j \in DOMAIN log' \ DOMAIN log :
                    (log'[i] = Failure /\ log'[j] = log'[i]) => i = j
<1> DEFINE new == failed \ handled
<1>1. CASE ~(failAgent # None /\ Running)
    <2>1. log' = log /\ handled' = handled /\ lastSeen' = lastSeen
        BY <1>1 DEF EndRound
    <2>2. ~Stopped
        BY <1>1, StepAssumption DEF Stopped, Running, TypeInv, TypeOK
    <2> QED BY <2>1, <2>2, Unlogged DEF TypeInv
<1>2. CASE failAgent # None /\ Running
    <2>1. /\ Check(SegmentOf, Peers) /\ turn = RoundEnd /\ failAgent \in Agents
          /\ IsSeq(log) /\ DOMAIN lastSeen \subseteq Agents
        BY <1>2 DEF EndRound, TypeInv, TypeOK
    <2>2. failed \subseteq dead /\ dead \subseteq {failAgent}
        BY <1>2, <2>1, SilentIsStopped
    <2>3. SegmentOf[failAgent] = failAgent.segment /\ Peers \subseteq Agents
        BY <2>1 DEF SegmentOf, Peers
    <2> DEFINE s == SegmentOf[failAgent]
               P == Peers \ {failAgent}
               p == select_failover_peer(P)
    <2>4. /\ handled' = handled \cup new
          /\ lastSeen' = [b \in DOMAIN lastSeen \ new |-> lastSeen[b]]
          /\ Logged((IF new # {} THEN {AgentFailed(failAgent, s)} ELSE {})
                    \cup (IF new # {} /\ (s # None /\ P # {})
                          THEN {CoverageReassigned(s, p)} ELSE {}))
          /\ (s # None /\ P # {}) => p \in Peers
          /\ \A i, j \in DOMAIN log' \ DOMAIN log :
                (log'[i] = AgentFailed(failAgent, s) /\ log'[j] = log'[i]) => i = j
        <3>1. failed \ handled \subseteq {failAgent}
            BY <2>2
        <3> HIDE DEF SegmentOf, Peers, Check
        <3> QED BY <2>1, <2>3, <3>1, CheckLog, Zenon
    <2>5. CASE new = {}
        <3>1. handled' = handled /\ failed \subseteq handled
            BY <2>4, <2>5
        <3>2. DOMAIN lastSeen' = DOMAIN lastSeen
              /\ \A b \in DOMAIN lastSeen : lastSeen'[b] = lastSeen[b]
            BY <2>4, <2>5
        <3>3. Logged({})
            BY <2>4, <2>5
        <3> QED BY <3>1, <3>2, <3>3
    <2>6. CASE new # {}
        <3>1. new = {failAgent} /\ dead = {failAgent} /\ failAgent \in new
            BY <2>2, <2>6
        <3>2. P = Peers
            BY <3>1 DEF Peers
        <3>3. AgentFailed(failAgent, s) = Failure /\ s = failAgent.segment
            BY <2>3 DEF Failure
        <3>4. CoverageReassigned(s, p) = Cover /\ p = select_failover_peer(Peers)
            BY <2>3, <3>2 DEF Cover
        <3>5. /\ handled' = handled \cup {failAgent}
              /\ lastSeen' = [b \in DOMAIN lastSeen \ {failAgent} |-> lastSeen[b]]
              /\ Logged({Failure} \cup (IF s # None /\ P # {} THEN {Cover} ELSE {}))
            BY <2>4, <2>6, <3>1, <3>3, <3>4
        <3> QED BY <2>1, <2>4, <3>1, <3>2, <3>3, <3>4, <3>5
    <2> QED BY <2>5, <2>6
<1> QED BY <1>1, <1>2
\* What each of the agents logs, and no other.
IsTias(e) ==
    \/ e.event_type = "COALITION_FORMED"
    \/ Get(e, "signal", None) \in {"threat_model_update", "correlation", "priority_list"}
IsRaas(e) == e.event_type = "AUCTION_COMPLETED" \/ Get(e, "signal", None) = "reclaim"
Of(e) == /\ e.wall_ms = now
         /\ IsTias(e) => TiaSteps
         /\ IsRaas(e) => RaaSteps
         /\ e.event_type = "AGENT_FAILED" => EndRound

LEMMA Signals ==
    /\ \A g \in {"threat_model_update", "correlation", "priority_list", "reclaim",
                 "coverage_reassigned"} : g # None
    /\ \A t \in {"COALITION_FORMED", "AUCTION_COMPLETED", "AGENT_FAILED"} : t # None
BY Selections DEF Selectors

LEMMA StepLog ==
    ASSUME TypeInv, ClockInv, FailInv, [Next]_vars
    PROVE  /\ IsSeq(log') /\ Extends(log, log')
           /\ \A i \in DOMAIN log, j \in DOMAIN log' \ DOMAIN log : i < j
           /\ \A i \in DOMAIN log' \ DOMAIN log : Of(log'[i])
<1>1. IsSeq(log)
    BY DEF TypeInv
<1>2. SUFFICES \E X : Logged(X) /\ \A e \in X : Of(e)
    BY DEF Logged
<1>3. CASE log' = log
    <2>1. Logged({})
        BY <1>1, <1>3, Unlogged
    <2> QED BY <2>1
<1>4. CASE TiaSteps
    <2>1. Logged(TiaItems)
        BY <1>1, <1>4, TiaLog DEF TiaSteps, TiaItems
    <2>2. \A e \in {ModelUpdate, Correlation, PriorityList, CoalitionFormed} : Of(e)
        BY <1>4, TiaEvents, Signals DEF Of, IsRaas
    <2> QED BY <2>1, <2>2 DEF TiaItems
<1>5. CASE RaaSteps
    <2>1. Logged(RaaItems)
        BY <1>1, <1>5, RaaLog DEF RaaSteps, RaaItems
    <2>2. \A e \in {AuctionCompleted, Reclaim, MonitorOverhead} :
             /\ e.wall_ms = now
             /\ e.event_type \in {"AUCTION_COMPLETED", "RESOURCE_ALLOCATED"}
             /\ Get(e, "signal", None) \in {None, "reclaim", "overhead"}
        BY RaaEvents
    <2>3. \A e \in {AuctionCompleted, Reclaim, MonitorOverhead} : Of(e)
        BY <1>5, <2>2, Signals DEF Of, IsTias
    <2> QED BY <2>1, <2>3 DEF RaaItems
<1>6. CASE EndRound
    <2>1. \A e \in {Failure, Cover} : Of(e)
        BY <1>6, FailEvents, Signals DEF Of, IsTias, IsRaas, Failure, Cover
    <2>2. CASE Logged({})
        BY <2>2
    <2>3. CASE ~Logged({})
        <3>1. Logged({Failure}
                     \cup (IF failAgent.segment # None /\ Peers # {} THEN {Cover} ELSE {}))
            BY <1>6, <2>3, EndRoundLog
        <3> QED BY <2>1, <3>1
    <2> QED BY <2>2, <2>3
<1> QED BY <1>3, <1>4, <1>5, <1>6 DEF Next, BeginRound, SegmentTurn, PassOver, vars

LEMMA Frames ==
    ASSUME TypeInv, ClockInv, FailInv, [Next]_vars
    PROVE  /\ Coalitions \subseteq Coalitions'
           /\ ~TiaSteps => /\ Coalitions' = Coalitions /\ Lists' = Lists
                           /\ select(log', None, "correlation") = select(log, None, "correlation")
           /\ Auctions = Auctions' \cap DOMAIN log /\ (~RaaSteps => Auctions' = Auctions)
           /\ \A k \in DOMAIN log : Before(k)' = Before(k)
           /\ Failures = Failures' \cap DOMAIN log /\ (~EndRound => Failures' = Failures)
           /\ \A i \in DOMAIN log : log'[i] = log[i]
<1>1. /\ Extends(log, log')
      /\ \A i \in DOMAIN log, j \in DOMAIN log' \ DOMAIN log : i < j
      /\ \A i \in DOMAIN log' \ DOMAIN log : Of(log'[i])
    BY StepLog
<1>2. /\ \A i \in DOMAIN log : log'[i] = log[i]
      /\ \A a, b : /\ select(log, a, b) \subseteq select(log', a, b)
                   /\ select(log, a, b) = select(log', a, b) \cap DOMAIN log
    BY <1>1, SelectGrows DEF Extends
<1>3. /\ {"COALITION_FORMED", "AUCTION_COMPLETED", "AGENT_FAILED"} \subseteq Selectors
      /\ {"correlation", "priority_list"} \subseteq Selectors
    BY DEF Selectors
<1>4. \A l : /\ select(l, "COALITION_FORMED", None) =
                  {i \in DOMAIN l : l[i].event_type = "COALITION_FORMED"}
             /\ select(l, "AUCTION_COMPLETED", None) =
                  {i \in DOMAIN l : l[i].event_type = "AUCTION_COMPLETED"}
             /\ select(l, "AGENT_FAILED", None) =
                  {i \in DOMAIN l : l[i].event_type = "AGENT_FAILED"}
             /\ select(l, None, "correlation") =
                  {i \in DOMAIN l : Get(l[i], "signal", None) = "correlation"}
             /\ select(l, None, "priority_list") =
                  {i \in DOMAIN l : Get(l[i], "signal", None) = "priority_list"}
    BY <1>3, Selections
<1>5. ~TiaSteps => \A i \in DOMAIN log' \ DOMAIN log : ~IsTias(log'[i])
    BY <1>1 DEF Of
<1>6. ~RaaSteps => \A i \in DOMAIN log' \ DOMAIN log : log'[i].event_type # "AUCTION_COMPLETED"
    BY <1>1 DEF Of, IsRaas
<1>7. ~EndRound => \A i \in DOMAIN log' \ DOMAIN log : log'[i].event_type # "AGENT_FAILED"
    BY <1>1 DEF Of
<1>8. /\ Coalitions = {log[i].payload.members : i \in select(log, "COALITION_FORMED", None)}
      /\ Coalitions' = {log'[i].payload.members : i \in select(log', "COALITION_FORMED", None)}
    BY DEF Coalitions
<1>9. Coalitions \subseteq Coalitions'
    <2>1. \A i \in select(log, "COALITION_FORMED", None) :
             i \in DOMAIN log /\ i \in select(log', "COALITION_FORMED", None)
        BY <1>2
    <2> QED BY <1>2, <1>8, <2>1
<1>10. ASSUME ~TiaSteps
       PROVE  /\ Coalitions' = Coalitions /\ Lists' = Lists
              /\ select(log', None, "correlation") = select(log, None, "correlation")
    <2>1. /\ select(log', "COALITION_FORMED", None) = select(log, "COALITION_FORMED", None)
          /\ select(log', None, "correlation") = select(log, None, "correlation")
          /\ select(log', None, "priority_list") = select(log, None, "priority_list")
        <3>1. /\ select(log', "COALITION_FORMED", None) \subseteq DOMAIN log
              /\ select(log', None, "correlation") \subseteq DOMAIN log
              /\ select(log', None, "priority_list") \subseteq DOMAIN log
            BY <1>4, <1>5, <1>10 DEF IsTias
        <3>2. \A a, b : select(log', a, b) \subseteq DOMAIN log => select(log', a, b) = select(log, a, b)
            BY <1>2
        <3> QED BY <3>1, <3>2
    <2>2. \A i \in select(log, "COALITION_FORMED", None) : log'[i] = log[i]
        BY <1>2, <1>4
    <2>3. Coalitions' = Coalitions
        BY <1>8, <2>1, <2>2
    <2> QED BY <2>1, <2>3 DEF Lists
<1>11. Auctions = Auctions' \cap DOMAIN log /\ (~RaaSteps => Auctions' = Auctions)
    <2>1. Auctions = Auctions' \cap DOMAIN log
        BY <1>2 DEF Auctions
    <2>2. ~RaaSteps => select(log', "AUCTION_COMPLETED", None) \subseteq DOMAIN log
        BY <1>4, <1>6
    <2> QED BY <2>1, <2>2 DEF Auctions
<1>12. Failures = Failures' \cap DOMAIN log /\ (~EndRound => Failures' = Failures)
    <2>1. Failures = Failures' \cap DOMAIN log
        BY <1>2 DEF Failures
    <2>2. ~EndRound => select(log', "AGENT_FAILED", None) \subseteq DOMAIN log
        BY <1>4, <1>7
    <2> QED BY <2>1, <2>2 DEF Failures
<1>13. ASSUME NEW k \in DOMAIN log PROVE Before(k)' = Before(k)
    <2>1. /\ Before(k)' = {log'[j].wall_ms : j \in {a \in Auctions' : a < k}} \cup {LongAgo}
          /\ Before(k) = {log[j].wall_ms : j \in {a \in Auctions : a < k}} \cup {LongAgo}
        BY DEF Before
    <2>2. \A a \in Auctions' : a < k => a \in Auctions
        <3>1. \A a \in DOMAIN log' \ DOMAIN log : a \in Int /\ k \in Int /\ k < a
            BY <1>1, SeqShape, StepLog
        <3>2. Auctions' \subseteq DOMAIN log'
            BY DEF Auctions, select
        <3> QED BY <1>11, <3>1, <3>2
    <2>3. {a \in Auctions' : a < k} = {a \in Auctions : a < k}
        BY <1>11, <2>2
    <2>4. \A a \in Auctions : log'[a] = log[a]
        BY <1>2, <1>11
    <2> QED BY <2>1, <2>3, <2>4
<1> QED BY <1>2, <1>9, <1>10, <1>11, <1>12, <1>13
-----------------------------------------------------------------------------
(* The invariant holds at the start *)

LEMMA EmptySelections ==
    ASSUME log = <<>>
    PROVE  \A a, b : select(log, a, b) = {}
BY DEF select

LEMMA InitInv == Init => Inv
<1> SUFFICES ASSUME Init PROVE Inv
    OBVIOUS
<1>1. PICK s \in Scenarios : /\ pace = s.pace /\ rounds = s.rounds
                             /\ failAgent = s.failAgent /\ failAfter = s.failAfter
                             /\ budget = s.budget
    BY DEF Init
<1>2. /\ pace \in {"lockstep", "free"} /\ rounds \in Nat /\ failAfter \in Nat
      /\ failAgent \in Agents \cup {None} /\ (failAgent # None => pace = "lockstep")
      /\ budget \in [reports: Nat, bids: Nat, resolutions: Nat]
    <2>1. /\ s.pace \in {"lockstep", "free"} /\ s.rounds \in Nat /\ s.failAfter \in Nat
          /\ s.failAgent \in Agents \cup {None} /\ (s.failAgent # None => s.pace = "lockstep")
          /\ s.budget \in [reports: Nat, bids: Nat, resolutions: Nat]
        BY ScenariosAssumption, Zenon
    <2> QED BY <1>1, <2>1
<1>3. /\ intelInbox = <<>> /\ map = {} /\ lastRank = LongAgo /\ correlations = {}
      /\ bidInbox = <<>> /\ resolutions = <<>> /\ lastMonitor = LongAgo
      /\ lastSeen = <<>> /\ handled = {}
    BY DEF Init, TiaInit, RaaInit, FailoverInit
<1>4. /\ now = (IF pace = "lockstep" THEN 0 ELSE Step) /\ log = <<>> /\ dead = {}
      /\ round = 0 /\ turn = 0 /\ bids = <<>>
    BY DEF Init
<1>5. Step \in Nat /\ WarmupRounds \in Nat /\ NSeg \in Nat
    BY StepAssumption, SegmentFacts
<1>6. TypeInv
    <2>1. IsSeq(log) /\ DOMAIN log = {}
        BY <1>4, Optional DEF IsSeq, Items
    <2>2. turn \in 0..RoundEnd /\ round \in 0..(WarmupRounds + rounds) /\ now \in Nat
        BY <1>2, <1>4, <1>5 DEF RoundEnd
    <2>3. DOMAIN lastSeen = {} /\ handled \subseteq Agents /\ dead \subseteq Agents
        BY <1>3, <1>4
    <2>4. budget.reports \in Nat /\ budget.bids \in Nat
        BY <1>2
    <2>5. \A S : <<>> \in Seq(S)
        OBVIOUS
    <2>6. intelInbox \in Seq(ThreatEntries) /\ bidInbox \in Seq(BidRecords)
          /\ bids \in Seq(BidRecords) /\ resolutions \in Seq(Nat)
        BY <1>3, <1>4, <2>5
    <2>7. TypeOK
        BY <1>2, <1>3, <2>2, <2>3, <2>4, <2>6 DEF TypeOK
    <2> QED BY <1>2, <1>4, <2>1, <2>7 DEF TypeInv
<1>7. ClockInv
    <2>1. ~Stopped
        BY <1>2, <1>4, <1>5 DEF Stopped
    <2> QED BY <1>4, <1>5, <2>1 DEF ClockInv
<1>8. \A a, b : select(log, a, b) = {}
    BY <1>4, EmptySelections
<1>9. CoalitionInv
    BY <1>3, <1>8 DEF CoalitionInv
<1>10. ListInv
    <2>1. LastListIsRecent
        BY <1>3, <1>4, <1>5 DEF LastListIsRecent, TiaTurn
    <2> QED BY <1>8, <2>1 DEF ListInv, Lists
<1>11. PunctualInv
    BY <1>4 DEF PunctualInv
<1>12. AuctionInv
    <2>1. Len(bids) = 0 /\ Len(bidInbox) = 0 /\ DOMAIN bids = {} /\ DOMAIN bidInbox = {}
          /\ DOMAIN resolutions = {}
        BY <1>3, <1>4
    <2>2. Waiting /\ BidsInOrder
        BY <2>1 DEF Waiting, BidsInOrder
    <2>3. BidsAndAuctions
        BY <1>8, <2>1 DEF BidsAndAuctions, Auctions
    <2>4. RaaKeepsUp
        BY <1>3, <2>1 DEF RaaKeepsUp
    <2> QED BY <1>8, <2>2, <2>3, <2>4 DEF AuctionInv, Auctions
<1>13. FailInv
    <2>1. \A a \in Agents : Beating(a)
        <3>1. \A a \in Agents : TurnOf(a) \in 1..RaaTurn
            BY Turns
        <3>2. \A a \in Agents : ~(turn > TurnOf(a))
            BY <1>4, <1>5, <3>1 DEF RaaTurn
        <3>3. ~(round > WarmupRounds)
            BY <1>4, <1>5
        <3> QED BY <1>3, <3>2, <3>3 DEF Beating
    <2>2. ~Stopped
        BY <1>2, <1>4, <1>5 DEF Stopped
    <2> QED BY <1>3, <1>8, <2>1, <2>2 DEF FailInv, Failures
<1> QED BY <1>6, <1>7, <1>9, <1>10, <1>11, <1>12, <1>13 DEF Inv

-----------------------------------------------------------------------------
(* Types *)

Seg == {Segments[i] : i \in 1..NSeg}

LEMMA ActiveSegments ==
    ASSUME TypeInv
    PROVE  /\ Perceived \subseteq ThreatEntries
           /\ active_segments(Perceived) \subseteq Seg
           /\ IsFiniteSet(Seg)
<1>1. intelInbox \in Seq(ThreatEntries) /\ map \subseteq ThreatEntries
    BY DEF TypeInv, TypeOK
<1>2. Perceived \subseteq ThreatEntries
    BY <1>1 DEF Perceived
<1>3. \A e \in ThreatEntries : e.segment \in Seg
    BY DEF ThreatEntries, Seg, NSeg
<1>4. IsFiniteSet(Seg)
    <2>1. IsFiniteSet(1..NSeg)
        BY SegmentFacts, FS_Interval
    <2> DEFINE f == [i \in 1..NSeg |-> Segments[i]]
    <2>2. Seg = {f[i] : i \in 1..NSeg} /\ f \in [1..NSeg -> Seg]
        BY DEF Seg
    <2>3. f \in Surjection(1..NSeg, Seg)
        BY <2>2 DEF Surjection
    <2> QED BY <2>1, <2>3, FS_Surjection
<1> QED BY <1>2, <1>3, <1>4 DEF active_segments

LEMMA TypeStep ==
    ASSUME TypeInv, ClockInv, FailInv, [Next]_vars
    PROVE  TypeInv'
<1> DEFINE Clock == /\ now' \in Nat /\ now <= now'
                    /\ turn' \in 0..RoundEnd /\ round' \in 0..(WarmupRounds + rounds)
                    /\ turn' > 0 => round' < WarmupRounds + rounds
                    /\ dead' \subseteq Agents
           Inboxes == /\ intelInbox' \in Seq(ThreatEntries) /\ map' \subseteq ThreatEntries
                      /\ bidInbox' \in Seq(BidRecords) /\ bids' \in Seq(BidRecords)
                      /\ resolutions' \in Seq(Nat)
                      /\ budget' \in [reports: Nat, bids: Nat, resolutions: Nat]
           Memory == /\ lastRank' \in Nat \cup {LongAgo} /\ lastMonitor' \in Nat \cup {LongAgo}
                     /\ correlations' \subseteq SUBSET Seg
                     /\ DOMAIN lastSeen' \subseteq Agents
                     /\ \A a \in DOMAIN lastSeen' : lastSeen'[a] \in Nat
                     /\ handled' \subseteq Agents
           Rest == UNCHANGED <<pace, rounds, failAgent, failAfter>>
<1>1. /\ IsSeq(log') /\ Extends(log, log')
      /\ \A i \in DOMAIN log' \ DOMAIN log : log'[i].wall_ms = now
    BY StepLog DEF Of
<1>2. /\ now \in Nat /\ intelInbox \in Seq(ThreatEntries) /\ map \subseteq ThreatEntries
      /\ lastRank \in Nat \cup {LongAgo} /\ correlations \subseteq SUBSET Seg
      /\ bidInbox \in Seq(BidRecords) /\ bids \in Seq(BidRecords)
      /\ resolutions \in Seq(Nat) /\ lastMonitor \in Nat \cup {LongAgo}
      /\ DOMAIN lastSeen \subseteq Agents /\ (\A a \in DOMAIN lastSeen : lastSeen[a] \in Nat)
      /\ handled \subseteq Agents /\ dead \subseteq Agents
      /\ turn \in 0..RoundEnd /\ round \in 0..(WarmupRounds + rounds)
      /\ pace \in {"lockstep", "free"}
    BY DEF TypeInv, TypeOK, Seg
<1>3. /\ rounds \in Nat /\ failAfter \in Nat /\ failAgent \in Agents \cup {None}
      /\ (failAgent # None => pace = "lockstep")
      /\ budget \in [reports: Nat, bids: Nat, resolutions: Nat]
      /\ (turn > 0 => round < WarmupRounds + rounds)
      /\ IsSeq(log) /\ \A i \in DOMAIN log : log[i].wall_ms \in Nat /\ log[i].wall_ms <= now
    BY DEF TypeInv
<1>4. Step \in Nat /\ WarmupRounds \in Nat /\ NSeg \in Nat
    BY StepAssumption, SegmentFacts
<1>5. SUFFICES Clock /\ Inboxes /\ Memory /\ Rest
    <2> HIDE DEF TypeInv
    <2>1. ASSUME Clock /\ Inboxes /\ Memory /\ Rest PROVE TypeInv'
        <3>1. \A i \in DOMAIN log' : log'[i].wall_ms \in Nat /\ log'[i].wall_ms <= now'
            <4>1. \A i \in DOMAIN log : log'[i].wall_ms \in Nat /\ log'[i].wall_ms <= now'
                <5> SUFFICES ASSUME NEW i \in DOMAIN log
                             PROVE  log'[i].wall_ms \in Nat /\ log'[i].wall_ms <= now'
                    OBVIOUS
                <5>1. log'[i] = log[i]
                    BY <1>1 DEF Extends
                <5>2. log[i].wall_ms \in Nat /\ log[i].wall_ms <= now
                    BY <1>3
                <5> DEFINE t == log[i].wall_ms
                <5>3. t \in Nat /\ t <= now /\ now <= now' /\ now \in Nat /\ now' \in Nat
                    BY <1>2, <2>1, <5>2
                <5> HIDE DEF t
                <5>4. t <= now'
                    BY <5>3
                <5> QED BY <5>1, <5>3, <5>4 DEF t
            <4>2. \A i \in DOMAIN log' \ DOMAIN log : log'[i].wall_ms \in Nat /\ log'[i].wall_ms <= now'
                BY <1>1, <1>2, <2>1
            <4> QED BY <4>1, <4>2
        <3>2. budget'.reports \in Nat /\ budget'.bids \in Nat
            BY <2>1
        <3>3. TypeOK'
            BY <1>2, <2>1, <3>2 DEF TypeOK, Seg
        <3>4. /\ rounds' \in Nat /\ failAfter' \in Nat /\ failAgent' \in Agents \cup {None}
              /\ (failAgent' # None => pace' = "lockstep")
            BY <1>3, <2>1
        <3> QED BY <1>1, <2>1, <3>1, <3>3, <3>4 DEF TypeInv
    <2> QED BY <2>1
<1>6. CASE BeginRound
    <2>1. Clock
        BY <1>2, <1>3, <1>4, <1>6 DEF BeginRound, RoundEnd
    <2>2. Inboxes /\ Memory /\ Rest
        BY <1>2, <1>3, <1>6 DEF BeginRound, tiaVars, raaVars, failoverVars, envVars
    <2> QED BY <2>1, <2>2
<1>7. ASSUME NEW report \in BOOLEAN, NEW resolved \in BOOLEAN, NEW bid \in BidValues \cup {None},
             SegmentTurn(report, bid, resolved)
      PROVE  Clock /\ Inboxes /\ Memory /\ Rest
    <2>1. turn \in 1..NSeg /\ turn' = turn + 1 /\ Segments[turn] \in Seg
          /\ Seg = {Segments[i] : i \in DOMAIN Segments}
        BY <1>7, SegmentFacts DEF SegmentTurn, Seg
    <2>2. Clock /\ Rest
        BY <1>2, <1>3, <1>4, <1>7, <2>1 DEF SegmentTurn, RoundEnd
    <2>3. /\ intelInbox' \in Seq(ThreatEntries) /\ map' \subseteq ThreatEntries
          /\ resolutions' \in Seq(Nat)
        <3>1. [segment |-> Segments[turn], ts_ms |-> now] \in ThreatEntries
            BY <1>2, <2>1 DEF ThreatEntries
        <3> QED BY <1>2, <1>7, <3>1 DEF SegmentTurn
    <2>4. bidInbox' \in Seq(BidRecords) /\ bids' \in Seq(BidRecords)
        <3>1. bid # None => [bidder |-> Segments[turn], value |-> bid, ts_ms |-> now] \in BidRecords
            BY <1>2, <2>1 DEF BidRecords, Seg
        <3> QED BY <1>2, <1>7, <3>1 DEF SegmentTurn
    <2>5. budget' \in [reports: Nat, bids: Nat, resolutions: Nat]
        <3>1. /\ budget.reports - (IF report THEN 1 ELSE 0) \in Nat
              /\ budget.bids - (IF bid # None THEN 1 ELSE 0) \in Nat
              /\ budget.resolutions - (IF resolved THEN 1 ELSE 0) \in Nat
            BY <1>3, <1>7 DEF SegmentTurn
        <3> QED BY <1>7, <3>1 DEF SegmentTurn
    <2>6. Memory
        <3>1. Crew(turn) \subseteq Agents /\ Beats(Crew(turn))
            BY <1>7, <2>1, FleetFacts DEF SegmentTurn, Crew
        <3> QED BY <1>2, <1>7, <3>1, BeatsFacts DEF SegmentTurn
    <2> QED BY <2>2, <2>3, <2>4, <2>5, <2>6
<1>8. CASE TiaSteps
    <2>1. Clock /\ Rest
        BY <1>2, <1>3, <1>4, <1>8 DEF TiaSteps, envVars, TiaTurn, RoundEnd
    <2>2. Inboxes
        BY <1>2, <1>3, <1>8, ActiveSegments DEF TiaSteps, TiaStep, raaVars, envVars
    <2>3. Memory
        <3>1. {TIA} \subseteq Agents /\ Beats({TIA})
            BY <1>8, FleetFacts DEF TiaSteps
        <3>2. correlations' \subseteq SUBSET Seg
            BY <1>2, <1>8, ActiveSegments DEF TiaSteps, TiaStep
        <3>3. lastRank' \in Nat \cup {LongAgo}
            BY <1>2, <1>8 DEF TiaSteps, TiaStep, NextRank
        <3> QED BY <1>2, <1>8, <3>1, <3>2, <3>3, BeatsFacts DEF TiaSteps, raaVars
    <2> QED BY <2>1, <2>2, <2>3
<1>9. CASE RaaSteps
    <2>1. Clock /\ Rest
        BY <1>2, <1>3, <1>4, <1>9 DEF RaaSteps, envVars, RaaTurn, RoundEnd
    <2>2. Inboxes
        BY <1>2, <1>3, <1>9 DEF RaaSteps, RaaStep, tiaVars, envVars
    <2>3. Memory
        <3>1. {RAA} \subseteq Agents /\ Beats({RAA})
            BY <1>9, FleetFacts DEF RaaSteps
        <3>2. lastMonitor' \in Nat \cup {LongAgo}
            BY <1>2, <1>9 DEF RaaSteps, RaaStep
        <3> QED BY <1>2, <1>9, <3>1, <3>2, BeatsFacts DEF RaaSteps, tiaVars
    <2> QED BY <2>1, <2>2, <2>3
<1>10. CASE PassOver
    <2>1. Clock /\ Rest
        BY <1>2, <1>3, <1>4, <1>10 DEF PassOver, envVars, TiaTurn, RaaTurn, RoundEnd
    <2>2. Inboxes /\ Memory
        BY <1>2, <1>3, <1>10 DEF PassOver, tiaVars, raaVars, failoverVars, envVars
    <2> QED BY <2>1, <2>2
<1>11. CASE EndRound
    <2>1. Clock /\ Rest
        <3>1. round' = round + 1 /\ turn' = 0 /\ now' = now + Step /\ turn = RoundEnd /\ dead' = dead
            BY <1>11 DEF EndRound
        <3>2. RoundEnd \in Nat /\ RoundEnd > 0
            BY <1>4 DEF RoundEnd
        <3>3. Clock
            BY <1>2, <1>3, <1>4, <3>1, <3>2
        <3> QED BY <1>11, <3>3 DEF EndRound, envVars
    <2>2. Inboxes
        BY <1>2, <1>3, <1>11 DEF EndRound, tiaVars, raaVars, envVars
    <2>3. Memory
        <3>1. /\ DOMAIN lastSeen' \subseteq Agents
              /\ (\A a \in DOMAIN lastSeen' : lastSeen'[a] \in Nat)
              /\ handled' \subseteq Agents
            BY <1>2, <1>11, EndRoundLog
        <3> QED BY <1>2, <1>11, <3>1 DEF EndRound, tiaVars, raaVars
    <2> QED BY <2>1, <2>2, <2>3
<1>12. CASE UNCHANGED vars
    BY <1>2, <1>3, <1>12 DEF vars, tiaVars, raaVars, failoverVars, envVars
<1> QED BY <1>6, <1>7, <1>8, <1>9, <1>10, <1>11, <1>12 DEF Next

LEMMA ClockStep ==
    ASSUME TypeInv, ClockInv, [Next]_vars
    PROVE  ClockInv'
<1>1. /\ now \in Nat /\ turn \in 0..RoundEnd /\ round \in Nat /\ rounds \in Nat
      /\ failAfter \in Nat /\ Step \in Nat /\ WarmupRounds \in Nat /\ NSeg \in Nat
    BY StepAssumption, SegmentFacts DEF TypeInv, TypeOK
<1>2. CASE BeginRound
    <2>1. /\ turn = 0 /\ turn' = 1 /\ round' = round /\ now' = now
          /\ UNCHANGED <<pace, failAgent, failAfter>>
          /\ dead' = IF failAgent # None /\ round = WarmupRounds + failAfter
                     THEN dead \cup {failAgent} ELSE dead
        BY <1>2 DEF BeginRound, envVars
    <2>2. Stopped' <=> failAgent # None /\ (Stopped \/ round = WarmupRounds + failAfter)
        BY <1>1, <2>1 DEF Stopped
    <2>3. Stopped => failAgent # None
        BY DEF Stopped
    <2> QED BY <1>1, <2>1, <2>2, <2>3 DEF ClockInv
<1>3. CASE EndRound
    <2>1. /\ turn = RoundEnd /\ turn' = 0 /\ round' = round + 1 /\ now' = now + Step
          /\ UNCHANGED <<pace, failAgent, failAfter, dead>>
        BY <1>3 DEF EndRound, envVars
    <2>2. Stopped' <=> Stopped
        BY <1>1, <2>1 DEF Stopped, RoundEnd
    <2>3. (round + 1) * Step = round * Step + Step
        BY <1>1
    <2> QED BY <1>1, <2>1, <2>2, <2>3 DEF ClockInv
<1>4. CASE ~BeginRound /\ ~EndRound
    <2>1. /\ (turn' = turn \/ (turn > 0 /\ turn' = turn + 1)) /\ round' = round /\ now' = now
          /\ UNCHANGED <<pace, failAgent, failAfter, dead>>
        <3>1. ASSUME NEW report, NEW resolved, NEW bid, SegmentTurn(report, bid, resolved)
              PROVE  /\ turn > 0 /\ turn' = turn + 1 /\ round' = round /\ now' = now
                     /\ UNCHANGED <<pace, failAgent, failAfter, dead>>
            BY <1>1, <3>1 DEF SegmentTurn
        <3>2. CASE TiaSteps \/ RaaSteps \/ PassOver
            BY <1>1, <3>2 DEF TiaSteps, RaaSteps, PassOver, envVars, TiaTurn, RaaTurn
        <3>3. CASE UNCHANGED vars
            BY <3>3 DEF vars, envVars
        <3> QED BY <1>4, <3>1, <3>2, <3>3 DEF Next
    <2>2. Stopped' <=> Stopped
        BY <1>1, <2>1 DEF Stopped
    <2> QED BY <2>1, <2>2 DEF ClockInv
<1> QED BY <1>2, <1>3, <1>4
-----------------------------------------------------------------------------
(* Correlations and coalitions *)

LEMMA TiaCoalitions ==
    ASSUME TypeInv, ClockInv, FailInv, CoalitionInv, TiaSteps
    PROVE  /\ correlations' \subseteq Coalitions'
           /\ select(log', None, "correlation") # {} => Coalitions' # {}
           /\ (Fresh /\ Cardinality(active_segments(Perceived)) >= 2)
                 => active_segments(Perceived) \in Coalitions'
<1> DEFINE A == active_segments(Perceived)
           formed == Fresh /\ Correlates
<1>1. Logged(TiaItems) /\ IsSeq(log)
    BY TiaLog DEF TiaSteps, TiaItems, TypeInv
<1>2. Coalitions \subseteq Coalitions' /\ \A i \in DOMAIN log : log'[i] = log[i]
    BY Frames DEF Next
<1>3. formed => A \in Coalitions'
    <2> SUFFICES ASSUME formed PROVE A \in Coalitions'
        OBVIOUS
    <2>1. PICK i \in DOMAIN log' : log'[i] = CoalitionFormed
        BY <1>1 DEF Logged, TiaItems
    <2>2. i \in select(log', "COALITION_FORMED", None) /\ log'[i].payload.members = A
        BY <2>1, TiaEvents, Signals, Selections DEF Selectors
    <2> QED BY <2>2 DEF Coalitions
<1>4. correlations' = IF formed THEN correlations \cup {A} ELSE correlations
    BY DEF TiaSteps, TiaStep
<1>5. (Fresh /\ Cardinality(A) >= 2) => (formed \/ A \in correlations)
    BY DEF Correlates
<1>6. correlations \subseteq Coalitions
    BY DEF CoalitionInv
<1>7. ASSUME select(log', None, "correlation") # {} PROVE Coalitions' # {}
    <2>1. PICK i \in select(log', None, "correlation") : TRUE
        BY <1>7
    <2>2. i \in DOMAIN log' /\ Get(log'[i], "signal", None) = "correlation"
        BY <2>1, Selections DEF Selectors
    <2>3. CASE i \in DOMAIN log
        <3>1. i \in select(log, None, "correlation")
            BY <1>2, <2>2, <2>3, Selections DEF Selectors
        <3> QED BY <1>2, <3>1 DEF CoalitionInv
    <2>4. CASE i \notin DOMAIN log
        <3>1. log'[i] \in TiaItems
            BY <1>1, <2>2, <2>4 DEF Logged
        <3>2. log'[i] \notin {ModelUpdate, PriorityList}
            BY <2>2, TiaEvents
        <3>3. formed
            BY <3>1, <3>2 DEF TiaItems
        <3> QED BY <1>3, <3>3
    <2> QED BY <2>3, <2>4
<1> HIDE DEF A, formed
<1>8. correlations' \subseteq Coalitions' /\ ((Fresh /\ Cardinality(A) >= 2) => A \in Coalitions')
    BY <1>2, <1>3, <1>4, <1>5, <1>6
<1> QED BY <1>7, <1>8 DEF A

\* Two reports within the window of each other, one of them of now, are of
\* segments that are active now.
LEMMA BothActive ==
    ASSUME TypeInv, CoalitionInv, NEW e \in Perceived, NEW f \in Perceived,
           e.segment # f.segment, e.ts_ms - f.ts_ms \in 0..Window,
           e.ts_ms = now \/ f.ts_ms = now
    PROVE  /\ {e.segment, f.segment} \subseteq active_segments(Perceived)
           /\ Cardinality(active_segments(Perceived)) >= 2
<1> DEFINE A == active_segments(Perceived)
<1>1. e.ts_ms \in Int /\ f.ts_ms \in Int /\ now \in Nat /\ Window \in Nat
    <2>1. e \in ThreatEntries /\ f \in ThreatEntries
        BY ActiveSegments
    <2>2. \A x \in ThreatEntries : x.ts_ms \in Int
        BY DEF ThreatEntries
    <2>3. now \in Nat /\ Window \in Nat
        BY TiaAssumption DEF TypeInv, TypeOK
    <2> QED BY <2>1, <2>2, <2>3
<1>2. e.ts_ms <= now /\ f.ts_ms <= now
    BY DEF CoalitionInv, Perceived
<1>3. now - e.ts_ms <= Window /\ now - f.ts_ms <= Window
    BY <1>1, <1>2
<1>4. e.segment \in A /\ f.segment \in A
    BY <1>3 DEF active_segments
<1>5. IsFiniteSet(A)
    BY ActiveSegments, FS_Subset
<1> HIDE DEF A
<1>6. Cardinality({e.segment, f.segment}) = 2
    <2>1. IsFiniteSet({f.segment}) /\ Cardinality({f.segment}) = 1
        BY FS_Singleton
    <2>2. {e.segment, f.segment} = {f.segment} \cup {e.segment}
        OBVIOUS
    <2> QED BY <2>1, <2>2, FS_AddElement
<1>7. Cardinality({e.segment, f.segment}) <= Cardinality(A) /\ Cardinality(A) \in Nat
    BY <1>4, <1>5, FS_Subset, FS_CardinalityType
<1> QED BY <1>4, <1>6, <1>7 DEF A

LEMMA CoalitionStep ==
    ASSUME TypeInv, ClockInv, FailInv, CoalitionInv, [Next]_vars
    PROVE  CoalitionInv'
<1> DEFINE Past(n, I) == \A i \in DOMAIN I : I[i].ts_ms <= n
           Now(n, I) == \A i \in DOMAIN I : I[i].ts_ms = n
           Covered(M, C) ==
               \A e, f \in M : (e.segment # f.segment /\ e.ts_ms - f.ts_ms \in 0..Window) =>
                   \E S \in C : {e.segment, f.segment} \subseteq S
<1>1. /\ now \in Nat /\ turn \in 0..RoundEnd /\ Step \in Nat /\ NSeg \in Nat
      /\ intelInbox \in Seq(ThreatEntries) /\ map \subseteq ThreatEntries
    BY StepAssumption, SegmentFacts DEF TypeInv, TypeOK
<1>2. /\ \A e \in map : e.ts_ms <= now
      /\ Past(now, intelInbox) /\ correlations \subseteq Coalitions
      /\ (pace = "lockstep" /\ TIA \notin dead) =>
            Now(now, intelInbox) /\ (turn \notin 1..TiaTurn => intelInbox = <<>>)
      /\ select(log, None, "correlation") # {} => Coalitions # {}
      /\ pace = "lockstep" => Covered(map, Coalitions)
    BY DEF CoalitionInv
<1>3. \A e \in ThreatEntries : e.ts_ms \in Int
    BY DEF ThreatEntries
<1>4. dead \subseteq dead' /\ pace' = pace
    BY DEF Next, BeginRound, SegmentTurn, TiaSteps, RaaSteps, PassOver, EndRound, vars, envVars
<1>5. CASE TiaSteps
    <2>1. /\ map' = Perceived /\ intelInbox' = <<>> /\ now' = now /\ TIA \notin dead
          /\ turn' \notin 1..TiaTurn
        BY <1>1, <1>5 DEF TiaSteps, TiaStep, TiaTurn
    <2>2. \A e \in Perceived : e.ts_ms <= now
        BY <1>2 DEF Perceived
    <2>3. /\ correlations' \subseteq Coalitions'
          /\ select(log', None, "correlation") # {} => Coalitions' # {}
        BY <1>5, TiaCoalitions
    <2>4. ASSUME pace = "lockstep" PROVE Covered(Perceived, Coalitions')
        <3> SUFFICES ASSUME NEW e \in Perceived, NEW f \in Perceived,
                            e.segment # f.segment, e.ts_ms - f.ts_ms \in 0..Window
                     PROVE  \E S \in Coalitions' : {e.segment, f.segment} \subseteq S
            OBVIOUS
        <3>1. CASE e \in map /\ f \in map
            <4>1. Coalitions \subseteq Coalitions'
                BY Frames
            <4> QED BY <1>2, <2>4, <3>1, <4>1
        <3>2. CASE ~(e \in map /\ f \in map)
            <4>1. Fresh
                BY <3>2 DEF Perceived, Fresh
            <4>2. e.ts_ms = now \/ f.ts_ms = now
                BY <1>2, <2>1, <2>4, <3>2 DEF Perceived
            <4>3. /\ {e.segment, f.segment} \subseteq active_segments(Perceived)
                  /\ Cardinality(active_segments(Perceived)) >= 2
                BY <4>2, BothActive
            <4>4. active_segments(Perceived) \in Coalitions'
                BY <1>5, <4>1, <4>3, TiaCoalitions
            <4> QED BY <4>3, <4>4
        <3> QED BY <3>1, <3>2
    <2>5. DOMAIN intelInbox' = {}
        BY <2>1
    <2> QED BY <1>4, <2>1, <2>2, <2>3, <2>4, <2>5 DEF CoalitionInv
<1>6. CASE ~TiaSteps
    <2>1. /\ Coalitions' = Coalitions
          /\ select(log', None, "correlation") = select(log, None, "correlation")
        BY <1>6, Frames
    <2>2. map' = map /\ correlations' = correlations
        BY <1>6 DEF Next, BeginRound, SegmentTurn, RaaSteps, PassOver, EndRound, vars, tiaVars
    <2>3. SUFFICES /\ now <= now' /\ now' \in Int
                   /\ Past(now', intelInbox')
                   /\ (pace = "lockstep" /\ TIA \notin dead') =>
                         Now(now', intelInbox') /\ (turn' \notin 1..TiaTurn => intelInbox' = <<>>)
        <3>1. ASSUME now <= now', now' \in Int PROVE \A e \in map' : e.ts_ms <= now'
            BY <1>1, <1>2, <1>3, <2>2, <3>1
        <3> QED BY <1>2, <1>4, <2>1, <2>2, <3>1 DEF CoalitionInv
    <2>4. CASE BeginRound
        <3>1. turn = 0 /\ now' = now /\ intelInbox' = intelInbox
            BY <2>4 DEF BeginRound, tiaVars
        <3> QED BY <1>1, <1>2, <1>4, <3>1 DEF TiaTurn
    <2>5. ASSUME NEW report \in BOOLEAN, NEW resolved, NEW bid,
                 SegmentTurn(report, bid, resolved)
          PROVE  /\ now <= now' /\ now' \in Int
                 /\ Past(now', intelInbox')
                 /\ (pace = "lockstep" /\ TIA \notin dead') =>
                       Now(now', intelInbox') /\ (turn' \notin 1..TiaTurn => intelInbox' = <<>>)
        <3> DEFINE r == [segment |-> Segments[turn], ts_ms |-> now]
        <3>1. /\ turn \in 1..NSeg /\ turn' = turn + 1 /\ now' = now /\ dead' = dead
              /\ intelInbox' = IF report THEN Append(intelInbox, r) ELSE intelInbox
            BY <2>5 DEF SegmentTurn
        <3>2. r.ts_ms = now
            OBVIOUS
        <3>3. turn' \in 1..TiaTurn /\ turn \in 1..TiaTurn
            BY <1>1, <3>1 DEF TiaTurn
        <3> HIDE DEF r
        <3>4. /\ Items(Append(intelInbox, r)) = Items(intelInbox) \cup {r}
            BY <1>1, SeqShape, AppendItems
        <3>5. Items(intelInbox') \subseteq Items(intelInbox) \cup {r}
            BY <3>1, <3>4
        <3>6. Past(now, intelInbox')
            <4>1. \A x \in Items(intelInbox) : x.ts_ms <= now
                BY <1>2 DEF Items
            <4>2. r.ts_ms <= now
                BY <1>1, <3>2
            <4>3. \A x \in Items(intelInbox') : x.ts_ms <= now
                BY <3>5, <4>1, <4>2
            <4> QED BY <4>3 DEF Items
        <3>7. (pace = "lockstep" /\ TIA \notin dead) => Now(now, intelInbox')
            <4>1. (pace = "lockstep" /\ TIA \notin dead) => \A x \in Items(intelInbox) : x.ts_ms = now
                BY <1>2 DEF Items
            <4>2. (pace = "lockstep" /\ TIA \notin dead) => \A x \in Items(intelInbox') : x.ts_ms = now
                BY <3>2, <3>5, <4>1
            <4> QED BY <4>2 DEF Items
        <3> QED BY <1>1, <3>1, <3>3, <3>6, <3>7
    <2>6. CASE RaaSteps \/ PassOver
        <3>1. now' = now /\ intelInbox' = intelInbox /\ turn' = turn + 1 /\ dead' = dead
            BY <2>6 DEF RaaSteps, PassOver, tiaVars
        <3>2. (pace = "lockstep" /\ TIA \notin dead) => turn = RaaTurn
            BY <2>6 DEF RaaSteps, PassOver, PassedOver
        <3>3. RaaTurn \notin 1..TiaTurn
            BY <1>1 DEF RaaTurn, TiaTurn
        <3> QED BY <1>1, <1>2, <3>1, <3>2, <3>3
    <2>7. CASE EndRound
        <3>1. turn = RoundEnd /\ now' = now + Step /\ intelInbox' = intelInbox /\ dead' = dead
            BY <2>7 DEF EndRound, tiaVars
        <3>2. RoundEnd \notin 1..TiaTurn
            BY <1>1 DEF RoundEnd, TiaTurn
        <3>3. now <= now' /\ now' \in Int
            BY <1>1, <3>1
        <3>4. Past(now', intelInbox')
            BY <1>1, <1>2, <1>3, <3>1, <3>3
        <3>5. (pace = "lockstep" /\ TIA \notin dead) => intelInbox = <<>>
            BY <1>2, <3>1, <3>2
        <3> QED BY <3>1, <3>3, <3>4, <3>5
    <2>8. CASE UNCHANGED vars
        BY <1>1, <1>2, <2>8 DEF vars, tiaVars
    <2> QED BY <1>6, <2>4, <2>5, <2>6, <2>7, <2>8 DEF Next
<1> QED BY <1>5, <1>6
-----------------------------------------------------------------------------
(* The priority lists *)

LEMMA RankRoundsFact ==
    /\ RankRounds \in Nat /\ RankRounds > 0 /\ RankInterval = RankRounds * Step
    /\ RankInterval \in 1..1000 /\ Step \in Nat /\ Step > 0
<1>1. RankRounds \in 1..RankInterval /\ RankInterval = RankRounds * Step
    BY StepAssumption DEF RankRounds
<1> QED BY <1>1, StepAssumption, TiaAssumption

\* The clock counts rounds.
LEMMA RoundsApart ==
    ASSUME NEW a \in Nat, NEW b \in Nat, NEW n \in Nat
    PROVE  /\ a * Step - b * Step = (a - b) * Step
           /\ a - b <= n => a * Step - b * Step <= n * Step
           /\ a - b >= n => a * Step - b * Step >= n * Step
           /\ a * Step >= 0 /\ (a < b => a * Step < b * Step)
<1>1. Step \in Nat /\ Step > 0
    BY StepAssumption
<1>2. a * Step - b * Step = (a - b) * Step
    BY <1>1
<1>3. \A x, y \in Int : x <= y => x * Step <= y * Step
    <2> SUFFICES ASSUME NEW x \in Int, NEW y \in Int, x <= y PROVE x * Step <= y * Step
        OBVIOUS
    <2> DEFINE d == y - x
    <2>1. d \in Nat /\ y = x + d
        OBVIOUS
    <2> HIDE DEF d
    <2>2. y * Step = x * Step + d * Step
        BY <1>1, <2>1
    <2>3. d * Step >= 0 /\ d * Step \in Int /\ x * Step \in Int
        BY <1>1, <2>1
    <2> QED BY <2>2, <2>3
<1>4. a - b \in Int
    OBVIOUS
<1>5. a < b => a * Step < b * Step
    <2> SUFFICES ASSUME a < b PROVE a * Step < b * Step
        OBVIOUS
    <2>1. a + 1 <= b /\ a + 1 \in Int
        OBVIOUS
    <2>2. (a + 1) * Step <= b * Step
        BY <1>3, <2>1
    <2>3. (a + 1) * Step = a * Step + Step
        BY <1>1
    <2> QED BY <1>1, <2>2, <2>3
<1>6. a * Step >= 0
    BY <1>1
<1>7. a - b <= n => (a - b) * Step <= n * Step
    BY <1>3, <1>4
<1>8. a - b >= n => (a - b) * Step >= n * Step
    BY <1>3, <1>4
<1> QED BY <1>2, <1>5, <1>6, <1>7, <1>8

LEMMA ListsAre ==
    ASSUME TypeInv
    PROVE  /\ Lists = {i \in DOMAIN log : Get(log[i], "signal", None) = "priority_list"}
           /\ Lists' = {i \in DOMAIN log' : Get(log'[i], "signal", None) = "priority_list"}
<1>1. "priority_list" \in Selectors
    BY DEF Selectors
<1> QED BY <1>1, Selections DEF Lists

LEMMA ListStep ==
    ASSUME TypeInv, ClockInv, FailInv, ListInv, [Next]_vars
    PROVE  ListInv'
<1>1. /\ now \in Nat /\ turn \in 0..RoundEnd /\ round \in Nat /\ NSeg \in Nat
      /\ lastRank \in Nat \cup {LongAgo} /\ LongAgo \in Int /\ LongAgo < -1000
    BY SegmentFacts, LongAgoIsPast, StepAssumption DEF TypeInv, TypeOK
<1>2. /\ RankRounds \in Nat /\ RankRounds > 0 /\ RankInterval = RankRounds * Step
      /\ RankInterval \in 1..1000 /\ Step \in Nat /\ Step > 0
    BY RankRoundsFact
<1>3. pace' = pace /\ dead \subseteq dead'
    BY DEF Next, BeginRound, SegmentTurn, TiaSteps, RaaSteps, PassOver, EndRound, vars, envVars
<1>4. SUFFICES ASSUME pace = "lockstep" PROVE ListInv'
    BY <1>3 DEF ListInv
<1>5. /\ \A i \in Lists : lastRank \in Nat /\ log[i].wall_ms <= lastRank
      /\ \A i \in Lists : log[i].wall_ms < lastRank =>
            \E j \in Lists : /\ log[i].wall_ms < log[j].wall_ms
                             /\ log[j].wall_ms - log[i].wall_ms <= 1000
      /\ TIA \notin dead => LastListIsRecent
    BY <1>4 DEF ListInv
<1>6. now = round * Step
    BY <1>4 DEF ClockInv
<1>7. /\ \A i \in DOMAIN log : log'[i] = log[i]
      /\ Lists \subseteq DOMAIN log
      /\ \A i \in DOMAIN log : log[i].wall_ms \in Nat /\ log[i].wall_ms <= now
    BY Frames, ListsAre DEF TypeInv
<1>8. CASE TiaSteps
    <2>1. /\ turn = TiaTurn /\ turn' = turn + 1 /\ now' = now /\ round' = round /\ TIA \notin dead
          /\ lastRank' = IF RankDue THEN now ELSE lastRank
          /\ IsSeq(log)
        BY <1>8 DEF TiaSteps, TiaStep, NextRank, TypeInv
    <2>2. Logged(TiaItems) /\ Extends(log, log')
        BY <1>8, <2>1, TiaLog DEF TiaSteps, TiaItems, Logged
    <2>3. \/ lastRank = LongAgo /\ Lists = {}
          \/ \E r \in 0..round : lastRank = r * Step /\ round - r <= RankRounds
        BY <1>1, <1>5, <2>1 DEF LastListIsRecent
    <2>4. CASE RankDue
        <3>1. lastRank' = now
            BY <2>1, <2>4
        <3>2. PICK n \in DOMAIN log' : n \notin DOMAIN log /\ log'[n] = PriorityList
            BY <2>2, <2>4 DEF Logged, TiaItems
        <3>3. n \in Lists' /\ log'[n].wall_ms = now
            BY <3>2, ListsAre, TiaEvents
        <3>4. \A i \in Lists' : i \in Lists \/ log'[i].wall_ms = now
            <4>1. \A i \in DOMAIN log' \ DOMAIN log : log'[i].wall_ms = now
                BY StepLog, <1>8 DEF Of
            <4> QED BY <1>7, <4>1, ListsAre
        <3>5. \A i \in Lists' : log'[i].wall_ms \in Nat /\ log'[i].wall_ms <= now
            BY <1>1, <1>7, <3>4
        <3>6. ASSUME NEW i \in Lists', log'[i].wall_ms < now
              PROVE  \E j \in Lists' : /\ log'[i].wall_ms < log'[j].wall_ms
                                       /\ log'[j].wall_ms - log'[i].wall_ms <= 1000
            <4>1. i \in Lists /\ log'[i] = log[i]
                BY <1>1, <1>7, <3>4, <3>6
            <4>2. lastRank \in Nat /\ log[i].wall_ms <= lastRank /\ log[i].wall_ms \in Nat
                BY <1>5, <1>7, <4>1
            <4>3. CASE log[i].wall_ms < lastRank
                <5>1. PICK j \in Lists : /\ log[i].wall_ms < log[j].wall_ms
                                         /\ log[j].wall_ms - log[i].wall_ms <= 1000
                    BY <1>5, <4>1, <4>3
                <5>2. j \in Lists' /\ log'[j] = log[j]
                    BY <1>7, <2>2, ListsAre DEF Extends
                <5> QED BY <4>1, <5>1, <5>2
            <4>4. CASE log[i].wall_ms = lastRank
                <5>1. PICK r \in 0..round : lastRank = r * Step /\ round - r <= RankRounds
                    BY <2>3, <4>1
                <5>2. now - lastRank <= 1000
                    BY <1>1, <1>2, <1>6, <5>1, RoundsApart
                <5> QED BY <3>3, <3>6, <4>1, <4>4, <5>2
            <4> QED BY <4>2, <4>3, <4>4
        <3>7. LastListIsRecent'
            <4>1. round \in 0..round /\ round - round <= RankRounds /\ round - round < RankRounds
                BY <1>1, <1>2
            <4> QED BY <1>6, <2>1, <3>1, <4>1 DEF LastListIsRecent, RankRounds
        <3> QED BY <1>1, <3>1, <3>5, <3>6, <3>7 DEF ListInv
    <2>5. CASE ~RankDue
        <3>1. lastRank' = lastRank /\ now - lastRank < RankInterval
            BY <1>1, <1>2, <2>1, <2>5 DEF RankDue
        <3>2. Lists' = Lists
            <4>1. \A i \in DOMAIN log' \ DOMAIN log : log'[i] \in TiaItems
                BY <2>2 DEF Logged
            <4>2. \A e \in TiaItems : Get(e, "signal", None) # "priority_list"
                BY <2>5, TiaEvents, Signals DEF TiaItems
            <4>3. \A i \in Lists' : i \in DOMAIN log
                BY <4>1, <4>2, ListsAre
            <4>4. DOMAIN log \subseteq DOMAIN log'
                BY <2>2 DEF Extends
            <4> QED BY <1>7, <4>3, <4>4, ListsAre
        <3>3. lastRank # LongAgo
            BY <1>1, <1>2, <3>1
        <3>4. PICK r \in 0..round : lastRank = r * Step /\ round - r <= RankRounds
            BY <2>3, <3>3
        <3>5. round - r < RankRounds
            <4>1. round - r >= RankRounds => now - lastRank >= RankRounds * Step
                BY <1>1, <1>2, <1>6, <3>4, RoundsApart
            <4> QED BY <1>1, <1>2, <3>1, <3>4, <4>1
        <3>6. LastListIsRecent'
            BY <2>1, <3>1, <3>4, <3>5 DEF LastListIsRecent, RankRounds
        <3> QED BY <1>5, <1>7, <3>1, <3>2, <3>6 DEF ListInv
    <2> QED BY <2>4, <2>5
<1>9. CASE ~TiaSteps
    <2>1. Lists' = Lists
        BY <1>9, Frames
    <2>2. lastRank' = lastRank
        BY <1>9 DEF Next, BeginRound, SegmentTurn, RaaSteps, PassOver, EndRound, vars, tiaVars
    <2>3. SUFFICES TIA \notin dead' => LastListIsRecent'
        BY <1>5, <1>7, <2>1, <2>2 DEF ListInv
    <2>4. SUFFICES ASSUME TIA \notin dead' PROVE LastListIsRecent'
        OBVIOUS
    <2>5. TIA \notin dead /\ LastListIsRecent
        BY <1>3, <1>5, <2>4
    <2>6. CASE EndRound
        <3>1. turn = RoundEnd /\ round' = round + 1 /\ turn' = 0
            BY <2>6 DEF EndRound
        <3>2. turn > TiaTurn /\ ~(turn <= TiaTurn)
            BY <1>1, <3>1 DEF RoundEnd, TiaTurn
        <3>3. PICK r \in 0..round : lastRank = r * Step /\ round - r < RankRounds
            BY <2>5, <3>2, Zenon DEF LastListIsRecent
        <3>4. r \in 0..(round + 1) /\ round + 1 - r <= RankRounds /\ ~(0 > TiaTurn)
            BY <1>1, <1>2, <3>3 DEF TiaTurn
        <3>5. \E q \in 0..round' : /\ lastRank' = q * Step /\ round' - q <= RankRounds
                                   /\ turn' > TiaTurn => round' - q < RankRounds
            <4>1. r \in 0..round' /\ round' - r <= RankRounds /\ ~(turn' > TiaTurn)
                BY <1>1, <1>2, <3>1, <3>4 DEF TiaTurn
            <4>2. lastRank' = r * Step
                BY <2>2, <3>3
            <4> QED BY <4>1, <4>2, Zenon
        <3> QED BY <3>5 DEF LastListIsRecent, RankRounds
    <2>7. CASE ~EndRound
        <3>1. round' = round
            BY <1>9, <2>7 DEF Next, BeginRound, SegmentTurn, RaaSteps, PassOver, vars
        <3>2. (turn' > TiaTurn <=> turn > TiaTurn) /\ (turn <= TiaTurn => turn' <= TiaTurn)
            <4>1. CASE BeginRound
                BY <1>1, <4>1 DEF BeginRound, TiaTurn
            <4>2. ASSUME NEW report, NEW resolved, NEW bid, SegmentTurn(report, bid, resolved)
                  PROVE  turn \in 1..NSeg /\ turn' = turn + 1
                BY <4>2 DEF SegmentTurn
            <4>3. CASE RaaSteps \/ PassOver
                BY <1>1, <1>4, <2>5, <4>3 DEF RaaSteps, PassOver, PassedOver, TiaTurn, RaaTurn
            <4>4. CASE UNCHANGED vars
                BY <4>4 DEF vars
            <4> QED BY <1>1, <1>9, <2>7, <4>1, <4>2, <4>3, <4>4 DEF Next, TiaTurn
        <3> QED BY <2>2, <2>5, <3>1, <3>2 DEF LastListIsRecent, RankRounds
    <2> QED BY <2>6, <2>7
<1> QED BY <1>8, <1>9
-----------------------------------------------------------------------------
(* One auction *)

\* Bids as the RAA holds them.
BidSeq(q) ==
    /\ IsSeq(q)
    /\ \A i \in DOMAIN q : q[i].value \in 0..100 /\ q[i].ts_ms \in Nat

\* Of the bids at positions S, each bidder has one best.
LEMMA TopExists ==
    ASSUME NEW B, NEW S, S \subseteq Nat, \A i \in S : B[i].value \in 0..100
    PROVE  /\ \A i \in S : \E t \in S : B[t].bidder = B[i].bidder /\ Top1(B, S, t)
           /\ \A t, u \in S : (/\ Top1(B, S, t) /\ Top1(B, S, u)
                               /\ B[t].bidder = B[u].bidder) => t = u
<1>0. \A x \in 0..100 : x \in Int /\ 100 - x \in 0..100 /\ x = 100 - (100 - x)
    OBVIOUS
<1>1. ASSUME NEW i \in S PROVE \E t \in S : B[t].bidder = B[i].bidder /\ Top1(B, S, t)
    <2> DEFINE T == {j \in S : B[j].bidder = B[i].bidder}
               V == {v \in 0..100 : \E j \in T : B[j].value = 100 - v}
    <2>1. V \subseteq Nat
        OBVIOUS
    <2>2. V # {}
        <3>1. 100 - B[i].value \in 0..100 /\ B[i].value = 100 - (100 - B[i].value)
            BY <1>0, <1>1
        <3> QED BY <1>1, <3>1
    <2> HIDE DEF V
    <2>3. PICK v \in V : \A w \in V : v <= w
        BY <2>1, <2>2, LeastNat
    <2>4. v \in 0..100 /\ \A j \in T : B[j].value <= 100 - v
        <3>1. v \in 0..100
            BY DEF V
        <3>2. ASSUME NEW j \in T PROVE B[j].value <= 100 - v
            <4> DEFINE x == B[j].value
            <4>1. x \in 0..100
                OBVIOUS
            <4>2. 100 - x \in V
                <5>1. 100 - x \in 0..100 /\ x = 100 - (100 - x)
                    BY <1>0, <4>1
                <5> QED BY <5>1 DEF V
            <4>3. v <= 100 - x
                BY <2>3, <4>2
            <4> HIDE DEF x
            <4>4. x <= 100 - v
                BY <3>1, <4>1, <4>3
            <4> QED BY <4>4 DEF x
        <3> QED BY <3>1, <3>2
    <2> DEFINE U == {j \in T : B[j].value = 100 - v}
    <2>5. U \subseteq Nat /\ U # {}
        BY DEF V
    <2> HIDE DEF U
    <2>6. PICK t \in U : \A u \in U : t <= u
        BY <2>5, LeastNat
    <2>7. t \in T /\ B[t].value = 100 - v
        BY <2>6 DEF U
    <2>8. ASSUME NEW j \in T
          PROVE  B[t].value > B[j].value \/ (B[t].value = B[j].value /\ t <= j)
        <3>1. B[j].value <= 100 - v /\ B[j].value \in 0..100
            BY <2>4
        <3>2. CASE B[j].value = 100 - v
            BY <2>6, <2>7, <3>2 DEF U
        <3>3. CASE B[j].value # 100 - v
            <4> DEFINE x == B[j].value
                       y == B[t].value
            <4>1. x \in Int /\ x <= 100 - v /\ x # 100 - v /\ y = 100 - v /\ v \in Int
                BY <2>4, <2>7, <3>1, <3>3
            <4> HIDE DEF x, y
            <4>2. y > x
                BY <4>1
            <4> QED BY <4>2 DEF x, y
        <3> QED BY <3>2, <3>3
    <2> QED BY <2>7, <2>8 DEF Top1
<1>2. ASSUME NEW t \in S, NEW u \in S, Top1(B, S, t), Top1(B, S, u), B[t].bidder = B[u].bidder
      PROVE  t = u
    <2>1. /\ B[t].value > B[u].value \/ (B[t].value = B[u].value /\ t <= u)
          /\ B[u].value > B[t].value \/ (B[u].value = B[t].value /\ u <= t)
        BY <1>2 DEF Top1
    <2>2. B[t].value \in 0..100 /\ B[u].value \in 0..100 /\ t \in Nat /\ u \in Nat
        OBVIOUS
    <2>3. B[t].value \in Int /\ B[u].value \in Int /\ t \in Int /\ u \in Int
        BY <1>0, <2>2
    <2> QED BY <2>1, <2>3
<1> QED BY <1>1, <1>2

LEMMA BestBidFact ==
    ASSUME NEW q, BidSeq(q), NEW i \in DOMAIN q
    PROVE  LET t == BestBid(q, q[i].bidder)
           IN t \in DOMAIN q /\ q[t].bidder = q[i].bidder /\ Top1(q, DOMAIN q, t)
<1> DEFINE b == q[i].bidder
<1>1. DOMAIN q \subseteq Nat
    BY SeqShape DEF BidSeq
<1>2. PICK t \in DOMAIN q : q[t].bidder = b /\ Top1(q, DOMAIN q, t)
    BY <1>1, TopExists DEF BidSeq
<1>3. \E u \in DOMAIN q : /\ q[u].bidder = b
                          /\ \A j \in DOMAIN q : q[j].bidder = b =>
                                \/ q[u].value > q[j].value
                                \/ q[u].value = q[j].value /\ u <= j
    BY <1>2 DEF Top1
<1> HIDE DEF b
<1>4. /\ BestBid(q, b) \in DOMAIN q /\ q[BestBid(q, b)].bidder = b
      /\ \A j \in DOMAIN q : q[j].bidder = b =>
            \/ q[BestBid(q, b)].value > q[j].value
            \/ q[BestBid(q, b)].value = q[j].value /\ BestBid(q, b) <= j
    BY <1>3 DEF BestBid
<1> QED BY <1>4 DEF Top1, b

LEMMA FirstsFact ==
    ASSUME NEW q, IsSeq(q)
    PROVE  /\ IsFiniteSet(Firsts(q)) /\ Firsts(q) \subseteq DOMAIN q
           /\ \A i \in DOMAIN q : \E f \in Firsts(q) : q[f].bidder = q[i].bidder
           /\ \A f, g \in Firsts(q) : q[f].bidder = q[g].bidder => f = g
<1>1. DOMAIN q = 1..Len(q) /\ Len(q) \in Nat
    BY SeqShape
<1>2. IsFiniteSet(DOMAIN q)
    BY <1>1, FS_Interval
<1>3. Firsts(q) \subseteq DOMAIN q
    BY DEF Firsts
<1>4. ASSUME NEW i \in DOMAIN q PROVE \E f \in Firsts(q) : q[f].bidder = q[i].bidder
    <2> DEFINE T == {j \in DOMAIN q : q[j].bidder = q[i].bidder}
    <2>1. T \subseteq Nat /\ T # {}
        BY <1>1
    <2> HIDE DEF T
    <2>2. PICK f \in T : \A j \in T : f <= j
        BY <2>1, LeastNat
    <2>3. f \in DOMAIN q /\ q[f].bidder = q[i].bidder
        BY <2>2 DEF T
    <2>4. \A j \in 1..(f - 1) : q[j].bidder # q[f].bidder
        <3> SUFFICES ASSUME NEW j \in 1..(f - 1), q[j].bidder = q[f].bidder PROVE FALSE
            OBVIOUS
        <3>1. j \in DOMAIN q /\ ~(f <= j)
            BY <1>1, <2>3
        <3>2. j \in T
            BY <2>3, <3>1 DEF T
        <3> QED BY <2>2, <3>1, <3>2
    <2> QED BY <2>3, <2>4 DEF Firsts
<1>5. \A f, g \in Firsts(q) : q[f].bidder = q[g].bidder => f = g
    <2> SUFFICES ASSUME NEW f \in Firsts(q), NEW g \in Firsts(q), q[f].bidder = q[g].bidder,
                        f # g
                 PROVE  FALSE
        OBVIOUS
    <2>1. f \in 1..Len(q) /\ g \in 1..Len(q)
        BY <1>1, <1>3
    <2>2. f \in 1..(g - 1) \/ g \in 1..(f - 1)
        BY <1>1, <2>1
    <2> QED BY <2>2 DEF Firsts
<1> QED BY <1>2, <1>3, <1>4, <1>5, FS_Subset

\* FirstBids lists the first bids of all bidders, each once.
LEMMA FirstBidsFact ==
    ASSUME NEW q, IsSeq(q)
    PROVE  LET n == Cardinality(Firsts(q))
               first == FirstBids(q)
           IN /\ n \in Nat /\ DOMAIN first = 1..n
              /\ \A k \in 1..n : first[k] \in Firsts(q)
              /\ \A j, k \in 1..n : first[j] = first[k] => j = k
              /\ \A f \in Firsts(q) : \E k \in 1..n : first[k] = f
<1> DEFINE F == Firsts(q)
           n == Cardinality(F)
           first == FirstBids(q)
           R == {p \in F \X F : p[1] < p[2]}
           pos(f) == Cardinality({j \in F : j < f})
<1>1. IsFiniteSet(F) /\ F \subseteq Nat
    BY FirstsFact, SeqShape
<1>2. DOMAIN first = 1..n /\ \A k \in 1..n : first[k] = CHOOSE i \in F : pos(i) = k - 1
    BY DEF FirstBids, InOrder
<1> HIDE DEF F, first
<1>3. \A i, j \in F : <<i, j>> \in R <=> i < j
    OBVIOUS
<1> HIDE DEF R
<1>4. \A i \in F : Ahead(R, F, i) = {j \in F : j < i}
    BY <1>3 DEF Ahead
<1>5. Ranking(R, F)
    <2>1. \A i \in F : i \in Int
        BY <1>1
    <2> QED BY <1>1, <1>3, <2>1 DEF Ranking
<1>6. \A i \in F : pos(i) = Cardinality(Ahead(R, F, i))
    BY <1>4
<1> HIDE DEF pos
<1>7. /\ n \in Nat
      /\ \A i \in F : pos(i) \in 0..(n - 1)
      /\ \A i, j \in F : <<i, j>> \in R => pos(i) < pos(j)
    BY <1>5, <1>6, AheadCounts
<1>8. \A i, j \in F : pos(i) = pos(j) => i = j
    <2> SUFFICES ASSUME NEW i \in F, NEW j \in F, pos(i) = pos(j), i # j PROVE FALSE
        OBVIOUS
    <2>1. pos(i) \in Int /\ pos(j) \in Int
        BY <1>7
    <2>2. <<i, j>> \in R \/ <<j, i>> \in R
        BY <1>5 DEF Ranking
    <2> QED BY <1>7, <2>1, <2>2
<1>9. \A p \in 0..(n - 1) : \E i \in F : pos(i) = p
    BY <1>5, <1>6, Places
<1> HIDE DEF n
<1>10. \A k \in 1..n : first[k] \in F /\ pos(first[k]) = k - 1
    <2> SUFFICES ASSUME NEW k \in 1..n PROVE first[k] \in F /\ pos(first[k]) = k - 1
        OBVIOUS
    <2>1. k - 1 \in 0..(n - 1)
        BY <1>7
    <2>2. \E i \in F : pos(i) = k - 1
        BY <1>9, <2>1
    <2> QED BY <1>2, <2>2
<1>11. \A j, k \in 1..n : first[j] = first[k] => j = k
    <2> SUFFICES ASSUME NEW j \in 1..n, NEW k \in 1..n, first[j] = first[k] PROVE j = k
        OBVIOUS
    <2>1. j - 1 = k - 1
        BY <1>10
    <2> QED BY <1>7, <2>1
<1>12. \A f \in F : \E k \in 1..n : first[k] = f
    <2> SUFFICES ASSUME NEW f \in F PROVE \E k \in 1..n : first[k] = f
        OBVIOUS
    <2>1. pos(f) + 1 \in 1..n /\ (pos(f) + 1) - 1 = pos(f)
        BY <1>7
    <2> QED BY <1>8, <1>10, <2>1
<1> QED BY <1>2, <1>7, <1>10, <1>11, <1>12 DEF n, F, first

\* BestBids lists the best bid of every bidder, each bidder once.
LEMMA BestBidsFact ==
    ASSUME NEW q, BidSeq(q)
    PROVE  LET n == Cardinality(Firsts(q))
               best == BestBids(q)
           IN /\ n \in Nat /\ DOMAIN best = 1..n
              /\ \A k \in 1..n : \E t \in DOMAIN q : best[k] = q[t] /\ Top1(q, DOMAIN q, t)
              /\ \A t \in DOMAIN q : Top1(q, DOMAIN q, t) => \E k \in 1..n : best[k] = q[t]
              /\ \A j, k \in 1..n : best[j].bidder = best[k].bidder => j = k
              /\ {best[k].bidder : k \in 1..n} = {q[i].bidder : i \in DOMAIN q}
              /\ Cardinality({q[i].bidder : i \in DOMAIN q}) = n
<1> DEFINE F == Firsts(q)
           n == Cardinality(F)
           first == FirstBids(q)
           best == BestBids(q)
           b(k) == q[first[k]].bidder
<1>1. IsSeq(q) /\ DOMAIN q \subseteq Nat
    BY SeqShape DEF BidSeq
<1>2. /\ n \in Nat /\ DOMAIN first = 1..n
      /\ \A k \in 1..n : first[k] \in F
      /\ \A j, k \in 1..n : first[j] = first[k] => j = k
      /\ \A f \in F : \E k \in 1..n : first[k] = f
    BY <1>1, FirstBidsFact
<1>3. /\ F \subseteq DOMAIN q
      /\ \A i \in DOMAIN q : \E f \in F : q[f].bidder = q[i].bidder
      /\ \A f, g \in F : q[f].bidder = q[g].bidder => f = g
    BY <1>1, FirstsFact
<1>4. DOMAIN best = 1..n /\ \A k \in 1..n : best[k] = q[BestBid(q, b(k))]
    BY <1>2 DEF BestBids
<1> HIDE DEF F, n, first, best
<1>5. \A k \in 1..n : /\ BestBid(q, b(k)) \in DOMAIN q
                      /\ q[BestBid(q, b(k))].bidder = b(k)
                      /\ Top1(q, DOMAIN q, BestBid(q, b(k)))
    <2> SUFFICES ASSUME NEW k \in 1..n
                 PROVE  /\ BestBid(q, b(k)) \in DOMAIN q
                        /\ q[BestBid(q, b(k))].bidder = b(k)
                        /\ Top1(q, DOMAIN q, BestBid(q, b(k)))
        OBVIOUS
    <2>1. first[k] \in DOMAIN q
        BY <1>2, <1>3
    <2> QED BY <2>1, BestBidFact
<1>6. \A k \in 1..n : \E t \in DOMAIN q : best[k] = q[t] /\ Top1(q, DOMAIN q, t)
    BY <1>4, <1>5
<1>7. \A k \in 1..n : best[k].bidder = b(k)
    BY <1>4, <1>5
<1>8. \A j, k \in 1..n : best[j].bidder = best[k].bidder => j = k
    BY <1>2, <1>3, <1>7
<1>9. \A i \in DOMAIN q : \E k \in 1..n : b(k) = q[i].bidder
    BY <1>2, <1>3
<1>10. \A t \in DOMAIN q : Top1(q, DOMAIN q, t) => \E k \in 1..n : best[k] = q[t]
    <2> SUFFICES ASSUME NEW t \in DOMAIN q, Top1(q, DOMAIN q, t)
                 PROVE  \E k \in 1..n : best[k] = q[t]
        OBVIOUS
    <2>1. PICK k \in 1..n : b(k) = q[t].bidder
        BY <1>9
    <2>2. BestBid(q, b(k)) = t
        BY <1>1, <1>5, <2>1, TopExists DEF BidSeq
    <2> QED BY <1>4, <2>2
<1>11. {best[k].bidder : k \in 1..n} = {q[i].bidder : i \in DOMAIN q}
    <2>1. \A k \in 1..n : \E i \in DOMAIN q : best[k].bidder = q[i].bidder
        BY <1>4, <1>5
    <2>2. \A i \in DOMAIN q : \E k \in 1..n : best[k].bidder = q[i].bidder
        BY <1>7, <1>9
    <2> QED BY <2>1, <2>2
<1>12. Cardinality({best[k].bidder : k \in 1..n}) = n
    <2> DEFINE f == [k \in 1..n |-> best[k].bidder]
    <2>1. DOMAIN f = 1..n /\ \A j, k \in 1..n : f[j] = f[k] => j = k
        BY <1>8
    <2>2. {best[k].bidder : k \in 1..n} = {f[k] : k \in 1..n}
        OBVIOUS
    <2>3. IsFiniteSet(1..n) /\ Cardinality(1..n) = n
        <3>1. \A x, y \in Int : /\ IsFiniteSet(x..y)
                                /\ Cardinality(x..y) = IF x > y THEN 0 ELSE y - x + 1
            BY FS_Interval
        <3>2. IsFiniteSet(1..n) /\ Cardinality(1..n) = IF 1 > n THEN 0 ELSE n - 1 + 1
            BY <1>2, <3>1
        <3> QED BY <1>2, <3>2
    <2>4. \A S, g : (IsFiniteSet(S) /\ DOMAIN g = S /\ \A x, y \in S : g[x] = g[y] => x = y)
                        => Cardinality({g[x] : x \in S}) = Cardinality(S)
        BY ImageCount
    <2> DEFINE K == 1..n
    <2> HIDE DEF f, K
    <2>6. /\ IsFiniteSet(K) /\ Cardinality(K) = n /\ DOMAIN f = K
          /\ \A j, k \in K : f[j] = f[k] => j = k
        BY <2>1, <2>3 DEF K
    <2>7. Cardinality({f[k] : k \in K}) = n
        BY <2>4, <2>6
    <2>5. Cardinality({f[k] : k \in 1..n}) = n
        BY <2>7 DEF K
    <2> QED BY <2>2, <2>5
<1> QED BY <1>2, <1>4, <1>6, <1>8, <1>10, <1>11, <1>12 DEF n, F, best
LEMMA RunAuctionFact ==
    ASSUME NEW B, NEW n \in Nat, DOMAIN B = 1..n,
           \A k \in 1..n : B[k].value \in Int /\ B[k].ts_ms \in Int,
           \A j, k \in 1..n : B[j].bidder = B[k].bidder => j = k
    PROVE  LET granted == run_auction(B, Slots)
           IN /\ \A w \in granted : \E k \in 1..n : w = B[k].bidder
              /\ Cardinality(granted) = Min2(Slots, n)
              /\ \A j, k \in 1..n :
                    (B[j].bidder \in granted /\ B[k].bidder \notin granted) => Precedes(B, j, k)
<1> DEFINE R == {p \in (1..n) \X (1..n) : Precedes(B, p[1], p[2])}
           b == [k \in 1..n |-> B[k].bidder]
           W == Winning(R, n, Slots, b)
<1>1. Slots \in Nat
    BY SlotsAssumption
<1>2. \A i, j \in 1..n : <<i, j>> \in R <=> Precedes(B, i, j)
    OBVIOUS
<1>3. DOMAIN b = 1..n /\ \A k \in 1..n : b[k] = B[k].bidder
    OBVIOUS
<1> HIDE DEF R, b
<1>4. Ranking(R, 1..n)
    <2>1. IsFiniteSet(1..n)
        BY FS_Interval
    <2>2. \A i \in 1..n : <<i, i>> \notin R
        BY <1>2 DEF Precedes
    <2>3. \A i, j \in 1..n : i # j => <<i, j>> \in R \/ <<j, i>> \in R
        BY <1>2 DEF Precedes
    <2>4. \A i, j, k \in 1..n : Precedes(B, i, j) /\ Precedes(B, j, k) => Precedes(B, i, k)
        BY DEF Precedes
    <2> QED BY <1>2, <2>1, <2>2, <2>3, <2>4 DEF Ranking
<1>5. run_auction(B, Slots) = W
    <2>1. \A k \in 1..n : Ahead(R, 1..n, k) = {i \in DOMAIN B : Precedes(B, i, k)}
        BY <1>2 DEF Ahead
    <2>2. /\ Leaders(R, 1..n, Slots) \subseteq 1..n
          /\ \A k \in 1..n : k \in Leaders(R, 1..n, Slots) <=>
                Cardinality({i \in DOMAIN B : Precedes(B, i, k)}) < Slots
        BY <2>1 DEF Leaders
    <2>3. Leaders(R, 1..n, Slots) =
             {k \in DOMAIN B : Cardinality({i \in DOMAIN B : Precedes(B, i, k)}) < Slots}
        BY <2>2
    <2>4. run_auction(B, Slots) = {B[j].bidder : j \in Leaders(R, 1..n, Slots)}
        BY <2>3 DEF run_auction
    <2> QED BY <1>3, <2>2, <2>4 DEF Winning
<1>6. \A i, j \in 1..n : b[i] = b[j] => i = j
    BY <1>3
<1>7. /\ Cardinality(W) = IF Slots < n THEN Slots ELSE n
      /\ \A i, j \in 1..n : b[i] \in W /\ b[j] \notin W => <<i, j>> \in R
    BY <1>1, <1>3, <1>4, <1>6, Winners
<1>8. \A w \in W : \E k \in 1..n : w = B[k].bidder
    BY <1>3 DEF Winning, Leaders
<1> HIDE DEF W
<1>9. Cardinality(W) = Min2(Slots, n)
    <2>1. CASE Slots < n
        BY <1>1, <1>7, <2>1 DEF Min2
    <2>2. CASE ~(Slots < n)
        <3>1. Cardinality(W) = n
            BY <1>7, <2>2
        <3>2. Min2(Slots, n) = n
            BY <1>1, <2>2 DEF Min2
        <3> QED BY <3>1, <3>2
    <2> QED BY <2>1, <2>2
<1>10. \A j, k \in 1..n : (B[j].bidder \in W /\ B[k].bidder \notin W) => Precedes(B, j, k)
    BY <1>2, <1>3, <1>7
<1> QED BY <1>5, <1>8, <1>9, <1>10

\* Submitted at the same time, bids are ranked by the auction as FR-20 ranks them.
LEMMA SameRanking ==
    ASSUME NEW B, NEW n \in Nat, DOMAIN B = 1..n, NEW t \in Int,
           \A k \in 1..n : B[k].value \in Int /\ B[k].ts_ms = t,
           NEW slots
    PROVE  run_auction(B, slots) =
               TopBidders([k \in DOMAIN B |-> <<B[k].bidder, B[k].value>>], slots)
<1> DEFINE P == [k \in DOMAIN B |-> <<B[k].bidder, B[k].value>>]
<1>1. DOMAIN P = 1..n /\ \A k \in 1..n : P[k][1] = B[k].bidder /\ P[k][2] = B[k].value
    OBVIOUS
<1> HIDE DEF P
<1>2. \A i, k \in 1..n : Precedes(B, i, k) <=> Outranks(P, i, k)
    <2> SUFFICES ASSUME NEW i \in 1..n, NEW k \in 1..n
                 PROVE  Precedes(B, i, k) <=> Outranks(P, i, k)
        OBVIOUS
    <2>1. ~(B[i].ts_ms < B[k].ts_ms) /\ B[i].ts_ms = B[k].ts_ms
        <3>1. B[i].ts_ms = t /\ B[k].ts_ms = t
            OBVIOUS
        <3>2. ~(t < t)
            OBVIOUS
        <3> QED BY <3>1, <3>2
    <2> QED BY <1>1, <2>1 DEF Precedes, Outranks
<1>3. \A k \in 1..n : {i \in DOMAIN B : Precedes(B, i, k)} = {i \in DOMAIN P : Outranks(P, i, k)}
    BY <1>1, <1>2
<1>4. {k \in DOMAIN B : Cardinality({i \in DOMAIN B : Precedes(B, i, k)}) < slots} =
         {k \in DOMAIN P : Cardinality({i \in DOMAIN P : Outranks(P, i, k)}) < slots}
    BY <1>1, <1>3
<1> DEFINE L == {k \in DOMAIN P : Cardinality({i \in DOMAIN P : Outranks(P, i, k)}) < slots}
<1>5. run_auction(B, slots) = {B[k].bidder : k \in L} /\ TopBidders(P, slots) = {P[k][1] : k \in L}
    BY <1>4 DEF run_auction, TopBidders
<1>6. L \subseteq 1..n
    BY <1>1
<1> HIDE DEF L
<1>7. run_auction(B, slots) = TopBidders(P, slots)
    <2>1. \A k \in L : B[k].bidder = P[k][1]
        BY <1>1, <1>6
    <2>2. {B[k].bidder : k \in L} = {P[k][1] : k \in L}
        BY <2>1
    <2> QED BY <1>5, <2>2
<1> QED BY <1>7 DEF P

LEMMA InboxIsBids ==
    ASSUME TypeInv
    PROVE  BidSeq(bidInbox) /\ BidSeq(bids) /\ now \in Nat
<1>1. bidInbox \in Seq(BidRecords) /\ bids \in Seq(BidRecords) /\ now \in Nat
    BY DEF TypeInv, TypeOK
<1>2. \A r \in BidRecords : r.value \in 0..100 /\ r.ts_ms \in Nat
    BY StepAssumption DEF BidRecords
<1> QED BY <1>1, <1>2, SeqShape DEF BidSeq, Items

\* An auction settles the bids of the inbox.
LEMMA InboxSettled ==
    ASSUME TypeInv, bidInbox # <<>>,
           \A i \in DOMAIN bidInbox : /\ bidInbox[1].ts_ms <= bidInbox[i].ts_ms
                                      /\ bidInbox[i].ts_ms <= now,
           bidInbox[1].ts_ms = 0 => now = 0
    PROVE  Settled(bidInbox, DOMAIN bidInbox, AuctionCompleted)
<1> DEFINE q == bidInbox
           S == DOMAIN q
           e == AuctionCompleted
           best == BestBids(q)
           n == Cardinality(Firsts(q))
           bidders == {q[i].bidder : i \in S}
           granted == run_auction(best, Slots)
           pairs == [k \in DOMAIN best |-> <<best[k].bidder, best[k].value>>]
           tops == {j \in S : \A h \in S : q[h].bidder = q[j].bidder => q[h].value <= q[j].value}
<1>1. /\ e.payload.bids = pairs /\ e.payload.granted = granted
      /\ e.latency_ms = now - FirstBidTime /\ e.wall_ms = now
    BY RaaEvents
<1>2. BidSeq(q) /\ now \in Nat /\ S = 1..Len(q) /\ Len(q) \in Nat /\ 1 \in S /\ S \subseteq Nat
    <2>1. BidSeq(q) /\ now \in Nat /\ S = 1..Len(q) /\ Len(q) \in Nat
        BY InboxIsBids, SeqShape DEF BidSeq
    <2>2. Len(q) # 0
        BY DEF TypeInv, TypeOK
    <2> QED BY <2>1, <2>2
<1>3. \A i \in S : q[i].value \in 0..100 /\ q[i].ts_ms \in Nat
    BY <1>2 DEF BidSeq
<1> HIDE DEF e, n, granted
<1>4. /\ n \in Nat /\ DOMAIN best = 1..n
      /\ \A k \in 1..n : \E t \in S : best[k] = q[t] /\ Top1(q, S, t)
      /\ \A t \in S : Top1(q, S, t) => \E k \in 1..n : best[k] = q[t]
      /\ \A j, k \in 1..n : best[j].bidder = best[k].bidder => j = k
      /\ {best[k].bidder : k \in 1..n} = bidders
      /\ Cardinality(bidders) = n
    BY <1>2, BestBidsFact DEF n
<1>5. {pairs[k] : k \in DOMAIN pairs} = {<<q[i].bidder, q[i].value>> : i \in tops}
    <2>1. DOMAIN pairs = 1..n /\ \A k \in 1..n : pairs[k] = <<best[k].bidder, best[k].value>>
        BY <1>4
    <2>2. \A k \in 1..n : \E i \in tops : pairs[k] = <<q[i].bidder, q[i].value>>
        <3> SUFFICES ASSUME NEW k \in 1..n
                     PROVE  \E i \in tops : pairs[k] = <<q[i].bidder, q[i].value>>
            OBVIOUS
        <3>1. PICK t \in S : best[k] = q[t] /\ Top1(q, S, t)
            BY <1>4
        <3>2. \A x, y \in 0..100 : x > y => y <= x
            OBVIOUS
        <3>3. \A x \in 0..100 : x <= x
            OBVIOUS
        <3>4. t \in tops
            BY <1>3, <3>1, <3>2, <3>3 DEF Top1
        <3> QED BY <2>1, <3>1, <3>4
    <2>3. \A i \in tops : \E k \in 1..n : pairs[k] = <<q[i].bidder, q[i].value>>
        <3> SUFFICES ASSUME NEW i \in tops
                     PROVE  \E k \in 1..n : pairs[k] = <<q[i].bidder, q[i].value>>
            OBVIOUS
        <3>1. i \in S
            OBVIOUS
        <3>2. PICK t \in S : q[t].bidder = q[i].bidder /\ Top1(q, S, t)
            <4>1. S \subseteq Nat /\ \A j \in S : q[j].value \in 0..100
                BY <1>2, <1>3
            <4> HIDE DEF S
            <4> QED BY <3>1, <4>1, TopExists
        <3>3. q[t].value <= q[i].value
            BY <3>2
        <3>4. q[t].value > q[i].value \/ q[t].value = q[i].value
            BY <3>1, <3>2 DEF Top1
        <3>5. \A x, y \in 0..100 : x <= y => ~(x > y)
            OBVIOUS
        <3>6. q[t].value = q[i].value
            BY <1>3, <3>1, <3>2, <3>3, <3>4, <3>5
        <3>7. PICK k \in 1..n : best[k] = q[t]
            BY <1>4, <3>2
        <3> QED BY <2>1, <3>2, <3>6, <3>7
    <2> DEFINE T == {<<q[i].bidder, q[i].value>> : i \in tops}
               U == {pairs[k] : k \in DOMAIN pairs}
    <2>4. \A x : x \in U <=> \E k \in 1..n : x = pairs[k]
        BY <2>1
    <2>5. \A x : x \in T <=> \E i \in tops : x = <<q[i].bidder, q[i].value>>
        OBVIOUS
    <2> HIDE DEF pairs, tops, U, T
    <2>7. ASSUME NEW x \in U PROVE x \in T
        <3>1. PICK k \in 1..n : x = pairs[k]
            BY <2>4
        <3>2. PICK i \in tops : pairs[k] = <<q[i].bidder, q[i].value>>
            BY <2>2
        <3>3. x = <<q[i].bidder, q[i].value>>
            BY <3>1, <3>2
        <3> QED BY <2>5, <3>3
    <2>8. ASSUME NEW x \in T PROVE x \in U
        <3>1. PICK i \in tops : x = <<q[i].bidder, q[i].value>>
            BY <2>5
        <3>2. PICK k \in 1..n : pairs[k] = <<q[i].bidder, q[i].value>>
            BY <2>3
        <3> QED BY <2>4, <3>1, <3>2
    <2>6. U = T
        BY <2>7, <2>8
    <2> QED BY <2>6 DEF U, T
<1>6. /\ \E i \in S : e.latency_ms = e.wall_ms - q[i].ts_ms
      /\ \A i \in S : e.latency_ms >= e.wall_ms - q[i].ts_ms
    <2> DEFINE first == q[1].ts_ms
    <2>1. FirstBidTime = IF first = 0 THEN now ELSE first
        BY DEF FirstBidTime
    <2>2. first \in Nat /\ (first = 0 => now = 0)
        BY <1>2, <1>3
    <2>3. e.latency_ms = now - first
        BY <1>1, <1>2, <2>1, <2>2
    <2>4. \A i \in S : q[i].ts_ms \in Nat /\ first <= q[i].ts_ms
        BY <1>3
    <2> HIDE DEF first
    <2>5. \A i \in S : now - first >= now - q[i].ts_ms
        BY <1>2, <2>2, <2>4
    <2>6. e.latency_ms = e.wall_ms - q[1].ts_ms
        BY <1>1, <2>3 DEF first
    <2> QED BY <1>1, <1>2, <2>3, <2>5, <2>6
<1>7. \A k \in 1..n : best[k].value \in 0..100 /\ best[k].ts_ms \in Nat
    <2> SUFFICES ASSUME NEW k \in 1..n
                 PROVE  best[k].value \in 0..100 /\ best[k].ts_ms \in Nat
        OBVIOUS
    <2>1. PICK t \in S : best[k] = q[t]
        BY <1>4
    <2> QED BY <1>3, <2>1
<1> HIDE DEF best
<1>8. /\ \A w \in granted : \E k \in 1..n : w = best[k].bidder
      /\ Cardinality(granted) = Min2(Slots, n)
      /\ \A j, k \in 1..n :
            (best[j].bidder \in granted /\ best[k].bidder \notin granted) => Precedes(best, j, k)
    <2>1. \A x \in 0..100 : x \in Int
        OBVIOUS
    <2>2. ASSUME NEW k \in 1..n PROVE best[k].value \in Int /\ best[k].ts_ms \in Int
        <3>1. best[k].value \in 0..100 /\ best[k].ts_ms \in Nat
            BY <1>7
        <3>2. \A x \in Nat : x \in Int
            OBVIOUS
        <3> QED BY <2>1, <3>1, <3>2
    <2>3. /\ n \in Nat /\ DOMAIN best = 1..n
          /\ \A j, k \in 1..n : best[j].bidder = best[k].bidder => j = k
        BY <1>4
    <2>4. \A k \in 1..n : best[k].value \in Int /\ best[k].ts_ms \in Int
        BY <2>2
    <2> QED BY <2>3, <2>4, RunAuctionFact DEF granted
<1>9. \A i, j \in S :
         (/\ Top1(q, S, i) /\ q[i].bidder \in granted
          /\ Top1(q, S, j) /\ q[j].bidder \notin granted) =>
             \/ q[i].value > q[j].value
             \/ q[i].value = q[j].value /\ q[i].ts_ms <= q[j].ts_ms
    <2> SUFFICES ASSUME NEW i \in S, NEW j \in S, Top1(q, S, i), q[i].bidder \in granted,
                        Top1(q, S, j), q[j].bidder \notin granted
                 PROVE  \/ q[i].value > q[j].value
                        \/ q[i].value = q[j].value /\ q[i].ts_ms <= q[j].ts_ms
        OBVIOUS
    <2>1. PICK k \in 1..n : best[k] = q[i]
        BY <1>4
    <2>2. PICK l \in 1..n : best[l] = q[j]
        BY <1>4
    <2>3. Precedes(best, k, l)
        BY <1>8, <2>1, <2>2
    <2>4. \/ q[i].value > q[j].value
          \/ q[i].value = q[j].value /\ q[i].ts_ms < q[j].ts_ms
          \/ q[i].value = q[j].value /\ q[i].ts_ms = q[j].ts_ms
        BY <2>1, <2>2, <2>3 DEF Precedes
    <2>5. q[i].ts_ms \in Nat /\ q[j].ts_ms \in Nat
        BY <1>3
    <2> QED BY <2>4, <2>5
<1>10. S # {}
    BY <1>2
<1>11. /\ granted \subseteq bidders
       /\ Cardinality(granted) = Min2(Slots, Cardinality(bidders))
    <2>1. \A k \in 1..n : best[k].bidder \in bidders
        BY <1>4
    <2> QED BY <1>4, <1>8, <2>1
<1>12. {e.payload.bids[k] : k \in DOMAIN e.payload.bids} = {<<q[i].bidder, q[i].value>> : i \in tops}
    BY <1>1, <1>5
<1>13. e.payload.granted = granted
    BY <1>1
<1> HIDE DEF pairs, S
<1> SUFFICES Settled(q, S, e)
    BY DEF S, e
<1> QED BY <1>6, <1>9, <1>10, <1>11, <1>12, <1>13 DEF Settled
-----------------------------------------------------------------------------
(* In lockstep nothing is late *)

LEMMA PunctualStep ==
    ASSUME TypeInv, ClockInv, CoalitionInv, PunctualInv, RaaKeepsUp, FailInv, [Next]_vars
    PROVE  PunctualInv'
<1>1. /\ now \in Nat /\ IsSeq(log) /\ IsSeq(log') /\ Extends(log, log')
      /\ \A i \in DOMAIN log' \ DOMAIN log : Of(log'[i])
    BY StepLog DEF TypeInv, TypeOK
<1>2. pace' = pace
    BY DEF Next, BeginRound, SegmentTurn, TiaSteps, RaaSteps, PassOver, EndRound, vars, envVars
<1>3. SUFFICES ASSUME pace = "lockstep", NEW i \in DOMAIN log' PROVE Punctual(log'[i])
    BY <1>2 DEF PunctualInv, Punctual
<1>4. CASE i \in DOMAIN log
    <2>1. log'[i] = log[i]
        BY <1>1, <1>4 DEF Extends
    <2> QED BY <1>3, <1>4, <2>1 DEF PunctualInv
<1>5. CASE i \notin DOMAIN log
    <2> DEFINE e == log'[i]
    <2>1. Of(e)
        BY <1>1, <1>3, <1>5
    <2>2. Get(e, "signal", None) \in {"threat_model_update", "correlation"} => e.latency_ms = 0
        <3> SUFFICES ASSUME Get(e, "signal", None) \in {"threat_model_update", "correlation"}
                     PROVE  e.latency_ms = 0
            OBVIOUS
        <3>1. TiaSteps
            BY <2>1 DEF Of, IsTias
        <3>2. e \in TiaItems
            <4>1. Logged(TiaItems)
                BY <1>1, <3>1, TiaLog DEF TiaSteps, TiaItems
            <4> QED BY <1>3, <1>5, <4>1 DEF Logged
        <3>3. e \in {ModelUpdate, Correlation} /\ Fresh
            BY <3>2, TiaEvents, Signals DEF TiaItems
        <3>4. \A j \in DOMAIN intelInbox : intelInbox[j].ts_ms = now
            BY <1>3, <3>1 DEF CoalitionInv, TiaSteps
        <3>5. Len(intelInbox) \in DOMAIN intelInbox
            BY <3>3 DEF Fresh, TypeInv, TypeOK
        <3>6. Latency = now - now
            BY <3>4, <3>5 DEF Latency
        <3> QED BY <1>1, <3>3, <3>6, TiaEvents
    <2>3. Get(e, "signal", None) = "reclaim" => e.latency_ms = 0
        <3> SUFFICES ASSUME Get(e, "signal", None) = "reclaim" PROVE e.latency_ms = 0
            OBVIOUS
        <3>1. RaaSteps
            BY <2>1 DEF Of, IsRaas
        <3>2. e \in RaaItems
            <4>1. Logged(RaaItems)
                BY <1>1, <3>1, RaaLog DEF RaaSteps, RaaItems
            <4> QED BY <1>3, <1>5, <4>1 DEF Logged
        <3>3. e = Reclaim /\ resolutions # <<>>
            <4>1. "reclaim" # None /\ "reclaim" # "overhead"
                BY Signals
            <4>2. Get(AuctionCompleted, "signal", None) = None
                BY RaaEvents
            <4>3. Get(MonitorOverhead, "signal", None) = "overhead"
                BY RaaEvents
            <4> QED BY <3>2, <4>1, <4>2, <4>3 DEF RaaItems
        <3>4. \A j \in DOMAIN resolutions : resolutions[j] = now
            BY <1>3, <3>1 DEF RaaKeepsUp, RaaSteps
        <3>5. Len(resolutions) \in DOMAIN resolutions
            BY <3>3 DEF TypeInv, TypeOK
        <3>6. Reclaim.latency_ms = now - now
            <4>1. Reclaim.latency_ms = now - resolutions[Len(resolutions)]
                BY RaaEvents
            <4> QED BY <3>4, <3>5, <4>1
        <3> QED BY <1>1, <3>3, <3>6
    <2>4. ASSUME e.event_type = "AUCTION_COMPLETED"
          PROVE  /\ e.latency_ms = 0
                 /\ Get(e, "notify_latency_ms", 1000000000) < 100
                 /\ Get(e, "granted", {}) = TopBidders(Get(e, "bids", <<>>), Get(e, "slots", 0))
        <3>1. RaaSteps
            BY <2>1, <2>4 DEF Of, IsRaas
        <3>2. e \in RaaItems
            <4>1. Logged(RaaItems)
                BY <1>1, <3>1, RaaLog DEF RaaSteps, RaaItems
            <4> QED BY <1>3, <1>5, <4>1 DEF Logged
        <3>3. e = AuctionCompleted /\ bidInbox # <<>>
            <4>1. Reclaim.event_type = "RESOURCE_ALLOCATED"
                BY RaaEvents
            <4>2. MonitorOverhead.event_type = "RESOURCE_ALLOCATED"
                BY RaaEvents
            <4> QED BY <2>4, <3>2, <4>1, <4>2 DEF RaaItems
        <3>4. \A j \in DOMAIN bidInbox : bidInbox[j].ts_ms = now
            BY <1>3, <3>1 DEF RaaKeepsUp, RaaSteps
        <3>5. BidSeq(bidInbox) /\ 1 \in DOMAIN bidInbox
            BY <3>3, InboxIsBids DEF TypeInv, TypeOK
        <3>6. e.latency_ms = 0
            <4>1. FirstBidTime = now
                BY <3>4, <3>5 DEF FirstBidTime
            <4>2. e.latency_ms = now - now
                BY <3>3, <4>1, RaaEvents
            <4> QED BY <1>1, <4>2
        <3>7. Get(e, "notify_latency_ms", 1000000000) < 100
            <4>1. Get(e, "notify_latency_ms", 1000000000) = 0
                BY <3>3, RaaEvents, SMT
            <4> QED BY <4>1, SMT
        <3> DEFINE best == BestBids(bidInbox)
                   n == Cardinality(Firsts(bidInbox))
        <3>8. /\ n \in Nat /\ DOMAIN best = 1..n
              /\ \A k \in 1..n : \E t \in DOMAIN bidInbox :
                    best[k] = bidInbox[t] /\ Top1(bidInbox, DOMAIN bidInbox, t)
            BY <3>5, BestBidsFact
        <3>9. /\ Get(e, "bids", <<>>) = [k \in DOMAIN best |-> <<best[k].bidder, best[k].value>>]
              /\ Get(e, "granted", {}) = run_auction(best, Slots)
              /\ Get(e, "slots", 0) = Slots
            BY <3>3, RaaEvents
        <3> HIDE DEF best, n
        <3>10. \A k \in 1..n : best[k].value \in Int /\ best[k].ts_ms = now
            <4> SUFFICES ASSUME NEW k \in 1..n
                         PROVE  best[k].value \in Int /\ best[k].ts_ms = now
                OBVIOUS
            <4>1. PICK t \in DOMAIN bidInbox : best[k] = bidInbox[t]
                BY <3>8
            <4>2. bidInbox[t].value \in 0..100
                BY <3>5 DEF BidSeq
            <4>3. \A x \in 0..100 : x \in Int
                OBVIOUS
            <4> QED BY <3>4, <4>1, <4>2, <4>3
        <3> DEFINE pairs == [k \in DOMAIN best |-> <<best[k].bidder, best[k].value>>]
        <3>11. run_auction(best, Slots) = TopBidders(pairs, Slots)
            <4>1. n \in Nat /\ DOMAIN best = 1..n /\ now \in Int
                BY <1>1, <3>8
            <4> QED BY <3>10, <4>1, SameRanking, Zenon
        <3> QED BY <3>6, <3>7, <3>9, <3>11
    <2> QED BY <2>2, <2>3, <2>4 DEF Punctual
<1> QED BY <1>4, <1>5
-----------------------------------------------------------------------------
(* Auctions settle the bids that wait *)

\* What settles a sequence of bids settles it wherever it stands in the history.
LEMMA Shifted ==
    ASSUME NEW q, IsSeq(q), NEW B, NEW e, NEW d \in Nat, NEW S,
           \A x : x \in S <=> \E i \in DOMAIN q : x = d + i,
           \A i \in DOMAIN q : B[d + i] = q[i],
           Settled(q, DOMAIN q, e)
    PROVE  Settled(B, S, e)
<1> DEFINE Q == DOMAIN q
           granted == e.payload.granted
           topsQ == {j \in Q : \A h \in Q : q[h].bidder = q[j].bidder => q[h].value <= q[j].value}
           topsB == {j \in S : \A h \in S : B[h].bidder = B[j].bidder => B[h].value <= B[j].value}
<1>1. Q \subseteq Nat
    BY SeqShape
<1> HIDE DEF Q
<1>2. /\ \A i \in Q : d + i \in S /\ B[d + i] = q[i]
      /\ \A x \in S : \E i \in Q : x = d + i
    BY DEF Q
<1>3. {B[x].bidder : x \in S} = {q[i].bidder : i \in Q}
    <2>1. \A x \in S : \E i \in Q : B[x].bidder = q[i].bidder
        BY <1>2
    <2>2. \A i \in Q : \E x \in S : B[x].bidder = q[i].bidder
        BY <1>2
    <2> QED BY <2>1, <2>2
<1>4. \A i \in Q : i \in topsQ <=> d + i \in topsB
    BY <1>2
<1>5. {<<B[x].bidder, B[x].value>> : x \in topsB} = {<<q[i].bidder, q[i].value>> : i \in topsQ}
    <2>1. topsB \subseteq S /\ topsQ \subseteq Q
        OBVIOUS
    <2> HIDE DEF topsB, topsQ
    <2>2. \A x \in topsB : \E i \in topsQ : B[x] = q[i]
        BY <1>2, <1>4, <2>1
    <2>3. \A i \in topsQ : \E x \in topsB : B[x] = q[i]
        BY <1>2, <1>4, <2>1
    <2> QED BY <2>2, <2>3
<1>6. \A i \in Q : Top1(B, S, d + i) => Top1(q, Q, i)
    <2> SUFFICES ASSUME NEW i \in Q, Top1(B, S, d + i), NEW j \in Q, q[j].bidder = q[i].bidder
                 PROVE  q[i].value > q[j].value \/ (q[i].value = q[j].value /\ i <= j)
        BY DEF Top1
    <2>1. d + i \in S /\ d + j \in S /\ B[d + i] = q[i] /\ B[d + j] = q[j]
        BY <1>2
    <2>2. q[i].value > q[j].value \/ (q[i].value = q[j].value /\ d + i <= d + j)
        BY <2>1 DEF Top1
    <2>3. i \in Nat /\ j \in Nat
        BY <1>1
    <2>4. d + i <= d + j => i <= j
        BY <2>3
    <2> QED BY <2>2, <2>4
<1>7. /\ Q # {}
      /\ {e.payload.bids[n] : n \in DOMAIN e.payload.bids} =
            {<<q[i].bidder, q[i].value>> : i \in topsQ}
      /\ \E i \in Q : e.latency_ms = e.wall_ms - q[i].ts_ms
      /\ \A i \in Q : e.latency_ms >= e.wall_ms - q[i].ts_ms
      /\ granted \subseteq {q[i].bidder : i \in Q}
      /\ Cardinality(granted) = Min2(Slots, Cardinality({q[i].bidder : i \in Q}))
      /\ \A i, j \in Q :
            (/\ Top1(q, Q, i) /\ q[i].bidder \in granted
             /\ Top1(q, Q, j) /\ q[j].bidder \notin granted) =>
                \/ q[i].value > q[j].value
                \/ q[i].value = q[j].value /\ q[i].ts_ms <= q[j].ts_ms
    BY DEF Settled, Q
<1> HIDE DEF granted
<1>8. /\ S # {}
      /\ \E x \in S : e.latency_ms = e.wall_ms - B[x].ts_ms
      /\ \A x \in S : e.latency_ms >= e.wall_ms - B[x].ts_ms
    <2>1. S # {}
        BY <1>2, <1>7
    <2>2. \E x \in S : e.latency_ms = e.wall_ms - B[x].ts_ms
        <3>1. PICK i \in Q : e.latency_ms = e.wall_ms - q[i].ts_ms
            BY <1>7
        <3>2. d + i \in S /\ B[d + i] = q[i]
            BY <1>2
        <3> QED BY <3>1, <3>2
    <2>3. ASSUME NEW x \in S PROVE e.latency_ms >= e.wall_ms - B[x].ts_ms
        <3>1. PICK i \in Q : x = d + i
            BY <1>2
        <3>2. B[x] = q[i]
            BY <1>2, <3>1
        <3> QED BY <1>7, <3>2
    <2> QED BY <2>1, <2>2, <2>3
<1>9. ASSUME NEW x \in S, NEW y \in S, Top1(B, S, x), B[x].bidder \in granted,
             Top1(B, S, y), B[y].bidder \notin granted
      PROVE  \/ B[x].value > B[y].value
             \/ B[x].value = B[y].value /\ B[x].ts_ms <= B[y].ts_ms
    <2>1. PICK i \in Q : x = d + i
        BY <1>2
    <2>2. PICK j \in Q : y = d + j
        BY <1>2
    <2>3. B[x] = q[i] /\ B[y] = q[j]
        BY <1>2, <2>1, <2>2
    <2>4. Top1(q, Q, i) /\ Top1(q, Q, j)
        BY <1>6, <1>9, <2>1, <2>2
    <2> QED BY <1>7, <1>9, <2>3, <2>4
<1>10. /\ {e.payload.bids[n] : n \in DOMAIN e.payload.bids} =
             {<<B[x].bidder, B[x].value>> : x \in topsB}
       /\ granted \subseteq {B[x].bidder : x \in S}
       /\ Cardinality(granted) = Min2(Slots, Cardinality({B[x].bidder : x \in S}))
    BY <1>3, <1>5, <1>7
<1> QED BY <1>8, <1>9, <1>10 DEF Settled, granted

\* Later bids change nothing.
LEMMA SettledStays ==
    ASSUME NEW B, NEW C, NEW S, NEW e, \A i \in S : B[i] = C[i], Settled(B, S, e)
    PROVE  Settled(C, S, e)
<1> DEFINE granted == e.payload.granted
           tops(X) == {j \in S : \A h \in S : X[h].bidder = X[j].bidder
                                                => X[h].value <= X[j].value}
<1>1. {C[i].bidder : i \in S} = {B[i].bidder : i \in S}
    OBVIOUS
<1>2. {<<C[i].bidder, C[i].value>> : i \in tops(C)} = {<<B[i].bidder, B[i].value>> : i \in tops(B)}
    <2>1. tops(C) = tops(B) /\ tops(B) \subseteq S
        OBVIOUS
    <2> HIDE DEF tops
    <2> QED BY <2>1
<1>3. \A i \in S : Top1(C, S, i) => Top1(B, S, i)
    BY DEF Top1
<1>4. /\ S # {}
      /\ {e.payload.bids[n] : n \in DOMAIN e.payload.bids} =
            {<<B[i].bidder, B[i].value>> : i \in tops(B)}
      /\ \E i \in S : e.latency_ms = e.wall_ms - B[i].ts_ms
      /\ \A i \in S : e.latency_ms >= e.wall_ms - B[i].ts_ms
      /\ granted \subseteq {B[i].bidder : i \in S}
      /\ Cardinality(granted) = Min2(Slots, Cardinality({B[i].bidder : i \in S}))
      /\ \A i, j \in S :
            (/\ Top1(B, S, i) /\ B[i].bidder \in granted
             /\ Top1(B, S, j) /\ B[j].bidder \notin granted) =>
                \/ B[i].value > B[j].value
                \/ B[i].value = B[j].value /\ B[i].ts_ms <= B[j].ts_ms
    BY DEF Settled
<1> HIDE DEF granted
<1>5. /\ \E i \in S : e.latency_ms = e.wall_ms - C[i].ts_ms
      /\ \A i \in S : e.latency_ms >= e.wall_ms - C[i].ts_ms
    BY <1>4
<1>6. \A i, j \in S :
         (/\ Top1(C, S, i) /\ C[i].bidder \in granted
          /\ Top1(C, S, j) /\ C[j].bidder \notin granted) =>
             \/ C[i].value > C[j].value
             \/ C[i].value = C[j].value /\ C[i].ts_ms <= C[j].ts_ms
    BY <1>3, <1>4
<1>7. /\ {e.payload.bids[n] : n \in DOMAIN e.payload.bids} =
            {<<C[i].bidder, C[i].value>> : i \in tops(C)}
      /\ granted \subseteq {C[i].bidder : i \in S}
      /\ Cardinality(granted) = Min2(Slots, Cardinality({C[i].bidder : i \in S}))
    BY <1>1, <1>2, <1>4
<1> QED BY <1>4, <1>5, <1>6, <1>7 DEF Settled, granted

\* What the other steps do to the bids.
LEMMA BidsStep ==
    ASSUME TypeInv, [Next]_vars, ~RaaSteps
    PROVE  /\ pace' = pace
           /\ (now' = now /\ turn' >= turn) \/ now' = now + Step
           /\ \/ bids' = bids /\ bidInbox' = bidInbox
              \/ /\ turn \in 1..NSeg /\ now' = now
                 /\ \E b : /\ b.ts_ms = now
                           /\ bids' = Append(bids, b) /\ bidInbox' = Append(bidInbox, b)
<1>1. turn \in Nat
    BY SegmentFacts DEF TypeInv, TypeOK, RoundEnd
<1>2. ASSUME NEW report, NEW resolved, NEW bid, SegmentTurn(report, bid, resolved)
      PROVE  /\ pace' = pace /\ now' = now /\ turn' >= turn /\ turn \in 1..NSeg
             /\ \/ bids' = bids /\ bidInbox' = bidInbox
                \/ \E b : /\ b.ts_ms = now
                          /\ bids' = Append(bids, b) /\ bidInbox' = Append(bidInbox, b)
    <2> DEFINE b == [bidder |-> Segments[turn], value |-> bid, ts_ms |-> now]
    <2>1. b.ts_ms = now
        OBVIOUS
    <2>2. /\ pace' = pace /\ now' = now /\ turn' = turn + 1 /\ turn \in 1..NSeg
          /\ bids' = (IF bid # None THEN Append(bids, b) ELSE bids)
          /\ bidInbox' = (IF bid # None THEN Append(bidInbox, b) ELSE bidInbox)
        BY <1>2 DEF SegmentTurn
    <2> HIDE DEF b
    <2> QED BY <1>1, <2>1, <2>2
<1>3. CASE BeginRound
    BY <1>1, <1>3 DEF BeginRound, envVars, raaVars
<1>4. CASE TiaSteps
    BY <1>1, <1>4 DEF TiaSteps, envVars, raaVars
<1>5. CASE PassOver
    BY <1>1, <1>5 DEF PassOver, envVars, raaVars
<1>6. CASE EndRound
    BY <1>1, <1>6 DEF EndRound, envVars, raaVars
<1>7. CASE UNCHANGED vars
    BY <1>1, <1>7 DEF vars, envVars, raaVars
<1> QED BY <1>2, <1>3, <1>4, <1>5, <1>6, <1>7 DEF Next

LEMMA AuctionsAre ==
    /\ Auctions = {k \in DOMAIN log : log[k].event_type = "AUCTION_COMPLETED"}
    /\ Auctions' = {k \in DOMAIN log' : log'[k].event_type = "AUCTION_COMPLETED"}
<1>1. "AUCTION_COMPLETED" \in Selectors
    BY DEF Selectors
<1> QED BY <1>1, Selections DEF Auctions

LEMMA OldAuctions ==
    ASSUME TypeInv, ClockInv, FailInv, AuctionInv, [Next]_vars, NEW k \in Auctions
    PROVE  k \in Auctions' /\ log'[k] = log[k] /\ Settled(bids', Settles(k)', log'[k])
<1>1. /\ k \in DOMAIN log /\ k \in Auctions' /\ log'[k] = log[k] /\ Before(k)' = Before(k)
    BY Frames, AuctionsAre
<1>2. Settled(bids, Settles(k), log[k])
    BY DEF AuctionInv
<1>3. /\ Settles(k) = {i \in DOMAIN bids : /\ bids[i].ts_ms <= log[k].wall_ms
                                           /\ \A t \in Before(k) : bids[i].ts_ms > t}
      /\ Settles(k)' = {i \in DOMAIN bids' : /\ bids'[i].ts_ms <= log'[k].wall_ms
                                             /\ \A t \in Before(k)' : bids'[i].ts_ms > t}
    BY DEF Settles
<1>4. CASE bids' = bids
    BY <1>1, <1>2, <1>3, <1>4
<1>5. CASE bids' # bids
    <2>1. ~RaaSteps
        BY <1>5 DEF RaaSteps, envVars
    <2>2. PICK b : b.ts_ms = now /\ bids' = Append(bids, b)
        BY <1>5, <2>1, BidsStep
    <2>3. turn \in 1..NSeg
        BY <1>5, <2>1, BidsStep
    <2>4. log[k].wall_ms < now /\ log[k].wall_ms \in Nat /\ now \in Nat
        <3>1. ~(turn > RaaTurn)
            BY <2>3, SegmentFacts DEF RaaTurn
        <3> QED BY <1>1, <3>1 DEF AuctionInv, BidsAndAuctions, TypeInv, TypeOK
    <2>5. /\ DOMAIN bids' = DOMAIN bids \cup {Len(bids) + 1}
          /\ \A i \in DOMAIN bids : bids'[i] = bids[i]
          /\ bids'[Len(bids) + 1] = b
        BY <2>2 DEF TypeInv, TypeOK
    <2>6. ~(now <= log[k].wall_ms)
        BY <2>4
    <2>7. \A i : i \in Settles(k)' <=> i \in Settles(k)
        BY <1>1, <1>3, <2>2, <2>5, <2>6
    <2>8. Settles(k)' = Settles(k) /\ Settles(k) \subseteq DOMAIN bids
        BY <1>3, <2>7
    <2> QED BY <1>1, <1>2, <2>5, <2>8, SettledStays
<1> QED BY <1>1, <1>4, <1>5

\* The RAA logs one auction, if bids wait, and it settles them.
LEMMA NewAuction ==
    ASSUME TypeInv, ClockInv, FailInv, AuctionInv, [Next]_vars, RaaSteps
    PROVE  /\ bidInbox = <<>> => Auctions' = Auctions
           /\ bidInbox # <<>> =>
                 \E k \in DOMAIN log' \ DOMAIN log :
                    /\ Auctions' = Auctions \cup {k} /\ log'[k].wall_ms = now
                    /\ Settled(bids', Settles(k)', log'[k])
<1>1. /\ IsSeq(log) /\ IsSeq(log') /\ Auctions = Auctions' \cap DOMAIN log
      /\ \A i \in DOMAIN log : log'[i] = log[i]
    BY StepLog, Frames DEF TypeInv
<1>2. RaaStep
    BY DEF RaaSteps
<1>3. /\ Logged(RaaItems)
      /\ \A i, j \in DOMAIN log' \ DOMAIN log :
            log'[i] = AuctionCompleted /\ log'[j] = AuctionCompleted => i = j
    BY <1>1, <1>2, RaaLog DEF RaaItems
<1>4. \A e \in RaaItems : e.event_type = "AUCTION_COMPLETED" => e = AuctionCompleted /\ bidInbox # <<>>
    <2>1. Reclaim.event_type = "RESOURCE_ALLOCATED"
        BY RaaEvents
    <2>2. MonitorOverhead.event_type = "RESOURCE_ALLOCATED"
        BY RaaEvents
    <2> QED BY <2>1, <2>2 DEF RaaItems
<1>5. AuctionCompleted.event_type = "AUCTION_COMPLETED" /\ AuctionCompleted.wall_ms = now
    BY RaaEvents
<1>6. ASSUME bidInbox = <<>> PROVE Auctions' = Auctions
    <2>1. \A i \in DOMAIN log' \ DOMAIN log : log'[i].event_type # "AUCTION_COMPLETED"
        BY <1>3, <1>4, <1>6 DEF Logged
    <2> QED BY <1>1, <2>1, AuctionsAre
<1>7. ASSUME bidInbox # <<>>
      PROVE  \E k \in DOMAIN log' \ DOMAIN log :
                /\ Auctions' = Auctions \cup {k} /\ log'[k].wall_ms = now
                /\ Settled(bids', Settles(k)', log'[k])
    <2>1. AuctionCompleted \in RaaItems
        BY <1>7 DEF RaaItems
    <2>2. PICK k \in DOMAIN log' \ DOMAIN log : log'[k] = AuctionCompleted
        BY <1>3, <2>1 DEF Logged
    <2>3. Auctions' = Auctions \cup {k}
        <3>1. \A i \in DOMAIN log' \ DOMAIN log :
                 log'[i].event_type = "AUCTION_COMPLETED" <=> i = k
            BY <1>3, <1>4, <1>5, <2>2 DEF Logged
        <3> QED BY <1>1, <2>2, <3>1, AuctionsAre
    <2>4. Before(k)' = {log[j].wall_ms : j \in Auctions} \cup {LongAgo}
        <3>1. \A i \in DOMAIN log : i < k
            BY <1>3, <2>2 DEF Logged
        <3>2. k \in Nat
            BY <1>1, <2>2, SeqShape
        <3>3. {a \in Auctions' : a < k} = Auctions
            BY <1>1, <2>3, <3>1, <3>2
        <3>4. Before(k)' = {log'[j].wall_ms : j \in {a \in Auctions' : a < k}} \cup {LongAgo}
            BY DEF Before
        <3>5. \A j \in Auctions : log'[j] = log[j]
            BY <1>1
        <3> QED BY <3>3, <3>4, <3>5
    <2>5. bids' = bids
        BY DEF RaaSteps, envVars
    <2>6. /\ Len(bids) \in Nat /\ Len(bidInbox) \in Nat /\ DOMAIN bids = 1..Len(bids)
          /\ DOMAIN bidInbox = 1..Len(bidInbox) /\ Len(bidInbox) <= Len(bids) /\ Len(bidInbox) > 0
          /\ \A i \in DOMAIN bidInbox : bidInbox[i] = bids[Taken + i]
        <3>1. bidInbox \in Seq(BidRecords) /\ bids \in Seq(BidRecords)
            BY DEF TypeInv, TypeOK
        <3> QED BY <1>7, <3>1 DEF AuctionInv, Waiting
    <2>7. Taken \in Nat /\ Taken + Len(bidInbox) = Len(bids)
        BY <2>6 DEF Taken
    <2>8. \A i \in DOMAIN bids : bids[i].ts_ms \in Nat /\ bids[i].ts_ms <= now
        BY InboxIsBids DEF BidSeq, AuctionInv, BidsInOrder
    <2>9. \A i \in DOMAIN bids :
             /\ i > Taken => \A t \in Before(k)' : bids[i].ts_ms > t
             /\ ~(i > Taken) => \E t \in Before(k)' : ~(bids[i].ts_ms > t)
        <3> SUFFICES ASSUME NEW i \in DOMAIN bids
                     PROVE  /\ i > Taken => \A t \in Before(k)' : bids[i].ts_ms > t
                            /\ ~(i > Taken) => \E t \in Before(k)' : ~(bids[i].ts_ms > t)
            OBVIOUS
        <3>1. IF i > Taken THEN \A a \in Auctions : bids[i].ts_ms > log[a].wall_ms
              ELSE \E a \in Auctions : bids[i].ts_ms <= log[a].wall_ms
            BY DEF AuctionInv, BidsAndAuctions
        <3>2. bids[i].ts_ms > LongAgo
            BY <2>8, LongAgoIsPast
        <3>3. \A a \in Auctions : log[a].wall_ms \in Nat /\ log[a].wall_ms \in Before(k)'
            BY <2>4, AuctionsAre DEF TypeInv
        <3>4. i > Taken => \A t \in Before(k)' : bids[i].ts_ms > t
            BY <2>4, <3>1, <3>2
        <3>5. ASSUME ~(i > Taken) PROVE \E t \in Before(k)' : ~(bids[i].ts_ms > t)
            <4>1. PICK a \in Auctions : bids[i].ts_ms <= log[a].wall_ms
                BY <3>1, <3>5
            <4>2. ~(bids[i].ts_ms > log[a].wall_ms)
                BY <2>8, <3>3, <4>1
            <4> QED BY <3>3, <4>2
        <3> QED BY <3>4, <3>5
    <2>10. Settles(k)' = {i \in DOMAIN bids' : /\ bids'[i].ts_ms <= log'[k].wall_ms
                                               /\ \A t \in Before(k)' : bids'[i].ts_ms > t}
        BY DEF Settles
    <2> DEFINE S == Settles(k)'
    <2>11. \A x : x \in S <=> x \in DOMAIN bids /\ x > Taken
        BY <1>5, <2>2, <2>5, <2>8, <2>9, <2>10
    <2> HIDE DEF S
    <2>12. \A x : x \in S <=> \E i \in DOMAIN bidInbox : x = Taken + i
        <3>1. ASSUME NEW x \in S PROVE \E i \in DOMAIN bidInbox : x = Taken + i
            <4>1. x \in 1..Len(bids) /\ x > Taken
                BY <2>6, <2>11
            <4>2. x - Taken \in DOMAIN bidInbox /\ x = Taken + (x - Taken)
                BY <2>6, <2>7, <4>1
            <4> QED BY <4>2
        <3>2. ASSUME NEW i \in DOMAIN bidInbox PROVE Taken + i \in S
            <4>1. Taken + i \in 1..Len(bids) /\ Taken + i > Taken
                BY <2>6, <2>7
            <4> QED BY <2>6, <2>11, <4>1
        <3> QED BY <3>1, <3>2
    <2>13. Settled(bidInbox, DOMAIN bidInbox, AuctionCompleted)
        <3>1. ASSUME NEW i \in DOMAIN bidInbox
              PROVE  /\ bidInbox[1].ts_ms <= bidInbox[i].ts_ms
                     /\ bidInbox[i].ts_ms <= now
            <4>1. /\ Taken + 1 \in DOMAIN bids /\ Taken + i \in DOMAIN bids
                  /\ Taken + 1 <= Taken + i /\ 1 \in DOMAIN bidInbox
                BY <2>6, <2>7
            <4>2. bidInbox[1] = bids[Taken + 1] /\ bidInbox[i] = bids[Taken + i]
                BY <2>6, <4>1
            <4>3. bids[Taken + 1].ts_ms <= bids[Taken + i].ts_ms
                BY <4>1 DEF AuctionInv, BidsInOrder
            <4> QED BY <2>8, <4>1, <4>2, <4>3
        <3>2. bidInbox[1].ts_ms = 0 => now = 0
            <4>1. 1 \in DOMAIN bidInbox /\ Taken + 1 \in DOMAIN bids
                BY <2>6, <2>7
            <4>2. pace = "lockstep" => bidInbox[1].ts_ms = now
                BY <4>1 DEF AuctionInv, RaaKeepsUp, RaaSteps
            <4>3. pace = "free" => bids[Taken + 1].ts_ms > 0
                BY <4>1 DEF AuctionInv, BidsInOrder
            <4>4. bidInbox[1] = bids[Taken + 1]
                BY <2>6, <4>1
            <4>5. pace = "free" => bidInbox[1].ts_ms # 0
                BY <2>8, <4>1, <4>3, <4>4
            <4> QED BY <4>2, <4>5 DEF TypeInv, TypeOK
        <3> QED BY <1>7, <3>1, <3>2, InboxSettled
    <2>14. IsSeq(bidInbox)
        BY InboxIsBids DEF BidSeq
    <2>15. Settled(bids, S, AuctionCompleted)
        BY <2>6, <2>7, <2>12, <2>13, <2>14, Shifted
    <2> QED BY <1>5, <2>2, <2>3, <2>5, <2>15 DEF S
<1> QED BY <1>6, <1>7

LEMMA QueueStep ==
    ASSUME TypeInv, ClockInv, FailInv, AuctionInv, [Next]_vars
    PROVE  Waiting' /\ BidsInOrder' /\ BidsAndAuctions'
<1>1. /\ now \in Nat /\ turn \in Nat /\ Step \in Nat /\ Step > 0 /\ IsSeq(log)
      /\ \A k \in Auctions : k \in DOMAIN log /\ log[k].wall_ms \in Nat /\ log[k].wall_ms <= now
    BY StepAssumption, SegmentFacts, AuctionsAre DEF TypeInv, TypeOK, RoundEnd
<1>2. /\ Len(bids) \in Nat /\ Len(bidInbox) \in Nat /\ DOMAIN bids = 1..Len(bids)
      /\ DOMAIN bidInbox = 1..Len(bidInbox)
      /\ bidInbox \in Seq(BidRecords) /\ bids \in Seq(BidRecords)
    BY DEF TypeInv, TypeOK
<1>3. /\ Len(bidInbox) <= Len(bids)
      /\ \A i \in DOMAIN bidInbox : bidInbox[i] = bids[Taken + i]
      /\ \A i, j \in DOMAIN bids : i <= j => bids[i].ts_ms <= bids[j].ts_ms
      /\ \A i \in DOMAIN bids : bids[i].ts_ms <= now /\ (pace = "free" => bids[i].ts_ms > 0)
      /\ \A k \in Auctions : log[k].wall_ms < now \/ turn > RaaTurn
      /\ \A i \in DOMAIN bids :
            IF i > Taken THEN \A k \in Auctions : bids[i].ts_ms > log[k].wall_ms
            ELSE \E k \in Auctions : bids[i].ts_ms <= log[k].wall_ms
    BY DEF AuctionInv, Waiting, BidsInOrder, BidsAndAuctions
<1>4. \A k \in Auctions : k \in Auctions' /\ log'[k] = log[k]
    BY OldAuctions
<1>5. \A i \in DOMAIN bids : bids[i].ts_ms \in Nat
    BY InboxIsBids DEF BidSeq
<1>6. CASE RaaSteps
    <2>1. /\ turn = RaaTurn /\ turn' = turn + 1 /\ bidInbox' = <<>> /\ bids' = bids
          /\ now' = now /\ pace' = pace
        BY <1>6 DEF RaaSteps, RaaStep, envVars
    <2>2. turn' > RaaTurn
        BY <1>1, <2>1
    <2>3. Len(bidInbox') = 0 /\ DOMAIN bidInbox' = {}
        BY <2>1
    <2>4. Taken' = Len(bids) /\ Waiting' /\ BidsInOrder'
        BY <1>2, <1>3, <2>1, <2>3 DEF Waiting, BidsInOrder, Taken
    <2>5. ASSUME NEW i \in DOMAIN bids PROVE \E k \in Auctions' : bids[i].ts_ms <= log'[k].wall_ms
        <3>1. CASE i > Taken
            <4>1. bidInbox # <<>>
                BY <1>2, <3>1 DEF Taken
            <4>2. PICK k \in DOMAIN log' \ DOMAIN log :
                     Auctions' = Auctions \cup {k} /\ log'[k].wall_ms = now
                BY <1>6, <4>1, NewAuction
            <4> QED BY <1>3, <4>2
        <3>2. CASE ~(i > Taken)
            BY <1>3, <1>4, <3>2
        <3> QED BY <3>1, <3>2
    <2>6. \A i \in DOMAIN bids' : ~(i > Taken')
        BY <1>2, <2>1, <2>4
    <2>7. RaaTurn' = RaaTurn
        BY DEF RaaTurn
    <2>8. BidsAndAuctions'
        <3>1. \A k \in Auctions' : log'[k].wall_ms < now' \/ turn' > RaaTurn'
            BY <2>2, <2>7
        <3>2. \A i \in DOMAIN bids' :
                 IF i > Taken' THEN \A k \in Auctions' : bids'[i].ts_ms > log'[k].wall_ms
                 ELSE \E k \in Auctions' : bids'[i].ts_ms <= log'[k].wall_ms
            BY <2>1, <2>5, <2>6
        <3> QED BY <3>1, <3>2 DEF BidsAndAuctions
    <2> QED BY <2>4, <2>8
<1>7. CASE ~RaaSteps
    <2>1. Auctions' = Auctions
        BY <1>7, Frames
    <2>2. /\ pace' = pace
          /\ (now' = now /\ turn' >= turn) \/ now' = now + Step
          /\ \/ bids' = bids /\ bidInbox' = bidInbox
             \/ /\ turn \in 1..NSeg /\ now' = now
                /\ \E b : /\ b.ts_ms = now
                          /\ bids' = Append(bids, b) /\ bidInbox' = Append(bidInbox, b)
        BY <1>7, BidsStep
    <2>3. turn' \in Nat
        <3>1. turn' \in 0..RoundEnd'
            BY TypeStep DEF TypeInv, TypeOK
        <3> QED BY <3>1
    <2>4. \A k \in Auctions' : log'[k].wall_ms < now' \/ turn' > RaaTurn'
        <3>1. RaaTurn' = RaaTurn /\ RaaTurn \in Nat
            BY SegmentFacts DEF RaaTurn
        <3>2. CASE now' = now /\ turn' >= turn
            BY <1>1, <1>3, <1>4, <2>1, <2>3, <3>1, <3>2
        <3>3. CASE now' = now + Step
            BY <1>1, <1>4, <2>1, <3>3
        <3> QED BY <2>2, <3>2, <3>3
    <2>5. CASE bids' = bids /\ bidInbox' = bidInbox
        <3>1. Taken' = Taken
            BY <2>5 DEF Taken
        <3>2. Waiting'
            BY <1>3, <2>5, <3>1 DEF Waiting
        <3>3. BidsInOrder'
            BY <1>1, <1>3, <1>5, <2>2, <2>5 DEF BidsInOrder
        <3>4. BidsAndAuctions'
            BY <1>3, <1>4, <2>1, <2>4, <2>5, <3>1 DEF BidsAndAuctions
        <3> QED BY <3>2, <3>3, <3>4
    <2>6. CASE bids' # bids \/ bidInbox' # bidInbox
        <3>1. PICK b : b.ts_ms = now /\ bids' = Append(bids, b) /\ bidInbox' = Append(bidInbox, b)
            BY <2>2, <2>6
        <3>2. turn \in 1..NSeg /\ now' = now
            BY <2>2, <2>6
        <3>3. /\ Len(bids') = Len(bids) + 1 /\ DOMAIN bids' = 1..(Len(bids) + 1)
              /\ \A i \in DOMAIN bids : bids'[i] = bids[i]
              /\ bids'[Len(bids) + 1] = b
              /\ Len(bidInbox') = Len(bidInbox) + 1 /\ DOMAIN bidInbox' = 1..(Len(bidInbox) + 1)
              /\ \A i \in DOMAIN bidInbox : bidInbox'[i] = bidInbox[i]
              /\ bidInbox'[Len(bidInbox) + 1] = b
            BY <1>2, <3>1
        <3>4. Taken' = Taken /\ Taken \in Nat /\ Taken + Len(bidInbox) = Len(bids)
            BY <1>2, <1>3, <3>3 DEF Taken
        <3>5. Waiting'
            <4>1. Len(bidInbox') <= Len(bids')
                BY <1>2, <1>3, <3>3
            <4>2. ASSUME NEW i \in DOMAIN bidInbox' PROVE bidInbox'[i] = bids'[Taken + i]
                <5>1. CASE i \in DOMAIN bidInbox
                    <6>1. Taken + i \in DOMAIN bids
                        BY <1>2, <3>4, <5>1
                    <6> QED BY <1>3, <3>3, <5>1, <6>1
                <5>2. CASE i \notin DOMAIN bidInbox
                    <6>1. i \in 1..(Len(bidInbox) + 1) /\ i \notin 1..Len(bidInbox)
                        BY <1>2, <3>3, <5>2
                    <6>2. i = Len(bidInbox) + 1
                        BY <1>2, <6>1
                    <6>3. Taken + (Len(bidInbox) + 1) = Len(bids) + 1
                        BY <1>2, <3>4
                    <6> QED BY <3>3, <6>2, <6>3
                <5> QED BY <5>1, <5>2
            <4> QED BY <3>4, <4>1, <4>2 DEF Waiting
        <3>6. \A i \in DOMAIN bids' : \/ i \in DOMAIN bids /\ bids'[i] = bids[i]
                                      \/ i = Len(bids) + 1 /\ bids'[i].ts_ms = now
            BY <1>2, <3>1, <3>3
        <3>7. BidsInOrder'
            <4>1. ASSUME NEW i \in DOMAIN bids', NEW j \in DOMAIN bids', i <= j
                  PROVE  bids'[i].ts_ms <= bids'[j].ts_ms
                <5>1. CASE j \in DOMAIN bids
                    <6>1. i \in DOMAIN bids
                        BY <1>2, <3>3, <4>1, <5>1
                    <6> QED BY <1>3, <3>3, <4>1, <5>1, <6>1
                <5>2. CASE j \notin DOMAIN bids
                    <6>1. bids'[j].ts_ms = now
                        BY <3>6, <5>2
                    <6>2. bids'[i].ts_ms <= now
                        BY <1>1, <1>3, <3>6
                    <6> QED BY <6>1, <6>2
                <5> QED BY <5>1, <5>2
            <4>2. pace = "free" => now > 0
                BY <1>1 DEF ClockInv
            <4>3. \A i \in DOMAIN bids' : bids'[i].ts_ms <= now' /\ (pace' = "free" => bids'[i].ts_ms > 0)
                BY <1>1, <1>3, <2>2, <3>2, <3>6, <4>2
            <4> QED BY <4>1, <4>3 DEF BidsInOrder
        <3>8. BidsAndAuctions'
            <4>1. \A k \in Auctions : now > log[k].wall_ms
                <5>1. ~(turn > RaaTurn)
                    BY <3>2, SegmentFacts DEF RaaTurn
                <5> QED BY <1>1, <1>3, <5>1
            <4>2. ASSUME NEW i \in DOMAIN bids'
                  PROVE  IF i > Taken' THEN \A k \in Auctions' : bids'[i].ts_ms > log'[k].wall_ms
                         ELSE \E k \in Auctions' : bids'[i].ts_ms <= log'[k].wall_ms
                <5>1. CASE i \in DOMAIN bids
                    BY <1>3, <1>4, <2>1, <3>3, <3>4, <5>1
                <5>2. CASE i = Len(bids) + 1 /\ bids'[i].ts_ms = now
                    <6>1. i > Taken'
                        BY <1>2, <3>4, <5>2
                    <6> QED BY <1>4, <2>1, <4>1, <5>2, <6>1
                <5> QED BY <3>6, <5>1, <5>2
            <4> QED BY <2>4, <4>2 DEF BidsAndAuctions
        <3> QED BY <3>5, <3>7, <3>8
    <2> QED BY <2>5, <2>6
<1> QED BY <1>6, <1>7

LEMMA KeepsUpStep ==
    ASSUME TypeInv, ClockInv, AuctionInv, [Next]_vars
    PROVE  RaaKeepsUp'
<1>1. /\ turn \in 0..RoundEnd /\ NSeg \in Nat
      /\ bidInbox \in Seq(BidRecords) /\ resolutions \in Seq(Nat)
    BY SegmentFacts DEF TypeInv, TypeOK
<1>2. pace' = pace /\ dead \subseteq dead'
    BY DEF Next, BeginRound, SegmentTurn, TiaSteps, RaaSteps, PassOver, EndRound, vars, envVars
<1>3. RaaTurn' = RaaTurn
    BY DEF RaaTurn
<1>4. SUFFICES ASSUME pace = "lockstep", RAA \notin dead, RAA \notin dead'
               PROVE  /\ \A i \in DOMAIN bidInbox' : bidInbox'[i].ts_ms = now'
                      /\ \A i \in DOMAIN resolutions' : resolutions'[i] = now'
                      /\ turn' \notin 1..RaaTurn => bidInbox' = <<>> /\ resolutions' = <<>>
    BY <1>2, <1>3 DEF RaaKeepsUp
<1>5. /\ \A i \in DOMAIN bidInbox : bidInbox[i].ts_ms = now
      /\ \A i \in DOMAIN resolutions : resolutions[i] = now
      /\ turn \notin 1..RaaTurn => bidInbox = <<>> /\ resolutions = <<>>
    BY <1>4 DEF AuctionInv, RaaKeepsUp
<1>6. ASSUME NEW report, NEW resolved, NEW bid, SegmentTurn(report, bid, resolved)
      PROVE  /\ \A i \in DOMAIN bidInbox' : bidInbox'[i].ts_ms = now'
             /\ \A i \in DOMAIN resolutions' : resolutions'[i] = now'
             /\ turn' \notin 1..RaaTurn => bidInbox' = <<>> /\ resolutions' = <<>>
    <2> DEFINE b == [bidder |-> Segments[turn], value |-> bid, ts_ms |-> now]
    <2>1. b.ts_ms = now
        OBVIOUS
    <2>2. /\ now' = now /\ turn' = turn + 1 /\ turn \in 1..NSeg
          /\ bidInbox' = (IF bid # None THEN Append(bidInbox, b) ELSE bidInbox)
          /\ resolutions' = (IF resolved THEN Append(resolutions, now) ELSE resolutions)
        BY <1>6 DEF SegmentTurn
    <2> HIDE DEF b
    <2>3. \A i \in DOMAIN bidInbox' : bidInbox'[i].ts_ms = now'
        BY <1>1, <1>5, <2>1, <2>2
    <2>4. \A i \in DOMAIN resolutions' : resolutions'[i] = now'
        BY <1>1, <1>5, <2>2
    <2>5. turn' \in 1..RaaTurn
        BY <1>1, <2>2 DEF RaaTurn
    <2> QED BY <2>3, <2>4, <2>5
<1>7. CASE BeginRound
    <2>1. /\ turn = 0 /\ now' = now /\ bidInbox' = bidInbox /\ resolutions' = resolutions
          /\ turn' = 1
        BY <1>7 DEF BeginRound, raaVars
    <2>2. turn' \in 1..RaaTurn
        BY <1>1, <2>1 DEF RaaTurn
    <2> QED BY <1>5, <2>1, <2>2
<1>8. CASE TiaSteps
    <2>1. /\ turn = TiaTurn /\ now' = now /\ bidInbox' = bidInbox /\ resolutions' = resolutions
          /\ turn' = turn + 1
        BY <1>8 DEF TiaSteps, raaVars
    <2>2. turn' \in 1..RaaTurn
        BY <1>1, <2>1 DEF TiaTurn, RaaTurn
    <2> QED BY <1>5, <2>1, <2>2
<1>9. CASE RaaSteps
    <2>1. bidInbox' = <<>> /\ resolutions' = <<>>
        BY <1>9 DEF RaaSteps, RaaStep
    <2> QED BY <2>1
<1>10. CASE PassOver
    <2>1. /\ turn = TiaTurn /\ now' = now /\ bidInbox' = bidInbox /\ resolutions' = resolutions
          /\ turn' = turn + 1
        BY <1>4, <1>10 DEF PassOver, PassedOver, raaVars
    <2>2. turn' \in 1..RaaTurn
        BY <1>1, <2>1 DEF TiaTurn, RaaTurn
    <2> QED BY <1>5, <2>1, <2>2
<1>11. CASE EndRound
    <2>1. turn = RoundEnd /\ bidInbox' = bidInbox /\ resolutions' = resolutions
        BY <1>11 DEF EndRound, raaVars
    <2>2. turn \notin 1..RaaTurn
        BY <1>1, <2>1 DEF RoundEnd, RaaTurn
    <2>3. bidInbox' = <<>> /\ resolutions' = <<>>
        BY <1>5, <2>1, <2>2
    <2> QED BY <2>3
<1>12. CASE UNCHANGED vars
    <2>1. turn' = turn /\ now' = now /\ bidInbox' = bidInbox /\ resolutions' = resolutions
        BY <1>12 DEF vars, raaVars
    <2> QED BY <1>5, <2>1
<1> QED BY <1>6, <1>7, <1>8, <1>9, <1>10, <1>11, <1>12 DEF Next

LEMMA AuctionStep ==
    ASSUME TypeInv, ClockInv, FailInv, AuctionInv, [Next]_vars
    PROVE  AuctionInv'
<1>1. Waiting' /\ BidsInOrder' /\ BidsAndAuctions' /\ RaaKeepsUp'
    BY QueueStep, KeepsUpStep
<1>2. ASSUME NEW k \in Auctions' PROVE Settled(bids', Settles(k)', log'[k])
    <2>1. CASE k \in Auctions
        BY <2>1, OldAuctions
    <2>2. CASE k \notin Auctions
        <3>1. RaaSteps /\ bidInbox # <<>>
            BY <2>2, Frames, NewAuction
        <3> QED BY <2>2, <3>1, NewAuction
    <2> QED BY <2>1, <2>2
<1> QED BY <1>1, <1>2 DEF AuctionInv
-----------------------------------------------------------------------------
(* Agents beat, and one that stops is flagged once *)

LEMMA WhoseTurn ==
    ASSUME NEW a \in Agents
    PROVE  /\ \A t \in 1..NSeg : a \in Crew(t) <=> TurnOf(a) = t
           /\ a = TIA <=> TurnOf(a) = TiaTurn
           /\ a = RAA <=> TurnOf(a) = RaaTurn
           /\ TurnOf(a)' = TurnOf(a)
<1>1. /\ NSeg \in Nat /\ TiaTurn \notin 1..NSeg /\ RaaTurn \notin 1..NSeg /\ TiaTurn # RaaTurn
    BY SegmentFacts DEF TiaTurn, RaaTurn
<1>2. a = TIA \/ a = RAA \/ \E t \in 1..NSeg : a \in Crew(t)
    BY FleetFacts
<1>3. TurnOf(a)' = TurnOf(a)
    BY DEF TurnOf, TIA, RAA, TiaTurn, RaaTurn, NSeg, Agent
<1>4. TurnOf(TIA) = TiaTurn /\ TurnOf(RAA) = RaaTurn
      /\ \A t \in 1..NSeg : \A b \in Crew(t) : TurnOf(b) = t
    BY Turns
<1> QED BY <1>1, <1>2, <1>3, <1>4, FleetFacts

\* A turn of the agents of S, in which those of them that live beat.
LEMMA TurnBeats ==
    ASSUME TypeInv, ClockInv, NEW S, NEW a \in Agents \ dead, pace = "lockstep",
           turn > 0, turn' = turn + 1, round' = round, now' = now,
           a \in S <=> TurnOf(a) = turn,
           IF Running
           THEN /\ DOMAIN lastSeen' = (S \ dead) \cup DOMAIN lastSeen
                /\ \A b \in S \ dead : lastSeen'[b] = now
                /\ \A b \in DOMAIN lastSeen \ (S \ dead) : lastSeen'[b] = lastSeen[b]
           ELSE lastSeen' = lastSeen,
           Beating(a)
    PROVE  Beating(a)'
<1>1. TurnOf(a)' = TurnOf(a) /\ TurnOf(a) \in Int
    <2>1. TurnOf(a) \in 1..RaaTurn
        BY Turns
    <2> QED BY <2>1, WhoseTurn
<1>2. turn \in Int /\ Running' = Running
    BY SegmentFacts DEF TypeInv, TypeOK, RoundEnd, Running
<1> DEFINE T == TurnOf(a)
<1>3. /\ Beating(a)' = (IF Running /\ turn' > T THEN a \in DOMAIN lastSeen' /\ lastSeen'[a] = now
                        ELSE IF round > WarmupRounds
                             THEN a \in DOMAIN lastSeen' /\ lastSeen'[a] = now - Step
                             ELSE a \notin DOMAIN lastSeen')
      /\ Beating(a) = (IF Running /\ turn > T THEN a \in DOMAIN lastSeen /\ lastSeen[a] = now
                       ELSE IF round > WarmupRounds
                            THEN a \in DOMAIN lastSeen /\ lastSeen[a] = now - Step
                            ELSE a \notin DOMAIN lastSeen)
    BY <1>1, <1>2 DEF Beating
<1> HIDE DEF T
<1>4. CASE ~Running
    BY <1>3, <1>4
<1>5. CASE Running /\ a \in S
    <2>1. T = turn /\ turn' > T
        BY <1>2, <1>5 DEF T
    <2> QED BY <1>3, <1>5, <2>1
<1>6. CASE Running /\ a \notin S
    <2>1. turn' > T <=> turn > T
        <3>1. T # turn /\ T \in Int
            BY <1>1, <1>6 DEF T
        <3> QED BY <1>2, <3>1
    <2>2. a \in DOMAIN lastSeen' <=> a \in DOMAIN lastSeen
        BY <1>6
    <2>3. a \in DOMAIN lastSeen => lastSeen'[a] = lastSeen[a]
        BY <1>6
    <2> QED BY <1>3, <1>6, <2>1, <2>2, <2>3
<1> QED BY <1>4, <1>5, <1>6

LEMMA BeatingStep ==
    ASSUME TypeInv, ClockInv, FailInv, [Next]_vars, pace = "lockstep", NEW a \in Agents \ dead'
    PROVE  Beating(a)'
<1>1. /\ now \in Nat /\ turn \in 0..RoundEnd /\ round \in Nat /\ NSeg \in Nat
      /\ Step \in Nat /\ WarmupRounds \in Nat
    BY StepAssumption, SegmentFacts DEF TypeInv, TypeOK
<1>2. a \in Agents \ dead
    BY DEF Next, BeginRound, SegmentTurn, TiaSteps, RaaSteps, PassOver, EndRound, vars
<1>3. Beating(a)
    BY <1>2 DEF FailInv
<1>4. TurnOf(a) \in 1..RaaTurn /\ TurnOf(a)' = TurnOf(a) /\ TurnOf(a) \in Int /\ TurnOf(a) > 0
    <2>1. TurnOf(a) \in 1..RaaTurn
        BY Turns
    <2> QED BY <2>1, WhoseTurn
<1>5. ASSUME NEW report, NEW resolved, NEW bid, SegmentTurn(report, bid, resolved)
      PROVE  Beating(a)'
    <2>1. /\ turn \in 1..NSeg /\ turn' = turn + 1 /\ round' = round /\ now' = now
          /\ Beats(Crew(turn))
        BY <1>5 DEF SegmentTurn, Crew
    <2>2. Crew(turn) \subseteq Agents
        BY <2>1, FleetFacts
    <2>3. a \in Crew(turn) <=> TurnOf(a) = turn
        BY <2>1, WhoseTurn
    <2>4. turn > 0
        BY <1>1, <2>1
    <2> QED BY <1>2, <1>3, <2>1, <2>2, <2>3, <2>4, BeatsFacts, TurnBeats
<1>6. CASE TiaSteps
    <2>1. turn = TiaTurn /\ turn' = turn + 1 /\ round' = round /\ now' = now /\ Beats({TIA})
        BY <1>6 DEF TiaSteps
    <2>2. {TIA} \subseteq Agents
        BY FleetFacts
    <2>3. a \in {TIA} <=> TurnOf(a) = turn
        BY <2>1, WhoseTurn
    <2>4. turn > 0
        BY <1>1, <2>1 DEF TiaTurn
    <2> QED BY <1>2, <1>3, <2>1, <2>2, <2>3, <2>4, BeatsFacts, TurnBeats
<1>7. CASE RaaSteps
    <2>1. turn = RaaTurn /\ turn' = turn + 1 /\ round' = round /\ now' = now /\ Beats({RAA})
        BY <1>7 DEF RaaSteps
    <2>2. {RAA} \subseteq Agents
        BY FleetFacts
    <2>3. a \in {RAA} <=> TurnOf(a) = turn
        BY <2>1, WhoseTurn
    <2>4. turn > 0
        BY <1>1, <2>1 DEF RaaTurn
    <2> QED BY <1>2, <1>3, <2>1, <2>2, <2>3, <2>4, BeatsFacts, TurnBeats
<1>8. CASE PassOver
    <2>1. /\ turn' = turn + 1 /\ round' = round /\ now' = now /\ lastSeen' = lastSeen
          /\ (turn = TiaTurn /\ TIA \in dead) \/ (turn = RaaTurn /\ RAA \in dead)
        BY <1>8 DEF PassOver, PassedOver, failoverVars
    <2>2. TurnOf(a) # turn
        BY <1>2, <2>1, WhoseTurn
    <2>3. turn > 0
        BY <1>1, <2>1 DEF TiaTurn, RaaTurn
    <2> DEFINE S == {}
    <2>4. /\ DOMAIN lastSeen' = (S \ dead) \cup DOMAIN lastSeen
          /\ \A b \in S \ dead : lastSeen'[b] = now
          /\ \A b \in DOMAIN lastSeen \ (S \ dead) : lastSeen'[b] = lastSeen[b]
        BY <2>1
    <2>5. ~(a \in S)
        OBVIOUS
    <2> HIDE DEF S
    <2> QED BY <1>2, <1>3, <2>1, <2>2, <2>3, <2>4, <2>5, TurnBeats
<1>9. CASE BeginRound
    <2>1. turn = 0 /\ turn' = 1 /\ round' = round /\ now' = now /\ lastSeen' = lastSeen
        BY <1>9 DEF BeginRound, failoverVars
    <2>2. ~(turn > TurnOf(a)) /\ ~(turn' > TurnOf(a)')
        BY <1>4, <2>1
    <2> QED BY <1>3, <2>1, <2>2 DEF Beating
<1>10. CASE EndRound
    <2>1. turn = RoundEnd /\ turn' = 0 /\ round' = round + 1 /\ now' = now + Step /\ dead' = dead
        BY <1>10 DEF EndRound
    <2>2. turn > TurnOf(a) /\ ~(turn' > TurnOf(a)')
        BY <1>1, <1>4, <2>1 DEF RaaTurn, RoundEnd
    <2>3. a \in DOMAIN lastSeen' <=> a \in DOMAIN lastSeen
        BY <1>2, <1>10, EndRoundLog
    <2>4. a \in DOMAIN lastSeen => lastSeen'[a] = lastSeen[a]
        BY <1>2, <1>10, EndRoundLog
    <2>5. Beating(a)' = (IF round' > WarmupRounds
                         THEN a \in DOMAIN lastSeen' /\ lastSeen'[a] = now' - Step
                         ELSE a \notin DOMAIN lastSeen')
        BY <2>2 DEF Beating
    <2>6. CASE Running
        <3>1. a \in DOMAIN lastSeen /\ lastSeen[a] = now
            BY <1>3, <2>2, <2>6 DEF Beating
        <3>2. now' - Step = now
            BY <1>1, <2>1
        <3>3. round' > WarmupRounds
            BY <1>1, <2>1, <2>6 DEF Running
        <3> QED BY <2>3, <2>4, <2>5, <3>1, <3>2, <3>3
    <2>7. CASE ~Running
        <3>1. ~(round > WarmupRounds) /\ ~(round' > WarmupRounds)
            BY <1>1, <2>1, <2>7 DEF Running
        <3>2. a \notin DOMAIN lastSeen
            BY <1>3, <2>7, <3>1 DEF Beating
        <3> QED BY <2>3, <2>5, <3>1, <3>2
    <2> QED BY <2>6, <2>7
<1>11. CASE UNCHANGED vars
    <2>1. turn' = turn /\ round' = round /\ now' = now /\ lastSeen' = lastSeen
        BY <1>11 DEF vars, failoverVars
    <2>2. Running' = Running
        BY <2>1 DEF Running
    <2> QED BY <1>3, <1>4, <2>1, <2>2 DEF Beating
<1> QED BY <1>5, <1>6, <1>7, <1>8, <1>9, <1>10, <1>11 DEF Next

\* An agent that has stopped leaves the heartbeats alone until it is flagged.
LEMMA SilentStep ==
    ASSUME TypeInv, ClockInv, FailInv, [Next]_vars, Stopped'
    PROVE  Silent'
<1>1. /\ now \in Nat /\ turn \in 0..RoundEnd /\ round \in Nat /\ rounds \in Nat /\ NSeg \in Nat
      /\ Step \in Nat /\ WarmupRounds \in Nat /\ failAfter \in Nat /\ Timeout \in Nat
    BY StepAssumption, SegmentFacts, TimeoutAssumption DEF TypeInv, TypeOK
<1>2. failAgent' = failAgent /\ failAfter' = failAfter
    BY DEF Next, BeginRound, SegmentTurn, TiaSteps, RaaSteps, PassOver, EndRound, vars, envVars
<1>3. LastBeat' = LastBeat /\ LastBeat \in Int
    BY <1>1, <1>2 DEF LastBeat
<1>4. failAgent # None /\ failAgent \in Agents /\ pace = "lockstep"
    BY <1>2 DEF Stopped, TypeInv
<1>5. /\ Silent => /\ failAfter = 0 => failAgent \notin DOMAIN lastSeen
                   /\ (failAfter > 0 /\ failAgent \notin DOMAIN lastSeen) => failAgent \in handled
                   /\ failAgent \in DOMAIN lastSeen =>
                         /\ lastSeen[failAgent] = LastBeat /\ failAgent \notin handled
                         /\ now - Step - LastBeat <= Timeout
      /\ (/\ failAfter = 0 => failAgent \notin DOMAIN lastSeen'
          /\ (failAfter > 0 /\ failAgent \notin DOMAIN lastSeen') => failAgent \in handled'
          /\ failAgent \in DOMAIN lastSeen' =>
                /\ lastSeen'[failAgent] = LastBeat /\ failAgent \notin handled'
                /\ now' - Step - LastBeat <= Timeout) => Silent'
    BY <1>2, <1>3 DEF Silent
<1> HIDE DEF Silent, LastBeat
<1>6. CASE BeginRound
    <2>1. /\ turn = 0 /\ round' = round /\ now' = now /\ lastSeen' = lastSeen
          /\ handled' = handled /\ turn' = 1
        BY <1>6 DEF BeginRound, failoverVars
    <2>2. CASE Stopped
        BY <1>5, <2>1, <2>2 DEF FailInv
    <2>3. CASE ~Stopped
        <3>1. round = WarmupRounds + failAfter
            BY <1>1, <1>2, <1>4, <2>1, <2>3 DEF Stopped
        <3>2. dead = {} /\ handled = {} /\ now = round * Step
            BY <1>4, <2>3 DEF ClockInv, FailInv
        <3>3. Beating(failAgent)
            BY <1>4, <3>2 DEF FailInv
        <3>4. TurnOf(failAgent) \in 1..RaaTurn
            BY <1>4, Turns
        <3>5. ~(turn > TurnOf(failAgent))
            BY <1>1, <2>1, <3>4 DEF RaaTurn
        <3>6. IF round > WarmupRounds
              THEN failAgent \in DOMAIN lastSeen /\ lastSeen[failAgent] = now - Step
              ELSE failAgent \notin DOMAIN lastSeen
            BY <3>3, <3>5 DEF Beating
        <3>7. round > WarmupRounds <=> failAfter > 0
            BY <1>1, <3>1
        <3>8. now - Step = LastBeat
            <4>1. LastBeat = (round - 1) * Step
                <5>1. WarmupRounds + failAfter - 1 = round - 1
                    BY <1>1, <3>1
                <5> QED BY <5>1, Zenon DEF LastBeat
            <4>2. (round - 1) * Step = round * Step - Step
                BY <1>1
            <4> QED BY <3>2, <4>1, <4>2
        <3>9. now - Step - LastBeat = 0
            BY <1>3, <3>8
        <3> QED BY <1>1, <1>5, <2>1, <3>2, <3>6, <3>7, <3>8, <3>9
    <2> QED BY <2>2, <2>3
<1>7. CASE EndRound
    <2>1. turn = RoundEnd /\ turn' = 0 /\ round' = round + 1 /\ now' = now + Step
        BY <1>7 DEF EndRound
    <2>2. Stopped
        BY <1>1, <1>2, <2>1 DEF Stopped, RoundEnd
    <2>3. Silent
        BY <2>2 DEF FailInv
    <2>4. now' - Step - LastBeat = now - LastBeat
        BY <1>1, <1>3, <2>1
    <2>5. CASE /\ handled' = handled /\ DOMAIN lastSeen' = DOMAIN lastSeen
               /\ \A b \in DOMAIN lastSeen : lastSeen'[b] = lastSeen[b]
               /\ failed \subseteq handled
        <3>1. failAgent \in DOMAIN lastSeen => ~(now - lastSeen[failAgent] > Timeout)
            BY <1>5, <2>3, <2>5 DEF failed
        <3>2. failAgent \in DOMAIN lastSeen => now - LastBeat <= Timeout
            BY <1>1, <1>3, <1>5, <2>3, <3>1
        <3> QED BY <1>5, <2>3, <2>4, <2>5, <3>2
    <2>6. CASE /\ failAgent \in failed \ handled
               /\ handled' = handled \cup {failAgent}
               /\ lastSeen' = [b \in DOMAIN lastSeen \ {failAgent} |-> lastSeen[b]]
        <3>1. failAgent \notin DOMAIN lastSeen' /\ failAgent \in handled'
            BY <2>6
        <3> QED BY <1>5, <3>1
    <2> QED BY <1>7, <2>2, <2>5, <2>6, EndRoundLog
<1>8. CASE ~BeginRound /\ ~EndRound
    <2>1. /\ turn' = turn \/ turn > 0
          /\ round' = round /\ now' = now /\ handled' = handled /\ dead' = dead
          /\ (lastSeen' = lastSeen \/ \E S : S \subseteq Agents /\ Beats(S))
        <3>1. ASSUME NEW report, NEW resolved, NEW bid, SegmentTurn(report, bid, resolved)
              PROVE  /\ turn > 0 /\ round' = round /\ now' = now
                     /\ handled' = handled /\ dead' = dead
                     /\ Crew(turn) \subseteq Agents /\ Beats(Crew(turn))
            <4>1. turn \in 1..NSeg
                BY <3>1 DEF SegmentTurn
            <4>2. Crew(turn) \subseteq Agents
                BY <4>1, FleetFacts
            <4> QED BY <1>1, <3>1, <4>1, <4>2 DEF SegmentTurn, Crew
        <3>2. CASE TiaSteps
            <4>1. {TIA} \subseteq Agents
                BY FleetFacts
            <4> QED BY <1>1, <3>2, <4>1 DEF TiaSteps, TiaTurn
        <3>3. CASE RaaSteps
            <4>1. {RAA} \subseteq Agents
                BY FleetFacts
            <4> QED BY <1>1, <3>3, <4>1 DEF RaaSteps, RaaTurn
        <3>4. CASE PassOver
            BY <1>1, <3>4 DEF PassOver, failoverVars, TiaTurn, RaaTurn
        <3>5. CASE UNCHANGED vars
            BY <3>5 DEF vars, failoverVars
        <3> QED BY <1>8, <3>1, <3>2, <3>3, <3>4, <3>5 DEF Next
    <2>2. Stopped
        BY <1>1, <1>2, <2>1 DEF Stopped
    <2>3. Silent /\ dead = {failAgent}
        BY <2>2 DEF FailInv, ClockInv
    <2>4. /\ failAgent \in DOMAIN lastSeen' <=> failAgent \in DOMAIN lastSeen
          /\ failAgent \in DOMAIN lastSeen => lastSeen'[failAgent] = lastSeen[failAgent]
        <3>1. ASSUME NEW S, S \subseteq Agents, Beats(S)
              PROVE  /\ failAgent \in DOMAIN lastSeen' <=> failAgent \in DOMAIN lastSeen
                     /\ failAgent \in DOMAIN lastSeen => lastSeen'[failAgent] = lastSeen[failAgent]
            <4>1. CASE pace = "lockstep" /\ Running
                BY <2>3, <3>1, <4>1, BeatsFacts
            <4>2. CASE ~(pace = "lockstep" /\ Running)
                BY <3>1, <4>2, BeatsFacts
            <4> QED BY <4>1, <4>2
        <3> QED BY <2>1, <3>1
    <2> QED BY <1>5, <2>1, <2>3, <2>4
<1> QED BY <1>6, <1>7, <1>8

LEMMA HandledStep ==
    ASSUME TypeInv, ClockInv, FailInv, [Next]_vars
    PROVE  /\ handled' \subseteq dead' /\ failAgent' = failAgent /\ failAfter' = failAfter
           /\ handled # {} => dead' = dead /\ dead = {failAgent}
           /\ ~EndRound => handled' = handled
           /\ EndRound => dead' = dead /\ turn = RoundEnd
<1>1. handled \subseteq dead /\ (dead = {} \/ dead = {failAgent})
    BY DEF FailInv, ClockInv
<1>2. CASE BeginRound
    <2>1. /\ failAgent' = failAgent /\ failAfter' = failAfter /\ handled' = handled
          /\ dead' = (IF failAgent # None /\ round = WarmupRounds + failAfter
                      THEN dead \cup {failAgent} ELSE dead)
          /\ turn = 0
        BY <1>2 DEF BeginRound, envVars, failoverVars
    <2>2. ~EndRound
        BY <2>1, SegmentFacts DEF EndRound, RoundEnd
    <2> QED BY <1>1, <2>1, <2>2
<1>3. CASE EndRound
    <2>1. failAgent' = failAgent /\ failAfter' = failAfter /\ dead' = dead /\ turn = RoundEnd
        BY <1>3 DEF EndRound, envVars
    <2> QED BY <1>1, <1>3, <2>1, EndRoundLog
<1>4. CASE ~BeginRound /\ ~EndRound
    <2>1. /\ failAgent' = failAgent /\ failAfter' = failAfter /\ handled' = handled /\ dead' = dead
        BY <1>4 DEF Next, SegmentTurn, TiaSteps, RaaSteps, PassOver, vars, envVars, failoverVars
    <2> QED BY <1>1, <1>4, <2>1
<1> QED BY <1>2, <1>3, <1>4

LEMMA FailuresAre ==
    /\ Failures = {i \in DOMAIN log : log[i].event_type = "AGENT_FAILED"}
    /\ Failures' = {i \in DOMAIN log' : log'[i].event_type = "AGENT_FAILED"}
    /\ \A l : select(l, None, "coverage_reassigned") =
                 {i \in DOMAIN l : Get(l[i], "signal", None) = "coverage_reassigned"}
<1>1. "AGENT_FAILED" \in Selectors /\ "coverage_reassigned" \in Selectors
    BY DEF Selectors
<1> QED BY <1>1, Selections DEF Failures

\* A failure that was handled stays so.
LEMMA FailedOverStays ==
    ASSUME TypeInv, ClockInv, FailInv, [Next]_vars, handled # {}, NEW i \in Failures, FailedOver(i)
    PROVE  FailedOver(i)'
<1>1. /\ i \in DOMAIN log /\ \A j \in DOMAIN log : log'[j] = log[j]
      /\ DOMAIN log \subseteq DOMAIN log'
    BY Frames, StepLog, FailuresAre DEF Extends
<1>2. failAgent' = failAgent /\ failAfter' = failAfter /\ dead' = dead
    BY HandledStep
<1>3. LastBeat' = LastBeat /\ Peers' = Peers
    BY <1>2 DEF LastBeat, Peers
<1>4. \A j : j \in select(log, None, "coverage_reassigned") =>
             j \in select(log', None, "coverage_reassigned") /\ log'[j] = log[j]
    BY <1>1, FailuresAre
<1> HIDE DEF LastBeat, Peers
<1>5. /\ log[i].payload.failed_agent = failAgent
      /\ log[i].wall_ms - LastBeat > Timeout
      /\ log[i].wall_ms - LastBeat <= Timeout + Step
      /\ (failAgent.segment # None /\ Peers # {}) =>
            /\ Get(log[i], "segment", None) = failAgent.segment
            /\ \E j \in select(log, None, "coverage_reassigned") :
                  /\ log[j].wall_ms = log[i].wall_ms
                  /\ Get(log[j], "segment", None) = failAgent.segment
                  /\ log[j].payload.segment = failAgent.segment
                  /\ log[j].payload.new_owner \in Peers
    BY DEF FailedOver
<1>6. ASSUME failAgent.segment # None, Peers # {}
      PROVE  /\ Get(log'[i], "segment", None) = failAgent.segment
             /\ \E j \in select(log', None, "coverage_reassigned") :
                   /\ log'[j].wall_ms = log'[i].wall_ms
                   /\ Get(log'[j], "segment", None) = failAgent.segment
                   /\ log'[j].payload.segment = failAgent.segment
                   /\ log'[j].payload.new_owner \in Peers
    <2>1. PICK j \in select(log, None, "coverage_reassigned") :
                  /\ log[j].wall_ms = log[i].wall_ms
                  /\ Get(log[j], "segment", None) = failAgent.segment
                  /\ log[j].payload.segment = failAgent.segment
                  /\ log[j].payload.new_owner \in Peers
        BY <1>5, <1>6
    <2>2. j \in select(log', None, "coverage_reassigned") /\ log'[j] = log[j] /\ log'[i] = log[i]
        BY <1>1, <1>4
    <2> QED BY <1>5, <1>6, <2>1, <2>2
<1>7. /\ log'[i].payload.failed_agent = failAgent
      /\ log'[i].wall_ms - LastBeat > Timeout
      /\ log'[i].wall_ms - LastBeat <= Timeout + Step
    BY <1>1, <1>5
<1> QED BY <1>2, <1>3, <1>6, <1>7 DEF FailedOver

\* The check that flags the agent that stopped does so in time.
LEMMA NewFailure ==
    ASSUME TypeInv, ClockInv, FailInv, [Next]_vars, EndRound, handled' # handled
    PROVE  /\ handled = {} /\ handled' # {}
           /\ \E i \in Failures' : Failures' = {i} /\ FailedOver(i)'
<1>1. /\ now \in Nat /\ Step \in Nat /\ WarmupRounds \in Nat /\ failAfter \in Nat
      /\ Timeout \in Nat
    BY StepAssumption, TimeoutAssumption DEF TypeInv, TypeOK
<1>2. LastBeat \in Int
    BY <1>1 DEF LastBeat
<1>3. /\ dead = {failAgent} /\ failAgent \in Agents /\ failAgent \in failed \ handled
      /\ handled' = handled \cup {failAgent}
      /\ Logged({Failure} \cup (IF failAgent.segment # None /\ Peers # {} THEN {Cover} ELSE {}))
      /\ (failAgent.segment # None /\ Peers # {}) => select_failover_peer(Peers) \in Peers
      /\ \A i, j \in DOMAIN log' \ DOMAIN log :
            (log'[i] = Failure /\ log'[j] = log'[i]) => i = j
    BY EndRoundLog
<1>4. handled = {} /\ Failures = {}
    BY <1>3 DEF FailInv
<1>5. dead' = dead /\ failAgent' = failAgent /\ failAfter' = failAfter
    BY HandledStep
<1>6. LastBeat' = LastBeat /\ Peers' = Peers
    BY <1>5 DEF LastBeat, Peers
<1>7. now - LastBeat > Timeout /\ now - LastBeat <= Timeout + Step
    <2>1. Stopped
        BY <1>3 DEF ClockInv
    <2>2. failAgent \in DOMAIN lastSeen /\ now - lastSeen[failAgent] > Timeout
        BY <1>3 DEF failed
    <2>3. lastSeen[failAgent] = LastBeat /\ now - Step - LastBeat <= Timeout
        BY <2>1, <2>2 DEF FailInv, Silent
    <2> QED BY <1>1, <1>2, <2>2, <2>3
<1> HIDE DEF LastBeat, Peers
<1>8. PICK i \in DOMAIN log' \ DOMAIN log : log'[i] = Failure
    BY <1>3 DEF Logged
<1>9. /\ Failure.event_type = "AGENT_FAILED" /\ Failure.wall_ms = now
      /\ Failure.payload.failed_agent = failAgent
      /\ Get(Failure, "segment", None) = failAgent.segment
      /\ Cover.event_type = "ACTION_EXECUTED" /\ Cover.wall_ms = now
      /\ Get(Cover, "signal", None) = "coverage_reassigned"
      /\ Get(Cover, "segment", None) = failAgent.segment
      /\ Cover.payload.segment = failAgent.segment
      /\ Cover.payload.new_owner = select_failover_peer(Peers)
    BY FailEvents DEF Failure, Cover
<1>10. Failures' = {i}
    <2>1. \A j \in DOMAIN log' \ DOMAIN log : log'[j].event_type = "AGENT_FAILED" => j = i
        <3> SUFFICES ASSUME NEW j \in DOMAIN log' \ DOMAIN log, log'[j].event_type = "AGENT_FAILED"
                     PROVE  j = i
            OBVIOUS
        <3>1. log'[j] \in {Failure, Cover}
            BY <1>3 DEF Logged
        <3>2. log'[j] = Failure
            BY <1>9, <3>1
        <3> QED BY <1>3, <1>8, <3>2
    <2>2. \A j \in DOMAIN log : j \notin Failures'
        BY <1>4, Frames
    <2>3. i \in Failures'
        BY <1>8, <1>9, FailuresAre
    <2> QED BY <2>1, <2>2, <2>3, FailuresAre
<1>11. ASSUME failAgent.segment # None, Peers # {}
       PROVE  /\ Get(log'[i], "segment", None) = failAgent.segment
              /\ \E j \in select(log', None, "coverage_reassigned") :
                    /\ log'[j].wall_ms = log'[i].wall_ms
                    /\ Get(log'[j], "segment", None) = failAgent.segment
                    /\ log'[j].payload.segment = failAgent.segment
                    /\ log'[j].payload.new_owner \in Peers
    <2>1. PICK j \in DOMAIN log' : log'[j] = Cover
        BY <1>3, <1>11 DEF Logged
    <2>2. j \in select(log', None, "coverage_reassigned")
        BY <1>9, <2>1, FailuresAre
    <2> QED BY <1>3, <1>8, <1>9, <1>11, <2>1, <2>2
<1>12. FailedOver(i)'
    BY <1>5, <1>6, <1>7, <1>8, <1>9, <1>11 DEF FailedOver
<1> QED BY <1>3, <1>4, <1>10, <1>12

LEMMA FailStep ==
    ASSUME TypeInv, ClockInv, FailInv, [Next]_vars
    PROVE  FailInv'
<1>1. pace' = pace
    BY DEF Next, BeginRound, SegmentTurn, TiaSteps, RaaSteps, PassOver, EndRound, vars, envVars
<1>2. Agents' = Agents
    BY DEF Agents, Fleet, TIA, RAA, Agent
<1>3. pace' = "lockstep" => \A a \in Agents' \ dead' : Beating(a)'
    BY <1>1, <1>2, BeatingStep
<1>4. Stopped' => Silent'
    BY SilentStep
<1>5. handled' \subseteq dead'
    BY HandledStep
<1>6. CASE handled' # handled
    <2>1. EndRound
        BY <1>6, HandledStep
    <2>2. handled' # {} /\ \E i \in Failures' : Failures' = {i} /\ FailedOver(i)'
        BY <1>6, <2>1, NewFailure
    <2> QED BY <1>3, <1>4, <1>5, <2>2 DEF FailInv
<1>7. CASE handled' = handled
    <2>1. Failures' = Failures
        <3>1. CASE EndRound
            <4>1. Logged({})
                BY <1>7, <3>1, EndRoundLog
            <4>2. DOMAIN log' \ DOMAIN log = {}
                BY <4>1 DEF Logged
            <4> QED BY <4>2, Frames, FailuresAre
        <3>2. CASE ~EndRound
            BY <3>2, Frames
        <3> QED BY <3>1, <3>2
    <2>2. CASE handled = {}
        BY <1>3, <1>4, <1>5, <1>7, <2>1, <2>2 DEF FailInv
    <2>3. CASE handled # {}
        <3>1. PICK i \in Failures : Failures = {i} /\ FailedOver(i)
            BY <2>3 DEF FailInv
        <3>2. FailedOver(i)'
            BY <2>3, <3>1, FailedOverStays
        <3> QED BY <1>3, <1>4, <1>5, <1>7, <2>1, <2>3, <3>1, <3>2 DEF FailInv
    <2> QED BY <2>2, <2>3
<1> QED BY <1>6, <1>7
-----------------------------------------------------------------------------
(* The invariant is inductive *)

LEMMA Inductive == Inv /\ [Next]_vars => Inv'
<1> SUFFICES ASSUME Inv, [Next]_vars PROVE Inv'
    OBVIOUS
<1>1. TypeInv /\ ClockInv /\ CoalitionInv /\ ListInv /\ PunctualInv /\ AuctionInv /\ FailInv
    BY DEF Inv
<1>2. RaaKeepsUp
    BY <1>1 DEF AuctionInv
<1>3. TypeInv' /\ ClockInv' /\ FailInv'
    BY <1>1, TypeStep, ClockStep, FailStep
<1>4. CoalitionInv' /\ ListInv'
    BY <1>1, CoalitionStep, ListStep
<1>5. PunctualInv'
    BY <1>1, <1>2, PunctualStep
<1>6. AuctionInv'
    BY <1>1, AuctionStep
<1> QED BY <1>3, <1>4, <1>5, <1>6 DEF Inv

LEMMA Invariant == Spec => []Inv
BY InitInv, Inductive, PTL DEF Spec

\* Types: no step of the global agents, the failover or the round leaves a
\* variable with a value the code could not give it.
THEOREM TypesHold == Spec => []TypeOK
<1>1. Inv => TypeOK
    BY DEF Inv, TypeInv
<1> QED BY <1>1, Invariant, PTL

\* Coordinated attacks are never missed: the map of ThreatMap never holds two
\* reports of different segments within the window without a coalition of both.
THEOREM CoalitionsCover == Spec => []CorrelatedSegmentsCoalesce
<1>1. Inv => CorrelatedSegmentsCoalesce
    BY DEF Inv, CoalitionInv, CorrelatedSegmentsCoalesce
<1> QED BY <1>1, Invariant, PTL

-----------------------------------------------------------------------------
(* The auctions *)

LEMMA SettledOnce == TypeInv /\ AuctionInv => EveryBidSettledOnce
<1> SUFFICES ASSUME TypeInv, AuctionInv PROVE EveryBidSettledOnce
    OBVIOUS
<1>1. ASSUME NEW k \in Auctions
      PROVE  LET S == Settles(k)
             IN /\ S # {}
                /\ {log[k].payload.bids[n] : n \in DOMAIN log[k].payload.bids} =
                     {<<bids[i].bidder, bids[i].value>> : i \in
                         {j \in S : \A h \in S : bids[h].bidder = bids[j].bidder
                                                   => bids[h].value <= bids[j].value}}
                /\ \E i \in S : log[k].latency_ms = log[k].wall_ms - bids[i].ts_ms
                /\ \A i \in S : log[k].latency_ms >= log[k].wall_ms - bids[i].ts_ms
    <2>1. Settled(bids, Settles(k), log[k])
        BY DEF AuctionInv
    <2> HIDE DEF Settles
    <2> QED BY <2>1 DEF Settled
<1>2. /\ Len(bids) \in Nat /\ Len(bidInbox) \in Nat /\ DOMAIN bids = 1..Len(bids)
      /\ DOMAIN bidInbox = 1..Len(bidInbox) /\ Len(bidInbox) <= Len(bids)
      /\ \A i \in DOMAIN bidInbox : bidInbox[i] = bids[Taken + i]
    BY DEF TypeInv, TypeOK, AuctionInv, Waiting
<1>3. Taken \in Nat /\ Taken + Len(bidInbox) = Len(bids)
    BY <1>2 DEF Taken
<1> DEFINE W == {j \in DOMAIN bids : \A k \in Auctions : bids[j].ts_ms > log[k].wall_ms}
<1>4. \A j \in DOMAIN bids : j \in W <=> j > Taken
    <2> SUFFICES ASSUME NEW j \in DOMAIN bids PROVE j \in W <=> j > Taken
        OBVIOUS
    <2>1. IF j > Taken THEN \A k \in Auctions : bids[j].ts_ms > log[k].wall_ms
          ELSE \E k \in Auctions : bids[j].ts_ms <= log[k].wall_ms
        BY DEF AuctionInv, BidsAndAuctions
    <2>2. bids[j].ts_ms \in Nat
        BY InboxIsBids DEF BidSeq
    <2>3. \A k \in Auctions : log[k].wall_ms \in Nat
        BY AuctionsAre DEF TypeInv
    <2> QED BY <2>1, <2>2, <2>3
<1>5. {bidInbox[i] : i \in DOMAIN bidInbox} = {bids[i] : i \in W}
    <2>1. ASSUME NEW i \in DOMAIN bidInbox PROVE \E j \in W : bidInbox[i] = bids[j]
        <3>1. Taken + i \in DOMAIN bids /\ Taken + i > Taken
            BY <1>2, <1>3
        <3> QED BY <1>2, <1>4, <3>1
    <2>2. ASSUME NEW j \in W PROVE \E i \in DOMAIN bidInbox : bidInbox[i] = bids[j]
        <3>1. j \in 1..Len(bids) /\ j > Taken
            BY <1>2, <1>4
        <3>2. j - Taken \in DOMAIN bidInbox /\ Taken + (j - Taken) = j
            BY <1>2, <1>3, <3>1
        <3> QED BY <1>2, <3>2
    <2> HIDE DEF W
    <2> QED BY <2>1, <2>2
<1> QED BY <1>1, <1>5 DEF EveryBidSettledOnce

\* However late the RAA steps, no bid is lost or auctioned twice, and the
\* latency it logs is the age of the oldest bid.
THEOREM BidsAreSettledOnce == Spec => []EveryBidSettledOnce
<1>1. Inv => EveryBidSettledOnce
    BY SettledOnce DEF Inv
<1> QED BY <1>1, Invariant, PTL

LEMMA HighestWins == TypeInv /\ AuctionInv => HighestSeverityWins
<1> SUFFICES ASSUME TypeInv, AuctionInv, NEW k \in Auctions
             PROVE  LET granted == log[k].payload.granted
                        Best(b) == CHOOSE i \in Settles(k) :
                                      /\ bids[i].bidder = b
                                      /\ \A j \in Settles(k) : bids[j].bidder = b =>
                                            \/ bids[i].value > bids[j].value
                                            \/ bids[i].value = bids[j].value /\ i <= j
                        bidders == {bids[i].bidder : i \in Settles(k)}
                    IN /\ granted \subseteq bidders
                       /\ Cardinality(granted) = Min2(Slots, Cardinality(bidders))
                       /\ \A w \in granted, l \in bidders \ granted :
                             LET x == bids[Best(w)]
                                 y == bids[Best(l)]
                             IN x.value > y.value \/ (x.value = y.value /\ x.ts_ms <= y.ts_ms)
    BY DEF HighestSeverityWins
<1> DEFINE S == Settles(k)
           granted == log[k].payload.granted
           Best(b) == CHOOSE i \in S :
                         /\ bids[i].bidder = b
                         /\ \A j \in S : bids[j].bidder = b =>
                               \/ bids[i].value > bids[j].value
                               \/ bids[i].value = bids[j].value /\ i <= j
           bidders == {bids[i].bidder : i \in S}
<1>1. S \subseteq DOMAIN bids /\ DOMAIN bids \subseteq Nat
      /\ \A i \in S : bids[i].value \in 0..100 /\ i \in Nat
    BY InboxIsBids, SeqShape DEF BidSeq, Settles
<1>2. Settled(bids, S, log[k])
    BY DEF AuctionInv
<1> HIDE DEF S
<1>3. /\ granted \subseteq bidders
      /\ Cardinality(granted) = Min2(Slots, Cardinality(bidders))
      /\ \A i, j \in S :
            (/\ Top1(bids, S, i) /\ bids[i].bidder \in granted
             /\ Top1(bids, S, j) /\ bids[j].bidder \notin granted) =>
                \/ bids[i].value > bids[j].value
                \/ bids[i].value = bids[j].value /\ bids[i].ts_ms <= bids[j].ts_ms
    BY <1>2 DEF Settled
<1>4. ASSUME NEW b \in bidders
      PROVE  Best(b) \in S /\ bids[Best(b)].bidder = b /\ Top1(bids, S, Best(b))
    <2>1. PICK i \in S : bids[i].bidder = b
        OBVIOUS
    <2>2. PICK t \in S : bids[t].bidder = bids[i].bidder /\ Top1(bids, S, t)
        BY <1>1, TopExists
    <2>3. \E u \in S : /\ bids[u].bidder = b
                       /\ \A j \in S : bids[j].bidder = b =>
                             \/ bids[u].value > bids[j].value
                             \/ bids[u].value = bids[j].value /\ u <= j
        BY <2>1, <2>2 DEF Top1
    <2>4. /\ Best(b) \in S /\ bids[Best(b)].bidder = b
          /\ \A j \in S : bids[j].bidder = b =>
                \/ bids[Best(b)].value > bids[j].value
                \/ bids[Best(b)].value = bids[j].value /\ Best(b) <= j
        BY <2>3
    <2> HIDE DEF Best
    <2> QED BY <2>4 DEF Top1
<1> HIDE DEF Best, granted
<1>5. ASSUME NEW w \in granted, NEW l \in bidders \ granted
      PROVE  \/ bids[Best(w)].value > bids[Best(l)].value
             \/ bids[Best(w)].value = bids[Best(l)].value
                /\ bids[Best(w)].ts_ms <= bids[Best(l)].ts_ms
    <2>1. w \in bidders /\ l \in bidders
        BY <1>3
    <2>2. /\ Best(w) \in S /\ bids[Best(w)].bidder \in granted /\ Top1(bids, S, Best(w))
          /\ Best(l) \in S /\ bids[Best(l)].bidder \notin granted /\ Top1(bids, S, Best(l))
        BY <1>4, <1>5, <2>1
    <2> QED BY <1>3, <2>2
<1> QED BY <1>3, <1>5 DEF S, Best, granted

\* FR-19, FR-20: the auction of RAA._manage serves as many bidders as there are
\* slots, and turns away nobody who bid more than one that it serves.
THEOREM SeverityWins == Spec => []HighestSeverityWins
<1>1. Inv => HighestSeverityWins
    BY HighestWins DEF Inv
<1> QED BY <1>1, Invariant, PTL

-----------------------------------------------------------------------------
(* The failover *)

LEMMA FailoverTimely == TypeInv /\ ClockInv /\ FailInv => FailoverInTime
<1> SUFFICES ASSUME TypeInv, ClockInv, FailInv PROVE FailoverInTime
    OBVIOUS
<1>1. handled \subseteq dead /\ dead \subseteq {failAgent} /\ (handled # {} => handled = {failAgent})
    BY DEF FailInv, ClockInv
<1>2. \A i \in Failures : Failures = {i} /\ handled # {} /\ FailedOver(i)
    BY DEF FailInv
<1>3. \A i \in Failures : log[i].payload.failed_agent \in dead
    BY <1>1, <1>2 DEF FailedOver
<1>4. Cardinality(Failures) <= 1
    <2>1. CASE Failures = {}
        BY <2>1, FS_EmptySet
    <2>2. CASE Failures # {}
        <3>1. PICK i : Failures = {i}
            BY <1>2, <2>2
        <3>2. Cardinality({i}) = 1
            BY FS_Singleton
        <3> QED BY <3>1, <3>2
    <2> QED BY <2>1, <2>2
<1>5. ASSUME failAgent \in dead, failAfter > 0, now - Step > LastBeat + Timeout
      PROVE  \E i \in Failures :
                /\ log[i].wall_ms - LastBeat > Timeout
                /\ log[i].wall_ms - LastBeat <= Timeout + Step
                /\ (failAgent.segment # None /\ Peers # {}) =>
                      /\ FR34(log) = "PASS"
                      /\ \E j \in select(log, None, "coverage_reassigned") :
                            /\ log[j].wall_ms = log[i].wall_ms
                            /\ log[j].payload.segment = failAgent.segment
                            /\ log[j].payload.new_owner \in Peers
    <2>1. /\ now \in Nat /\ Step \in Nat /\ WarmupRounds \in Nat /\ failAfter \in Nat
          /\ Timeout \in Nat
        BY StepAssumption, TimeoutAssumption DEF TypeInv, TypeOK
    <2>2. LastBeat \in Int
        BY <2>1 DEF LastBeat
    <2>3. Silent
        BY <1>5 DEF ClockInv, FailInv
    <2>4. failAgent \in handled
        <3>1. ~(now - Step - LastBeat <= Timeout)
            BY <1>5, <2>1, <2>2
        <3> QED BY <1>5, <2>3, <3>1 DEF Silent
    <2>5. PICK i \in Failures : Failures = {i} /\ FailedOver(i)
        BY <2>4 DEF FailInv
    <2> HIDE DEF LastBeat, Peers
    <2>6. /\ log[i].wall_ms - LastBeat > Timeout
          /\ log[i].wall_ms - LastBeat <= Timeout + Step
        BY <2>5 DEF FailedOver
    <2>7. ASSUME failAgent.segment # None, Peers # {}
          PROVE  /\ FR34(log) = "PASS"
                 /\ \E j \in select(log, None, "coverage_reassigned") :
                       /\ log[j].wall_ms = log[i].wall_ms
                       /\ log[j].payload.segment = failAgent.segment
                       /\ log[j].payload.new_owner \in Peers
        <3>1. Get(log[i], "segment", None) = failAgent.segment
            BY <2>5, <2>7 DEF FailedOver
        <3>2. PICK j \in select(log, None, "coverage_reassigned") :
                      /\ log[j].wall_ms = log[i].wall_ms
                      /\ Get(log[j], "segment", None) = failAgent.segment
                      /\ log[j].payload.segment = failAgent.segment
                      /\ log[j].payload.new_owner \in Peers
            BY <2>5, <2>7 DEF FailedOver
        <3>3. log[i].wall_ms \in Nat
            BY FailuresAre DEF TypeInv
        <3>4. log[j].wall_ms >= log[i].wall_ms /\ log[j].wall_ms - log[i].wall_ms <= 2000
            BY <3>2, <3>3
        <3> DEFINE F == select(log, "AGENT_FAILED", None)
                   R(x) == {y \in select(log, None, "coverage_reassigned") :
                               /\ Get(log[y], "segment", None) = Get(log[x], "segment", None)
                               /\ log[y].wall_ms >= log[x].wall_ms}
        <3>5. F # {} /\ \A x \in F : \E y \in R(x) : log[y].wall_ms - log[x].wall_ms <= 2000
            <4>1. F = {i}
                BY <2>5 DEF Failures
            <4>2. j \in R(i)
                BY <3>1, <3>2, <3>4
            <4> QED BY <3>4, <4>1, <4>2
        <3>6. FR34(log) = Grade(F # {}, \A x \in F : \E y \in R(x) :
                                                    log[y].wall_ms - log[x].wall_ms <= 2000)
            BY DEF FR34
        <3>7. FR34(log) = "PASS"
            BY <3>5, <3>6 DEF Grade
        <3> QED BY <3>2, <3>7
    <2> QED BY <2>6, <2>7
<1> QED BY <1>3, <1>4, <1>5 DEF FailoverInTime

\* FR-34: who stops beating is flagged once, in time, nobody else is, and the
\* segment of the agent that stopped goes to a living agent of its type.
THEOREM FailuresAreHandled == Spec => []FailoverInTime
<1>1. Inv => FailoverInTime
    BY FailoverTimely DEF Inv
<1> QED BY <1>1, Invariant, PTL

-----------------------------------------------------------------------------
(* The grades *)

LEMMA Passes ==
    \A exercised, ok \in BOOLEAN : (exercised => ok) => Grade(exercised, ok) # "FAIL"
BY DEF Grade

LEMMA OnTime ==
    ASSUME NEW S, \A i \in S : log[i].latency_ms = 0, NEW bound \in Nat, bound > 0
    PROVE  latency_lt(log, S, bound) # "FAIL"
<1> DEFINE timed == {i \in S : log[i].latency_ms # None}
<1>1. \A i \in timed : log[i].latency_ms < bound
    OBVIOUS
<1>2. latency_lt(log, S, bound) = Grade(timed # {}, \A i \in timed : log[i].latency_ms < bound)
    BY DEF latency_lt
<1> QED BY <1>1, <1>2, Passes

LEMMA AllMatch ==
    ASSUME NEW S, NEW P, S \subseteq P
    PROVE  all_match(S, P) # "FAIL"
BY Passes DEF all_match

LEMMA GradesAreGood == TypeInv /\ CoalitionInv /\ ListInv /\ PunctualInv => GradesHold
<1> SUFFICES ASSUME TypeInv, CoalitionInv, ListInv, PunctualInv, pace = "lockstep"
             PROVE  "FAIL" \notin {FR15(log), FR16(log), FR17(log), FR18(log), FR19(log),
                                   FR20(log), FR21(log), FR22(log)}
    BY DEF GradesHold
<1>1. \A i \in DOMAIN log : Punctual(log[i])
    BY DEF PunctualInv
<1>2. /\ \A i \in select(log, "ACTION_EXECUTED", "threat_model_update") :
            i \in DOMAIN log /\ Get(log[i], "signal", None) = "threat_model_update"
      /\ \A i \in select(log, "ACTION_EXECUTED", "correlation") :
            i \in DOMAIN log /\ Get(log[i], "signal", None) = "correlation"
      /\ \A i \in select(log, "RESOURCE_ALLOCATED", "reclaim") :
            i \in DOMAIN log /\ Get(log[i], "signal", None) = "reclaim"
      /\ \A i \in select(log, "AUCTION_COMPLETED", None) :
            i \in DOMAIN log /\ log[i].event_type = "AUCTION_COMPLETED"
    <2>1. {"ACTION_EXECUTED", "RESOURCE_ALLOCATED", "AUCTION_COMPLETED", "threat_model_update",
           "correlation", "reclaim"} \subseteq Selectors
        BY DEF Selectors
    <2> QED BY <2>1, Selections DEF select
<1>3. FR15(log) # "FAIL"
    BY <1>1, <1>2, OnTime DEF FR15, Punctual
<1>4. FR16(log) # "FAIL"
    BY <1>1, <1>2, OnTime DEF FR16, Punctual
<1>5. FR19(log) # "FAIL"
    BY <1>1, <1>2, OnTime DEF FR19, Punctual
<1>6. FR22(log) # "FAIL"
    BY <1>1, <1>2, OnTime DEF FR22, Punctual
<1>7. FR17(log) # "FAIL"
    <2> DEFINE C == {i \in select(log, None, "correlation") :
                        Cardinality(Get(log[i], "segments", {})) >= 2}
    <2>1. C # {} => select(log, "COALITION_FORMED", None) # {}
        BY DEF CoalitionInv, Coalitions
    <2>2. FR17(log) = Grade(C # {}, select(log, "COALITION_FORMED", None) # {})
        BY DEF FR17
    <2> HIDE DEF C
    <2> QED BY <2>1, <2>2, Passes
<1>8. FR18(log) # "FAIL"
    <2> DEFINE After(i) == {j \in Lists : /\ log[j].wall_ms > log[i].wall_ms
                                          /\ FALSE => log[j].agent_id = log[i].agent_id}
               ok == \A i \in Lists :
                        After(i) # {} =>
                            \E j \in After(i) : log[j].wall_ms - log[i].wall_ms <= 1000
    <2>1. FR18(log) = Grade(Cardinality(Lists) >= 2, ok)
        BY DEF FR18, max_interval_lte, Lists
    <2>2. \A i \in Lists : log[i].wall_ms \in Nat /\ lastRank \in Nat /\ log[i].wall_ms <= lastRank
        BY ListsAre DEF ListInv, TypeInv
    <2>3. ASSUME NEW i \in Lists, After(i) # {}
          PROVE  \E j \in After(i) : log[j].wall_ms - log[i].wall_ms <= 1000
        <3>1. PICK h \in Lists : log[h].wall_ms > log[i].wall_ms
            BY <2>3
        <3>2. log[i].wall_ms < lastRank
            BY <2>2, <3>1
        <3>3. PICK j \in Lists : /\ log[i].wall_ms < log[j].wall_ms
                                 /\ log[j].wall_ms - log[i].wall_ms <= 1000
            BY <3>2 DEF ListInv
        <3>4. log[j].wall_ms > log[i].wall_ms
            BY <2>2, <3>3
        <3> QED BY <3>3, <3>4
    <2> HIDE DEF After
    <2>4. ok
        BY <2>3
    <2> HIDE DEF ok
    <2> QED BY <2>1, <2>4 DEF Grade
<1>9. FR20(log) # "FAIL"
    <2> DEFINE A == select(log, "AUCTION_COMPLETED", None)
               G == {i \in A : Get(log[i], "granted", {}) =
                        TopBidders(Get(log[i], "bids", <<>>), Get(log[i], "slots", 0))}
    <2>1. A \subseteq G
        BY <1>1, <1>2 DEF Punctual
    <2>2. FR20(log) = all_match(A, G)
        BY DEF FR20
    <2> QED BY <2>1, <2>2, AllMatch
<1>10. FR21(log) # "FAIL"
    <2> DEFINE A == select(log, "AUCTION_COMPLETED", None)
               G == {i \in A : Get(log[i], "notify_latency_ms", 1000000000) < 100}
    <2>1. A \subseteq G
        BY <1>1, <1>2, SMT DEF Punctual
    <2>2. FR21(log) = all_match(A, G)
        BY SMT DEF FR21
    <2> HIDE DEF A, G
    <2> QED BY <2>1, <2>2, AllMatch
<1> QED BY <1>3, <1>4, <1>5, <1>6, <1>7, <1>8, <1>9, <1>10

\* The checkers of validator/constraints.py never fail a harness run for what
\* the TIA and the RAA do.
THEOREM GradesAlwaysHold == Spec => []GradesHold
<1>1. Inv => GradesHold
    BY GradesAreGood DEF Inv
<1> QED BY <1>1, Invariant, PTL
=============================================================================
