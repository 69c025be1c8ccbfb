------------------------- MODULE Constraints_proofs -------------------------
(***************************************************************************)
(* Lemmas on logs, rankings and the verdicts of the FR checkers, for the   *)
(* proofs about Grading, Coordination and Detection.                       *)
(***************************************************************************)
EXTENDS Constraints, FiniteSetTheorems, WellFoundedInduction, TLAPS

-----------------------------------------------------------------------------
(* Least and greatest elements.  Where an induction is needed, it looks at *)
(* the least counterexample.                                               *)

Less == {p \in Nat \X Nat : p[1] < p[2]}

LEMMA LessIsWellFounded == IsWellFoundedOn(Less, Nat)
<1>1. OpToRel(<, Nat) = Less
    BY DEF OpToRel, Less
<1> QED BY <1>1, NatLessThanWellFounded

LEMMA LeastNat ==
    ASSUME NEW T, T \subseteq Nat, T # {}
    PROVE  \E x \in T : \A y \in T : x <= y
<1>1. \A R, S : IsWellFoundedOn(R, S) =>
         \A U : U \subseteq S /\ U # {} => \E x \in U : \A y \in U : <<y, x>> \notin R
    BY WFMin
<1>2. PICK x \in T : \A y \in T : <<y, x>> \notin Less
    BY <1>1, LessIsWellFounded
<1>3. ASSUME NEW y \in T PROVE x <= y
    <2>1. x \in Nat /\ y \in Nat /\ <<y, x>> \in Nat \X Nat
        BY <1>2
    <2>2. ~ (y < x)
        BY <1>2, <2>1 DEF Less
    <2> QED BY <2>1, <2>2
<1> QED BY <1>3

LEMMA GreatestNat ==
    ASSUME NEW n \in Nat, NEW T, T \subseteq 1..n, T # {}
    PROVE  \E x \in T : \A y \in T : y <= x
<1> DEFINE U == {n - x : x \in T}
<1>1. U \subseteq Nat /\ U # {}
    OBVIOUS
<1>2. PICK u \in U : \A v \in U : u <= v
    BY <1>1, LeastNat
<1>3. PICK x \in T : u = n - x
    OBVIOUS
<1>4. ASSUME NEW y \in T PROVE y <= x
    <2>1. u <= n - y
        BY <1>2
    <2> QED BY <1>3, <2>1
<1> QED BY <1>4

-----------------------------------------------------------------------------
(* Sequences *)

Items(s) == {s[i] : i \in DOMAIN s}
IsSeq(s) == s \in Seq(Items(s))

LEMMA SeqShape ==
    ASSUME NEW s
    PROVE  /\ IsSeq(s) => Len(s) \in Nat /\ DOMAIN s = 1..Len(s)
           /\ \A S : s \in Seq(S) => IsSeq(s) /\ Items(s) \subseteq S
           /\ \A S : IsSeq(s) /\ Items(s) \subseteq S => s \in Seq(S)
<1>1. ASSUME NEW S, s \in Seq(S) PROVE IsSeq(s) /\ Items(s) \subseteq S
    <2>1. Len(s) \in Nat /\ s \in [1..Len(s) -> S]
        BY <1>1
    <2> DEFINE n == Len(s)
    <2> HIDE DEF n
    <2>2. n \in Nat /\ s \in [1..n -> S]
        BY <2>1 DEF n
    <2>3. s \in [1..n -> Items(s)] /\ Items(s) \subseteq S
        BY <2>2 DEF Items
    <2>4. s \in Seq(Items(s))
        BY <2>2, <2>3
    <2> QED BY <2>3, <2>4 DEF IsSeq
<1>2. ASSUME NEW S, IsSeq(s), Items(s) \subseteq S PROVE s \in Seq(S)
    <2>1. s \in Seq(Items(s))
        BY <1>2 DEF IsSeq
    <2> DEFINE I == Items(s)
    <2> HIDE DEF I
    <2>2. s \in Seq(I) /\ I \subseteq S
        BY <1>2, <2>1 DEF I
    <2>3. Len(s) \in Nat /\ s \in [1..Len(s) -> I]
        BY <2>2
    <2>4. s \in [1..Len(s) -> S]
        BY <2>2, <2>3
    <2> QED BY <2>3, <2>4
<1>3. IsSeq(s) => Len(s) \in Nat /\ DOMAIN s = 1..Len(s)
    BY DEF IsSeq
<1> QED BY <1>1, <1>2, <1>3

LEMMA Concat ==
    ASSUME NEW s, NEW t, IsSeq(s), IsSeq(t)
    PROVE  /\ IsSeq(s \o t) /\ Len(s \o t) = Len(s) + Len(t)
           /\ Items(s \o t) = Items(s) \cup Items(t)
           /\ \A i \in DOMAIN s : i \in DOMAIN (s \o t) /\ (s \o t)[i] = s[i]
           /\ \A j \in DOMAIN t : /\ Len(s) + j \in DOMAIN (s \o t)
                                  /\ (s \o t)[Len(s) + j] = t[j]
           /\ \A i \in DOMAIN (s \o t) \ DOMAIN s :
                 i - Len(s) \in DOMAIN t /\ (s \o t)[i] = t[i - Len(s)]
<1> DEFINE U == Items(s) \cup Items(t)
           c == s \o t
           m == Len(s)
           n == Len(t)
<1>1. s \in Seq(U) /\ t \in Seq(U) /\ m \in Nat /\ n \in Nat
    BY SeqShape
<1> HIDE DEF U
<1>2. /\ c \in Seq(U) /\ Len(c) = m + n /\ DOMAIN s = 1..m /\ DOMAIN t = 1..n
      /\ DOMAIN c = 1..(m + n)
      /\ \A i \in 1..(m + n) : c[i] = IF i <= m THEN s[i] ELSE t[i - m]
    BY <1>1
<1>3. IsSeq(c) /\ Len(c) = m + n
    BY <1>2, SeqShape
<1> HIDE DEF c, m, n
<1>4. \A i \in DOMAIN s : i \in DOMAIN c /\ c[i] = s[i]
    BY <1>1, <1>2 DEF m, n
<1>5. \A j \in DOMAIN t : m + j \in DOMAIN c /\ c[m + j] = t[j]
    <2> SUFFICES ASSUME NEW j \in DOMAIN t PROVE m + j \in DOMAIN c /\ c[m + j] = t[j]
        OBVIOUS
    <2>1. j \in 1..n /\ m \in Nat /\ n \in Nat
        BY <1>1, <1>2 DEF m, n
    <2>2. m + j \in 1..(m + n) /\ ~(m + j <= m) /\ m + j - m = j
        BY <2>1
    <2>3. c[m + j] = t[m + j - m]
        BY <1>2, <2>1, <2>2
    <2> QED BY <1>2, <2>1, <2>2, <2>3
<1>6. \A i \in DOMAIN c \ DOMAIN s : i - m \in DOMAIN t /\ c[i] = t[i - m]
    BY <1>1, <1>2 DEF m, n
<1>7. Items(c) = Items(s) \cup Items(t)
    BY <1>4, <1>5, <1>6 DEF Items
<1> QED BY <1>3, <1>4, <1>5, <1>6, <1>7 DEF c, m, n

LEMMA AppendItems ==
    ASSUME NEW s, IsSeq(s), NEW x
    PROVE  /\ IsSeq(Append(s, x)) /\ Len(Append(s, x)) = Len(s) + 1
           /\ Items(Append(s, x)) = Items(s) \cup {x}
           /\ DOMAIN s \subseteq DOMAIN Append(s, x)
           /\ \A i \in DOMAIN s : Append(s, x)[i] = s[i]
           /\ Append(s, x)[Len(s) + 1] = x
<1> DEFINE U == Items(s) \cup {x}
           n == Len(s)
           a == Append(s, x)
<1>1. s \in Seq(U) /\ x \in U /\ n \in Nat
    BY SeqShape
<1> HIDE DEF U
<1>2. /\ a \in Seq(U) /\ Len(a) = n + 1 /\ DOMAIN s = 1..n /\ DOMAIN a = 1..(n + 1)
      /\ \A i \in 1..n : a[i] = s[i]
      /\ a[n + 1] = x
    BY <1>1
<1>3. IsSeq(a)
    BY <1>2, SeqShape
<1> HIDE DEF a, n
<1>4. n \in Nat
    BY <1>1 DEF n
<1>5. Items(a) = Items(s) \cup {x}
    BY <1>2, <1>4 DEF Items
<1> QED BY <1>2, <1>3, <1>4, <1>5 DEF a, n

\* None or one, and several sequences in a row.
LEMMA Optional ==
    ASSUME NEW b \in BOOLEAN, NEW x, NEW y
    PROVE  /\ IsSeq(IF b THEN <<x>> ELSE <<>>)
           /\ Items(IF b THEN <<x>> ELSE <<>>) = IF b THEN {x} ELSE {}
           /\ IsSeq(IF b THEN <<x, y>> ELSE <<>>)
           /\ Items(IF b THEN <<x, y>> ELSE <<>>) = IF b THEN {x, y} ELSE {}
<1>1. /\ <<>> \in Seq({}) /\ <<x>> \in Seq({x}) /\ <<x, y>> \in Seq({x, y})
    OBVIOUS
<1>2. IsSeq(<<>>) /\ IsSeq(<<x>>) /\ IsSeq(<<x, y>>)
    BY <1>1, SeqShape
<1>3. /\ Items(<<>>) = {} /\ Items(<<x>>) = {x} /\ Items(<<x, y>>) = {x, y}
    BY DEF Items
<1> QED BY <1>2, <1>3

-----------------------------------------------------------------------------
(* Rankings: in a strict total order of n things, each place is held by one *)
(* of them, and as many have fewer than k predecessors as there are, but k  *)
(* at most.                                                                 *)

Ahead(R, S, k) == {j \in S : <<j, k>> \in R}
Leaders(R, S, k) == {i \in S : Cardinality(Ahead(R, S, i)) < k}
Ranking(R, S) ==
    /\ IsFiniteSet(S)
    /\ \A i \in S : <<i, i>> \notin R
    /\ \A i, j \in S : i # j => <<i, j>> \in R \/ <<j, i>> \in R
    /\ \A i, j, k \in S : <<i, j>> \in R /\ <<j, k>> \in R => <<i, k>> \in R

LEMMA AheadCounts ==
    ASSUME NEW S, NEW R, Ranking(R, S)
    PROVE  /\ Cardinality(S) \in Nat
           /\ \A i \in S : Cardinality(Ahead(R, S, i)) \in 0..(Cardinality(S) - 1)
           /\ \A i, j \in S : <<i, j>> \in R
                => Cardinality(Ahead(R, S, i)) < Cardinality(Ahead(R, S, j))
<1> DEFINE n == Cardinality(S)
<1>1. IsFiniteSet(S) /\ n \in Nat
    BY FS_CardinalityType DEF Ranking
<1>2. ASSUME NEW i \in S
      PROVE  IsFiniteSet(Ahead(R, S, i)) /\ Cardinality(Ahead(R, S, i)) \in 0..(n - 1)
    <2>1. Ahead(R, S, i) \in SUBSET S /\ i \notin Ahead(R, S, i)
        BY DEF Ahead, Ranking
    <2>2. /\ IsFiniteSet(Ahead(R, S, i)) /\ Cardinality(Ahead(R, S, i)) <= n
          /\ Cardinality(Ahead(R, S, i)) # n
        BY <1>1, <2>1, FS_Subset
    <2>3. Cardinality(Ahead(R, S, i)) \in Nat
        BY <2>2, FS_CardinalityType
    <2> HIDE DEF n
    <2> QED BY <1>1, <2>2, <2>3
<1>3. ASSUME NEW i \in S, NEW j \in S, <<i, j>> \in R
      PROVE  Cardinality(Ahead(R, S, i)) < Cardinality(Ahead(R, S, j))
    <2>1. /\ Ahead(R, S, i) \in SUBSET Ahead(R, S, j)
          /\ i \in Ahead(R, S, j) /\ i \notin Ahead(R, S, i)
        BY <1>3 DEF Ahead, Ranking
    <2>2. /\ Cardinality(Ahead(R, S, i)) <= Cardinality(Ahead(R, S, j))
          /\ Cardinality(Ahead(R, S, i)) # Cardinality(Ahead(R, S, j))
        BY <1>2, <2>1, FS_Subset
    <2>3. Cardinality(Ahead(R, S, i)) \in Int /\ Cardinality(Ahead(R, S, j)) \in Int
        BY <1>2
    <2> QED BY <2>2, <2>3
<1> QED BY <1>1, <1>2, <1>3

LEMMA Places ==
    ASSUME NEW S, NEW R, Ranking(R, S)
    PROVE  \A p \in 0..(Cardinality(S) - 1) :
              \E i \in S : Cardinality(Ahead(R, S, i)) = p
<1> DEFINE n == Cardinality(S)
           place == [i \in S |-> Cardinality(Ahead(R, S, i))]
<1>1. IsFiniteSet(S) /\ n \in Nat
    BY AheadCounts DEF Ranking
<1>2. IsFiniteSet(0..(n - 1)) /\ Cardinality(0..(n - 1)) = n
    <2>1. \A a, b \in Int : /\ IsFiniteSet(a..b)
                            /\ Cardinality(a..b) = IF a > b THEN 0 ELSE b - a + 1
        BY FS_Interval
    <2> HIDE DEF n
    <2>2. /\ IsFiniteSet(0..(n - 1))
          /\ Cardinality(0..(n - 1)) = IF 0 > n - 1 THEN 0 ELSE n - 1 - 0 + 1
        BY <1>1, <2>1
    <2> QED BY <1>1, <2>2
<1>3. place \in [S -> 0..(n - 1)]
    BY AheadCounts
<1>4. ASSUME NEW i \in S, NEW j \in S, i # j PROVE place[i] # place[j]
    <2>1. /\ <<i, j>> \in R => place[i] < place[j]
          /\ <<j, i>> \in R => place[j] < place[i]
        BY AheadCounts
    <2>2. <<i, j>> \in R \/ <<j, i>> \in R
        BY <1>4 DEF Ranking
    <2>3. place[i] \in Int /\ place[j] \in Int
        BY <1>1, <1>3
    <2> HIDE DEF place
    <2> QED BY <2>1, <2>2, <2>3
<1> HIDE DEF place
<1>5. place \in Injection(S, 0..(n - 1))
    BY <1>3, <1>4 DEF Injection, IsInjective
<1>6. place \in Surjection(S, 0..(n - 1))
    BY <1>1, <1>2, <1>5, FS_Injection
<1>7. \A p \in 0..(n - 1) : \E i \in S : place[i] = p
    BY <1>6 DEF Surjection
<1> QED BY <1>7 DEF place

LEMMA LeadersCount ==
    ASSUME NEW S, NEW R, Ranking(R, S), NEW k \in Nat
    PROVE  /\ IsFiniteSet(Leaders(R, S, k))
           /\ Cardinality(Leaders(R, S, k)) = IF k < Cardinality(S) THEN k ELSE Cardinality(S)
<1> DEFINE n == Cardinality(S)
           m == IF k < n THEN k ELSE n
           lead == [i \in Leaders(R, S, k) |-> Cardinality(Ahead(R, S, i))]
<1>1. IsFiniteSet(S) /\ n \in Nat /\ m \in Nat
    BY AheadCounts DEF Ranking
<1>2. Cardinality(0..(m - 1)) = m
    <2>1. \A a, b \in Int : Cardinality(a..b) = IF a > b THEN 0 ELSE b - a + 1
        BY FS_Interval
    <2> HIDE DEF m
    <2>2. Cardinality(0..(m - 1)) = IF 0 > m - 1 THEN 0 ELSE m - 1 - 0 + 1
        BY <1>1, <2>1
    <2> QED BY <1>1, <2>2
<1>3. Leaders(R, S, k) \in SUBSET S
    BY DEF Leaders
<1>4. IsFiniteSet(Leaders(R, S, k))
    BY <1>1, <1>3, FS_Subset
<1>5. /\ \A i \in S : Cardinality(Ahead(R, S, i)) \in 0..(n - 1)
      /\ \A p \in 0..(n - 1) : \E i \in S : Cardinality(Ahead(R, S, i)) = p
    BY AheadCounts, Places
<1> HIDE DEF n
<1>6. lead \in [Leaders(R, S, k) -> 0..(m - 1)]
    BY <1>1, <1>5 DEF Leaders
<1>7. ASSUME NEW i \in Leaders(R, S, k), NEW j \in Leaders(R, S, k), i # j
      PROVE  lead[i] # lead[j]
    <2>1. /\ <<i, j>> \in R => lead[i] < lead[j]
          /\ <<j, i>> \in R => lead[j] < lead[i]
        BY <1>3, AheadCounts
    <2>2. <<i, j>> \in R \/ <<j, i>> \in R
        BY <1>3, <1>7 DEF Ranking
    <2>3. lead[i] \in Int /\ lead[j] \in Int
        BY <1>1, <1>6
    <2> HIDE DEF lead
    <2> QED BY <2>1, <2>2, <2>3
<1>8. \A p \in 0..(m - 1) : \E i \in Leaders(R, S, k) : lead[i] = p
    <2> SUFFICES ASSUME NEW p \in 0..(m - 1)
                 PROVE  \E i \in Leaders(R, S, k) : lead[i] = p
        OBVIOUS
    <2>1. p \in 0..(n - 1) /\ p < k
        BY <1>1
    <2>2. PICK i \in S : Cardinality(Ahead(R, S, i)) = p
        BY <1>5, <2>1
    <2>3. i \in Leaders(R, S, k)
        BY <2>1, <2>2 DEF Leaders
    <2> QED BY <2>2, <2>3
<1> HIDE DEF lead, m
<1>9. lead \in Injection(Leaders(R, S, k), 0..(m - 1))
      /\ lead \in Surjection(Leaders(R, S, k), 0..(m - 1))
    BY <1>6, <1>7, <1>8 DEF Injection, Surjection, IsInjective
<1>10. Cardinality(Leaders(R, S, k)) = Cardinality(0..(m - 1))
    BY <1>4, <1>9, FS_Surjection
<1> QED BY <1>2, <1>4, <1>10 DEF m, n

-----------------------------------------------------------------------------
(* Logs that grow, and verdicts on them *)

\* m is l with events added behind it.
Extends(l, m) == DOMAIN l \subseteq DOMAIN m /\ \A i \in DOMAIN l : m[i] = l[i]

\* A verdict that has been exercised stays so, and a failure stays one.
Exercised(before, after) == before # "NA" => after # "NA"
Sticks(before, after) == Exercised(before, after) /\ (before = "FAIL" => after = "FAIL")

LEMMA SelectGrows ==
    ASSUME NEW l, NEW m, Extends(l, m)
    PROVE  \A a, b : /\ select(l, a, b) \subseteq select(m, a, b)
                     /\ select(l, a, b) = select(m, a, b) \cap DOMAIN l
BY DEF Extends, select, Get

LEMMA GradeSticks ==
    ASSUME NEW a \in BOOLEAN, NEW b \in BOOLEAN, NEW c \in BOOLEAN, NEW d \in BOOLEAN,
           a => c
    PROVE  /\ Exercised(Grade(a, b), Grade(c, d))
           /\ (a /\ ~b => ~d) => Sticks(Grade(a, b), Grade(c, d))
BY DEF Grade, Exercised, Sticks

LEMMA LatencySticks ==
    ASSUME NEW l, NEW m, Extends(l, m), NEW S, NEW T, S \subseteq T, S \subseteq DOMAIN l,
           NEW bound
    PROVE  Sticks(latency_lt(l, S, bound), latency_lt(m, T, bound))
<1> DEFINE A == {i \in S : l[i].latency_ms # None}
           B == {i \in T : m[i].latency_ms # None}
<1>1. A \subseteq B /\ \A i \in A : m[i] = l[i]
    BY DEF Extends
<1>2. /\ latency_lt(l, S, bound) = Grade(A # {}, \A i \in A : l[i].latency_ms < bound)
      /\ latency_lt(m, T, bound) = Grade(B # {}, \A i \in B : m[i].latency_ms < bound)
    BY DEF latency_lt
<1> QED BY <1>1, <1>2 DEF Grade, Sticks, Exercised

LEMMA MatchSticks ==
    ASSUME NEW S, NEW T, NEW A, NEW B, S \subseteq T, \A i \in S : i \in B => i \in A
    PROVE  Sticks(all_match(S, A), all_match(T, B))
BY DEF all_match, Grade, Sticks, Exercised

\* An event that is no earlier than those before it widens no gap that is too
\* wide already.
LEMMA IntervalSticks ==
    ASSUME NEW l, NEW m, Extends(l, m), NEW S, NEW T, NEW bound \in Int, NEW p \in BOOLEAN,
           IsFiniteSet(T), T \subseteq DOMAIN m, S = T \cap DOMAIN l,
           \A i \in DOMAIN m : m[i].wall_ms \in Int,
           \A i \in DOMAIN l, j \in DOMAIN m \ DOMAIN l : m[i].wall_ms <= m[j].wall_ms
    PROVE  Sticks(max_interval_lte(l, S, bound, p), max_interval_lte(m, T, bound, p))
<1> DEFINE AfterL(i) == {j \in S : /\ l[j].wall_ms > l[i].wall_ms
                                   /\ p => l[j].agent_id = l[i].agent_id}
           AfterM(i) == {j \in T : /\ m[j].wall_ms > m[i].wall_ms
                                   /\ p => m[j].agent_id = m[i].agent_id}
           GoodL == \A i \in S : AfterL(i) # {} =>
                       \E j \in AfterL(i) : l[j].wall_ms - l[i].wall_ms <= bound
           GoodM == \A i \in T : AfterM(i) # {} =>
                       \E j \in AfterM(i) : m[j].wall_ms - m[i].wall_ms <= bound
<1>1. /\ max_interval_lte(l, S, bound, p) = Grade(Cardinality(S) >= 2, GoodL)
      /\ max_interval_lte(m, T, bound, p) = Grade(Cardinality(T) >= 2, GoodM)
    BY DEF max_interval_lte
<1>2. Cardinality(S) >= 2 => Cardinality(T) >= 2
    <2>1. /\ IsFiniteSet(S) /\ Cardinality(S) <= Cardinality(T)
          /\ Cardinality(S) \in Nat /\ Cardinality(T) \in Nat
        BY FS_Subset, FS_CardinalityType
    <2> QED BY <2>1
<1>3. ASSUME GoodM PROVE GoodL
    <2> SUFFICES ASSUME NEW i \in S, AfterL(i) # {}
                 PROVE  \E j \in AfterL(i) : l[j].wall_ms - l[i].wall_ms <= bound
        OBVIOUS
    <2>1. PICK k \in AfterL(i) : TRUE
        OBVIOUS
    <2>2. /\ i \in T /\ k \in T /\ m[i] = l[i] /\ m[k] = l[k] /\ k \in AfterM(i)
          /\ m[i].wall_ms \in Int /\ m[k].wall_ms \in Int
        BY <2>1 DEF Extends
    <2>3. PICK j \in AfterM(i) : m[j].wall_ms - m[i].wall_ms <= bound
        BY <1>3, <2>2
    <2>4. CASE j \in DOMAIN l
        BY <2>2, <2>3, <2>4 DEF Extends
    <2>5. CASE j \notin DOMAIN l
        <3>1. m[k].wall_ms <= m[j].wall_ms /\ m[j].wall_ms \in Int
            BY <2>2, <2>3, <2>5
        <3>2. l[k].wall_ms - l[i].wall_ms <= bound
            BY <2>2, <2>3, <3>1
        <3> QED BY <2>1, <3>2
    <2> QED BY <2>4, <2>5
<1> HIDE DEF GoodL, GoodM
<1> QED BY <1>1, <1>2, <1>3 DEF Grade, Sticks, Exercised

\* A selection by a type, by a signal, or by both.
LEMMA Selections ==
    ASSUME NEW l
    PROVE  /\ \A x \in Selectors : x # None
           /\ \A t \in Selectors : select(l, t, None) = {i \in DOMAIN l : l[i].event_type = t}
           /\ \A g \in Selectors :
                 select(l, None, g) = {i \in DOMAIN l : Get(l[i], "signal", None) = g}
           /\ \A t, g \in Selectors :
                 select(l, t, g) = {i \in DOMAIN l : /\ l[i].event_type = t
                                                     /\ Get(l[i], "signal", None) = g}
<1>1. Selectors \subseteq STRING /\ None \notin STRING
    BY NoneAssumption
<1>2. \A x \in Selectors : x # None
    BY <1>1
<1> QED BY <1>2 DEF select

-----------------------------------------------------------------------------
(* FR-20's ranking *)

\* The images of distinct things under an operator given as a function.
LEMMA ImageCount ==
    ASSUME NEW S, IsFiniteSet(S), NEW f, DOMAIN f = S,
           \A x, y \in S : f[x] = f[y] => x = y
    PROVE  /\ IsFiniteSet({f[x] : x \in S})
           /\ Cardinality({f[x] : x \in S}) = Cardinality(S)
<1> DEFINE T == {f[x] : x \in S}
           g == [x \in S |-> f[x]]
<1>1. g \in [S -> T] /\ \A x \in S : g[x] = f[x]
    OBVIOUS
<1>2. g \in Surjection(S, T) /\ g \in Injection(S, T)
    BY <1>1 DEF Surjection, Injection, IsInjective
<1> QED BY <1>2, FS_Surjection

\* Of n bidders in an order R, the first k win: as many as there are, but k at
\* most, and each of them comes before each of the losers.
Winning(R, n, k, b) == {b[i] : i \in Leaders(R, 1..n, k)}

LEMMA Winners ==
    ASSUME NEW n \in Nat, NEW R, Ranking(R, 1..n), NEW k \in Nat, NEW b, DOMAIN b = 1..n,
           \A i, j \in 1..n : b[i] = b[j] => i = j
    PROVE  /\ Cardinality(Winning(R, n, k, b)) = IF k < n THEN k ELSE n
           /\ \A i, j \in 1..n :
                 (b[i] \in Winning(R, n, k, b) /\ b[j] \notin Winning(R, n, k, b)) => <<i, j>> \in R
<1> DEFINE top == Leaders(R, 1..n, k)
           bidder == [i \in top |-> b[i]]
           W == {b[i] : i \in top}
<1>1. IsFiniteSet(1..n) /\ Cardinality(1..n) = n
    <2>1. \A x, y \in Int : /\ IsFiniteSet(x..y)
                            /\ Cardinality(x..y) = IF x > y THEN 0 ELSE y - x + 1
        BY FS_Interval
    <2>2. /\ IsFiniteSet(1..n)
          /\ Cardinality(1..n) = IF 1 > n THEN 0 ELSE n - 1 + 1
        BY <2>1
    <2> QED BY <2>2
<1>2. top \subseteq 1..n /\ \A i \in 1..n : i \in top <=> Cardinality(Ahead(R, 1..n, i)) < k
    BY DEF Leaders
<1>3. IsFiniteSet(top) /\ Cardinality(top) = IF k < n THEN k ELSE n
    BY <1>1, LeadersCount
<1> HIDE DEF top
<1>4. Cardinality(W) = Cardinality(top)
    <2>1. \A x, y \in top : bidder[x] = bidder[y] => x = y
        BY <1>2
    <2>2. DOMAIN bidder = top /\ W = {bidder[i] : i \in top}
        OBVIOUS
    <2>3. \A S, f : (IsFiniteSet(S) /\ DOMAIN f = S /\ \A x, y \in S : f[x] = f[y] => x = y)
                        => Cardinality({f[x] : x \in S}) = Cardinality(S)
        BY ImageCount
    <2> HIDE DEF bidder
    <2> QED BY <1>3, <2>1, <2>2, <2>3
<1>5. ASSUME NEW i \in 1..n, NEW j \in 1..n, b[i] \in W, b[j] \notin W
      PROVE  <<i, j>> \in R
    <2>1. i \in top /\ j \notin top
        BY <1>2, <1>5
    <2>2. <<j, i>> \notin R
        <3> SUFFICES ASSUME <<j, i>> \in R PROVE FALSE
            OBVIOUS
        <3>1. /\ Cardinality(Ahead(R, 1..n, j)) < Cardinality(Ahead(R, 1..n, i))
              /\ Cardinality(Ahead(R, 1..n, j)) \in Int /\ Cardinality(Ahead(R, 1..n, i)) \in Int
            BY AheadCounts
        <3> QED BY <1>2, <2>1, <3>1
    <2> QED BY <2>1, <2>2 DEF Ranking
<1> QED BY <1>3, <1>4, <1>5 DEF top, Winning

LEMMA TopBiddersRank ==
    ASSUME NEW bids \in Seq(STRING \X Int), NEW slots \in Nat,
           \A j, k \in DOMAIN bids : bids[j][1] = bids[k][1] => j = k
    PROVE  /\ Cardinality(TopBidders(bids, slots)) =
                 IF slots < Len(bids) THEN slots ELSE Len(bids)
           /\ \A j, k \in DOMAIN bids :
                 (bids[j][1] \in TopBidders(bids, slots) /\ bids[k][1] \notin TopBidders(bids, slots))
                    => bids[j][2] >= bids[k][2]
<1> DEFINE n == Len(bids)
           R == {p \in (1..n) \X (1..n) : Outranks(bids, p[1], p[2])}
           b == [i \in 1..n |-> bids[i][1]]
           W == Winning(R, n, slots, b)
<1>1. n \in Nat /\ DOMAIN bids = 1..n /\ \A i \in 1..n : bids[i][2] \in Int
    OBVIOUS
<1>2. \A i, j \in 1..n : <<i, j>> \in R <=> Outranks(bids, i, j)
    OBVIOUS
<1>3. DOMAIN b = 1..n /\ \A i \in 1..n : b[i] = bids[i][1]
    OBVIOUS
<1> HIDE DEF n, R, b
<1>4. Ranking(R, 1..n)
    <2>1. IsFiniteSet(1..n)
        BY <1>1, FS_Interval
    <2> QED BY <1>1, <1>2, <2>1 DEF Ranking, Outranks
<1>5. TopBidders(bids, slots) = W
    <2>1. \A k \in 1..n : Ahead(R, 1..n, k) = {j \in DOMAIN bids : Outranks(bids, j, k)}
        BY <1>1, <1>2 DEF Ahead
    <2>2. /\ Leaders(R, 1..n, slots) \subseteq 1..n
          /\ \A k \in 1..n : k \in Leaders(R, 1..n, slots) <=>
                Cardinality({j \in DOMAIN bids : Outranks(bids, j, k)}) < slots
        BY <2>1 DEF Leaders
    <2>3. Leaders(R, 1..n, slots) =
             {k \in DOMAIN bids :
                 Cardinality({j \in DOMAIN bids : Outranks(bids, j, k)}) < slots}
        BY <1>1, <2>2
    <2>4. TopBidders(bids, slots) = {bids[i][1] : i \in Leaders(R, 1..n, slots)}
        BY <2>3 DEF TopBidders
    <2> QED BY <1>3, <2>2, <2>4 DEF Winning
<1>6. \A i, j \in 1..n : b[i] = b[j] => i = j
    BY <1>1, <1>3
<1>7. /\ Cardinality(W) = IF slots < n THEN slots ELSE n
      /\ \A i, j \in 1..n : b[i] \in W /\ b[j] \notin W => <<i, j>> \in R
    BY <1>1, <1>3, <1>4, <1>6, Winners
<1> HIDE DEF W
<1>8. \A j, k \in DOMAIN bids : (bids[j][1] \in W /\ bids[k][1] \notin W) => bids[j][2] >= bids[k][2]
    <2>1. \A j, k \in 1..n : <<j, k>> \in R => bids[j][2] >= bids[k][2]
        BY <1>1, <1>2 DEF Outranks
    <2> QED BY <1>1, <1>3, <1>7, <2>1
<1> QED BY <1>5, <1>7, <1>8 DEF n
=============================================================================
