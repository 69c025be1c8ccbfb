-------------------------- MODULE KafkaBus_proofs --------------------------
(***************************************************************************)
(* What the production bus guarantees for any set of agents and topics,    *)
(* with consumers that lose their place in the group and processes that    *)
(* restart.  The inductive invariant adds to TypeOK where the group's      *)
(* offsets lie, that a process that is down has no consumer, and that only *)
(* one that runs awaits the broker.                                        *)
(***************************************************************************)
EXTENDS KafkaBus, TLAPS, SequenceTheorems

Shapes ==
    /\ log \in [Topics -> Seq(Messages)] /\ sending \in [Agents -> SUBSET Messages]
    /\ committed \in [Agents -> [Topics -> Nat]]
    /\ pc \in [Agents -> PcLabels]
    /\ life \in [Agents -> Nat]
    /\ subscribed \in [Agents -> SUBSET Topics]
    /\ consumer \in [Agents -> [Topics -> Consumers]]
    /\ seq \in [Agents -> Nat] /\ clock \in [Agents -> Nat]
    /\ seen \in [Agents -> [Agents -> Nat]]
    /\ received \in [Agents -> Seq(Messages)] /\ past \in [Agents -> SUBSET Nat]

\* One consumer: its offsets, and the one committed for its group.
Placed(a, t) ==
    /\ committed[a][t] <= Len(log[t]) + 1
    /\ HasConsumer(a, t) =>
        /\ t \in subscribed[a] /\ pc[a] # "down"
        /\ consumer[a][t].from <= consumer[a][t].next
        /\ consumer[a][t].next <= Len(log[t]) + 1
        /\ committed[a][t] # 0 => consumer[a][t].from <= committed[a][t]

IInv ==
    /\ Shapes
    /\ \A a \in Agents : subscribed[a] \subseteq Subscribes[a]
    /\ \A a \in Agents : sending[a] # {} => pc[a] = "running"
    /\ \A a \in Agents, t \in Topics : Placed(a, t)

LEMMA IInvImpliesTypeOK == IInv => TypeOK
BY DEF IInv, Shapes, Placed, TypeOK

USE DEF HasConsumer, broker, process, taken

LEMMA IInvInit == Init => IInv
<1> SUFFICES ASSUME Init PROVE IInv
    OBVIOUS
<1>1. Shapes
    BY DEF Init, Shapes, PcLabels, Nothing, NoConsumer, Consumers
<1>2. ASSUME NEW a \in Agents, NEW t \in Topics PROVE Placed(a, t)
    BY DEF Init, Placed, Nothing, NoConsumer
<1> QED BY <1>1, <1>2, AgentsAssumption DEF IInv, Init

-----------------------------------------------------------------------------
(* Shapes, one lemma per action that changes a message or an offset *)

LEMMA Offsets ==
    ASSUME Shapes, NEW a \in Agents, NEW t \in Topics
    PROVE  /\ committed[a][t] \in Nat /\ Len(log[t]) \in Nat
           /\ consumer[a] \in [Topics -> Consumers] /\ consumer[a][t] \in Consumers
           /\ consumer[a][t].from \in Nat /\ consumer[a][t].next \in Nat
           /\ consumer[a][t].skipped \in SUBSET Nat
<1>1. committed[a] \in [Topics -> Nat]
    BY DEF Shapes
<1>2. log[t] \in Seq(Messages)
    BY DEF Shapes
<1>3. consumer[a] \in [Topics -> Consumers]
    BY DEF Shapes
<1>4. consumer[a][t] \in Consumers
    BY <1>3
<1>5. /\ consumer[a][t].from \in Nat /\ consumer[a][t].next \in Nat
      /\ consumer[a][t].skipped \in SUBSET Nat
    BY <1>4 DEF Consumers
<1> QED BY <1>1, <1>2, <1>3, <1>4, <1>5

LEMMA OffsetBounds ==
    ASSUME Shapes, NEW a \in Agents, NEW t \in Topics
    PROVE  /\ Offset(a, t) \in Nat /\ Offset(a, t) > 0
           /\ committed[a][t] <= Len(log[t]) + 1 => Offset(a, t) <= Len(log[t]) + 1
           /\ committed[a][t] # 0 => Offset(a, t) = committed[a][t]
           /\ committed[a][t] = 0 => Offset(a, t) = Len(log[t]) + 1
BY Offsets DEF Offset

\* Only the consumer of one subscription moves.
Moved(a, t, c) ==
    /\ consumer' \in [Agents -> [Topics -> Consumers]]
    /\ consumer'[a][t] = c
    /\ \A b \in Agents, u \in Topics :
        (b # a \/ u # t) => consumer'[b][u] = consumer[b][u]

Advanced(a, t) == [consumer[a][t] EXCEPT !.next = consumer[a][t].next + 1]
Rejoined(a, t) ==
    [consumer[a][t] EXCEPT
        !.next = Offset(a, t),
        !.skipped = @ \cup (consumer[a][t].next .. Offset(a, t) - 1)]

LEMMA ConsumerMoves ==
    ASSUME Shapes, NEW a \in Agents, NEW t \in Topics, NEW c \in Consumers,
           consumer' = [consumer EXCEPT ![a] = [consumer[a] EXCEPT ![t] = c]]
    PROVE  Moved(a, t, c)
<1> DEFINE row == [consumer[a] EXCEPT ![t] = c]
<1>1. consumer[a] \in [Topics -> Consumers]
    BY DEF Shapes
<1>2. /\ row \in [Topics -> Consumers]
      /\ row[t] = c /\ \A u \in Topics : u # t => row[u] = consumer[a][u]
    BY <1>1
<1> HIDE DEF row
<1>3. consumer' = [consumer EXCEPT ![a] = row]
    BY DEF row
<1> QED BY <1>2, <1>3 DEF Shapes, Moved

LEMMA ConsumeMoves ==
    ASSUME Shapes, NEW a \in Agents, NEW t \in Topics, Consume(a, t)
    PROVE  /\ Advanced(a, t) \in Consumers /\ Moved(a, t, Advanced(a, t))
           /\ Advanced(a, t).from = consumer[a][t].from
           /\ Advanced(a, t).next = consumer[a][t].next + 1
           /\ Advanced(a, t).skipped = consumer[a][t].skipped
<1>1. /\ Advanced(a, t) \in Consumers
      /\ Advanced(a, t).from = consumer[a][t].from
      /\ Advanced(a, t).next = consumer[a][t].next + 1
      /\ Advanced(a, t).skipped = consumer[a][t].skipped
    BY Offsets DEF Advanced, Consumers
<1>2. consumer' = [consumer EXCEPT ![a] = [consumer[a] EXCEPT ![t] = Advanced(a, t)]]
    BY DEF Consume, Advanced
<1> QED BY <1>1, <1>2, ConsumerMoves

LEMMA RejoinMoves ==
    ASSUME Shapes, NEW a \in Agents, NEW t \in Topics, Rejoin(a, t)
    PROVE  /\ Rejoined(a, t) \in Consumers /\ Moved(a, t, Rejoined(a, t))
           /\ Rejoined(a, t).from = consumer[a][t].from
           /\ Rejoined(a, t).next = Offset(a, t)
           /\ Rejoined(a, t).skipped =
                consumer[a][t].skipped \cup (consumer[a][t].next .. Offset(a, t) - 1)
<1>1. Offset(a, t) \in Nat /\ consumer[a][t].next \in Nat
    BY Offsets, OffsetBounds
<1>2. (consumer[a][t].next .. Offset(a, t) - 1) \in SUBSET Nat
    BY <1>1
<1>3. /\ Rejoined(a, t) \in Consumers
      /\ Rejoined(a, t).from = consumer[a][t].from
      /\ Rejoined(a, t).next = Offset(a, t)
      /\ Rejoined(a, t).skipped =
            consumer[a][t].skipped \cup (consumer[a][t].next .. Offset(a, t) - 1)
    BY <1>1, <1>2, Offsets DEF Rejoined, Consumers
<1>4. consumer' = [consumer EXCEPT ![a] = [consumer[a] EXCEPT ![t] = Rejoined(a, t)]]
    BY DEF Rejoin, Rejoined
<1> QED BY <1>3, <1>4, ConsumerMoves

LEMMA StartMoves ==
    ASSUME Shapes, NEW a \in Agents, NEW t \in Topics, StartConsumer(a, t)
    PROVE  Moved(a, t, [from |-> Offset(a, t), next |-> Offset(a, t), skipped |-> {}])
<1> DEFINE c == [from |-> Offset(a, t), next |-> Offset(a, t), skipped |-> {}]
<1>1. c \in Consumers
    BY OffsetBounds DEF Consumers
<1>2. consumer' = [consumer EXCEPT ![a] = [consumer[a] EXCEPT ![t] = c]]
    BY DEF StartConsumer
<1> HIDE DEF c
<1>3. Moved(a, t, c)
    BY <1>1, <1>2, ConsumerMoves
<1> QED BY <1>3 DEF c

LEMMA ReceivedGrows ==
    ASSUME Shapes, NEW a \in Agents, NEW m \in Messages,
           received' = [received EXCEPT ![a] = Append(@, m)]
    PROVE  received' \in [Agents -> Seq(Messages)]
<1>1. received[a] \in Seq(Messages)
    BY DEF Shapes
<1>2. Append(received[a], m) \in Seq(Messages)
    BY <1>1
<1> QED BY <1>2 DEF Shapes

LEMMA TakenShapes ==
    ASSUME Shapes, NEW a \in Agents, NEW m \in Messages
    PROVE  SeenAfter(a, m) \in [Agents -> Nat] /\ ClockAfter(a, m) \in Nat
<1>1. m.sender \in Agents /\ m.seq \in Nat /\ m.ts \in Nat
    BY DEF Messages
<1>2. seen[a] \in [Agents -> Nat] /\ clock[a] \in Nat
    BY DEF Shapes
<1>3. SeenAfter(a, m) \in [Agents -> Nat]
    BY <1>1, <1>2 DEF SeenAfter
<1>4. ClockAfter(a, m) \in Nat
    BY <1>1, <1>2 DEF ClockAfter, Maximum
<1> QED BY <1>3, <1>4

\* The message a publication makes, and what it leaves in flight.
Stamped(a, t, to) ==
    [sender |-> a, life |-> life[a], seq |-> seq[a] + 1, ts |-> clock[a] + 1,
     topic |-> t, to |-> to, past |-> past[a]]

LEMMA StampedFields ==
    ASSUME Shapes, NEW a \in Agents, NEW t \in Topics, NEW to \in SUBSET Agents
    PROVE  /\ Stamped(a, t, to) \in Messages
           /\ Stamped(a, t, to).sender = a /\ Stamped(a, t, to).seq = seq[a] + 1
           /\ Stamped(a, t, to).ts = clock[a] + 1 /\ Stamped(a, t, to).topic = t
           /\ Stamped(a, t, to).past = past[a]
BY DEF Stamped, Messages, Shapes

LEMMA PublishMakes ==
    ASSUME Shapes, NEW a \in Agents, NEW t \in Topics, Publish(a, t)
    PROVE  \E m \in Messages :
             /\ sending' = [sending EXCEPT ![a] = {m}]
             /\ m.sender = a /\ m.seq = seq[a] + 1 /\ m.ts = clock[a] + 1
             /\ m.topic = t /\ m.past = past[a]
<1>1. PICK to \in SUBSET Agents : sending' = [sending EXCEPT ![a] = {Stamped(a, t, to)}]
    BY ChoicesAssumption DEF Publish, Stamped
<1> DEFINE m == Stamped(a, t, to)
<1>2. /\ m \in Messages /\ m.sender = a /\ m.seq = seq[a] + 1 /\ m.ts = clock[a] + 1
      /\ m.topic = t /\ m.past = past[a]
    BY StampedFields
<1> HIDE DEF m
<1>3. sending' = [sending EXCEPT ![a] = {m}]
    BY <1>1 DEF m
<1> QED BY <1>2, <1>3

LEMMA ShapesPublish ==
    ASSUME Shapes, NEW a \in Agents, NEW t \in Topics, Publish(a, t)
    PROVE  Shapes'
<1>1. PICK m \in Messages : sending' = [sending EXCEPT ![a] = {m}]
    BY PublishMakes
<1>2. sending' \in [Agents -> SUBSET Messages]
    BY <1>1 DEF Shapes
<1>3. /\ seq' = [seq EXCEPT ![a] = seq[a] + 1] /\ clock' = [clock EXCEPT ![a] = clock[a] + 1]
      /\ past' = [past EXCEPT ![a] = past[a] \cup {clock[a] + 1}]
    BY DEF Publish
<1>4. seq[a] + 1 \in Nat /\ clock[a] + 1 \in Nat /\ past[a] \in SUBSET Nat
    BY DEF Shapes
<1>5. seq' \in [Agents -> Nat] /\ clock' \in [Agents -> Nat]
    BY <1>3, <1>4 DEF Shapes
<1>6. past' \in [Agents -> SUBSET Nat]
    BY <1>3, <1>4 DEF Shapes
<1>7. UNCHANGED <<log, committed, pc, life, subscribed, consumer, seen, received>>
    BY DEF Publish
<1> QED BY <1>2, <1>5, <1>6, <1>7 DEF Shapes

LEMMA ShapesSent ==
    ASSUME Shapes, NEW a \in Agents, Sent(a)
    PROVE  Shapes'
<1>1. PICK m \in sending[a] :
        /\ log' = [log EXCEPT ![m.topic] = Append(@, m)]
        /\ sending' = [sending EXCEPT ![a] = {}]
    BY DEF Sent
<1>2. m \in Messages /\ m.topic \in Topics
    BY DEF Shapes, Messages
<1>3. log[m.topic] \in Seq(Messages)
    BY <1>2 DEF Shapes
<1>4. Append(log[m.topic], m) \in Seq(Messages)
    BY <1>2, <1>3
<1>5. log' \in [Topics -> Seq(Messages)]
    BY <1>1, <1>2, <1>4 DEF Shapes
<1>6. sending' \in [Agents -> SUBSET Messages]
    BY <1>1 DEF Shapes
<1>7. UNCHANGED <<committed, pc, life, subscribed, consumer, seq, clock, seen, received, past>>
    BY DEF Sent
<1> QED BY <1>5, <1>6, <1>7 DEF Shapes

LEMMA ShapesConsume ==
    ASSUME IInv, NEW a \in Agents, NEW t \in Topics, Consume(a, t)
    PROVE  Shapes'
<1> DEFINE n == consumer[a][t].next
           m == log[t][n]
<1>0. Shapes
    BY DEF IInv
<1>1. n \in 1..Len(log[t])
    BY <1>0, Offsets DEF Consume
<1>2. m \in Messages
    BY <1>1 DEF IInv, Shapes
<1>4. consumer' \in [Agents -> [Topics -> Consumers]]
    BY <1>0, ConsumeMoves DEF Moved
<1>5. UNCHANGED <<log, committed, pc, life, subscribed, sending, seq>>
    BY DEF Consume
<1>6. CASE UNCHANGED <<seen, clock, received, past>>
    BY <1>4, <1>5, <1>6 DEF IInv, Shapes
<1>7. CASE /\ seen' = [seen EXCEPT ![a] = SeenAfter(a, m)]
           /\ clock' = [clock EXCEPT ![a] = ClockAfter(a, m)]
           /\ received' = [received EXCEPT ![a] = Append(@, m)]
           /\ past' = [past EXCEPT ![a] = @ \cup m.past \cup {m.ts}]
  <2> HIDE DEF m
  <2>1. SeenAfter(a, m) \in [Agents -> Nat] /\ ClockAfter(a, m) \in Nat
      BY <1>2, TakenShapes DEF IInv
  <2>2. received' \in [Agents -> Seq(Messages)]
      BY <1>2, <1>7, ReceivedGrows DEF IInv
  <2>3. seen' \in [Agents -> [Agents -> Nat]] /\ clock' \in [Agents -> Nat]
      BY <1>7, <2>1 DEF IInv, Shapes
  <2>4. m.past \in SUBSET Nat /\ m.ts \in Nat /\ past[a] \in SUBSET Nat
      BY <1>0, <1>2 DEF Messages, Shapes
  <2>5. past' \in [Agents -> SUBSET Nat]
      BY <1>0, <1>7, <2>4 DEF Shapes
  <2> QED BY <1>4, <1>5, <2>2, <2>3, <2>5 DEF IInv, Shapes
<1> QED BY <1>6, <1>7 DEF Consume

LEMMA ShapesStep == IInv /\ [Next]_vars => Shapes'
<1> SUFFICES ASSUME IInv, [Next]_vars PROVE Shapes'
    OBVIOUS
<1>0. Shapes
    BY DEF IInv
<1> USE DEF Shapes
<1>1. CASE UNCHANGED vars
    BY <1>0, <1>1 DEF vars
<1>2. ASSUME NEW a \in Agents, Setup(a) PROVE Shapes'
    BY <1>0, <1>2, AgentsAssumption DEF Setup, PcLabels
<1>3. ASSUME NEW a \in Agents, StartProducer(a) \/ Started(a) PROVE Shapes'
    BY <1>0, <1>3 DEF StartProducer, Started, PcLabels
<1>4. ASSUME NEW a \in Agents, Crash(a) PROVE Shapes'
    BY <1>0, <1>4 DEF Crash, PcLabels, Nothing, NoConsumer, Consumers
<1>5. ASSUME NEW a \in Agents, Restart(a) PROVE Shapes'
    BY <1>0, <1>5 DEF Restart, PcLabels
<1>6. ASSUME NEW a \in Agents, NEW t \in Topics, StartConsumer(a, t) PROVE Shapes'
    BY <1>0, <1>6, StartMoves DEF StartConsumer, Moved
<1>7. ASSUME NEW a \in Agents, NEW t \in Topics, Publish(a, t) PROVE Shapes'
    BY <1>0, <1>7, ShapesPublish
<1>8. ASSUME NEW a \in Agents, NEW t \in Topics, Consume(a, t) PROVE Shapes'
    BY <1>8, ShapesConsume
<1>9. ASSUME NEW a \in Agents, NEW t \in Topics, Commit(a, t) PROVE Shapes'
  <2>1. consumer[a][t].next \in Nat
      BY <1>0, Offsets
  <2>2. committed' = [committed EXCEPT ![a][t] = consumer[a][t].next]
      BY <1>9 DEF Commit
  <2>3. committed' \in [Agents -> [Topics -> Nat]]
      BY <1>0, <2>1, <2>2
  <2> QED BY <1>0, <1>9, <2>3 DEF Commit
<1>10. ASSUME NEW a \in Agents, NEW t \in Topics, Rejoin(a, t) PROVE Shapes'
    BY <1>0, <1>10, RejoinMoves DEF Rejoin, Moved
<1>11. ASSUME NEW a \in Agents, Sent(a) PROVE Shapes'
    BY <1>0, <1>11, ShapesSent
<1> QED BY <1>1, <1>2, <1>3, <1>4, <1>5, <1>6, <1>7, <1>8, <1>9, <1>10, <1>11 DEF Next

-----------------------------------------------------------------------------
(* Offsets *)

LEMMA SubscribedStep ==
    ASSUME IInv, [Next]_vars
    PROVE  \A a \in Agents : subscribed'[a] \subseteq Subscribes[a]
<1>0. /\ subscribed \in [Agents -> SUBSET Topics]
      /\ \A a \in Agents : subscribed[a] \subseteq Subscribes[a]
    BY DEF IInv, Shapes
<1>1. ASSUME NEW a \in Agents, Setup(a) PROVE subscribed' = [subscribed EXCEPT ![a] = Subscribes[a]]
    BY <1>1 DEF Setup
<1>2. ASSUME NEW a \in Agents, Restart(a) PROVE subscribed' = [subscribed EXCEPT ![a] = {}]
    BY <1>2 DEF Restart
<1>3. ASSUME NEW a \in Agents, StartProducer(a) \/ Started(a) \/ Crash(a) \/ Sent(a)
      PROVE  subscribed' = subscribed
    BY <1>3 DEF StartProducer, Started, Crash, Sent
<1>4. ASSUME NEW a \in Agents, NEW t \in Topics, StartConsumer(a, t) \/ Publish(a, t)
      PROVE  subscribed' = subscribed
    BY <1>4 DEF StartConsumer, Publish
<1>5. ASSUME NEW a \in Agents, NEW t \in Topics, Consume(a, t) \/ Commit(a, t) \/ Rejoin(a, t)
      PROVE  subscribed' = subscribed
    BY <1>5 DEF Consume, Commit, Rejoin
<1>6. CASE UNCHANGED vars
    BY <1>0, <1>6 DEF vars
<1> QED BY <1>0, <1>1, <1>2, <1>3, <1>4, <1>5, <1>6 DEF Next

LEMMA SendingStep ==
    ASSUME IInv, [Next]_vars, NEW b \in Agents, sending'[b] # {}
    PROVE  pc'[b] = "running"
<1>0. /\ Shapes
      /\ sending[b] # {} => pc[b] = "running"
    BY DEF IInv
<1>1. CASE sending' = sending /\ pc' = pc
    BY <1>0, <1>1
<1>2. ASSUME NEW a \in Agents,
             Setup(a) \/ StartProducer(a) \/ Started(a) \/ Restart(a) \/ Crash(a)
      PROVE  pc'[b] = "running"
  <2>1. CASE a = b
    <3>1. CASE Setup(a) \/ StartProducer(a) \/ Started(a) \/ Restart(a)
      <4>1. pc[b] # "running" /\ sending' = sending
          BY <2>1, <3>1 DEF Setup, StartProducer, Started, Restart
      <4> QED BY <1>0, <4>1
    <3>2. CASE Crash(a)
        BY <1>0, <2>1, <3>2 DEF Crash, Shapes
    <3> QED BY <1>2, <3>1, <3>2
  <2>2. CASE a # b
    <3>1. sending'[b] = sending[b] /\ pc'[b] = pc[b]
        BY <1>0, <1>2, <2>2 DEF Setup, StartProducer, Started, Restart, Crash, Shapes
    <3> QED BY <1>0, <3>1
  <2> QED BY <2>1, <2>2
<1>3. ASSUME NEW a \in Agents, NEW t \in Topics, Publish(a, t) PROVE pc'[b] = "running"
  <2>1. pc' = pc /\ pc[a] = "running" /\ (b # a => sending'[b] = sending[b])
      BY <1>0, <1>3, PublishMakes DEF Publish, Shapes
  <2> QED BY <1>0, <2>1
<1>4. ASSUME NEW a \in Agents, Sent(a) PROVE pc'[b] = "running"
  <2>1. pc' = pc /\ sending' = [sending EXCEPT ![a] = {}]
      BY <1>4 DEF Sent
  <2> QED BY <1>0, <2>1 DEF Shapes
<1>5. ASSUME NEW a \in Agents, NEW t \in Topics,
             StartConsumer(a, t) \/ Consume(a, t) \/ Commit(a, t) \/ Rejoin(a, t)
      PROVE  sending' = sending /\ pc' = pc
    BY <1>5 DEF StartConsumer, Consume, Commit, Rejoin
<1>6. CASE UNCHANGED vars
    BY <1>1, <1>6 DEF vars
<1> QED BY <1>1, <1>2, <1>3, <1>4, <1>5, <1>6 DEF Next

\* What the broker appends.
Grown(u, m) ==
    /\ Len(log[u]) \in Nat /\ DOMAIN log[u] = 1..Len(log[u])
    /\ Len(log'[u]) = Len(log[u]) + 1 /\ DOMAIN log'[u] = 1..(Len(log[u]) + 1)
    /\ \A i \in 1..Len(log[u]) : log'[u][i] = log[u][i]
    /\ log'[u][Len(log[u]) + 1] = m

LEMMA SentAppends ==
    ASSUME Shapes, NEW a \in Agents, NEW m \in sending[a],
           log' = [log EXCEPT ![m.topic] = Append(@, m)], NEW u \in Topics
    PROVE  /\ m \in Messages /\ m.topic \in Topics
           /\ u # m.topic => log'[u] = log[u]
           /\ u = m.topic => Grown(u, m)
<1>0. sending[a] \in SUBSET Messages
    BY DEF Shapes
<1>1. m \in Messages /\ m.topic \in Topics
    BY <1>0 DEF Messages
<1>2. u # m.topic => log'[u] = log[u]
    BY <1>1 DEF Shapes
<1>3. ASSUME u = m.topic PROVE Grown(u, m)
  <2>1. log[u] \in Seq(Messages) /\ log'[u] = Append(log[u], m)
      BY <1>3 DEF Shapes
  <2>2. Len(log[u]) \in Nat /\ DOMAIN log[u] = 1..Len(log[u])
      BY <2>1
  <2>3. /\ Len(log'[u]) = Len(log[u]) + 1 /\ DOMAIN log'[u] = 1..(Len(log[u]) + 1)
        /\ \A i \in 1..Len(log[u]) : log'[u][i] = log[u][i]
        /\ log'[u][Len(log[u]) + 1] = m
      BY <1>1, <2>1
  <2> QED BY <2>2, <2>3 DEF Grown
<1> QED BY <1>1, <1>2, <1>3

\* The log of a topic only grows.
LEMMA LogGrows ==
    ASSUME Shapes, NEW a \in Agents, Sent(a), NEW u \in Topics
    PROVE  Len(log[u]) \in Nat /\ Len(log[u]) <= Len(log'[u])
<1>1. PICK m \in sending[a] : log' = [log EXCEPT ![m.topic] = Append(@, m)]
    BY DEF Sent
<1>2. Len(log[u]) \in Nat
    BY Offsets
<1>3. log'[u] = log[u] \/ Grown(u, m)
    BY <1>1, SentAppends
<1> QED BY <1>2, <1>3 DEF Grown

LEMMA PlacedStep ==
    ASSUME IInv, [Next]_vars, NEW b \in Agents, NEW u \in Topics
    PROVE  Placed(b, u)'
<1>0. /\ Shapes /\ Shapes' /\ Placed(b, u)
      /\ committed[b][u] \in Nat /\ consumer[b][u].from \in Nat
      /\ consumer[b][u].next \in Nat /\ Len(log[u]) \in Nat
      /\ subscribed[b] \subseteq Subscribes[b]
    BY ShapesStep, Offsets DEF IInv
<1> USE DEF Placed
<1>1. CASE UNCHANGED vars
    BY <1>0, <1>1 DEF vars
<1>2. ASSUME NEW a \in Agents, Setup(a) PROVE Placed(b, u)'
    BY <1>0, <1>2 DEF Setup, Shapes
<1>3. ASSUME NEW a \in Agents, StartProducer(a) \/ Started(a) PROVE Placed(b, u)'
    BY <1>0, <1>3 DEF StartProducer, Started, Shapes
<1>4. ASSUME NEW a \in Agents, Crash(a) PROVE Placed(b, u)'
    BY <1>0, <1>4 DEF Crash, Shapes, Nothing, NoConsumer
<1>5. ASSUME NEW a \in Agents, Restart(a) PROVE Placed(b, u)'
    BY <1>0, <1>5 DEF Restart, Shapes
<1>6. ASSUME NEW a \in Agents, NEW t \in Topics, StartConsumer(a, t) PROVE Placed(b, u)'
  <2>1. UNCHANGED <<log, committed, pc, subscribed>> /\ pc[a] = "starting" /\ t \in subscribed[a]
      BY <1>6 DEF StartConsumer
  <2>2. Moved(a, t, [from |-> Offset(a, t), next |-> Offset(a, t), skipped |-> {}])
      BY <1>0, <1>6, StartMoves
  <2>3. CASE b = a /\ u = t
    <3>1. consumer'[b][u].from = Offset(b, u) /\ consumer'[b][u].next = Offset(b, u)
        BY <2>2, <2>3 DEF Moved
    <3> QED BY <1>0, <2>1, <2>3, <3>1, OffsetBounds
  <2>4. CASE ~(b = a /\ u = t)
      BY <1>0, <2>1, <2>2, <2>4 DEF Moved
  <2> QED BY <2>3, <2>4
<1>7. ASSUME NEW a \in Agents, Sent(a) PROVE Placed(b, u)'
  <2>1. UNCHANGED <<committed, pc, subscribed, consumer>> /\ Len(log[u]) <= Len(log'[u])
      BY <1>0, <1>7, LogGrows DEF Sent
  <2>2. Len(log'[u]) \in Nat
      BY <1>0 DEF Shapes
  <2> QED BY <1>0, <2>1, <2>2
<1>8. ASSUME NEW a \in Agents, NEW t \in Topics, Consume(a, t) PROVE Placed(b, u)'
  <2>1. /\ UNCHANGED <<log, committed, pc, subscribed>> /\ HasConsumer(a, t)
        /\ consumer[a][t].next <= Len(log[t]) /\ consumer[a][t].next \in Nat
      BY <1>0, <1>8, Offsets DEF Consume
  <2>2. /\ Moved(a, t, Advanced(a, t))
        /\ Advanced(a, t).from = consumer[a][t].from
        /\ Advanced(a, t).next = consumer[a][t].next + 1
      BY <1>0, <1>8, ConsumeMoves
  <2>3. CASE b = a /\ u = t
    <3>1. /\ consumer'[b][u].from = consumer[b][u].from
          /\ consumer'[b][u].next = consumer[b][u].next + 1
        BY <2>2, <2>3 DEF Moved
    <3> QED BY <1>0, <2>1, <2>3, <3>1
  <2>4. CASE b # a \/ u # t
      BY <1>0, <2>1, <2>2, <2>4 DEF Moved
  <2> QED BY <2>3, <2>4
<1>9. ASSUME NEW a \in Agents, NEW t \in Topics, Commit(a, t) PROVE Placed(b, u)'
  <2>1. UNCHANGED <<log, consumer, pc, subscribed>> /\ HasConsumer(a, t)
      BY <1>9 DEF Commit
  <2>2. committed' = [committed EXCEPT ![a][t] = consumer[a][t].next]
      BY <1>9 DEF Commit
  <2>3. committed \in [Agents -> [Topics -> Nat]]
      BY <1>0 DEF Shapes
  <2>4. /\ (b = a /\ u = t) => committed'[b][u] = consumer[b][u].next
        /\ ~(b = a /\ u = t) => committed'[b][u] = committed[b][u]
      BY <2>2, <2>3
  <2> QED BY <1>0, <2>1, <2>4
<1>10. ASSUME NEW a \in Agents, NEW t \in Topics, Rejoin(a, t) PROVE Placed(b, u)'
  <2>1. UNCHANGED <<log, committed, pc, subscribed>> /\ HasConsumer(a, t)
      BY <1>10 DEF Rejoin
  <2>2. /\ Moved(a, t, Rejoined(a, t))
        /\ Rejoined(a, t).from = consumer[a][t].from /\ Rejoined(a, t).next = Offset(a, t)
      BY <1>0, <1>10, RejoinMoves
  <2>3. CASE b = a /\ u = t
    <3>1. consumer'[b][u].from = consumer[b][u].from /\ consumer'[b][u].next = Offset(b, u)
        BY <2>2, <2>3 DEF Moved
    <3>2. /\ Offset(b, u) \in Nat /\ Offset(b, u) <= Len(log[u]) + 1
          /\ committed[b][u] # 0 => Offset(b, u) = committed[b][u]
          /\ committed[b][u] = 0 => Offset(b, u) = Len(log[u]) + 1
        BY <1>0, OffsetBounds
    <3> QED BY <1>0, <2>1, <2>3, <3>1, <3>2
  <2>4. CASE b # a \/ u # t
      BY <1>0, <2>1, <2>2, <2>4 DEF Moved
  <2> QED BY <2>3, <2>4
<1>11. ASSUME NEW a \in Agents, NEW t \in Topics, Publish(a, t) PROVE Placed(b, u)'
    BY <1>0, <1>11 DEF Publish
<1> QED BY <1>1, <1>2, <1>3, <1>4, <1>5, <1>6, <1>7, <1>8, <1>9, <1>10, <1>11 DEF Next

LEMMA IInvStep == IInv /\ [Next]_vars => IInv'
BY ShapesStep, SubscribedStep, SendingStep, PlacedStep DEF IInv

\* The bus keeps its shape: a consumer is between where it began and the end of
\* its topic's log, across crashes, restarts and lost groups (kafka_bus.py).
THEOREM TypeCorrect == Spec => []TypeOK
BY IInvInit, IInvStep, IInvImpliesTypeOK, PTL DEF Spec

-----------------------------------------------------------------------------
(* Messages taken *)

InOrder(a) ==
    \A i, j \in DOMAIN received[a] :
        (i < j /\ received[a][i].sender = received[a][j].sender) =>
            received[a][i].seq < received[a][j].seq

\* The watermark is at or past everything taken.
Marked(a) == \A i \in DOMAIN received[a] : received[a][i].seq <= seen[a][received[a][i].sender]

Taken == \A a \in Agents : InOrder(a) /\ Marked(a)

LEMMA NothingTaken ==
    ASSUME NEW a \in Agents, received[a] = <<>>
    PROVE  InOrder(a) /\ Marked(a)
BY DEF InOrder, Marked

LEMMA TakenInit == Init => Taken
<1> SUFFICES ASSUME Init, NEW a \in Agents PROVE InOrder(a) /\ Marked(a)
    BY DEF Taken
<1>1. received[a] = <<>>
    BY DEF Init
<1> QED BY <1>1, NothingTaken

\* What _consume does with a message it does not skip.
Takes(a, m) ==
    /\ ~Duplicate(a, m)
    /\ seen' = [seen EXCEPT ![a] = SeenAfter(a, m)]
    /\ received' = [received EXCEPT ![a] = Append(@, m)]

LEMMA TakenTakes ==
    ASSUME Shapes, Taken, NEW a \in Agents, NEW m \in Messages, Takes(a, m)
    PROVE  Taken'
<1>1. received[a] \in Seq(Messages) /\ seen[a] \in [Agents -> Nat]
    BY DEF Shapes
<1>2. m.sender \in Agents /\ m.seq \in Nat
    BY DEF Messages
<1> DEFINE s == received[a]
           n == Len(s)
<1>3. n \in Nat /\ DOMAIN s = 1..n /\ \A i \in 1..n : s[i] \in Messages
    BY <1>1
<1>4. received'[a] = Append(s, m) /\ seen'[a] = SeenAfter(a, m)
    BY DEF Takes, Shapes
<1>5. /\ DOMAIN received'[a] = 1..(n + 1)
      /\ received'[a][n + 1] = m /\ \A i \in 1..n : received'[a][i] = s[i]
    BY <1>1, <1>4
<1>6. /\ seen'[a][m.sender] = m.seq
      /\ \A b \in Agents : seen[a][b] \in Nat /\ seen[a][b] <= seen'[a][b]
      /\ seen[a][m.sender] < m.seq
  <2>1. seen'[a] = [seen[a] EXCEPT ![m.sender] = m.seq]
      BY <1>4 DEF SeenAfter
  <2>2. seen[a][m.sender] < m.seq
      BY <1>1, <1>2 DEF Takes, Duplicate
  <2> QED BY <1>1, <1>2, <2>1, <2>2
<1>8. \A i \in 1..n : s[i].sender \in Agents /\ s[i].seq \in Nat
    BY <1>3 DEF Messages
<1>9. /\ \A i \in 1..n : s[i].seq <= seen[a][s[i].sender]
      /\ \A i, j \in 1..n : (i < j /\ s[i].sender = s[j].sender) => s[i].seq < s[j].seq
    BY <1>3 DEF Taken, InOrder, Marked
<1> HIDE DEF n, s
<1>10. \A i \in 1..(n + 1) : i \in 1..n \/ i = n + 1
    BY <1>3
<1>11. Marked(a)'
  <2> SUFFICES ASSUME NEW i \in 1..(n + 1)
               PROVE  received'[a][i].seq <= seen'[a][received'[a][i].sender]
      BY <1>5 DEF Marked
  <2>1. CASE i = n + 1
      BY <1>2, <1>5, <1>6, <2>1
  <2>2. CASE i \in 1..n
    <3>1. /\ s[i].seq <= seen[a][s[i].sender]
          /\ seen[a][s[i].sender] <= seen'[a][s[i].sender]
          /\ seen[a][s[i].sender] \in Nat
        BY <1>6, <1>8, <1>9, <2>2
    <3>2. seen'[a][s[i].sender] \in Nat
        BY <1>1, <1>2, <1>4, <1>8, <2>2 DEF SeenAfter
    <3>3. s[i].seq \in Nat /\ received'[a][i] = s[i]
        BY <1>5, <1>8, <2>2
    <3>4. s[i].seq <= seen'[a][s[i].sender]
        BY <3>1, <3>2, <3>3
    <3> QED BY <3>3, <3>4
  <2> QED BY <1>10, <2>1, <2>2
<1>12. InOrder(a)'
  <2> SUFFICES ASSUME NEW i \in 1..(n + 1), NEW j \in 1..(n + 1), i < j,
                      received'[a][i].sender = received'[a][j].sender
               PROVE  received'[a][i].seq < received'[a][j].seq
      BY <1>5 DEF InOrder
  <2>1. i \in 1..n /\ received'[a][i] = s[i]
      BY <1>3, <1>5
  <2>2. CASE j \in 1..n
      BY <1>5, <1>9, <2>1, <2>2
  <2>3. CASE j = n + 1
    <3>1. s[i].seq <= seen[a][m.sender]
        BY <1>5, <1>9, <2>1, <2>3
    <3>2. s[i].seq \in Nat /\ seen[a][m.sender] \in Nat /\ seen[a][m.sender] < m.seq
        BY <1>2, <1>6, <1>8, <2>1
    <3>3. s[i].seq < m.seq
        BY <1>2, <3>1, <3>2
    <3> QED BY <1>5, <2>1, <2>3, <3>3
  <2> QED BY <1>10, <2>2, <2>3
<1>13. ASSUME NEW b \in Agents, b # a PROVE (InOrder(b) /\ Marked(b))'
  <2>1. received'[b] = received[b] /\ seen'[b] = seen[b]
      BY <1>13 DEF Takes, Shapes
  <2>2. InOrder(b) /\ Marked(b)
      BY DEF Taken
  <2> QED BY <2>1, <2>2 DEF InOrder, Marked
<1> QED BY <1>11, <1>12, <1>13 DEF Taken

\* The record a consumer takes next.
NextRecord(a, t) == log[t][consumer[a][t].next]

LEMMA NextIsMessage ==
    ASSUME Shapes, NEW a \in Agents, NEW t \in Topics, Consume(a, t)
    PROVE  /\ consumer[a][t].next \in DOMAIN log[t] /\ NextRecord(a, t) \in Messages
           /\ \/ UNCHANGED <<seen, clock, received, past>>
              \/ /\ Takes(a, NextRecord(a, t))
                 /\ clock' = [clock EXCEPT ![a] = ClockAfter(a, NextRecord(a, t))]
                 /\ past' = [past EXCEPT ![a] =
                        @ \cup NextRecord(a, t).past \cup {NextRecord(a, t).ts}]
<1>1. consumer[a][t].next \in Nat /\ log[t] \in Seq(Messages) /\ Len(log[t]) \in Nat
    BY Offsets DEF Shapes
<1>2. consumer[a][t].next # 0 /\ consumer[a][t].next <= Len(log[t])
    BY DEF Consume
<1>3. consumer[a][t].next \in DOMAIN log[t]
    BY <1>1, <1>2
<1>4. NextRecord(a, t) \in Messages
    BY <1>1, <1>3 DEF NextRecord
<1>5. \/ UNCHANGED <<seen, clock, received, past>>
      \/ /\ Takes(a, NextRecord(a, t))
         /\ clock' = [clock EXCEPT ![a] = ClockAfter(a, NextRecord(a, t))]
         /\ past' = [past EXCEPT ![a] =
                @ \cup NextRecord(a, t).past \cup {NextRecord(a, t).ts}]
    BY DEF Consume, Takes, NextRecord
<1> QED BY <1>3, <1>4, <1>5

\* Every other step leaves what was taken alone, or forgets it.
LEMMA TakenStep == IInv /\ Taken /\ [Next]_vars => Taken'
<1> SUFFICES ASSUME IInv, Taken, [Next]_vars PROVE Taken'
    OBVIOUS
<1>0. Shapes
    BY DEF IInv
<1>1. CASE UNCHANGED <<seen, received>>
    BY <1>1 DEF Taken, InOrder, Marked
<1>2. ASSUME NEW a \in Agents, NEW t \in Topics, Consume(a, t) PROVE Taken'
  <2>1. NextRecord(a, t) \in Messages
      BY <1>0, <1>2, NextIsMessage
  <2>2. CASE Takes(a, NextRecord(a, t))
      BY <1>0, <2>1, <2>2, TakenTakes
  <2> QED BY <1>0, <1>1, <1>2, <2>2, NextIsMessage
<1>3. ASSUME NEW a \in Agents, Restart(a) PROVE Taken'
  <2> SUFFICES ASSUME NEW b \in Agents PROVE (InOrder(b) /\ Marked(b))'
      BY DEF Taken
  <2>1. CASE b = a
    <3>1. received'[b] = <<>>
        BY <1>0, <1>3, <2>1 DEF Restart, Shapes
    <3> QED BY <3>1 DEF InOrder, Marked
  <2>2. CASE b # a
    <3>1. received'[b] = received[b] /\ seen'[b] = seen[b]
        BY <1>0, <1>3, <2>2 DEF Restart, Shapes
    <3> QED BY <3>1 DEF Taken, InOrder, Marked
  <2> QED BY <2>1, <2>2
<1>4. ASSUME NEW a \in Agents, Setup(a) \/ StartProducer(a) \/ Started(a) \/ Crash(a) \/ Sent(a)
      PROVE  UNCHANGED <<seen, received>>
    BY <1>4 DEF Setup, StartProducer, Started, Crash, Sent
<1>5. ASSUME NEW a \in Agents, NEW t \in Topics,
             StartConsumer(a, t) \/ Publish(a, t) \/ Commit(a, t) \/ Rejoin(a, t)
      PROVE  UNCHANGED <<seen, received>>
    BY <1>5 DEF StartConsumer, Publish, Commit, Rejoin
<1>6. CASE UNCHANGED vars
    BY <1>1, <1>6 DEF vars
<1> QED BY <1>1, <1>2, <1>3, <1>4, <1>5, <1>6 DEF Next

\* However often the broker delivers a record again, a process takes the
\* messages of a sender once each and in the order sent (kafka_bus.py
\* _consume), for any agents, topics, restarts and lost groups.
THEOREM InOrderOnceHolds == Spec => []InOrderOnce
<1>1. Init => IInv /\ Taken
    BY IInvInit, TakenInit
<1>2. IInv /\ Taken /\ [Next]_vars => (IInv /\ Taken)'
    BY IInvStep, TakenStep
<1>3. Taken => InOrderOnce
    BY DEF Taken, InOrder, InOrderOnce
<1> QED BY <1>1, <1>2, <1>3, PTL DEF Spec

-----------------------------------------------------------------------------
(* Stamps *)

\* The clock is at or past every stamp that the next message has to follow.
Clocked == \A a \in Agents : \A ts \in past[a] : ts <= clock[a]

CausalInv == Clocked /\ CausalStamps

LEMMA CausalInit == Init => CausalInv
BY DEF Init, CausalInv, Clocked, CausalStamps

LEMMA ClockedStep ==
    ASSUME IInv, CausalInv, [Next]_vars, NEW b \in Agents, NEW ts \in past'[b]
    PROVE  ts <= clock'[b]
<1>0. /\ Shapes /\ clock[b] \in Nat /\ past[b] \in SUBSET Nat
      /\ \A x \in past[b] : x <= clock[b]
    BY DEF IInv, Shapes, CausalInv, Clocked
<1>1. CASE past' = past /\ clock' = clock
    BY <1>0, <1>1
<1>2. ASSUME NEW a \in Agents, NEW t \in Topics, Publish(a, t) PROVE ts <= clock'[b]
  <2>1. /\ past' = [past EXCEPT ![a] = past[a] \cup {clock[a] + 1}]
        /\ clock' = [clock EXCEPT ![a] = clock[a] + 1]
      BY <1>2 DEF Publish
  <2>2. CASE a = b
    <3>1. clock'[b] = clock[b] + 1 /\ (ts \in past[b] \/ ts = clock[b] + 1)
        BY <1>0, <2>1, <2>2 DEF Shapes
    <3> QED BY <1>0, <3>1
  <2>3. CASE a # b
      BY <1>0, <2>1, <2>3 DEF Shapes
  <2> QED BY <2>2, <2>3
<1>3. ASSUME NEW a \in Agents, NEW t \in Topics, Consume(a, t) PROVE ts <= clock'[b]
  <2> DEFINE m == NextRecord(a, t)
  <2>1. m \in Messages /\ FollowsPast(m)
      BY <1>0, <1>3, NextIsMessage DEF NextRecord, CausalInv, CausalStamps
  <2>2. m.ts \in Nat /\ m.past \in SUBSET Nat
      BY <2>1 DEF Messages
  <2>3. CASE /\ clock' = [clock EXCEPT ![a] = ClockAfter(a, m)]
             /\ past' = [past EXCEPT ![a] = past[a] \cup m.past \cup {m.ts}]
    <3> HIDE DEF m
    <3>1. CASE a = b
      <4>1. clock'[b] = ClockAfter(b, m) /\ (ts \in past[b] \/ ts \in m.past \/ ts = m.ts)
          BY <1>0, <2>3, <3>1 DEF Shapes
      <4>2. /\ clock'[b] \in Nat /\ clock[b] <= clock'[b] /\ m.ts <= clock'[b]
          BY <1>0, <2>2, <4>1 DEF ClockAfter, Maximum
      <4>3. ts \in Nat /\ (ts <= clock[b] \/ ts <= m.ts)
          BY <1>0, <2>1, <2>2, <4>1 DEF FollowsPast
      <4> QED BY <1>0, <2>2, <4>2, <4>3
    <3>2. CASE a # b
        BY <1>0, <2>3, <3>2 DEF Shapes
    <3> QED BY <3>1, <3>2
  <2> QED BY <1>0, <1>1, <1>3, <2>3, NextIsMessage
<1>4. ASSUME NEW a \in Agents, Restart(a) PROVE ts <= clock'[b]
  <2>1. past' = [past EXCEPT ![a] = {}] /\ clock' = [clock EXCEPT ![a] = 0]
      BY <1>4 DEF Restart
  <2> QED BY <1>0, <2>1 DEF Shapes
<1>5. ASSUME NEW a \in Agents, Setup(a) \/ StartProducer(a) \/ Started(a) \/ Crash(a) \/ Sent(a)
      PROVE  past' = past /\ clock' = clock
    BY <1>5 DEF Setup, StartProducer, Started, Crash, Sent
<1>6. ASSUME NEW a \in Agents, NEW t \in Topics,
             StartConsumer(a, t) \/ Commit(a, t) \/ Rejoin(a, t)
      PROVE  past' = past /\ clock' = clock
    BY <1>6 DEF StartConsumer, Commit, Rejoin
<1>7. CASE UNCHANGED vars
    BY <1>1, <1>7 DEF vars
<1> QED BY <1>1, <1>2, <1>3, <1>4, <1>5, <1>6, <1>7 DEF Next

\* Only a publication stamps; the broker's append moves what was stamped.
LEMMA StampsStep ==
    ASSUME IInv, CausalInv, [Next]_vars
    PROVE  CausalStamps'
<1>0. /\ Shapes
      /\ \A a \in Agents : \A m \in sending[a] : FollowsPast(m)
      /\ \A t \in Topics : \A i \in DOMAIN log[t] : FollowsPast(log[t][i])
    BY DEF IInv, CausalInv, CausalStamps
<1>1. ASSUME log' = log, \A a \in Agents : \A m \in sending'[a] : FollowsPast(m)
      PROVE  CausalStamps'
    BY <1>0, <1>1 DEF CausalStamps, FollowsPast
<1>2. ASSUME NEW a \in Agents, NEW t \in Topics, Publish(a, t) PROVE CausalStamps'
  <2>1. PICK m \in Messages :
            /\ sending' = [sending EXCEPT ![a] = {m}]
            /\ m.ts = clock[a] + 1 /\ m.past = past[a]
      BY <1>0, <1>2, PublishMakes
  <2>2. clock[a] \in Nat /\ past[a] \in SUBSET Nat /\ \A x \in past[a] : x <= clock[a]
      BY <1>0 DEF Shapes, CausalInv, Clocked
  <2>3. FollowsPast(m)
      BY <2>1, <2>2 DEF FollowsPast
  <2>4. ASSUME NEW b \in Agents, NEW k \in sending'[b] PROVE FollowsPast(k)
    <3>1. b = a => k = m
        BY <1>0, <2>1, <2>4 DEF Shapes
    <3>2. b # a => k \in sending[b]
        BY <1>0, <2>1, <2>4 DEF Shapes
    <3> QED BY <1>0, <2>3, <3>1, <3>2
  <2>5. log' = log
      BY <1>2 DEF Publish
  <2> QED BY <1>1, <2>4, <2>5
<1>3. ASSUME NEW a \in Agents, Sent(a) PROVE CausalStamps'
  <2>1. PICK m \in sending[a] : /\ log' = [log EXCEPT ![m.topic] = Append(@, m)]
                                /\ sending' = [sending EXCEPT ![a] = {}]
      BY <1>3 DEF Sent
  <2>2. ASSUME NEW b \in Agents, NEW k \in sending'[b] PROVE FollowsPast(k)
      BY <1>0, <2>1, <2>2 DEF Shapes
  <2>3. ASSUME NEW u \in Topics, NEW i \in DOMAIN log'[u] PROVE FollowsPast(log'[u][i])
    <3>1. log[u] \in Seq(Messages) /\ DOMAIN log[u] = 1..Len(log[u]) /\ Len(log[u]) \in Nat
        BY <1>0 DEF Shapes
    <3>2. log'[u][i] = m \/ (i \in DOMAIN log[u] /\ log'[u][i] = log[u][i])
      <4>1. CASE u = m.topic
        <5>1. /\ DOMAIN log'[u] = 1..(Len(log[u]) + 1)
              /\ \A j \in 1..Len(log[u]) : log'[u][j] = log[u][j]
              /\ log'[u][Len(log[u]) + 1] = m
            BY <1>0, <2>1, <4>1, SentAppends DEF Grown
        <5>2. i \in 1..Len(log[u]) \/ i = Len(log[u]) + 1
            BY <2>3, <3>1, <5>1
        <5> QED BY <3>1, <5>1, <5>2
      <4>2. CASE u # m.topic
          BY <1>0, <2>1, <2>3, <4>2, SentAppends
      <4> QED BY <4>1, <4>2
    <3> QED BY <1>0, <3>2
  <2> QED BY <2>2, <2>3 DEF CausalStamps, FollowsPast
<1>4. ASSUME NEW a \in Agents, Crash(a) PROVE CausalStamps'
  <2>1. log' = log /\ sending' = [sending EXCEPT ![a] = {}]
      BY <1>4 DEF Crash
  <2>2. ASSUME NEW b \in Agents, NEW k \in sending'[b] PROVE FollowsPast(k)
      BY <1>0, <2>1, <2>2 DEF Shapes
  <2> QED BY <1>1, <2>1, <2>2
<1>5. ASSUME NEW a \in Agents, Setup(a) \/ StartProducer(a) \/ Started(a) \/ Restart(a)
      PROVE  log' = log /\ sending' = sending
    BY <1>5 DEF Setup, StartProducer, Started, Restart
<1>6. ASSUME NEW a \in Agents, NEW t \in Topics,
             StartConsumer(a, t) \/ Consume(a, t) \/ Commit(a, t) \/ Rejoin(a, t)
      PROVE  log' = log /\ sending' = sending
    BY <1>6 DEF StartConsumer, Consume, Commit, Rejoin
<1>7. CASE UNCHANGED vars
    BY <1>0, <1>1, <1>7 DEF vars
<1>8. CASE log' = log /\ sending' = sending
    BY <1>0, <1>1, <1>8
<1> QED BY <1>2, <1>3, <1>4, <1>5, <1>6, <1>7, <1>8 DEF Next

\* A message is stamped later than its causal past (kafka_bus.py publish and
\* _consume, lamport.py), whatever its process takes while it waits for the
\* broker, for any agents, topics, restarts and lost groups.
THEOREM CausalStampsHold == Spec => []CausalStamps
<1>1. Init => IInv /\ CausalInv
    BY IInvInit, CausalInit
<1>2. IInv /\ CausalInv /\ [Next]_vars => (IInv /\ CausalInv)'
    BY IInvStep, ClockedStep, StampsStep DEF CausalInv, Clocked
<1>3. CausalInv => CausalStamps
    BY DEF CausalInv
<1> QED BY <1>1, <1>2, <1>3, PTL DEF Spec

-----------------------------------------------------------------------------
(* The watermark, where it is not shared *)

\* A sender that was never restarted has numbered the records of its topics
\* in the order of their offsets, and what it is sending comes after them.
Numbered(s) ==
    /\ \A m \in sending[s] :
        m.sender = s /\ m.topic \in Publishes[s] /\ m.seq = seq[s]
    /\ \A u \in Topics :
        /\ \A i \in DOMAIN log[u] : log[u][i].sender = s =>
            /\ u \in Publishes[s]
            /\ life[s] = 0 => log[u][i].seq <= seq[s]
            /\ (life[s] = 0 /\ sending[s] # {}) => log[u][i].seq < seq[s]
        /\ life[s] = 0 =>
            \A i, j \in DOMAIN log[u] :
                (i < j /\ log[u][i].sender = s /\ log[u][j].sender = s) =>
                    log[u][i].seq < log[u][j].seq

\* Nobody has heard what is not in a log yet.
Heard(a, s) ==
    life[s] = 0 => seen[a][s] <= seq[s] /\ (sending[s] # {} => seen[a][s] < seq[s])

\* A consumer's records from its start on, without those it jumped over.
Own(a, t, i) == consumer[a][t].from <= i /\ i \notin consumer[a][t].skipped

\* The watermark stands where the consumer of the only topic has put it: what
\* is read is under it, and what is under it has reached the queue.
Accounted(a, s, t) ==
    \A i \in DOMAIN log[t] :
        (Own(a, t, i) /\ log[t][i].sender = s /\ ForMe(a, log[t][i])) =>
            /\ log[t][i].seq <= seen[a][s] => Got(a, log[t][i])
            /\ i < consumer[a][t].next => log[t][i].seq <= seen[a][s]

OneTopic(a, s, t) == (Publishes[s] \cap Subscribes[a]) = {t} /\ life[s] = 0

Kept(a, s, t) ==
    /\ HasConsumer(a, t) => consumer[a][t].from > 0
    /\ OneTopic(a, s, t) =>
        /\ (~HasConsumer(a, t) /\ pc[a] # "down") => seen[a][s] = 0
        /\ HasConsumer(a, t) => Accounted(a, s, t)

QueuedInv ==
    /\ \A s \in Agents : Numbered(s)
    /\ \A a, s \in Agents : Heard(a, s)
    /\ \A a, s \in Agents, t \in Topics : Kept(a, s, t)

LEMMA QueuedInit == Init => QueuedInv
BY DEF Init, QueuedInv, Numbered, Heard, Kept, Accounted, Nothing, NoConsumer

LEMMA LogFields ==
    ASSUME Shapes, NEW u \in Topics
    PROVE  /\ log[u] \in Seq(Messages) /\ Len(log[u]) \in Nat /\ DOMAIN log[u] = 1..Len(log[u])
           /\ \A i \in DOMAIN log[u] :
                /\ log[u][i] \in Messages
                /\ log[u][i].sender \in Agents /\ log[u][i].seq \in Nat /\ log[u][i].seq > 0
<1>1. log[u] \in Seq(Messages)
    BY DEF Shapes
<1>2. Len(log[u]) \in Nat /\ DOMAIN log[u] = 1..Len(log[u])
    BY <1>1
<1>3. \A i \in DOMAIN log[u] : log[u][i] \in Messages
    BY <1>1
<1> QED BY <1>1, <1>2, <1>3 DEF Messages

LEMMA NumberedSame ==
    ASSUME NEW s \in Agents, Numbered(s), log' = log, sending'[s] \subseteq sending[s],
           seq'[s] = seq[s], life'[s] = 0 => life[s] = 0
    PROVE  Numbered(s)'
BY DEF Numbered

LEMMA NumberedPublish ==
    ASSUME IInv, NEW s \in Agents, Numbered(s),
           NEW a \in Agents, NEW t \in Topics, Publish(a, t)
    PROVE  Numbered(s)'
<1>0. Shapes /\ seq[s] \in Nat
    BY DEF IInv, Shapes
<1>1. /\ log' = log /\ life' = life /\ t \in Publishes[a] /\ seq' = [seq EXCEPT ![a] = @ + 1]
    BY DEF Publish
<1>2. PICK m \in Messages : /\ sending' = [sending EXCEPT ![a] = {m}]
                            /\ m.sender = a /\ m.seq = seq[a] + 1 /\ m.topic = t
    BY <1>0, PublishMakes
<1>3. CASE a # s
  <2>1. seq'[s] = seq[s] /\ sending'[s] = sending[s]
      BY <1>0, <1>1, <1>2, <1>3 DEF Shapes
  <2> QED BY <1>1, <2>1, NumberedSame
<1>4. CASE a = s
  <2>1. seq'[s] = seq[s] + 1 /\ sending'[s] = {m}
      BY <1>0, <1>1, <1>2, <1>4 DEF Shapes
  <2>2. ASSUME NEW u \in Topics, NEW i \in DOMAIN log[u], log[u][i].sender = s
        PROVE  /\ u \in Publishes[s] /\ log[u][i].seq \in Nat
               /\ life[s] = 0 => log[u][i].seq <= seq[s]
      BY <1>0, <2>2, LogFields DEF Numbered
  <2>3. ASSUME NEW u \in Topics, NEW i \in DOMAIN log[u], log[u][i].sender = s
        PROVE  /\ u \in Publishes[s]
               /\ life[s] = 0 => log[u][i].seq <= seq'[s] /\ log[u][i].seq < seq'[s]
      BY <1>0, <2>1, <2>2, <2>3
  <2>4. \A k \in sending'[s] : k.sender = s /\ k.topic \in Publishes[s] /\ k.seq = seq'[s]
      BY <1>1, <1>2, <1>4, <2>1
  <2> QED BY <1>1, <2>3, <2>4 DEF Numbered
<1> QED BY <1>3, <1>4

LEMMA NumberedSent ==
    ASSUME IInv, NEW s \in Agents, Numbered(s), NEW a \in Agents, Numbered(a), Sent(a)
    PROVE  Numbered(s)'
<1>0. Shapes /\ seq[s] \in Nat
    BY DEF IInv, Shapes
<1>1. PICK m \in sending[a] : /\ log' = [log EXCEPT ![m.topic] = Append(@, m)]
                              /\ sending' = [sending EXCEPT ![a] = {}]
    BY DEF Sent
<1>2. UNCHANGED <<seq, life>>
    BY DEF Sent
<1>3. /\ m.sender = a /\ m.topic \in Publishes[a] /\ m.seq = seq[a] /\ sending[a] # {}
    BY DEF Numbered
<1>4. /\ a = s => sending'[s] = {}
      /\ a # s => sending'[s] = sending[s]
    BY <1>0, <1>1 DEF Shapes
<1>5. ASSUME NEW u \in Topics
      PROVE  /\ \A i \in DOMAIN log'[u] : log'[u][i].sender = s =>
                  /\ u \in Publishes[s]
                  /\ life[s] = 0 => log'[u][i].seq <= seq[s]
                  /\ (life[s] = 0 /\ sending'[s] # {}) => log'[u][i].seq < seq[s]
             /\ life[s] = 0 =>
                  \A i, j \in DOMAIN log'[u] :
                      (i < j /\ log'[u][i].sender = s /\ log'[u][j].sender = s) =>
                          log'[u][i].seq < log'[u][j].seq
  <2>1. /\ Len(log[u]) \in Nat /\ DOMAIN log[u] = 1..Len(log[u])
        /\ \A i \in DOMAIN log[u] : log[u][i].seq \in Nat
      BY <1>0, LogFields
  <2>2. CASE u # m.topic
    <3>1. log'[u] = log[u]
        BY <1>0, <1>1, <2>2, SentAppends
    <3>2. sending'[s] # {} => sending[s] # {}
        BY <1>4
    <3> QED BY <3>1, <3>2 DEF Numbered
  <2>3. CASE u = m.topic
    <3> DEFINE n == Len(log[u])
               w == log'[u]
    <3>1. /\ n \in Nat /\ DOMAIN w = 1..(n + 1)
          /\ \A i \in 1..n : w[i] = log[u][i]
          /\ w[n + 1] = m /\ u \in Publishes[a]
      <4>1. Grown(u, m)
          BY <1>0, <1>1, <2>3, SentAppends
      <4> QED BY <1>3, <2>3, <4>1 DEF Grown
    <3>2. \A i \in 1..n : w[i].sender = s =>
            /\ u \in Publishes[s] /\ w[i].seq \in Nat
            /\ life[s] = 0 => w[i].seq <= seq[s]
            /\ (life[s] = 0 /\ sending[s] # {}) => w[i].seq < seq[s]
        BY <2>1, <3>1 DEF Numbered
    <3>3. life[s] = 0 => \A i, j \in 1..n :
            (i < j /\ w[i].sender = s /\ w[j].sender = s) => w[i].seq < w[j].seq
        BY <2>1, <3>1 DEF Numbered
    <3> HIDE DEF n, w
    <3>4. \A i \in 1..(n + 1) : i \in 1..n \/ i = n + 1
        BY <3>1
    <3>5. ASSUME NEW i \in 1..(n + 1), w[i].sender = s
          PROVE  /\ u \in Publishes[s]
                 /\ life[s] = 0 => w[i].seq <= seq[s]
                 /\ (life[s] = 0 /\ sending'[s] # {}) => w[i].seq < seq[s]
      <4>1. CASE i \in 1..n
          BY <1>4, <3>2, <3>5, <4>1
      <4>2. CASE i = n + 1
          BY <1>0, <1>3, <1>4, <3>1, <3>5, <4>2
      <4> QED BY <3>4, <4>1, <4>2
    <3>6. ASSUME life[s] = 0, NEW i \in 1..(n + 1), NEW j \in 1..(n + 1),
                 i < j, w[i].sender = s, w[j].sender = s
          PROVE  w[i].seq < w[j].seq
      <4>1. i \in 1..n
          BY <3>1, <3>6
      <4>2. CASE j \in 1..n
          BY <3>3, <3>6, <4>1, <4>2
      <4>3. CASE j = n + 1
          BY <1>3, <3>1, <3>2, <3>6, <4>1, <4>3
      <4> QED BY <3>4, <4>2, <4>3
    <3> QED BY <3>1, <3>5, <3>6 DEF w
  <2> QED BY <2>2, <2>3
<1>6. \A k \in sending'[s] : k.sender = s /\ k.topic \in Publishes[s] /\ k.seq = seq[s]
    BY <1>4 DEF Numbered
<1> QED BY <1>2, <1>5, <1>6 DEF Numbered

LEMMA NumberedStep ==
    ASSUME IInv, \A s \in Agents : Numbered(s), [Next]_vars, NEW s \in Agents
    PROVE  Numbered(s)'
<1>0. Shapes /\ seq \in [Agents -> Nat] /\ life \in [Agents -> Nat] /\ Numbered(s)
    BY DEF IInv, Shapes
<1>1. CASE UNCHANGED <<log, sending, life, seq>>
    BY <1>0, <1>1, NumberedSame
<1>2. ASSUME NEW a \in Agents, NEW t \in Topics, Publish(a, t) PROVE Numbered(s)'
    BY <1>0, <1>2, NumberedPublish
<1>3. ASSUME NEW a \in Agents, Sent(a) PROVE Numbered(s)'
    BY <1>0, <1>3, NumberedSent
<1>4. ASSUME NEW a \in Agents, Crash(a) PROVE Numbered(s)'
  <2>1. UNCHANGED <<log, life, seq>> /\ sending' = [sending EXCEPT ![a] = {}]
      BY <1>4 DEF Crash
  <2>2. sending'[s] \subseteq sending[s]
      BY <1>0, <2>1 DEF Shapes
  <2> QED BY <1>0, <2>1, <2>2, NumberedSame
<1>5. ASSUME NEW a \in Agents, Restart(a) PROVE Numbered(s)'
  <2>1. /\ log' = log /\ sending' = sending /\ life' = [life EXCEPT ![a] = life[a] + 1]
        /\ seq' = [seq EXCEPT ![a] = 0] /\ pc[a] = "down"
      BY <1>5 DEF Restart
  <2>2. CASE a = s
    <3>1. life'[s] # 0
        BY <1>0, <2>1, <2>2
    <3>2. sending[s] = {}
        BY <2>1, <2>2 DEF IInv
    <3> QED BY <1>0, <2>1, <3>1, <3>2 DEF Numbered
  <2>3. CASE a # s
      BY <1>0, <2>1, <2>3, NumberedSame
  <2> QED BY <2>2, <2>3
<1>6. ASSUME NEW a \in Agents, Setup(a) \/ StartProducer(a) \/ Started(a)
      PROVE  UNCHANGED <<log, sending, life, seq>>
    BY <1>6 DEF Setup, StartProducer, Started
<1>7. ASSUME NEW a \in Agents, NEW t \in Topics,
             StartConsumer(a, t) \/ Consume(a, t) \/ Commit(a, t) \/ Rejoin(a, t)
      PROVE  UNCHANGED <<log, sending, life, seq>>
    BY <1>7 DEF StartConsumer, Consume, Commit, Rejoin
<1>8. CASE UNCHANGED vars
    BY <1>1, <1>8 DEF vars
<1> QED BY <1>1, <1>2, <1>3, <1>4, <1>5, <1>6, <1>7, <1>8 DEF Next

LEMMA LifeGrows ==
    ASSUME Shapes, [Next]_vars, NEW s \in Agents
    PROVE  life'[s] = 0 => life[s] = 0
<1>1. ASSUME NEW a \in Agents, Restart(a) PROVE life'[s] = 0 => life[s] = 0
    BY <1>1 DEF Restart, Shapes
<1>2. ASSUME NEW a \in Agents, Setup(a) \/ StartProducer(a) \/ Started(a) \/ Crash(a) \/ Sent(a)
      PROVE  life' = life
    BY <1>2 DEF Setup, StartProducer, Started, Crash, Sent
<1>3. ASSUME NEW a \in Agents, NEW t \in Topics,
             \/ StartConsumer(a, t) \/ Publish(a, t) \/ Consume(a, t)
             \/ Commit(a, t) \/ Rejoin(a, t)
      PROVE  life' = life
    BY <1>3 DEF StartConsumer, Publish, Consume, Commit, Rejoin
<1>4. CASE UNCHANGED vars
    BY <1>4 DEF vars
<1> QED BY <1>1, <1>2, <1>3, <1>4 DEF Next

\* What one read does to the process's place in the log.
LEMMA Consumed ==
    ASSUME IInv, NEW a \in Agents, NEW t \in Topics, Consume(a, t)
    PROVE  /\ consumer[a][t].next \in DOMAIN log[t] /\ NextRecord(a, t) \in Messages
           /\ HasConsumer(a, t)
           /\ UNCHANGED <<log, committed, pc, life, subscribed, sending, seq>>
           /\ consumer'[a][t].from = consumer[a][t].from
           /\ consumer'[a][t].next = consumer[a][t].next + 1
           /\ consumer'[a][t].skipped = consumer[a][t].skipped
           /\ \A b \in Agents, u \in Topics :
                 (b # a \/ u # t) => consumer'[b][u] = consumer[b][u]
<1>0. Shapes
    BY DEF IInv
<1>1. /\ Moved(a, t, Advanced(a, t))
      /\ Advanced(a, t).from = consumer[a][t].from
      /\ Advanced(a, t).next = consumer[a][t].next + 1
      /\ Advanced(a, t).skipped = consumer[a][t].skipped
    BY <1>0, ConsumeMoves
<1>2. consumer[a][t].next \in DOMAIN log[t] /\ NextRecord(a, t) \in Messages
    BY <1>0, NextIsMessage
<1>3. HasConsumer(a, t) /\ UNCHANGED <<log, committed, pc, life, subscribed, sending, seq>>
    BY DEF Consume
<1> QED BY <1>1, <1>2, <1>3 DEF Moved

LEMMA ConsumeTakes ==
    ASSUME IInv, NEW a \in Agents, NEW t \in Topics, Consume(a, t)
    PROVE  \/ /\ seen' = seen /\ received' = received
              /\ ForMe(a, NextRecord(a, t)) => Duplicate(a, NextRecord(a, t))
           \/ /\ ~Duplicate(a, NextRecord(a, t))
              /\ \A b \in Agents, s \in Agents :
                    seen'[b][s] = IF b = a /\ s = NextRecord(a, t).sender
                                  THEN NextRecord(a, t).seq ELSE seen[b][s]
              /\ received' = [received EXCEPT ![a] = Append(@, NextRecord(a, t))]
<1>0. seen \in [Agents -> [Agents -> Nat]] /\ NextRecord(a, t) \in Messages
    BY Consumed DEF IInv, Shapes
<1> DEFINE m == NextRecord(a, t)
<1>1. CASE ForMe(a, m) /\ ~Duplicate(a, m)
  <2>1. /\ seen' = [seen EXCEPT ![a] = SeenAfter(a, m)]
        /\ received' = [received EXCEPT ![a] = Append(@, m)]
      BY <1>1 DEF Consume, NextRecord
  <2> HIDE DEF m
  <2>2. m.sender \in Agents
      BY <1>0 DEF Messages, m
  <2>3. \A b \in Agents, s \in Agents :
          seen'[b][s] = IF b = a /\ s = m.sender THEN m.seq ELSE seen[b][s]
      BY <1>0, <2>1, <2>2 DEF SeenAfter
  <2> QED BY <1>1, <2>1, <2>3 DEF m
<1>2. CASE ~(ForMe(a, m) /\ ~Duplicate(a, m))
  <2>1. seen' = seen /\ received' = received
      BY <1>2 DEF Consume, NextRecord
  <2> HIDE DEF m
  <2> QED BY <1>2, <2>1 DEF m
<1> QED BY <1>1, <1>2

LEMMA GotGrows ==
    ASSUME Shapes, NEW a \in Agents, NEW m,
           received' = [received EXCEPT ![a] = Append(@, m)]
    PROVE  /\ \E i \in DOMAIN received'[a] : received'[a][i] = m
           /\ \A b \in Agents : \A k :
                Got(b, k) => \E i \in DOMAIN received'[b] : received'[b][i] = k
<1> DEFINE n == Len(received[a])
<1>1. n \in Nat /\ DOMAIN received[a] = 1..n
    BY DEF Shapes
<1>2. /\ received'[a] = Append(received[a], m)
      /\ \A b \in Agents : b # a => received'[b] = received[b]
    BY DEF Shapes
<1>3. /\ DOMAIN received'[a] = 1..(n + 1) /\ received'[a][n + 1] = m
      /\ \A i \in 1..n : received'[a][i] = received[a][i]
    BY <1>2 DEF Shapes
<1> HIDE DEF n
<1>4. n + 1 \in 1..(n + 1) /\ 1..n \subseteq 1..(n + 1)
    BY <1>1
<1> QED BY <1>1, <1>2, <1>3, <1>4 DEF Got

LEMMA HeardStep ==
    ASSUME IInv, NEW b \in Agents, NEW s \in Agents, Heard(b, s), Numbered(s), [Next]_vars
    PROVE  Heard(b, s)'
<1>0. /\ Shapes /\ seq[s] \in Nat /\ life[s] \in Nat /\ seen[b][s] \in Nat
      /\ seq \in [Agents -> Nat] /\ life \in [Agents -> Nat]
      /\ sending[s] # {} => pc[s] = "running"
    BY DEF IInv, Shapes
<1>1. CASE UNCHANGED <<life, seq, seen>> /\ sending'[s] \subseteq sending[s]
    BY <1>1 DEF Heard
<1>2. ASSUME NEW a \in Agents, NEW t \in Topics, Publish(a, t) PROVE Heard(b, s)'
  <2>1. /\ seq' = [seq EXCEPT ![a] = seq[a] + 1] /\ life' = life /\ seen' = seen
        /\ a # s => sending'[s] = sending[s]
      BY <1>0, <1>2, PublishMakes DEF Publish, Shapes
  <2>2. (a = s => seq'[s] = seq[s] + 1) /\ (a # s => seq'[s] = seq[s])
      BY <1>0, <2>1
  <2> QED BY <1>0, <2>1, <2>2 DEF Heard
<1>3. ASSUME NEW a \in Agents, NEW t \in Topics, Consume(a, t) PROVE Heard(b, s)'
  <2> DEFINE m == NextRecord(a, t)
  <2>1. consumer[a][t].next \in DOMAIN log[t] /\ UNCHANGED <<life, sending, seq>>
      BY <1>3, Consumed
  <2>2. (m.sender = s /\ life[s] = 0) => m.seq <= seq[s] /\ (sending[s] # {} => m.seq < seq[s])
      BY <2>1 DEF Numbered, NextRecord
  <2>3. seen'[b][s] = seen[b][s] \/ (m.sender = s /\ seen'[b][s] = m.seq)
      BY <1>3, ConsumeTakes
  <2> HIDE DEF m
  <2> QED BY <2>1, <2>2, <2>3 DEF Heard
<1>4. ASSUME NEW a \in Agents, Restart(a) PROVE Heard(b, s)'
  <2>1. /\ life' = [life EXCEPT ![a] = life[a] + 1] /\ seq' = [seq EXCEPT ![a] = 0]
        /\ seen' = [seen EXCEPT ![a] = [q \in Agents |-> 0]] /\ sending' = sending
      BY <1>4 DEF Restart
  <2>2. a = s => life'[s] # 0
      BY <1>0, <2>1
  <2>3. a # s => life'[s] = life[s] /\ seq'[s] = seq[s]
      BY <1>0, <2>1
  <2>4. CASE a = b
    <3>1. seen'[b][s] = 0
        BY <1>0, <2>1, <2>4 DEF Shapes
    <3> QED BY <1>0, <2>1, <2>2, <2>3, <3>1 DEF Heard
  <2>5. CASE a # b
    <3>1. seen'[b][s] = seen[b][s]
        BY <1>0, <2>1, <2>5 DEF Shapes
    <3> QED BY <2>1, <2>2, <2>3, <3>1 DEF Heard
  <2> QED BY <2>4, <2>5
<1>5. ASSUME NEW a \in Agents, Setup(a) \/ StartProducer(a) \/ Started(a)
      PROVE  UNCHANGED <<life, seq, seen, sending>>
    BY <1>5 DEF Setup, StartProducer, Started
<1>6. ASSUME NEW a \in Agents, NEW t \in Topics,
             StartConsumer(a, t) \/ Commit(a, t) \/ Rejoin(a, t)
      PROVE  UNCHANGED <<life, seq, seen, sending>>
    BY <1>6 DEF StartConsumer, Commit, Rejoin
<1>7. ASSUME NEW a \in Agents, Crash(a) \/ Sent(a)
      PROVE  UNCHANGED <<life, seq, seen>> /\ sending'[s] \subseteq sending[s]
    BY <1>0, <1>7 DEF Crash, Sent, Shapes
<1>8. CASE UNCHANGED vars
    BY <1>1, <1>8 DEF vars
<1> QED BY <1>1, <1>2, <1>3, <1>4, <1>5, <1>6, <1>7, <1>8 DEF Next

LEMMA KeptSame ==
    ASSUME NEW b \in Agents, NEW s \in Agents, NEW t \in Topics, Kept(b, s, t),
           consumer'[b][t] = consumer[b][t], log'[t] = log[t],
           seen'[b][s] = seen[b][s], pc'[b] # "down" => pc[b] # "down",
           life'[s] = 0 => life[s] = 0, received'[b] = received[b]
    PROVE  Kept(b, s, t)'
BY DEF Kept, OneTopic, Accounted, Own, Got, ForMe

LEMMA KeptSent ==
    ASSUME IInv, NEW b \in Agents, NEW s \in Agents, NEW t \in Topics, Kept(b, s, t),
           Heard(b, s), NEW a \in Agents, Numbered(a), Sent(a)
    PROVE  Kept(b, s, t)'
<1>a. Shapes /\ Placed(b, t)
    BY DEF IInv
<1>b. seq[s] \in Nat /\ seen[b][s] \in Nat
    BY <1>a DEF Shapes
<1>0. /\ Shapes /\ Placed(b, t) /\ seq[s] \in Nat /\ seen[b][s] \in Nat
      /\ consumer[b][t].next \in Nat
    BY <1>a, <1>b, Offsets
<1>1. UNCHANGED <<committed, pc, life, subscribed, consumer, seq, seen, received>>
    BY DEF Sent
<1>2. PICK m \in sending[a] : log' = [log EXCEPT ![m.topic] = Append(@, m)]
    BY DEF Sent
<1>3. m.sender = a /\ m.seq = seq[a] /\ sending[a] # {}
    BY DEF Numbered
<1>4. CASE t # m.topic
  <2>1. log'[t] = log[t]
      BY <1>0, <1>2, <1>4, SentAppends
  <2> QED BY <1>1, <2>1, KeptSame
<1>5. CASE t = m.topic
  <2> DEFINE n == Len(log[t])
             w == log'[t]
  <2>1. /\ n \in Nat /\ DOMAIN log[t] = 1..n /\ DOMAIN w = 1..(n + 1)
        /\ \A i \in 1..n : w[i] = log[t][i]
        /\ w[n + 1] = m
      BY <1>0, <1>2, <1>5, SentAppends DEF Grown
  <2>2. HasConsumer(b, t) => consumer[b][t].next <= n + 1
      BY <1>0 DEF Placed
  <2> HIDE DEF n, w
  <2>3. ASSUME OneTopic(b, s, t), HasConsumer(b, t), NEW i \in 1..(n + 1),
               Own(b, t, i), w[i].sender = s, ForMe(b, w[i])
        PROVE  /\ w[i].seq <= seen[b][s] => Got(b, w[i])
               /\ i < consumer[b][t].next => w[i].seq <= seen[b][s]
    <3>1. CASE i \in 1..n
        BY <2>1, <2>3, <3>1 DEF Kept, Accounted
    <3>2. CASE i = n + 1
      <4>1. w[i].seq = seq[s] /\ seen[b][s] < seq[s]
          BY <1>3, <2>1, <2>3, <3>2 DEF Heard, OneTopic
      <4> QED BY <1>0, <2>1, <2>2, <2>3, <3>2, <4>1
    <3> QED BY <2>1, <3>1, <3>2
  <2>4. (OneTopic(b, s, t) /\ HasConsumer(b, t)) => Accounted(b, s, t)'
      BY <1>1, <2>1, <2>3 DEF Accounted, Own, Got, ForMe, w
  <2> QED BY <1>1, <2>4 DEF Kept, OneTopic
<1> QED BY <1>4, <1>5

\* A read on the one topic moves the watermark along the offsets; a read on
\* any other topic holds no record of the sender.
LEMMA KeptConsume ==
    ASSUME IInv, NEW b \in Agents, NEW s \in Agents, NEW t \in Topics, Kept(b, s, t),
           Numbered(s), NEW a \in Agents, NEW u \in Topics, Consume(a, u)
    PROVE  Kept(b, s, t)'
<1> DEFINE m == NextRecord(a, u)
           n == consumer[a][u].next
           NowGot(x) == \E i \in DOMAIN received'[b] : received'[b][i] = x
<1>a. Shapes /\ Placed(a, u) /\ subscribed[a] \subseteq Subscribes[a]
    BY DEF IInv
<1>b. seen[b][s] \in Nat
    BY <1>a DEF Shapes
<1>0. /\ Shapes /\ Placed(a, u) /\ subscribed[a] \subseteq Subscribes[a]
      /\ seen[b][s] \in Nat /\ consumer[b][t].from \in Nat
    BY <1>a, <1>b, Offsets
<1>1. /\ n \in DOMAIN log[u] /\ m \in Messages /\ HasConsumer(a, u)
      /\ UNCHANGED <<log, pc, life, subscribed, seq>>
      /\ consumer'[a][u].from = consumer[a][u].from /\ consumer'[a][u].next = n + 1
      /\ consumer'[a][u].skipped = consumer[a][u].skipped
      /\ (b # a \/ t # u) => consumer'[b][t] = consumer[b][t]
    BY Consumed
<1>2. m = log[u][n]
    BY DEF NextRecord
<1>3. \/ seen' = seen /\ received' = received /\ (ForMe(a, m) => Duplicate(a, m))
      \/ /\ ~Duplicate(a, m)
         /\ seen'[b][s] = IF b = a /\ s = m.sender THEN m.seq ELSE seen[b][s]
         /\ received' = [received EXCEPT ![a] = Append(@, m)]
    BY ConsumeTakes
<1> HIDE DEF m, n
<1>4. CASE b # a
  <2>1. received'[b] = received[b]
      BY <1>0, <1>3, <1>4 DEF Shapes
  <2>2. seen'[b][s] = seen[b][s]
      BY <1>3, <1>4
  <2> QED BY <1>1, <1>4, <2>1, <2>2, KeptSame
<1>5. \A k : Got(b, k) => NowGot(k)
  <2>1. CASE received' = received
      BY <2>1 DEF Got
  <2> QED BY <1>0, <1>3, <2>1, GotGrows DEF Got
<1>6. CASE b = a /\ u # t
  <2>1. ASSUME OneTopic(b, s, t) PROVE m.sender # s
    <3>1. u \in Subscribes[b]
        BY <1>0, <1>1, <1>6 DEF Placed
    <3>2. m.sender = s => u \in Publishes[s]
        BY <1>1, <1>2 DEF Numbered
    <3> QED BY <1>6, <2>1, <3>1, <3>2 DEF OneTopic
  <2>2. OneTopic(b, s, t) => seen'[b][s] = seen[b][s]
      BY <1>3, <2>1
  <2>3. consumer'[b][t] = consumer[b][t]
      BY <1>1, <1>6
  <2>4. ASSUME OneTopic(b, s, t), Accounted(b, s, t) PROVE Accounted(b, s, t)'
    <3>1. log' = log
        BY <1>1
    <3> SUFFICES ASSUME NEW i \in DOMAIN log[t],
                        Own(b, t, i), log[t][i].sender = s, ForMe(b, log[t][i])
                 PROVE  /\ log[t][i].seq <= seen[b][s] => NowGot(log[t][i])
                        /\ i < consumer[b][t].next => log[t][i].seq <= seen[b][s]
        BY <2>2, <2>3, <2>4, <3>1 DEF Accounted, Own, ForMe, Got
    <3> QED BY <1>5, <2>4 DEF Accounted
  <2> QED BY <1>1, <2>2, <2>3, <2>4 DEF Kept, OneTopic
<1>7. CASE b = a /\ u = t
  <2>1. /\ consumer'[b][t].from = consumer[b][t].from /\ consumer'[b][t].next = n + 1
        /\ consumer'[b][t].skipped = consumer[b][t].skipped
        /\ n = consumer[b][t].next /\ n \in Nat /\ m = log[t][n]
      BY <1>0, <1>1, <1>2, <1>7, LogFields DEF n
  <2>2. HasConsumer(b, t)' /\ HasConsumer(b, t)
      BY <1>1, <1>7, <2>1
  <2>3. \/ /\ seen'[b][s] = seen[b][s]
           /\ (m.sender = s /\ ForMe(b, m)) => m.seq <= seen[b][s]
        \/ /\ m.sender = s /\ seen'[b][s] = m.seq /\ m.seq \in Nat /\ seen[b][s] < m.seq
           /\ NowGot(m)
    <3>1. CASE seen' = seen /\ received' = received /\ (ForMe(a, m) => Duplicate(a, m))
        BY <1>7, <3>1 DEF Duplicate
    <3>2. CASE /\ ~Duplicate(a, m)
               /\ seen'[b][s] = IF b = a /\ s = m.sender THEN m.seq ELSE seen[b][s]
               /\ received' = [received EXCEPT ![a] = Append(@, m)]
      <4>1. NowGot(m)
          BY <1>0, <1>7, <3>2, GotGrows DEF Got
      <4>2. m.seq \in Nat
          BY <1>1 DEF Messages
      <4>3. m.sender = s => seen[b][s] < m.seq
          BY <1>0, <1>7, <3>2, <4>2 DEF Duplicate
      <4> QED BY <1>7, <3>2, <4>1, <4>2, <4>3
    <3> QED BY <1>3, <3>1, <3>2
  <2>4. ASSUME OneTopic(b, s, t), NEW i \in DOMAIN log[t], Own(b, t, i),
               log[t][i].sender = s, ForMe(b, log[t][i])
        PROVE  /\ log[t][i].seq <= seen'[b][s] => NowGot(log[t][i])
               /\ i < n + 1 => log[t][i].seq <= seen'[b][s]
    <3>1. /\ log[t][i].seq <= seen[b][s] => Got(b, log[t][i])
          /\ i < n => log[t][i].seq <= seen[b][s]
        BY <2>1, <2>2, <2>4 DEF Kept, Accounted
    <3>2. /\ i \in Nat /\ log[t][i].seq \in Nat
        BY <1>0, LogFields
    <3>3. Got(b, log[t][i]) => NowGot(log[t][i])
        BY <1>5
    <3>4. n \in DOMAIN log[t] /\ (i < n + 1 => i < n \/ i = n)
        BY <1>1, <1>7, <2>1, <3>2
    <3>5. \A j, k \in DOMAIN log[t] :
            (j < k /\ log[t][j].sender = s /\ log[t][k].sender = s) =>
                log[t][j].seq < log[t][k].seq
        BY <2>4 DEF Numbered, OneTopic
    <3>6. CASE /\ seen'[b][s] = seen[b][s]
               /\ (m.sender = s /\ ForMe(b, m)) => m.seq <= seen[b][s]
        BY <2>1, <2>4, <3>1, <3>3, <3>4, <3>6
    <3>7. CASE /\ m.sender = s /\ seen'[b][s] = m.seq /\ m.seq \in Nat /\ seen[b][s] < m.seq
               /\ NowGot(m)
      <4>1. CASE i < n
          BY <1>0, <3>1, <3>2, <3>3, <3>7, <4>1
      <4>2. CASE i = n
          BY <2>1, <3>7, <4>2
      <4>3. CASE n < i
        <5>1. m.seq < log[t][i].seq
            BY <2>1, <2>4, <3>4, <3>5, <3>7, <4>3
        <5> QED BY <2>1, <3>2, <3>7, <4>3, <5>1
      <4> QED BY <2>1, <3>2, <4>1, <4>2, <4>3
    <3> QED BY <2>3, <3>6, <3>7
  <2>5. OneTopic(b, s, t) => Accounted(b, s, t)'
    <3>1. log' = log
        BY <1>1
    <3> SUFFICES ASSUME OneTopic(b, s, t), NEW i \in DOMAIN log[t],
                        Own(b, t, i), log[t][i].sender = s, ForMe(b, log[t][i])
                 PROVE  /\ log[t][i].seq <= seen'[b][s] => NowGot(log[t][i])
                        /\ i < n + 1 => log[t][i].seq <= seen'[b][s]
        BY <2>1, <3>1 DEF Accounted, Own, ForMe, Got
    <3> QED BY <2>4
  <2>6. HasConsumer(b, t)' => consumer'[b][t].from > 0
      BY <2>1, <2>2 DEF Kept
  <2> QED BY <1>1, <2>2, <2>5, <2>6 DEF Kept, OneTopic
<1> QED BY <1>4, <1>6, <1>7

LEMMA KeptStep ==
    ASSUME IInv, QueuedInv, [Next]_vars, NEW b \in Agents, NEW s \in Agents, NEW t \in Topics
    PROVE  Kept(b, s, t)'
<1>0. /\ Shapes /\ Placed(b, t) /\ Kept(b, s, t) /\ Heard(b, s) /\ Numbered(s)
      /\ consumer[b][t].from \in Nat /\ consumer[b][t].next \in Nat
      /\ committed[b][t] \in Nat /\ Len(log[t]) \in Nat
    BY Offsets DEF IInv, QueuedInv
<1>1. life'[s] = 0 => life[s] = 0
    BY <1>0, LifeGrows
<1>2. ASSUME NEW a \in Agents, Setup(a) \/ StartProducer(a) \/ Started(a)
      PROVE  Kept(b, s, t)'
  <2>1. UNCHANGED <<log, consumer, seen, received>>
      BY <1>2 DEF Setup, StartProducer, Started
  <2>2. pc[a] # "down" /\ \A c \in Agents : c # a => pc'[c] = pc[c]
      BY <1>0, <1>2 DEF Setup, StartProducer, Started, Shapes
  <2>3. pc'[b] # "down" => pc[b] # "down"
      BY <2>2
  <2> QED BY <1>0, <1>1, <2>1, <2>3, KeptSame
<1>3. ASSUME NEW a \in Agents, NEW u \in Topics, StartConsumer(a, u)
      PROVE  Kept(b, s, t)'
  <2>1. UNCHANGED <<log, pc, life, seen, received>> /\ pc[a] = "starting" /\ ~HasConsumer(a, u)
      BY <1>3 DEF StartConsumer
  <2>2. CASE a = b /\ u = t
    <3>1. consumer'[b][t] = [from |-> Offset(b, t), next |-> Offset(b, t), skipped |-> {}]
        BY <1>0, <1>3, <2>2, StartMoves DEF Moved
    <3>2. Offset(b, t) \in Nat /\ Offset(b, t) > 0
        BY <1>0, OffsetBounds
    <3>3. OneTopic(b, s, t) => seen[b][s] = 0
        BY <1>0, <2>1, <2>2 DEF Kept
    <3>4. \A i \in DOMAIN log[t] : i \in Nat /\ log[t][i].seq \in Nat /\ log[t][i].seq > 0
        BY <1>0, LogFields
    <3>5. OneTopic(b, s, t) => Accounted(b, s, t)'
        BY <2>1, <3>1, <3>2, <3>3, <3>4 DEF Accounted, Own
    <3>6. consumer'[b][t].from > 0 /\ (OneTopic(b, s, t)' => OneTopic(b, s, t))
        BY <2>1, <3>1, <3>2 DEF OneTopic
    <3>7. HasConsumer(b, t)'
        BY <3>1, <3>2
    <3> QED BY <3>5, <3>6, <3>7 DEF Kept
  <2>3. CASE a # b \/ u # t
    <3>1. consumer'[b][t] = consumer[b][t]
      <4>1. Moved(a, u, [from |-> Offset(a, u), next |-> Offset(a, u), skipped |-> {}])
          BY <1>0, <1>3, StartMoves
      <4> QED BY <2>3, <4>1 DEF Moved
    <3> QED BY <1>0, <1>1, <2>1, <3>1, KeptSame
  <2> QED BY <2>2, <2>3
<1>4. ASSUME NEW a \in Agents, NEW u \in Topics, Publish(a, u) PROVE Kept(b, s, t)'
  <2>1. UNCHANGED <<log, consumer, pc, seen, received>>
      BY <1>4 DEF Publish
  <2> QED BY <1>0, <1>1, <2>1, KeptSame
<1>5. ASSUME NEW a \in Agents, NEW u \in Topics, Consume(a, u) PROVE Kept(b, s, t)'
    BY <1>0, <1>5, KeptConsume
<1>6. ASSUME NEW a \in Agents, NEW u \in Topics, Commit(a, u) PROVE Kept(b, s, t)'
  <2>1. UNCHANGED <<log, pc, consumer, seen, received>>
      BY <1>6 DEF Commit
  <2> QED BY <1>0, <1>1, <2>1, KeptSame
<1>7. ASSUME NEW a \in Agents, NEW u \in Topics, Rejoin(a, u) PROVE Kept(b, s, t)'
  <2>1. UNCHANGED <<log, pc, life, seen, received>> /\ HasConsumer(a, u)
      BY <1>7 DEF Rejoin
  <2>2. /\ Moved(a, u, Rejoined(a, u))
        /\ Rejoined(a, u).from = consumer[a][u].from /\ Rejoined(a, u).next = Offset(a, u)
        /\ Rejoined(a, u).skipped =
                consumer[a][u].skipped \cup (consumer[a][u].next .. Offset(a, u) - 1)
      BY <1>0, <1>7, RejoinMoves
  <2>3. CASE b # a \/ t # u
    <3>1. consumer'[b][t] = consumer[b][t]
        BY <2>2, <2>3 DEF Moved
    <3> QED BY <1>0, <1>1, <2>1, <3>1, KeptSame
  <2>4. CASE b = a /\ t = u
    <3>1. /\ consumer'[b][t].from = consumer[b][t].from
          /\ consumer'[b][t].next = Offset(b, t) /\ Offset(b, t) \in Nat /\ Offset(b, t) > 0
          /\ consumer'[b][t].skipped =
                consumer[b][t].skipped \cup (consumer[b][t].next .. Offset(b, t) - 1)
        BY <1>0, <2>2, <2>4, OffsetBounds DEF Moved
    <3>2. HasConsumer(b, t) /\ HasConsumer(b, t)'
        BY <2>1, <2>4, <3>1
    <3>3. ASSUME NEW i \in DOMAIN log[t], Own(b, t, i)', i < consumer'[b][t].next
          PROVE  i < consumer[b][t].next
      <4>1. i \in Nat
          BY <1>0, LogFields
      <4>2. i \notin consumer[b][t].next .. Offset(b, t) - 1 /\ i < Offset(b, t)
          BY <3>1, <3>3 DEF Own
      <4> QED BY <1>0, <3>1, <4>1, <4>2
    <3>4. \A i \in DOMAIN log[t] : Own(b, t, i)' => Own(b, t, i)
        BY <3>1 DEF Own
    <3>5. Accounted(b, s, t) => Accounted(b, s, t)'
        BY <2>1, <3>3, <3>4 DEF Accounted, ForMe, Got
    <3> QED BY <1>0, <2>1, <3>1, <3>2, <3>5 DEF Kept, OneTopic
  <2> QED BY <2>3, <2>4
<1>8. ASSUME NEW a \in Agents, Crash(a) PROVE Kept(b, s, t)'
  <2>1. UNCHANGED <<log, life, seen, received>>
      BY <1>8 DEF Crash
  <2>2. CASE a = b
    <3>1. pc'[b] = "down" /\ ~HasConsumer(b, t)'
        BY <1>0, <1>8, <2>2 DEF Crash, Shapes, Nothing, NoConsumer
    <3> QED BY <3>1 DEF Kept
  <2>3. CASE a # b
    <3>1. pc'[b] = pc[b] /\ consumer'[b] = consumer[b]
        BY <1>0, <1>8, <2>3 DEF Crash, Shapes
    <3> QED BY <1>0, <1>1, <2>1, <3>1, KeptSame
  <2> QED BY <2>2, <2>3
<1>9. ASSUME NEW a \in Agents, Restart(a) PROVE Kept(b, s, t)'
  <2>1. UNCHANGED <<log, consumer>> /\ pc[a] = "down"
      BY <1>9 DEF Restart
  <2>2. CASE a = b
    <3>1. ~HasConsumer(b, t) /\ ~HasConsumer(b, t)'
        BY <1>0, <2>1, <2>2 DEF Placed
    <3>2. seen'[b][s] = 0
        BY <1>0, <1>9, <2>2 DEF Restart, Shapes
    <3> QED BY <3>1, <3>2 DEF Kept
  <2>3. CASE a # b
    <3>1. pc'[b] = pc[b] /\ seen'[b] = seen[b] /\ received'[b] = received[b]
        BY <1>0, <1>9, <2>3 DEF Restart, Shapes
    <3> QED BY <1>0, <1>1, <2>1, <3>1, KeptSame
  <2> QED BY <2>2, <2>3
<1>10. CASE UNCHANGED vars
    BY <1>0, <1>10, KeptSame DEF vars
<1>11. ASSUME NEW a \in Agents, Sent(a) PROVE Kept(b, s, t)'
    BY <1>0, <1>11, KeptSent DEF QueuedInv
<1> QED BY <1>2, <1>3, <1>4, <1>5, <1>6, <1>7, <1>8, <1>9, <1>10, <1>11 DEF Next

LEMMA QueuedStep == IInv /\ QueuedInv /\ [Next]_vars => QueuedInv'
BY NumberedStep, HeardStep, KeptStep DEF QueuedInv

LEMMA QueuedInvImplies == IInv /\ QueuedInv => ReadIsQueued
<1> SUFFICES ASSUME IInv, QueuedInv, NEW a \in Agents, NEW s \in Agents, NEW t \in Subscribes[a],
                    OneTopic(a, s, t), NEW i \in Read(a, t),
                    log[t][i].sender = s, ForMe(a, log[t][i])
             PROVE  Got(a, log[t][i])
    BY DEF ReadIsQueued, OneTopic
<1>1. t \in Topics
    BY AgentsAssumption
<1>2. /\ consumer[a][t].from \in Nat /\ consumer[a][t].next \in Nat /\ Len(log[t]) \in Nat
      /\ DOMAIN log[t] = 1..Len(log[t]) /\ Placed(a, t) /\ Kept(a, s, t)
    BY <1>1, Offsets, LogFields DEF IInv, QueuedInv
<1>3. /\ HasConsumer(a, t) /\ Own(a, t, i) /\ i < consumer[a][t].next
      /\ i \in DOMAIN log[t]
    BY <1>2 DEF Read, Own, Placed, Kept
<1> QED BY <1>2, <1>3 DEF Kept, Accounted

\* What the watermark drops of a sender that was never restarted, and that is
\* heard on one topic only, was taken before (kafka_bus.py _consume): every
\* record that was read of it is in the queue, whatever groups are lost, with
\* or without a committed offset, and whenever the reader was restarted.  It
\* says nothing of records that are never read.
THEOREM ReadIsQueuedHolds == Spec => []ReadIsQueued
<1>1. Init => IInv /\ QueuedInv
    BY IInvInit, QueuedInit
<1>2. IInv /\ QueuedInv /\ [Next]_vars => (IInv /\ QueuedInv)'
    BY IInvStep, QueuedStep
<1> QED BY <1>1, <1>2, QueuedInvImplies, PTL DEF Spec
=============================================================================
