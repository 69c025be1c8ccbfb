------------------------------ MODULE KafkaBus ------------------------------
(***************************************************************************)
(* The production bus: one KafkaBus per agent process, one Kafka consumer  *)
(* group per subscription (common/messaging/kafka_bus.py), and the life of *)
(* the process around it (agents/_common/runner.py).  The broker keeps one *)
(* log per topic (auto-created topics have one partition) and the          *)
(* committed offset of each group; it delivers at least once: a consumer   *)
(* that loses its place in the group goes on from the committed offset,    *)
(* and from the end of the log when nothing was committed.                 *)
(*                                                                         *)
(* KafkaBus.publish awaits the broker between the stamp of a message and   *)
(* its place in the log; the tasks of the subscriptions run meanwhile.     *)
(*                                                                         *)
(* A name with an underscore is a wrong version of the definition it       *)
(* stands before; the properties are tested against it.                    *)
(***************************************************************************)
EXTENDS Integers, Sequences

CONSTANTS
    Agents,          \* agent processes
    Topics,
    Publishes,       \* agent -> topics it publishes on
    Subscribes,      \* agent -> topics its setup() subscribes to
    Receivers,       \* topic -> sets of agents that a message of it may be meant for
    SubscribeFirst,  \* TRUE: subscribe, then start (the tests); FALSE: runner.py
    CanRestart,      \* bound: processes that may stop and be started again
    CanRejoin,       \* bound: processes whose consumers commit, and may lose their groups
    MaxSeq,          \* bound: agent -> messages one process of it publishes
    MaxLife          \* bound: times a process is started

ASSUME AgentsAssumption ==
    /\ Publishes \in [Agents -> SUBSET Topics]
    /\ Subscribes \in [Agents -> SUBSET Topics]
ASSUME ChoicesAssumption ==
    /\ Receivers \in [Topics -> SUBSET SUBSET Agents] /\ SubscribeFirst \in BOOLEAN
    /\ CanRestart \subseteq Agents /\ CanRejoin \subseteq Agents
ASSUME BoundsAssumption == MaxSeq \in [Agents -> Nat] /\ MaxLife \in Nat

VARIABLES
    log,         \* topic -> messages, in the broker's order
    sending,     \* agent -> the message it awaits the broker for, none or one
    committed,   \* agent -> topic -> offset committed by the group, 0: none
    pc,          \* agent -> where its process is
    life,        \* agent -> times it was restarted
    subscribed,  \* agent -> topics in _pending_subs
    consumer,    \* agent -> topic -> [from, next] offsets of its consumer, and those
                 \* between that it jumped over; next 0: none
    seq,         \* agent -> BaseAgent._seq
    clock,       \* agent -> the bus's LamportClock
    seen,        \* agent -> sender -> _seen
    received,    \* agent -> messages put in its queues, in order of arrival
    past         \* history: agent -> stamps of all that its next message follows

broker == <<log, committed>>
process == <<pc, life, subscribed>>
taken == <<seen, received>>
vars == <<broker, process, taken, sending, consumer, seq, clock, past>>

NoConsumer == [from |-> 0, next |-> 0, skipped |-> {}]
Nothing == [t \in Topics |-> NoConsumer]
HasConsumer(a, t) == consumer[a][t].next # 0

Maximum(x, y) == IF x > y THEN x ELSE y
-----------------------------------------------------------------------------
Init ==
    /\ log = [t \in Topics |-> <<>>]
    /\ sending = [a \in Agents |-> {}]
    /\ committed = [a \in Agents |-> [t \in Topics |-> 0]]
    /\ pc = [a \in Agents |-> "new"]
    /\ life = [a \in Agents |-> 0]
    /\ subscribed = [a \in Agents |-> {}]
    /\ consumer = [a \in Agents |-> Nothing]
    /\ seq = [a \in Agents |-> 0]
    /\ clock = [a \in Agents |-> 0]
    /\ seen = [a \in Agents |-> [s \in Agents |-> 0]]
    /\ received = [a \in Agents |-> <<>>]
    /\ past = [a \in Agents |-> {}]

-----------------------------------------------------------------------------
(* Start of a process *)

\* setup() subscribes to every topic of the agent.
Setup(a) ==
    /\ pc[a] = (IF SubscribeFirst THEN "new" ELSE "started")
    /\ subscribed' = [subscribed EXCEPT ![a] = Subscribes[a]]
    /\ pc' = [pc EXCEPT ![a] = IF SubscribeFirst THEN "subscribed" ELSE "running"]
    /\ UNCHANGED <<broker, life, taken, sending, consumer, seq, clock, past>>

StartProducer(a) ==
    /\ pc[a] = (IF SubscribeFirst THEN "subscribed" ELSE "new")
    /\ pc' = [pc EXCEPT ![a] = "starting"]
    /\ UNCHANGED <<broker, life, subscribed, taken, sending, consumer, seq, clock, past>>

Offset_PastEnd(a, t) == IF committed[a][t] # 0 THEN committed[a][t] ELSE Len(log[t]) + 2
\* Where a consumer of the group begins: auto_offset_reset is "latest".
Offset(a, t) == IF committed[a][t] # 0 THEN committed[a][t] ELSE Len(log[t]) + 1

StartConsumer(a, t) ==
    /\ pc[a] = "starting"
    /\ t \in subscribed[a] /\ ~HasConsumer(a, t)
    /\ consumer' = [consumer EXCEPT
            ![a][t] = [from |-> Offset(a, t), next |-> Offset(a, t), skipped |-> {}]]
    /\ UNCHANGED <<broker, process, taken, sending, seq, clock, past>>

\* start() returns once every subscription it found has its consumer.
Started(a) ==
    /\ pc[a] = "starting"
    /\ \A t \in subscribed[a] : HasConsumer(a, t)
    /\ pc' = [pc EXCEPT ![a] = IF SubscribeFirst THEN "running" ELSE "started"]
    /\ UNCHANGED <<broker, life, subscribed, taken, sending, consumer, seq, clock, past>>

-----------------------------------------------------------------------------
(* Messages *)

\* BaseAgent.publish numbers the message and KafkaBus.publish stamps it.  An
\* agent awaits one publication before it makes the next.
Publish(a, t) ==
    /\ pc[a] = "running" /\ t \in Publishes[a] /\ sending[a] = {}
    /\ seq[a] < MaxSeq[a]
    /\ seq' = [seq EXCEPT ![a] = @ + 1]
    /\ clock' = [clock EXCEPT ![a] = @ + 1]
    /\ past' = [past EXCEPT ![a] = @ \cup {clock[a] + 1}]
    /\ \E to \in Receivers[t] :
        sending' = [sending EXCEPT ![a] =
            {[sender |-> a, life |-> life[a], seq |-> seq[a] + 1, ts |-> clock[a] + 1,
              topic |-> t, to |-> to, past |-> past[a]]}]
    /\ UNCHANGED <<broker, process, taken, consumer>>

\* send_and_wait: the broker appends the message.
Sent(a) ==
    \E m \in sending[a] :
        /\ log' = [log EXCEPT ![m.topic] = Append(@, m)]
        /\ sending' = [sending EXCEPT ![a] = {}]
        /\ UNCHANGED <<committed, process, taken, consumer, seq, clock, past>>

ForMe(a, m) == m.sender # a /\ a \in m.to

Duplicate_OffByOne(a, m) == m.seq <= seen[a][m.sender] + 1
Duplicate(a, m) == m.seq <= seen[a][m.sender]

ClockAfter_TickOnly(a, m) == clock[a] + 1
ClockAfter(a, m) == Maximum(clock[a], m.ts) + 1

SeenAfter_Unchanged(a, m) == seen[a]
SeenAfter(a, m) == [seen[a] EXCEPT ![m.sender] = m.seq]

\* _consume takes the next record of one subscription; the watermark _seen of
\* a sender is one for all subscriptions of the process.
Consume(a, t) ==
    /\ HasConsumer(a, t) /\ consumer[a][t].next <= Len(log[t])
    /\ consumer' = [consumer EXCEPT ![a][t].next = @ + 1]
    /\ LET m == log[t][consumer[a][t].next]
       IN IF ForMe(a, m) /\ ~Duplicate(a, m)
          THEN /\ seen' = [seen EXCEPT ![a] = SeenAfter(a, m)]
               /\ clock' = [clock EXCEPT ![a] = ClockAfter(a, m)]
               /\ received' = [received EXCEPT ![a] = Append(@, m)]
               /\ past' = [past EXCEPT ![a] = @ \cup m.past \cup {m.ts}]
          ELSE UNCHANGED <<seen, clock, received, past>>
    /\ UNCHANGED <<broker, process, sending, seq>>

-----------------------------------------------------------------------------
(* The consumer group on the broker, and restarts *)

\* enable_auto_commit.
Commit(a, t) ==
    /\ a \in CanRejoin /\ HasConsumer(a, t) /\ committed[a][t] # consumer[a][t].next
    /\ committed' = [committed EXCEPT ![a][t] = consumer[a][t].next]
    /\ UNCHANGED <<log, process, taken, sending, consumer, seq, clock, past>>

\* The consumer lost its place in the group and joins again: back at the
\* committed offset, or past all it has not read when there is none.
Rejoin(a, t) ==
    /\ a \in CanRejoin /\ HasConsumer(a, t) /\ Offset(a, t) # consumer[a][t].next
    /\ consumer' = [consumer EXCEPT
            ![a][t].next = Offset(a, t),
            ![a][t].skipped = @ \cup (consumer[a][t].next .. Offset(a, t) - 1)]
    /\ UNCHANGED <<broker, process, taken, sending, seq, clock, past>>

\* A message the broker does not have yet is lost.
Crash(a) ==
    /\ a \in CanRestart /\ pc[a] # "down"
    /\ pc' = [pc EXCEPT ![a] = "down"]
    /\ consumer' = [consumer EXCEPT ![a] = Nothing]
    /\ sending' = [sending EXCEPT ![a] = {}]
    /\ UNCHANGED <<broker, life, subscribed, taken, seq, clock, past>>

\* A new process: a new bus and a new agent, numbering its messages from 1.
Restart(a) ==
    /\ pc[a] = "down" /\ life[a] < MaxLife
    /\ pc' = [pc EXCEPT ![a] = "new"]
    /\ life' = [life EXCEPT ![a] = @ + 1]
    /\ subscribed' = [subscribed EXCEPT ![a] = {}]
    /\ seq' = [seq EXCEPT ![a] = 0]
    /\ clock' = [clock EXCEPT ![a] = 0]
    /\ seen' = [seen EXCEPT ![a] = [s \in Agents |-> 0]]
    /\ received' = [received EXCEPT ![a] = <<>>]
    /\ past' = [past EXCEPT ![a] = {}]
    /\ UNCHANGED <<broker, sending, consumer>>

Next ==
    \E a \in Agents :
        \/ Setup(a) \/ StartProducer(a) \/ Started(a) \/ Crash(a) \/ Restart(a)
        \/ Sent(a)
        \/ \E t \in Topics :
            \/ StartConsumer(a, t) \/ Publish(a, t) \/ Consume(a, t)
            \/ Commit(a, t) \/ Rejoin(a, t)

Spec == Init /\ [][Next]_vars

-----------------------------------------------------------------------------
(* Properties *)

Messages ==
    [sender: Agents, life: Nat, seq: Nat \ {0}, ts: Nat \ {0}, topic: Topics,
     to: SUBSET Agents, past: SUBSET Nat]
Consumers == [from: Nat, next: Nat, skipped: SUBSET Nat]
PcLabels == {"new", "subscribed", "starting", "started", "running", "down"}

\* The shape of the bus: a consumer is somewhere between where it began and the
\* end of its topic's log, and only a subscription has one.
TypeOK ==
    /\ log \in [Topics -> Seq(Messages)] /\ sending \in [Agents -> SUBSET Messages]
    /\ committed \in [Agents -> [Topics -> Nat]]
    /\ pc \in [Agents -> PcLabels]
    /\ life \in [Agents -> Nat]
    /\ subscribed \in [Agents -> SUBSET Topics]
    /\ consumer \in [Agents -> [Topics -> Consumers]]
    /\ \A a \in Agents : \A t \in Topics : HasConsumer(a, t) =>
        /\ t \in subscribed[a]
        /\ consumer[a][t].from <= consumer[a][t].next
        /\ consumer[a][t].next <= Len(log[t]) + 1
    /\ seq \in [Agents -> Nat] /\ clock \in [Agents -> Nat]
    /\ seen \in [Agents -> [Agents -> Nat]]
    /\ received \in [Agents -> Seq(Messages)] /\ past \in [Agents -> SUBSET Nat]

\* Idempotent dedup on (sender, seq) (kafka_bus.py:5-6): however often the
\* broker delivers a record again, and whichever subscription it comes by, a
\* process takes the messages of a sender once each and in the order sent.
InOrderOnce ==
    \A a \in Agents : \A i, j \in DOMAIN received[a] :
        (i < j /\ received[a][i].sender = received[a][j].sender) =>
            received[a][i].seq < received[a][j].seq

FollowsPast(m) == \A ts \in m.past : ts < m.ts

\* "Lamport stamping on publish" (kafka_bus.py:5): a message is stamped later
\* than everything in its causal past, which is what its process had sent and
\* taken and all that came before those, however long the message then waits
\* for the broker and whatever its process takes meanwhile.
CausalStamps ==
    /\ \A a \in Agents : \A m \in sending[a] : FollowsPast(m)
    /\ \A t \in Topics : \A i \in DOMAIN log[t] : FollowsPast(log[t][i])

\* The records a consumer has read.
Read(a, t) ==
    (consumer[a][t].from .. consumer[a][t].next - 1) \ consumer[a][t].skipped
Got(a, m) == \E i \in DOMAIN received[a] : received[a][i] = m

\* What the watermark drops of a sender that was never restarted, and that a
\* process hears on one topic only, it had taken before: every record the
\* process has read of it is in its queue, whatever groups are lost.  (Records
\* that a reset to "latest" jumps over are never read.)
ReadIsQueued ==
    \A a, s \in Agents : \A t \in Subscribes[a] :
        ((Publishes[s] \cap Subscribes[a]) = {t} /\ life[s] = 0) =>
            \A i \in Read(a, t) :
                LET m == log[t][i] IN (m.sender = s /\ ForMe(a, m)) => Got(a, m)

\* kafka_bus.py:4-5 "Each subscription is its own Kafka consumer group, so every
\* subscriber receives every message": what any subscription has read has
\* reached the queue, on every topic.
EverySubscriberReceives ==
    \A a \in Agents : \A t \in Subscribes[a] : \A i \in Read(a, t) :
        ForMe(a, log[t][i]) => Got(a, log[t][i])
=============================================================================
