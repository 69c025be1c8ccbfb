------------------------------ MODULE EventHub ------------------------------
(***************************************************************************)
(* The hub that fans live frames out to the dashboards (live/hub.py) and   *)
(* the WebSocket handlers that drain it (live/app.py).  The session and    *)
(* the handlers run on the event loop; /manual/send-dos and -send-legal    *)
(* are plain functions, so FastAPI runs them on worker threads and publish *)
(* is called from several threads at once.  CPython 3.11, the version the  *)
(* project pins, switches threads at calls only: one action runs from one  *)
(* such call to the next.                                                  *)
(*                                                                         *)
(* A name with an underscore is a wrong version of the definition it       *)
(* stands before; the properties are tested against it.                    *)
(***************************************************************************)
EXTENDS Integers, Sequences, FiniteSets

CONSTANTS
    Clients,    \* dashboard connections
    Threads,    \* worker threads that publish
    Loop,       \* the event loop's thread
    MaxQueue,   \* DEFAULT_MAX_QUEUE
    MaxFrames   \* bound: frames published

ASSUME ThreadsAssumption == Loop \notin Threads /\ IsFiniteSet(Threads)
ASSUME SizesAssumption == MaxQueue \in Nat \ {0} /\ MaxFrames \in Nat

VARIABLES
    seq,        \* _seq
    dropped,    \* _dropped
    subs,       \* _subs
    queue,      \* client -> its queue, a frame being its server_seq
    sent,       \* client -> frames sent to it
    offered,    \* client -> offers made to its queue so far
    author,     \* the thread that published each frame
    pub         \* thread -> the publish call it is in

vars == <<seq, dropped, subs, queue, sent, offered, author, pub>>

Publishers == Threads \cup {Loop}
Idle == [at |-> "idle"]

\* A call on the loop's thread runs to its end before the loop goes on.
LoopFree == pub[Loop] = Idle

Init ==
    /\ seq = 0
    /\ dropped = 0
    /\ subs = {}
    /\ queue = [c \in Clients |-> <<>>]
    /\ sent = [c \in Clients |-> <<>>]
    /\ offered = [c \in Clients |-> 0]
    /\ author = <<>>
    /\ pub = [p \in Publishers |-> Idle]

-----------------------------------------------------------------------------
(* publish: number the frame, then offer it to every queue *)

NextSeq_Lost == seq
NextSeq == seq + 1

NumberFrame(p) ==
    /\ pub[p] = Idle /\ seq < MaxFrames
    /\ seq' = NextSeq
    /\ pub' = [pub EXCEPT ![p] = [at |-> "list", frame |-> NextSeq, todo |-> {}]]
    /\ author' = Append(author, p)

\* An agent's event, a round's status frames or a manual action.
Publish(p) ==
    /\ NumberFrame(p)
    /\ UNCHANGED <<dropped, subs, queue, sent, offered>>

\* list(self._subs); a set has no order of its own.
ListSubs(p) ==
    /\ pub[p].at = "list"
    /\ pub' = [pub EXCEPT ![p] = [at |-> "offer", frame |-> pub[p].frame, todo |-> subs]]
    /\ UNCHANGED <<seq, dropped, subs, queue, sent, offered, author>>

Full(c) == Len(queue[c]) >= MaxQueue

\* A wrong version: wait for room, as put would.
Check_Blocking(p, c) ==
    /\ pub[p].at = "offer" /\ c \in pub[p].todo /\ ~Full(c)
    /\ pub' = [pub EXCEPT ![p] = [at |-> "append", frame |-> pub[p].frame,
                                  todo |-> pub[p].todo, to |-> c]]
    /\ UNCHANGED <<seq, dropped, subs, queue, sent, offered, author>>
\* _offer: put_nowait looks whether the queue is full, then appends.
Check(p, c) ==
    /\ pub[p].at = "offer" /\ c \in pub[p].todo
    /\ pub' = [pub EXCEPT ![p] = [at |-> IF Full(c) THEN "evict" ELSE "append",
                                  frame |-> pub[p].frame, todo |-> pub[p].todo, to |-> c]]
    /\ UNCHANGED <<seq, dropped, subs, queue, sent, offered, author>>

\* The oldest frame makes room, if there still is one.  (get_nowait's look and
\* its pop are one step: they come apart only when the queue is drained from
\* full to its last frame in between.)
Evict(p) ==
    /\ pub[p].at = "evict"
    /\ LET c == pub[p].to
       IN /\ queue' = [queue EXCEPT ![c] = IF @ = <<>> THEN @ ELSE Tail(@)]
          /\ pub' = [pub EXCEPT ![p].at = IF queue[c] = <<>> THEN "recheck" ELSE "count"]
    /\ UNCHANGED <<seq, dropped, subs, sent, offered, author>>

DroppedAfterEvict_Uncounted == dropped
DroppedAfterEvict == dropped + 1

Count(p) ==
    /\ pub[p].at = "count"
    /\ dropped' = DroppedAfterEvict
    /\ pub' = [pub EXCEPT ![p].at = "recheck"]
    /\ UNCHANGED <<seq, subs, queue, sent, offered, author>>

Offered(p) ==
    /\ offered' = [offered EXCEPT ![pub[p].to] = @ + 1]
    /\ pub' = [pub EXCEPT ![p] = [at |-> "offer", frame |-> pub[p].frame,
                                  todo |-> pub[p].todo \ {pub[p].to}]]

\* The second put_nowait finds the queue full again: the new frame is dropped.
Recheck(p) ==
    /\ pub[p].at = "recheck"
    /\ IF Full(pub[p].to)
       THEN dropped' = dropped + 1 /\ Offered(p)
       ELSE UNCHANGED <<dropped, offered>> /\ pub' = [pub EXCEPT ![p].at = "append"]
    /\ UNCHANGED <<seq, subs, queue, sent, author>>

Appended_Front(q, frame) == <<frame>> \o q
Appended(q, frame) == Append(q, frame)

AppendFrame(p) ==
    /\ pub[p].at = "append"
    /\ queue' = [queue EXCEPT ![pub[p].to] = Appended(@, pub[p].frame)]
    /\ Offered(p)
    /\ UNCHANGED <<seq, dropped, subs, sent, author>>

Return(p) ==
    /\ pub[p].at = "offer" /\ pub[p].todo = {}
    /\ pub' = [pub EXCEPT ![p] = Idle]
    /\ UNCHANGED <<seq, dropped, subs, queue, sent, offered, author>>

PublishStep(p) ==
    \/ ListSubs(p) \/ Evict(p) \/ Count(p) \/ Recheck(p) \/ AppendFrame(p) \/ Return(p)
    \/ \E c \in Clients : Check(p, c)

-----------------------------------------------------------------------------
(* ws_events: subscribe with an empty queue, drain it, unsubscribe.  Status *)
(* frames are published in pairs; one stands for both.                      *)

\* The new client is sent a snapshot, which emit_status publishes to everyone.
Connect(c) ==
    /\ LoopFree
    /\ c \notin subs /\ offered[c] = 0
    /\ subs' = subs \cup {c}
    /\ NumberFrame(Loop)
    /\ UNCHANGED <<dropped, queue, sent, offered>>

SendFrame(c) ==
    /\ LoopFree
    /\ c \in subs /\ queue[c] # <<>>
    /\ sent' = [sent EXCEPT ![c] = Append(@, Head(queue[c]))]
    /\ queue' = [queue EXCEPT ![c] = Tail(@)]
    /\ UNCHANGED <<seq, dropped, subs, offered, author, pub>>

Disconnect(c) ==
    /\ LoopFree
    /\ c \in subs /\ offered[c] > 0
    /\ subs' = subs \ {c}
    /\ UNCHANGED <<seq, dropped, queue, sent, offered, author, pub>>

Next ==
    \/ \E p \in Publishers : Publish(p) \/ PublishStep(p)
    \/ \E c \in Clients : Connect(c) \/ SendFrame(c) \/ Disconnect(c)

Spec == Init /\ [][Next]_vars

\* Threads are scheduled; clients need not ever take a frame.
Fairness == \A p \in Publishers : WF_vars(PublishStep(p))
FairSpec == Spec /\ Fairness

-----------------------------------------------------------------------------
(* Properties *)

Frames == 1..MaxFrames

\* A client's queue grows past its maximum by no more than the other threads
\* that were between put_nowait's check and its append.
TypeOK ==
    /\ seq \in 0..MaxFrames
    /\ dropped \in Nat
    /\ subs \subseteq Clients
    /\ queue \in [Clients -> Seq(Frames)] /\ sent \in [Clients -> Seq(Frames)]
    /\ offered \in [Clients -> Nat]
    /\ author \in Seq(Publishers) /\ Len(author) = seq
    /\ \A p \in Publishers :
        pub[p] = Idle \/ (pub[p].frame \in Frames /\ pub[p].todo \subseteq Clients)
    /\ \A c \in Clients : Len(queue[c]) <= MaxQueue + Cardinality(Threads)

\* The calls that have evicted a frame and not yet counted it.
Counting == {p \in Publishers : pub[p].at = "count"}

\* Frames offered to a client that neither were sent to it nor wait in its
\* queue, each with a number.
Lost(c) == offered[c] - Len(sent[c]) - Len(queue[c])
Losses == UNION {{c} \X (1..Lost(c)) : c \in Clients}

\* hub.py:3-4 "on overflow the oldest frame is dropped (a slow client never
\* blocks the simulation) and a counter is bumped": every frame offered to a
\* client has been sent to it, waits in its queue, or is counted in dropped as
\* soon as the call that evicted it goes on, however the threads interleave;
\* and no client has more frames than it was offered.
DropsAreCounted ==
    /\ \A c \in Clients : Lost(c) >= 0
    /\ dropped + Cardinality(Counting) = Cardinality(Losses)

\* The frames of one thread, the agents' events above all, reach a client in
\* the order published, whatever the other threads publish and however many
\* frames are dropped.
EachThreadInOrder ==
    \A c \in Clients :
        LET all == sent[c] \o queue[c]
        IN \A i, j \in DOMAIN all :
            (i < j /\ author[all[i]] = author[all[j]]) => all[i] < all[j]

\* "a slow client never blocks the simulation" (hub.py:3-4): a call to publish
\* on the loop's thread returns although no client ever drains its queue.
NeverBlocks == (~LoopFree) ~> LoopFree
=============================================================================
