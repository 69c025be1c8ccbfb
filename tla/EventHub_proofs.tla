-------------------------- MODULE EventHub_proofs --------------------------
(***************************************************************************)
(* The hub for any clients, threads and sizes: how far a queue can grow,   *)
(* that the frames of one thread reach a client in order, and that no      *)
(* frame is lost without being counted.                                    *)
(***************************************************************************)
EXTENDS EventHub, FiniteSetTheorems, TLAPS

Offering == {"evict", "count", "recheck", "append"}
Calls ==
    {Idle} \cup [at: {"list", "offer"}, frame: Frames, todo: SUBSET Clients]
    \cup [at: Offering, frame: Frames, todo: SUBSET Clients, to: Clients]

Shapes ==
    /\ seq \in 0..MaxFrames
    /\ dropped \in Nat
    /\ subs \subseteq Clients
    /\ queue \in [Clients -> Seq(Frames)] /\ sent \in [Clients -> Seq(Frames)]
    /\ offered \in [Clients -> Nat]
    /\ author \in Seq(Publishers) /\ Len(author) = seq
    /\ pub \in [Publishers -> Calls]

LEMMA CallFields ==
    ASSUME Shapes, NEW p \in Publishers
    PROVE  /\ pub[p].at \in {"idle", "list", "offer"} \cup Offering
           /\ pub[p].at = "idle" => pub[p] = Idle
           /\ pub[p].at # "idle" => pub[p].frame \in Frames /\ pub[p].todo \subseteq Clients
           /\ pub[p].at \in {"list", "offer"} =>
                pub[p] = [at |-> pub[p].at, frame |-> pub[p].frame, todo |-> pub[p].todo]
           /\ pub[p].at \in Offering =>
                /\ pub[p].to \in Clients
                /\ pub[p] = [at |-> pub[p].at, frame |-> pub[p].frame, todo |-> pub[p].todo,
                             to |-> pub[p].to]
<1>1. pub[p] \in Calls
    BY DEF Shapes
<1>2. CASE pub[p] = Idle
    BY <1>2 DEF Idle, Offering
<1>3. CASE pub[p] \in [at: {"list", "offer"}, frame: Frames, todo: SUBSET Clients]
    BY <1>3 DEF Offering
<1>4. CASE pub[p] \in [at: Offering, frame: Frames, todo: SUBSET Clients, to: Clients]
    BY <1>4 DEF Offering
<1> QED BY <1>1, <1>2, <1>3, <1>4 DEF Calls

-----------------------------------------------------------------------------
(* What each step of a call does to the call and to the queues *)

\* The call of p goes on as c; the others stay.
GoesOn(p, c) ==
    /\ c \in Calls /\ pub' \in [Publishers -> Calls] /\ pub'[p] = c
    /\ \A q \in Publishers : q # p => pub'[q] = pub[q]

LEMMA CallGoesOn ==
    ASSUME Shapes, NEW p \in Publishers, NEW c \in Calls, pub' = [pub EXCEPT ![p] = c]
    PROVE  GoesOn(p, c)
BY DEF Shapes, GoesOn

At(p, x) == [at |-> x, frame |-> pub[p].frame, todo |-> pub[p].todo, to |-> pub[p].to]

LEMMA AtMoves ==
    ASSUME Shapes, NEW p \in Publishers, pub[p].at \in Offering, NEW x \in Offering,
           pub' = [pub EXCEPT ![p].at = x]
    PROVE  GoesOn(p, At(p, x))
<1>1. /\ pub[p] = [at |-> pub[p].at, frame |-> pub[p].frame, todo |-> pub[p].todo,
                   to |-> pub[p].to]
      /\ pub[p].to \in Clients /\ pub[p].frame \in Frames /\ pub[p].todo \subseteq Clients
    BY CallFields DEF Offering
<1>2. [pub[p] EXCEPT !.at = x] = At(p, x)
    BY <1>1 DEF At
<1>3. At(p, x) \in Calls
    BY <1>1 DEF At, Calls
<1>4. pub' = [pub EXCEPT ![p] = At(p, x)]
    BY <1>2
<1> QED BY <1>3, <1>4, CallGoesOn

LEMMA Numbered ==
    ASSUME Shapes, NEW p \in Publishers, NumberFrame(p)
    PROVE  /\ pub[p].at = "idle" /\ seq' = seq + 1 /\ seq' \in Frames
           /\ author' \in Seq(Publishers) /\ Len(author') = seq'
           /\ author'[seq'] = p /\ \A i \in 1..seq : author'[i] = author[i]
           /\ GoesOn(p, [at |-> "list", frame |-> seq', todo |-> {}])
<1>1. pub[p] = Idle /\ seq < MaxFrames /\ seq' = seq + 1 /\ author' = Append(author, p)
    BY DEF NumberFrame, NextSeq
<1>2. seq \in Nat /\ MaxFrames \in Nat /\ author \in Seq(Publishers) /\ Len(author) = seq
    BY SizesAssumption DEF Shapes
<1>3. seq' \in Frames
    BY <1>1, <1>2 DEF Frames
<1>4. /\ author' \in Seq(Publishers) /\ Len(author') = seq'
      /\ author'[seq'] = p /\ \A i \in 1..seq : author'[i] = author[i]
    BY <1>1, <1>2
<1> DEFINE c == [at |-> "list", frame |-> seq', todo |-> {}]
<1>5. c \in Calls
    BY <1>3 DEF Calls
<1>6. pub' = [pub EXCEPT ![p] = c]
    BY DEF NumberFrame
<1> HIDE DEF c
<1>7. GoesOn(p, c)
    BY <1>5, <1>6, CallGoesOn
<1>8. pub[p].at = "idle"
    BY <1>1 DEF Idle
<1> QED BY <1>1, <1>3, <1>4, <1>7, <1>8 DEF c

LEMMA Listed ==
    ASSUME Shapes, NEW p \in Publishers, ListSubs(p)
    PROVE  /\ pub[p].at = "list"
           /\ GoesOn(p, [at |-> "offer", frame |-> pub[p].frame, todo |-> subs])
<1> DEFINE c == [at |-> "offer", frame |-> pub[p].frame, todo |-> subs]
<1>1. pub[p].at = "list"
    BY DEF ListSubs
<1>2. pub[p].frame \in Frames
    BY <1>1, CallFields
<1>3. c \in Calls
    BY <1>2 DEF Calls, Shapes
<1>4. pub' = [pub EXCEPT ![p] = c]
    BY DEF ListSubs
<1> HIDE DEF c
<1>5. GoesOn(p, c)
    BY <1>3, <1>4, CallGoesOn
<1> QED BY <1>1, <1>5 DEF c

LEMMA Checked ==
    ASSUME Shapes, NEW p \in Publishers, NEW c \in Clients, Check(p, c)
    PROVE  /\ pub[p].at = "offer" /\ c \in pub[p].todo
           /\ GoesOn(p, [at |-> IF Full(c) THEN "evict" ELSE "append",
                         frame |-> pub[p].frame, todo |-> pub[p].todo, to |-> c])
<1>1. pub[p].at = "offer" /\ c \in pub[p].todo
    BY DEF Check
<1>2. pub[p].frame \in Frames /\ pub[p].todo \subseteq Clients
    BY <1>1, CallFields
<1> DEFINE d == [at |-> IF Full(c) THEN "evict" ELSE "append",
                 frame |-> pub[p].frame, todo |-> pub[p].todo, to |-> c]
<1>3. d \in Calls
    BY <1>2 DEF Calls, Offering
<1>4. pub' = [pub EXCEPT ![p] = d]
    BY DEF Check
<1> HIDE DEF d
<1>5. GoesOn(p, d)
    BY <1>3, <1>4, CallGoesOn
<1> QED BY <1>1, <1>5 DEF d

\* The end of one offer.
LEMMA OfferEnds ==
    ASSUME Shapes, NEW p \in Publishers, pub[p].at \in Offering, Offered(p)
    PROVE  /\ GoesOn(p, [at |-> "offer", frame |-> pub[p].frame,
                         todo |-> pub[p].todo \ {pub[p].to}])
           /\ offered' \in [Clients -> Nat]
<1>1. /\ pub[p].to \in Clients /\ pub[p].frame \in Frames /\ pub[p].todo \subseteq Clients
    BY CallFields DEF Offering
<1> DEFINE d == [at |-> "offer", frame |-> pub[p].frame, todo |-> pub[p].todo \ {pub[p].to}]
<1>2. d \in Calls
    BY <1>1 DEF Calls
<1>3. pub' = [pub EXCEPT ![p] = d] /\ offered' = [offered EXCEPT ![pub[p].to] = @ + 1]
    BY DEF Offered
<1> HIDE DEF d
<1>4. GoesOn(p, d)
    BY <1>2, <1>3, CallGoesOn
<1>5. offered' \in [Clients -> Nat]
    BY <1>1, <1>3 DEF Shapes
<1> QED BY <1>4, <1>5 DEF d

\* The queue of one client becomes w.
QueueOf(c, w) ==
    /\ queue' \in [Clients -> Seq(Frames)] /\ queue'[c] = w
    /\ \A d \in Clients : d # c => queue'[d] = queue[d]

LEMMA Evicted ==
    ASSUME Shapes, NEW p \in Publishers, Evict(p)
    PROVE  LET c == pub[p].to
           IN /\ pub[p].at = "evict" /\ c \in Clients
              /\ GoesOn(p, At(p, IF queue[c] = <<>> THEN "recheck" ELSE "count"))
              /\ QueueOf(c, IF queue[c] = <<>> THEN queue[c] ELSE Tail(queue[c]))
<1> DEFINE c == pub[p].to
           x == IF queue[c] = <<>> THEN "recheck" ELSE "count"
           w == IF queue[c] = <<>> THEN queue[c] ELSE Tail(queue[c])
<1>1. pub[p].at = "evict" /\ c \in Clients
    BY CallFields DEF Evict, Offering
<1>2. pub' = [pub EXCEPT ![p].at = x] /\ queue' = [queue EXCEPT ![c] = w]
    BY DEF Evict
<1>3. x \in Offering
    BY DEF Offering
<1>4. queue[c] \in Seq(Frames)
    BY <1>1 DEF Shapes
<1>5. w \in Seq(Frames)
    BY <1>4
<1> HIDE DEF c, x, w
<1>6. pub[p].at \in Offering
    BY <1>1 DEF Offering
<1>7. GoesOn(p, At(p, x))
    BY <1>2, <1>3, <1>6, AtMoves
<1>8. QueueOf(c, w)
    BY <1>1, <1>2, <1>5 DEF Shapes, QueueOf
<1> QED BY <1>1, <1>7, <1>8 DEF c, x, w

LEMMA FrameAppended ==
    ASSUME Shapes, NEW p \in Publishers, AppendFrame(p)
    PROVE  LET c == pub[p].to
           IN /\ pub[p].at = "append" /\ c \in Clients
              /\ GoesOn(p, [at |-> "offer", frame |-> pub[p].frame, todo |-> pub[p].todo \ {c}])
              /\ offered' \in [Clients -> Nat]
              /\ QueueOf(c, Append(queue[c], pub[p].frame))
<1> DEFINE c == pub[p].to
           w == Append(queue[c], pub[p].frame)
<1>1. pub[p].at = "append" /\ pub[p].at \in Offering
    BY DEF AppendFrame, Offering
<1>2. c \in Clients /\ pub[p].frame \in Frames
    BY <1>1, CallFields
<1>3. Offered(p) /\ queue' = [queue EXCEPT ![c] = w]
    BY DEF AppendFrame, Appended
<1>4. queue[c] \in Seq(Frames)
    BY <1>2 DEF Shapes
<1>5. w \in Seq(Frames)
    BY <1>2, <1>4
<1> HIDE DEF w
<1>6. QueueOf(c, w)
    BY <1>2, <1>3, <1>5 DEF Shapes, QueueOf
<1> QED BY <1>1, <1>2, <1>3, <1>6, OfferEnds DEF w

LEMMA FrameSent ==
    ASSUME Shapes, NEW c \in Clients, SendFrame(c)
    PROVE  /\ queue[c] \in Seq(Frames) /\ queue[c] # <<>>
           /\ QueueOf(c, Tail(queue[c]))
           /\ sent' \in [Clients -> Seq(Frames)]
           /\ sent'[c] = Append(sent[c], Head(queue[c]))
           /\ \A d \in Clients : d # c => sent'[d] = sent[d]
<1>1. queue[c] \in Seq(Frames) /\ queue[c] # <<>> /\ sent[c] \in Seq(Frames)
    BY DEF Shapes, SendFrame
<1>2. Tail(queue[c]) \in Seq(Frames) /\ Append(sent[c], Head(queue[c])) \in Seq(Frames)
    BY <1>1
<1>3. /\ queue' = [queue EXCEPT ![c] = Tail(queue[c])]
      /\ sent' = [sent EXCEPT ![c] = Append(sent[c], Head(queue[c]))]
    BY DEF SendFrame
<1>4. QueueOf(c, Tail(queue[c]))
    BY <1>2, <1>3 DEF Shapes, QueueOf
<1> QED BY <1>1, <1>2, <1>3, <1>4 DEF Shapes

LEMMA Rechecked ==
    ASSUME Shapes, NEW p \in Publishers, Recheck(p)
    PROVE  /\ pub[p].at = "recheck" /\ pub[p].to \in Clients /\ UNCHANGED queue
           /\ dropped' \in Nat /\ offered' \in [Clients -> Nat]
           /\ \/ GoesOn(p, [at |-> "offer", frame |-> pub[p].frame,
                            todo |-> pub[p].todo \ {pub[p].to}])
              \/ ~Full(pub[p].to) /\ GoesOn(p, At(p, "append"))
<1>1. pub[p].at = "recheck" /\ pub[p].at \in Offering /\ "append" \in Offering
    BY DEF Recheck, Offering
<1>2. pub[p].to \in Clients
    BY <1>1, CallFields
<1>3. CASE Full(pub[p].to)
  <2>1. Offered(p) /\ dropped' = dropped + 1 /\ UNCHANGED queue
      BY <1>3 DEF Recheck
  <2>2. dropped' \in Nat
      BY <2>1 DEF Shapes
  <2> QED BY <1>1, <1>2, <2>1, <2>2, OfferEnds
<1>4. CASE ~Full(pub[p].to)
  <2>1. UNCHANGED <<dropped, offered, queue>> /\ pub' = [pub EXCEPT ![p].at = "append"]
      BY <1>4 DEF Recheck
  <2>2. GoesOn(p, At(p, "append"))
      BY <1>1, <2>1, AtMoves
  <2> QED BY <1>1, <1>2, <1>4, <2>1, <2>2 DEF Shapes
<1> QED BY <1>3, <1>4

LEMMA Counted ==
    ASSUME Shapes, NEW p \in Publishers, Count(p)
    PROVE  /\ pub[p].at = "count" /\ UNCHANGED queue /\ dropped' \in Nat
           /\ GoesOn(p, At(p, "recheck"))
<1>1. pub[p].at = "count" /\ pub[p].at \in Offering /\ "recheck" \in Offering
    BY DEF Count, Offering
<1>2. pub' = [pub EXCEPT ![p].at = "recheck"] /\ UNCHANGED queue /\ dropped' = dropped + 1
    BY DEF Count, DroppedAfterEvict
<1>3. GoesOn(p, At(p, "recheck"))
    BY <1>1, <1>2, AtMoves
<1> QED BY <1>1, <1>2, <1>3 DEF Shapes

LEMMA Returned ==
    ASSUME Shapes, NEW p \in Publishers, Return(p)
    PROVE  pub[p].at = "offer" /\ GoesOn(p, Idle)
<1>1. Idle \in Calls /\ pub' = [pub EXCEPT ![p] = Idle]
    BY DEF Calls, Return
<1> QED BY <1>1, CallGoesOn DEF Return

LEMMA ShapesInit == Init => Shapes
BY SizesAssumption DEF Init, Shapes, Calls

LEMMA ShapesStep == Shapes /\ [Next]_vars => Shapes'
<1> SUFFICES ASSUME Shapes, [Next]_vars PROVE Shapes'
    OBVIOUS
<1>0. Loop \in Publishers
    BY DEF Publishers
<1>1. ASSUME NEW p \in Publishers, NumberFrame(p), UNCHANGED <<dropped, queue, sent, offered>>,
             subs' \subseteq Clients
      PROVE  Shapes'
  <2>1. seq' \in 0..MaxFrames
      BY <1>1, Numbered DEF Frames
  <2>2. author' \in Seq(Publishers) /\ Len(author') = seq' /\ pub' \in [Publishers -> Calls]
      BY <1>1, Numbered DEF GoesOn
  <2> QED BY <1>1, <2>1, <2>2 DEF Shapes
<1>2. ASSUME NEW p \in Publishers, Publish(p) PROVE Shapes'
    BY <1>1, <1>2 DEF Publish, Shapes
<1>3. ASSUME NEW c \in Clients, Connect(c) PROVE Shapes'
    BY <1>0, <1>1, <1>3 DEF Connect, Shapes
<1>4. ASSUME NEW p \in Publishers, ListSubs(p) PROVE Shapes'
    BY <1>4, Listed DEF ListSubs, GoesOn, Shapes
<1>5. ASSUME NEW p \in Publishers, NEW c \in Clients, Check(p, c) PROVE Shapes'
    BY <1>5, Checked DEF Check, GoesOn, Shapes
<1>6. ASSUME NEW p \in Publishers, Evict(p) PROVE Shapes'
    BY <1>6, Evicted DEF Evict, GoesOn, QueueOf, Shapes
<1>7. ASSUME NEW p \in Publishers, Count(p) PROVE Shapes'
    BY <1>7, Counted DEF Count, GoesOn, Shapes
<1>8. ASSUME NEW p \in Publishers, Recheck(p) PROVE Shapes'
    BY <1>8, Rechecked DEF Recheck, GoesOn, Shapes
<1>9. ASSUME NEW p \in Publishers, AppendFrame(p) PROVE Shapes'
    BY <1>9, FrameAppended DEF AppendFrame, GoesOn, QueueOf, Shapes
<1>10. ASSUME NEW p \in Publishers, Return(p) PROVE Shapes'
    BY <1>10, Returned DEF Return, GoesOn, Shapes
<1>11. ASSUME NEW c \in Clients, SendFrame(c) PROVE Shapes'
    BY <1>11, FrameSent DEF SendFrame, QueueOf, Shapes
<1>12. ASSUME NEW c \in Clients, Disconnect(c) PROVE Shapes'
    BY <1>12 DEF Disconnect, Shapes
<1>13. CASE UNCHANGED vars
    BY <1>13 DEF vars, Shapes
<1> QED BY <1>2, <1>3, <1>4, <1>5, <1>6, <1>7, <1>8, <1>9, <1>10, <1>11, <1>12, <1>13
        DEF Next, PublishStep

-----------------------------------------------------------------------------
(* How far a queue can grow *)

\* The threads between put_nowait's look at a queue and its append to it.
Appending(c) == {p \in Publishers : pub[p].at = "append" /\ pub[p].to = c}

Room(c) == Len(queue[c]) + Cardinality(Appending(c)) <= MaxQueue + Cardinality(Threads)

LEMMA PublishersCounted ==
    /\ IsFiniteSet(Publishers) /\ Cardinality(Threads) \in Nat
    /\ Cardinality(Publishers) = Cardinality(Threads) + 1
BY ThreadsAssumption, FS_AddElement, FS_CardinalityType DEF Publishers

LEMMA AppendingCounted ==
    ASSUME NEW c
    PROVE  /\ IsFiniteSet(Appending(c)) /\ Cardinality(Appending(c)) \in Nat
           /\ Cardinality(Appending(c)) <= Cardinality(Threads) + 1
<1>1. Appending(c) \in SUBSET Publishers
    BY DEF Appending
<1>2. IsFiniteSet(Appending(c)) /\ Cardinality(Appending(c)) <= Cardinality(Publishers)
    BY <1>1, PublishersCounted, FS_Subset
<1> QED BY <1>2, PublishersCounted, FS_CardinalityType

LEMMA LenNat ==
    ASSUME Shapes, NEW c \in Clients
    PROVE  queue[c] \in Seq(Frames) /\ Len(queue[c]) \in Nat
<1>1. queue[c] \in Seq(Frames)
    BY DEF Shapes
<1> QED BY <1>1

LEMMA RoomInit == Init => \A c \in Clients : Room(c)
<1> SUFFICES ASSUME Init, NEW c \in Clients PROVE Room(c)
    OBVIOUS
<1>1. Appending(c) = {} /\ queue[c] = <<>>
    BY DEF Init, Appending, Idle
<1>2. Cardinality(Appending(c)) = 0
    BY <1>1, FS_EmptySet
<1> QED BY <1>1, <1>2, PublishersCounted, SizesAssumption DEF Room

\* Nothing is put into the queue and nobody new is about to append.
LEMMA RoomKept ==
    ASSUME Shapes, Shapes', NEW c \in Clients, Room(c),
           Len(queue'[c]) <= Len(queue[c]), Appending(c)' \subseteq Appending(c)
    PROVE  Room(c)'
<1>1. Cardinality(Appending(c)') <= Cardinality(Appending(c)) /\ Cardinality(Appending(c)') \in Nat
    BY AppendingCounted, FS_Subset, FS_CardinalityType
<1>2. Len(queue[c]) \in Nat /\ Len(queue'[c]) \in Nat
  <2>1. queue[c] \in Seq(Frames) /\ queue'[c] \in Seq(Frames)
      BY DEF Shapes
  <2> QED BY <2>1
<1>3. Cardinality(Appending(c)) \in Nat
    BY AppendingCounted
<1> QED BY <1>1, <1>2, <1>3, PublishersCounted, SizesAssumption DEF Room

\* Whoever goes on to append has just found a free place.
LEMMA RoomFound ==
    ASSUME Shapes, NEW c \in Clients, UNCHANGED queue, ~Full(c)
    PROVE  Room(c)'
<1>1. Cardinality(Appending(c)') \in Nat /\ Cardinality(Appending(c)') <= Cardinality(Threads) + 1
  <2>1. Appending(c)' \in SUBSET Publishers
      BY DEF Appending
  <2>2. /\ IsFiniteSet(Appending(c)')
        /\ Cardinality(Appending(c)') <= Cardinality(Publishers)
      BY <2>1, PublishersCounted, FS_Subset
  <2> QED BY <2>2, PublishersCounted, FS_CardinalityType
<1>2. Len(queue[c]) \in Nat /\ queue'[c] = queue[c]
    BY LenNat
<1>3. Len(queue[c]) < MaxQueue
    BY <1>2, SizesAssumption DEF Full
<1> QED BY <1>1, <1>2, <1>3, PublishersCounted, SizesAssumption DEF Room

LEMMA RoomStep ==
    ASSUME Shapes, Shapes', [Next]_vars, NEW d \in Clients, Room(d)
    PROVE  Room(d)'
<1>0. /\ queue[d] \in Seq(Frames) /\ Len(queue[d]) \in Nat /\ Loop \in Publishers
    BY LenNat DEF Publishers
<1>1. ASSUME NEW p \in Publishers, NEW c, GoesOn(p, c), c.at # "append"
      PROVE  Appending(d)' \subseteq Appending(d)
    BY <1>1 DEF GoesOn, Appending
<1>2. ASSUME NEW p \in Publishers, NEW c, GoesOn(p, c), c.at # "append", UNCHANGED queue
      PROVE  Room(d)'
    BY <1>0, <1>1, <1>2, RoomKept
<1>3. ASSUME NEW p \in Publishers, NEW c \in Clients, NEW k, GoesOn(p, k), k.to = c,
             ~Full(c), UNCHANGED queue
      PROVE  Room(d)'
  <2>1. CASE d = c
      BY <1>3, <2>1, RoomFound
  <2>2. CASE d # c
    <3>1. Appending(d)' \subseteq Appending(d)
        BY <1>3, <2>2 DEF GoesOn, Appending
    <3> QED BY <1>0, <1>3, <3>1, RoomKept
  <2> QED BY <2>1, <2>2
<1>4. ASSUME NEW p \in Publishers, NumberFrame(p), UNCHANGED queue PROVE Room(d)'
  <2> DEFINE c == [at |-> "list", frame |-> seq', todo |-> {}]
  <2>1. GoesOn(p, c) /\ c.at # "append"
      BY <1>4, Numbered
  <2> HIDE DEF c
  <2> QED BY <1>2, <1>4, <2>1
<1>5. ASSUME NEW p \in Publishers, Publish(p) PROVE Room(d)'
    BY <1>4, <1>5 DEF Publish
<1>6. ASSUME NEW c \in Clients, Connect(c) PROVE Room(d)'
    BY <1>0, <1>4, <1>6 DEF Connect
<1>7. ASSUME NEW p \in Publishers, ListSubs(p) PROVE Room(d)'
  <2> DEFINE c == [at |-> "offer", frame |-> pub[p].frame, todo |-> subs]
  <2>1. GoesOn(p, c) /\ c.at # "append" /\ UNCHANGED queue
      BY <1>7, Listed DEF ListSubs
  <2> HIDE DEF c
  <2> QED BY <1>2, <2>1
<1>8. ASSUME NEW p \in Publishers, NEW c \in Clients, Check(p, c) PROVE Room(d)'
  <2> DEFINE k == [at |-> IF Full(c) THEN "evict" ELSE "append",
                   frame |-> pub[p].frame, todo |-> pub[p].todo, to |-> c]
  <2>1. GoesOn(p, k) /\ k.to = c /\ UNCHANGED queue /\ (Full(c) => k.at # "append")
      BY <1>8, Checked DEF Check
  <2> HIDE DEF k
  <2> QED BY <1>2, <1>3, <2>1
<1>9. ASSUME NEW p \in Publishers, Evict(p) PROVE Room(d)'
  <2> DEFINE c == pub[p].to
             k == At(p, IF queue[c] = <<>> THEN "recheck" ELSE "count")
             w == IF queue[c] = <<>> THEN queue[c] ELSE Tail(queue[c])
  <2>1. GoesOn(p, k) /\ QueueOf(c, w) /\ c \in Clients
      BY <1>9, Evicted
  <2>2. k.at # "append"
      BY DEF At
  <2>3. queue[c] \in Seq(Frames)
      BY <2>1, LenNat
  <2>4. Len(w) <= Len(queue[c])
      BY <2>3
  <2> HIDE DEF c, k, w
  <2>5. Len(queue'[d]) <= Len(queue[d])
      BY <1>0, <2>1, <2>4 DEF QueueOf
  <2> QED BY <1>1, <2>1, <2>2, <2>5, RoomKept
<1>10. ASSUME NEW p \in Publishers, Count(p) PROVE Room(d)'
  <2>1. At(p, "recheck").at # "append" /\ GoesOn(p, At(p, "recheck")) /\ UNCHANGED queue
      BY <1>10, Counted DEF At
  <2> QED BY <1>2, <2>1
<1>11. ASSUME NEW p \in Publishers, Recheck(p) PROVE Room(d)'
  <2> DEFINE k == [at |-> "offer", frame |-> pub[p].frame, todo |-> pub[p].todo \ {pub[p].to}]
  <2>1. k.at # "append" /\ At(p, "append").to = pub[p].to
      BY DEF At
  <2>2. /\ pub[p].to \in Clients /\ UNCHANGED queue
        /\ GoesOn(p, k) \/ (~Full(pub[p].to) /\ GoesOn(p, At(p, "append")))
      BY <1>11, Rechecked
  <2> HIDE DEF k
  <2> QED BY <1>2, <1>3, <2>1, <2>2
<1>12. ASSUME NEW p \in Publishers, AppendFrame(p) PROVE Room(d)'
  <2> DEFINE c == pub[p].to
             k == [at |-> "offer", frame |-> pub[p].frame, todo |-> pub[p].todo \ {c}]
             w == Append(queue[c], pub[p].frame)
  <2>1. /\ pub[p].at = "append" /\ c \in Clients /\ GoesOn(p, k) /\ QueueOf(c, w)
        /\ k.at # "append"
      BY <1>12, FrameAppended
  <2>2. queue[c] \in Seq(Frames) /\ Len(queue[c]) \in Nat
      BY <2>1, LenNat
  <2>3. Len(w) = Len(queue[c]) + 1
      BY <2>2
  <2>4. CASE d # c
    <3> HIDE DEF c, k, w
    <3>1. queue'[d] = queue[d] /\ Appending(d)' \subseteq Appending(d)
        BY <1>1, <2>1, <2>4 DEF QueueOf
    <3> QED BY <1>0, <3>1, RoomKept
  <2>5. CASE d = c
    <3>1. p \in Appending(d)
        BY <2>1, <2>5 DEF Appending
    <3> HIDE DEF c, k, w
    <3>2. Appending(d)' = Appending(d) \ {p}
        BY <2>1, <2>5 DEF GoesOn, Appending, c
    <3>3. Cardinality(Appending(d)') = Cardinality(Appending(d)) - 1
        BY <3>1, <3>2, AppendingCounted, FS_RemoveElement
    <3>4. Len(queue'[d]) = Len(queue[d]) + 1
        BY <2>1, <2>3, <2>5 DEF QueueOf
    <3> QED BY <1>0, <3>3, <3>4, AppendingCounted, PublishersCounted, SizesAssumption DEF Room
  <2> QED BY <2>4, <2>5
<1>13. ASSUME NEW p \in Publishers, Return(p) PROVE Room(d)'
  <2>1. GoesOn(p, Idle) /\ Idle.at # "append" /\ UNCHANGED queue
      BY <1>13, Returned DEF Return, Idle
  <2> QED BY <1>2, <2>1
<1>14. ASSUME NEW c \in Clients, SendFrame(c) PROVE Room(d)'
  <2>1. queue[c] \in Seq(Frames) /\ queue[c] # <<>> /\ QueueOf(c, Tail(queue[c]))
      BY <1>14, FrameSent
  <2>2. Len(Tail(queue[c])) <= Len(queue[c])
      BY <2>1
  <2>3. Len(queue'[d]) <= Len(queue[d])
      BY <1>0, <2>1, <2>2 DEF QueueOf
  <2>4. Appending(d)' \subseteq Appending(d)
      BY <1>14 DEF SendFrame, Appending
  <2> QED BY <2>3, <2>4, RoomKept
<1>15. ASSUME UNCHANGED <<queue, pub>> PROVE Room(d)'
    BY <1>15 DEF Room, Appending
<1>16. ASSUME NEW c \in Clients, Disconnect(c) PROVE Room(d)'
    BY <1>15, <1>16 DEF Disconnect
<1>17. CASE UNCHANGED vars
    BY <1>15, <1>17 DEF vars
<1> QED BY <1>5, <1>6, <1>7, <1>8, <1>9, <1>10, <1>11, <1>12, <1>13, <1>14, <1>16, <1>17
        DEF Next, PublishStep

LEMMA ShapesAndRoom == Shapes /\ (\A c \in Clients : Room(c)) => TypeOK
<1> SUFFICES ASSUME Shapes, \A c \in Clients : Room(c) PROVE TypeOK
    OBVIOUS
<1>1. ASSUME NEW c \in Clients PROVE Len(queue[c]) <= MaxQueue + Cardinality(Threads)
  <2>1. Room(c) /\ Len(queue[c]) \in Nat /\ Cardinality(Appending(c)) \in Nat
      BY LenNat, AppendingCounted
  <2> QED BY <2>1, PublishersCounted, SizesAssumption DEF Room
<1>2. ASSUME NEW p \in Publishers
      PROVE  pub[p] = Idle \/ (pub[p].frame \in Frames /\ pub[p].todo \subseteq Clients)
    BY CallFields
<1> QED BY <1>1, <1>2 DEF TypeOK, Shapes

\* However many threads publish at once, a client's queue (hub.py _offer)
\* grows past its maximum by no more than the worker threads that were between
\* the look at the queue and the append, and everything keeps its shape.
THEOREM TypeCorrect == Spec => []TypeOK
<1> DEFINE I == Shapes /\ (\A c \in Clients : Room(c))
<1>1. Init => I
    BY ShapesInit, RoomInit
<1>2. I /\ [Next]_vars => I'
  <2> SUFFICES ASSUME Shapes, \A c \in Clients : Room(c), [Next]_vars PROVE I'
      OBVIOUS
  <2>1. Shapes'
      BY ShapesStep
  <2>2. ASSUME NEW c \in Clients PROVE Room(c)'
      BY <2>1, RoomStep
  <2> QED BY <2>1, <2>2
<1>3. I => TypeOK
    BY ShapesAndRoom
<1> HIDE DEF I
<1> QED BY <1>1, <1>2, <1>3, PTL DEF Spec

-----------------------------------------------------------------------------
(* The order of frames *)

LEMMA MoveHead ==
    ASSUME NEW S, NEW s \in Seq(S), NEW q \in Seq(S), q # <<>>
    PROVE  Append(s, Head(q)) \o Tail(q) = s \o q
OBVIOUS

LEMMA AppendLast ==
    ASSUME NEW S, NEW s \in Seq(S), NEW q \in Seq(S), NEW x \in S
    PROVE  s \o Append(q, x) = Append(s \o q, x)
OBVIOUS

Part(less, all) ==
    \E f \in [DOMAIN less -> DOMAIN all] :
        /\ \A i \in DOMAIN less : less[i] = all[f[i]]
        /\ \A i, j \in DOMAIN less : i < j => f[i] < f[j]

\* What is left when the first waiting frame goes is a part of it in its order.
LEMMA DropHead ==
    ASSUME NEW S, NEW s \in Seq(S), NEW q \in Seq(S), q # <<>>
    PROVE  Part(s \o Tail(q), s \o q)
<1> DEFINE all == s \o q
           less == s \o Tail(q)
           f == [i \in DOMAIN less |-> IF i <= Len(s) THEN i ELSE i + 1]
<1>1. \A i \in DOMAIN less : f[i] \in DOMAIN all /\ less[i] = all[f[i]]
    OBVIOUS
<1>2. \A i, j \in DOMAIN less : i < j => f[i] < f[j]
    OBVIOUS
<1>3. f \in [DOMAIN less -> DOMAIN all]
    BY <1>1
<1> HIDE DEF f, less, all
<1>4. Part(less, all)
    BY <1>1, <1>2, <1>3 DEF Part
<1> QED BY <1>4 DEF less, all

LEMMA PartOfItself ==
    ASSUME NEW S, NEW s \in Seq(S)
    PROVE  Part(s, s)
<1> DEFINE f == [i \in DOMAIN s |-> i]
<1>1. f \in [DOMAIN s -> DOMAIN s] /\ \A i \in DOMAIN s : f[i] = i
    OBVIOUS
<1> HIDE DEF f
<1> QED BY <1>1 DEF Part

\* The frames of s are numbered up to n, those of one author in a ascend, and
\* those of p are older than f.
Upto(s, n) == \A i \in DOMAIN s : s[i] \in 1..n
Ascends(s, a) == \A i, j \in DOMAIN s : (i < j /\ a[s[i]] = a[s[j]]) => s[i] < s[j]
Older(s, a, p, f) == \A i \in DOMAIN s : a[s[i]] = p => s[i] < f

LEMMA PartKeeps ==
    ASSUME NEW all, NEW less, Part(less, all), NEW n, NEW a
    PROVE  /\ Upto(all, n) => Upto(less, n)
           /\ Ascends(all, a) => Ascends(less, a)
           /\ \A p, f : Older(all, a, p, f) => Older(less, a, p, f)
<1>1. PICK g \in [DOMAIN less -> DOMAIN all] :
        /\ \A i \in DOMAIN less : less[i] = all[g[i]]
        /\ \A i, j \in DOMAIN less : i < j => g[i] < g[j]
    BY DEF Part
<1>2. Upto(all, n) => Upto(less, n)
    BY <1>1 DEF Upto
<1>3. Ascends(all, a) => Ascends(less, a)
    BY <1>1 DEF Ascends
<1>4. \A p, f : Older(all, a, p, f) => Older(less, a, p, f)
    BY <1>1 DEF Older
<1> QED BY <1>2, <1>3, <1>4

\* A frame of p put behind frames of p that are all older.
LEMMA AppendKeeps ==
    ASSUME NEW n \in Nat, NEW s \in Seq(Nat), NEW x \in 1..n, NEW a, NEW p,
           Upto(s, n), Ascends(s, a), Older(s, a, p, x), a[x] = p
    PROVE  /\ Upto(Append(s, x), n)
           /\ Ascends(Append(s, x), a)
           /\ \A q, f : q # p /\ Older(s, a, q, f) => Older(Append(s, x), a, q, f)
<1> DEFINE m == Len(s)
           w == Append(s, x)
<1>1. /\ m \in Nat /\ DOMAIN s = 1..m /\ DOMAIN w = 1..(m + 1)
      /\ \A i \in 1..m : w[i] = s[i]
      /\ w[m + 1] = x
    OBVIOUS
<1> HIDE DEF m, w
<1>2. \A i \in 1..(m + 1) : i \in 1..m \/ i = m + 1
    BY <1>1
<1>3. Upto(w, n)
    BY <1>1, <1>2 DEF Upto
<1>4. Ascends(w, a)
  <2> SUFFICES ASSUME NEW i \in 1..(m + 1), NEW j \in 1..(m + 1), i < j, a[w[i]] = a[w[j]]
               PROVE  w[i] < w[j]
      BY <1>1 DEF Ascends
  <2>1. i \in 1..m
      BY <1>1
  <2>2. CASE j \in 1..m
      BY <1>1, <2>1, <2>2 DEF Ascends
  <2>3. CASE j = m + 1
      BY <1>1, <2>1, <2>3 DEF Older
  <2> QED BY <1>2, <2>2, <2>3
<1>5. \A q, f : q # p /\ Older(s, a, q, f) => Older(w, a, q, f)
    BY <1>1, <1>2 DEF Older
<1> QED BY <1>3, <1>4, <1>5 DEF w

\* Later frames have authors of their own.
LEMMA AuthorsKeep ==
    ASSUME NEW n \in Nat, NEW s, NEW a, NEW b, Upto(s, n),
           \A i \in 1..n : b[i] = a[i]
    PROVE  /\ Upto(s, n + 1)
           /\ Ascends(s, a) => Ascends(s, b)
           /\ \A p, f : Older(s, a, p, f) => Older(s, b, p, f)
           /\ \A p : Older(s, b, p, n + 1)
BY DEF Upto, Ascends, Older

\* All that has come to a client, sent or waiting.
Delivered(c) == sent[c] \o queue[c]

\* A call that may still append its frame to the queue of c.
Pends(k, c) == k.at = "list" \/ (k.at \in {"offer"} \cup Offering /\ c \in k.todo)

CallOrder(p) ==
    /\ pub[p].at # "idle" => pub[p].frame \in 1..seq /\ author[pub[p].frame] = p
    /\ pub[p].at \in Offering => pub[p].to \in pub[p].todo
    /\ \A c \in Clients :
        Pends(pub[p], c) => Older(Delivered(c), author, p, pub[p].frame)

ClientOrder(c) == Upto(Delivered(c), seq) /\ Ascends(Delivered(c), author)

OrderInv ==
    /\ \A c \in Clients : ClientOrder(c)
    /\ \A p \in Publishers : CallOrder(p)

LEMMA DeliveredSeq ==
    ASSUME Shapes, NEW c \in Clients
    PROVE  /\ sent[c] \in Seq(Frames) /\ queue[c] \in Seq(Frames)
           /\ Delivered(c) \in Seq(Frames) /\ Delivered(c) \in Seq(Nat)
<1>1. sent[c] \in Seq(Frames) /\ queue[c] \in Seq(Frames)
    BY DEF Shapes
<1>2. sent[c] \in Seq(Nat) /\ queue[c] \in Seq(Nat)
    BY <1>1, SizesAssumption DEF Frames
<1> QED BY <1>1, <1>2 DEF Delivered

LEMMA OrderInit == Init => OrderInv
<1> SUFFICES ASSUME Init PROVE OrderInv
    OBVIOUS
<1>1. ASSUME NEW c \in Clients PROVE Delivered(c) = <<>>
    BY DEF Init, Delivered
<1>2. ASSUME NEW c \in Clients PROVE ClientOrder(c)
    BY <1>1 DEF ClientOrder, Upto, Ascends
<1>3. ASSUME NEW p \in Publishers PROVE CallOrder(p)
    BY DEF Init, Idle, CallOrder, Pends, Offering
<1> QED BY <1>2, <1>3 DEF OrderInv

\* A new frame is later than all that has come to any client.
LEMMA OrderNumber ==
    ASSUME Shapes, OrderInv, NEW p \in Publishers, NumberFrame(p), UNCHANGED <<queue, sent>>
    PROVE  OrderInv'
<1> DEFINE k == [at |-> "list", frame |-> seq', todo |-> {}]
<1>1. /\ seq' = seq + 1 /\ author'[seq'] = p /\ \A i \in 1..seq : author'[i] = author[i]
      /\ GoesOn(p, k)
    BY Numbered
<1>2. k.at = "list" /\ k.frame = seq' /\ k.at \notin Offering
    BY DEF Offering
<1> HIDE DEF k
<1>3. seq \in Nat
    BY SizesAssumption DEF Shapes
<1>4. ASSUME NEW c \in Clients
      PROVE  /\ Delivered(c)' = Delivered(c)
             /\ Upto(Delivered(c), seq) /\ Ascends(Delivered(c), author)
    BY <1>4 DEF Delivered, OrderInv, ClientOrder
<1>5. ASSUME NEW c \in Clients
      PROVE  /\ Upto(Delivered(c), seq + 1) /\ Ascends(Delivered(c), author')
             /\ \A q, f : Older(Delivered(c), author, q, f) => Older(Delivered(c), author', q, f)
             /\ \A q : Older(Delivered(c), author', q, seq + 1)
    BY <1>1, <1>3, <1>4, AuthorsKeep
<1>6. ASSUME NEW c \in Clients PROVE ClientOrder(c)'
    BY <1>1, <1>4, <1>5 DEF ClientOrder
<1>7. ASSUME NEW q \in Publishers PROVE CallOrder(q)'
  <2>1. CASE q = p
      BY <1>1, <1>2, <1>3, <1>4, <1>5, <2>1 DEF GoesOn, CallOrder
  <2>2. CASE q # p
    <3>1. pub'[q] = pub[q] /\ CallOrder(q)
        BY <1>1, <2>2 DEF GoesOn, OrderInv
    <3>2. pub[q].at # "idle" =>
            pub[q].frame \in 1..(seq + 1) /\ author'[pub[q].frame] = q
        BY <1>1, <1>3, <3>1 DEF CallOrder
    <3>3. \A c \in Clients : Pends(pub[q], c) => Older(Delivered(c), author', q, pub[q].frame)
        BY <1>5, <3>1 DEF CallOrder
    <3> QED BY <1>1, <1>4, <3>1, <3>2, <3>3 DEF CallOrder
  <2> QED BY <2>1, <2>2
<1> QED BY <1>6, <1>7 DEF OrderInv

\* A call goes on with the same frame, to no client it had done with.
Continues(p, k) ==
    /\ GoesOn(p, k)
    /\ k.at # "idle" => pub[p].at # "idle" /\ k.frame = pub[p].frame
    /\ k.at \in Offering => k.to \in k.todo
    /\ \A c \in Clients : Pends(k, c) => Pends(pub[p], c)

\* Nothing but a part of what had come to any client remains.
LEMMA OrderParts ==
    ASSUME Shapes, OrderInv, NEW p \in Publishers, NEW k, Continues(p, k),
           seq' = seq, author' = author,
           \A c \in Clients : Part(Delivered(c)', Delivered(c))
    PROVE  OrderInv'
<1>1. ASSUME NEW c \in Clients PROVE ClientOrder(c)'
    BY <1>1, PartKeeps DEF OrderInv, ClientOrder
<1>2. ASSUME NEW q \in Publishers, NEW c \in Clients, NEW f,
             Older(Delivered(c), author, q, f)
      PROVE  Older(Delivered(c)', author, q, f)
    BY <1>2, PartKeeps
<1>3. ASSUME NEW q \in Publishers PROVE CallOrder(q)'
  <2>0. CallOrder(q)
      BY DEF OrderInv
  <2>1. CASE q = p
    <3>1. pub'[p] = k /\ CallOrder(p)
        BY <2>0, <2>1 DEF Continues, GoesOn
    <3>2. ASSUME NEW c \in Clients, Pends(k, c)
          PROVE  Older(Delivered(c)', author, p, k.frame)
      <4>1. Pends(pub[p], c) /\ k.at # "idle" /\ k.frame = pub[p].frame
          BY <3>2 DEF Continues, Pends, Offering
      <4>2. Older(Delivered(c), author, p, pub[p].frame)
          BY <3>1, <4>1 DEF CallOrder
      <4> QED BY <1>2, <4>1, <4>2
    <3>3. k.at # "idle" => k.frame \in 1..seq /\ author[k.frame] = p
        BY <3>1 DEF Continues, CallOrder
    <3>4. k.at \in Offering => k.to \in k.todo
        BY DEF Continues
    <3> QED BY <2>1, <3>1, <3>2, <3>3, <3>4 DEF CallOrder
  <2>2. CASE q # p
      BY <1>2, <2>0, <2>2 DEF Continues, GoesOn, CallOrder
  <2> QED BY <2>1, <2>2
<1> QED BY <1>1, <1>3 DEF OrderInv

\* The frame is put behind all that had come to the client; no other client
\* notices.
LEMMA OrderAppend ==
    ASSUME Shapes, OrderInv, NEW p \in Publishers, AppendFrame(p)
    PROVE  OrderInv'
<1>1. PICK d \in Clients, x \in Frames : d = pub[p].to /\ x = pub[p].frame
    BY CallFields DEF AppendFrame, Offering
<1> DEFINE k == [at |-> "offer", frame |-> x, todo |-> pub[p].todo \ {d}]
<1>2. /\ pub[p].at = "append" /\ GoesOn(p, k) /\ QueueOf(d, Append(queue[d], x))
    BY <1>1, FrameAppended
<1>3. UNCHANGED <<seq, author, sent>>
    BY DEF AppendFrame
<1>4. /\ k.at = "offer" /\ k.frame = x /\ k.todo = pub[p].todo \ {d} /\ k.at \notin Offering
    BY DEF Offering
<1> HIDE DEF k
<1>5. /\ x \in 1..seq /\ author[x] = p
      /\ \A c \in pub[p].todo \cap Clients : Older(Delivered(c), author, p, x)
      /\ d \in pub[p].todo
  <2>1. CallOrder(p) /\ pub[p].at \in Offering /\ pub[p].at # "idle"
      BY <1>2 DEF OrderInv, Offering
  <2> QED BY <1>1, <2>1 DEF CallOrder, Pends
<1>6. sent[d] \in Seq(Frames) /\ queue[d] \in Seq(Frames) /\ Delivered(d) \in Seq(Nat)
    BY DeliveredSeq
<1>7. Delivered(d)' = Append(Delivered(d), x)
  <2>1. sent[d] \o Append(queue[d], x) = Append(sent[d] \o queue[d], x)
      <3>1. x \in Frames
          BY <1>1
      <3>2. \A s, q \in Seq(Frames) : \A y \in Frames :
                s \o Append(q, y) = Append(s \o q, y)
          BY AppendLast
      <3> QED BY <1>6, <3>1, <3>2
  <2>2. Delivered(d)' = sent[d] \o Append(queue[d], x)
      BY <1>2, <1>3 DEF QueueOf, Delivered
  <2> QED BY <2>1, <2>2 DEF Delivered
<1>8. ASSUME NEW c \in Clients, c # d PROVE Delivered(c)' = Delivered(c)
    BY <1>2, <1>3, <1>8 DEF QueueOf, Delivered
<1>9. /\ Upto(Delivered(d)', seq) /\ Ascends(Delivered(d)', author)
      /\ \A q, f : q # p /\ Older(Delivered(d), author, q, f)
            => Older(Delivered(d)', author, q, f)
  <2>1. Upto(Delivered(d), seq) /\ Ascends(Delivered(d), author)
      BY DEF OrderInv, ClientOrder
  <2>2. Older(Delivered(d), author, p, x) /\ seq \in Nat
      BY <1>5, SizesAssumption DEF Shapes
  <2> QED BY <1>5, <1>6, <1>7, <2>1, <2>2, AppendKeeps
<1>10. ASSUME NEW c \in Clients PROVE ClientOrder(c)'
  <2>1. CASE c = d
      BY <1>3, <1>9, <2>1 DEF ClientOrder
  <2>2. CASE c # d
      BY <1>3, <1>8, <2>2 DEF OrderInv, ClientOrder
  <2> QED BY <2>1, <2>2
<1>11. CallOrder(p)'
  <2>1. pub'[p].at = "offer" /\ pub'[p].frame = x /\ pub'[p].todo = pub[p].todo \ {d}
      BY <1>2, <1>4 DEF GoesOn
  <2>2. ASSUME NEW c \in Clients, Pends(pub'[p], c)
        PROVE  Older(Delivered(c)', author, p, x)
    <3>1. c # d /\ c \in pub[p].todo
        BY <2>1, <2>2 DEF Pends
    <3> QED BY <1>5, <1>8, <3>1
  <2> QED BY <1>3, <1>5, <2>1, <2>2 DEF CallOrder, Offering
<1>12. ASSUME NEW q \in Publishers, q # p PROVE CallOrder(q)'
  <2>1. pub'[q] = pub[q] /\ CallOrder(q)
      BY <1>2, <1>12 DEF GoesOn, OrderInv
  <2>2. ASSUME NEW c \in Clients, Pends(pub[q], c)
        PROVE  Older(Delivered(c)', author, q, pub[q].frame)
    <3>1. Older(Delivered(c), author, q, pub[q].frame)
        BY <2>1, <2>2 DEF CallOrder
    <3> QED BY <1>8, <1>9, <1>12, <3>1
  <2> QED BY <1>3, <2>1, <2>2 DEF CallOrder
<1> QED BY <1>10, <1>11, <1>12 DEF OrderInv

\* The queues stay as they are.
LEMMA OrderQuiet ==
    ASSUME Shapes, OrderInv, NEW p \in Publishers, NEW k, Continues(p, k),
           UNCHANGED <<seq, author, queue, sent>>
    PROVE  OrderInv'
<1>1. ASSUME NEW c \in Clients PROVE Part(Delivered(c)', Delivered(c))
  <2>1. Delivered(c)' = Delivered(c) /\ Delivered(c) \in Seq(Nat)
      BY DeliveredSeq DEF Delivered
  <2> QED BY <2>1, PartOfItself
<1> QED BY <1>1, OrderParts

\* The same call at a later point of the same offer.
LEMMA AtContinues ==
    ASSUME Shapes, OrderInv, NEW p \in Publishers, pub[p].at \in Offering,
           NEW y \in Offering, GoesOn(p, At(p, y))
    PROVE  Continues(p, At(p, y))
<1>1. pub[p].to \in pub[p].todo /\ pub[p].at # "idle"
    BY DEF OrderInv, CallOrder, Offering
<1>2. At(p, y).frame = pub[p].frame /\ At(p, y).to = pub[p].to /\ At(p, y).at = y
      /\ At(p, y).todo = pub[p].todo
    BY DEF At
<1> QED BY <1>1, <1>2 DEF Continues, Pends, Offering

LEMMA OrderStep == Shapes /\ OrderInv /\ [Next]_vars => OrderInv'
<1> SUFFICES ASSUME Shapes, OrderInv, [Next]_vars PROVE OrderInv'
    OBVIOUS
<1>0. Loop \in Publishers
    BY DEF Publishers
<1>1. ASSUME UNCHANGED <<seq, author, pub>>, \A c \in Clients : Delivered(c)' = Delivered(c)
      PROVE  OrderInv'
    BY <1>1 DEF OrderInv, ClientOrder, CallOrder
<1>2. ASSUME NEW p \in Publishers, Publish(p) PROVE OrderInv'
    BY <1>2, OrderNumber DEF Publish
<1>3. ASSUME NEW c \in Clients, Connect(c) PROVE OrderInv'
    BY <1>0, <1>3, OrderNumber DEF Connect
<1>4. ASSUME NEW p \in Publishers, ListSubs(p) PROVE OrderInv'
  <2> DEFINE k == [at |-> "offer", frame |-> pub[p].frame, todo |-> subs]
  <2>1. pub[p].at = "list" /\ GoesOn(p, k) /\ UNCHANGED <<seq, author, queue, sent>>
      BY <1>4, Listed DEF ListSubs
  <2>2. Continues(p, k)
      BY <2>1 DEF Continues, Pends, Offering
  <2> HIDE DEF k
  <2> QED BY <2>1, <2>2, OrderQuiet
<1>5. ASSUME NEW p \in Publishers, NEW c \in Clients, Check(p, c) PROVE OrderInv'
  <2> DEFINE k == [at |-> IF Full(c) THEN "evict" ELSE "append",
                   frame |-> pub[p].frame, todo |-> pub[p].todo, to |-> c]
  <2>1. /\ pub[p].at = "offer" /\ c \in pub[p].todo /\ GoesOn(p, k)
        /\ UNCHANGED <<seq, author, queue, sent>>
      BY <1>5, Checked DEF Check
  <2>2. Continues(p, k)
      BY <2>1 DEF Continues, Pends, Offering
  <2> HIDE DEF k
  <2> QED BY <2>1, <2>2, OrderQuiet
<1>6. ASSUME NEW p \in Publishers, Evict(p) PROVE OrderInv'
  <2>1. PICK d \in Clients : d = pub[p].to
      BY <1>6, Evicted
  <2> DEFINE y == IF queue[d] = <<>> THEN "recheck" ELSE "count"
             w == IF queue[d] = <<>> THEN queue[d] ELSE Tail(queue[d])
  <2>2. /\ pub[p].at = "evict" /\ GoesOn(p, At(p, y)) /\ QueueOf(d, w)
        /\ UNCHANGED <<seq, author, sent>>
      BY <1>6, <2>1, Evicted DEF Evict
  <2>3. y \in Offering /\ pub[p].at \in Offering
      BY <2>2 DEF Offering
  <2>4. sent[d] \in Seq(Frames) /\ queue[d] \in Seq(Frames) /\ Delivered(d) \in Seq(Frames)
      BY DeliveredSeq
  <2>5. Part(sent[d] \o w, sent[d] \o queue[d])
      BY <2>4, DropHead, PartOfItself DEF Delivered
  <2> HIDE DEF y, w
  <2>6. ASSUME NEW c \in Clients PROVE Part(Delivered(c)', Delivered(c))
    <3>1. CASE c = d
        BY <2>2, <2>5, <3>1 DEF QueueOf, Delivered
    <3>2. CASE c # d
      <4>1. Delivered(c)' = Delivered(c) /\ Delivered(c) \in Seq(Nat)
          BY <2>2, <3>2, DeliveredSeq DEF QueueOf, Delivered
      <4> QED BY <4>1, PartOfItself
    <3> QED BY <3>1, <3>2
  <2>7. Continues(p, At(p, y))
      BY <2>2, <2>3, AtContinues
  <2> QED BY <2>2, <2>6, <2>7, OrderParts
<1>7. ASSUME NEW p \in Publishers, Count(p) PROVE OrderInv'
  <2>1. GoesOn(p, At(p, "recheck")) /\ UNCHANGED <<seq, author, queue, sent>>
      BY <1>7, Counted DEF Count
  <2>2. pub[p].at \in Offering /\ "recheck" \in Offering
      BY <1>7 DEF Count, Offering
  <2> QED BY <2>1, <2>2, AtContinues, OrderQuiet
<1>8. ASSUME NEW p \in Publishers, Recheck(p) PROVE OrderInv'
  <2> DEFINE k == [at |-> "offer", frame |-> pub[p].frame, todo |-> pub[p].todo \ {pub[p].to}]
  <2>1. /\ pub[p].at = "recheck" /\ UNCHANGED <<seq, author, queue, sent>>
        /\ GoesOn(p, k) \/ GoesOn(p, At(p, "append"))
      BY <1>8, Rechecked DEF Recheck
  <2>2. pub[p].at \in Offering /\ "append" \in Offering
      BY <2>1 DEF Offering
  <2>3. CASE GoesOn(p, k)
    <3>1. Continues(p, k)
        BY <2>1, <2>3 DEF Continues, Pends, Offering
    <3> HIDE DEF k
    <3> QED BY <2>1, <3>1, OrderQuiet
  <2>4. CASE GoesOn(p, At(p, "append"))
      BY <2>1, <2>2, <2>4, AtContinues, OrderQuiet
  <2> QED BY <2>1, <2>3, <2>4
<1>9. ASSUME NEW p \in Publishers, AppendFrame(p) PROVE OrderInv'
    BY <1>9, OrderAppend
<1>10. ASSUME NEW p \in Publishers, Return(p) PROVE OrderInv'
  <2>1. GoesOn(p, Idle) /\ UNCHANGED <<seq, author, queue, sent>>
      BY <1>10, Returned DEF Return
  <2>2. Continues(p, Idle)
      BY <2>1 DEF Continues, Pends, Offering, Idle
  <2> QED BY <2>1, <2>2, OrderQuiet
<1>11. ASSUME NEW c \in Clients, SendFrame(c) PROVE OrderInv'
  <2>1. ASSUME NEW d \in Clients PROVE Delivered(d)' = Delivered(d)
    <3>1. sent[d] \in Seq(Frames) /\ queue[d] \in Seq(Frames)
        BY DeliveredSeq
    <3>2. CASE d = c
      <4>1. /\ queue[c] # <<>> /\ queue'[c] = Tail(queue[c])
            /\ sent'[c] = Append(sent[c], Head(queue[c]))
          BY <1>11, FrameSent DEF QueueOf
      <4> QED BY <3>1, <3>2, <4>1, MoveHead DEF Delivered
    <3>3. CASE d # c
        BY <1>11, <3>3, FrameSent DEF QueueOf, Delivered
    <3> QED BY <3>2, <3>3
  <2> QED BY <1>1, <1>11, <2>1 DEF SendFrame
<1>12. ASSUME NEW c \in Clients, Disconnect(c) PROVE OrderInv'
    BY <1>1, <1>12 DEF Disconnect, Delivered
<1>13. CASE UNCHANGED vars
    BY <1>1, <1>13 DEF vars, Delivered
<1> QED BY <1>2, <1>3, <1>4, <1>5, <1>6, <1>7, <1>8, <1>9, <1>10, <1>11, <1>12, <1>13
        DEF Next, PublishStep

\* Whatever the worker threads publish in between and however many frames are
\* dropped (hub.py publish, _offer), the frames one thread published reach each
\* client in the order published: a call offers its frame to a client once, and
\* numbers it after all that came to that client from the same thread before.
THEOREM FramesInOrder == Spec => []EachThreadInOrder
<1> DEFINE I == Shapes /\ OrderInv
<1>1. Init => I
    BY ShapesInit, OrderInit
<1>2. I /\ [Next]_vars => I'
    BY ShapesStep, OrderStep
<1>3. I => EachThreadInOrder
    BY DEF OrderInv, ClientOrder, Ascends, Delivered, EachThreadInOrder
<1> HIDE DEF I
<1> QED BY <1>1, <1>2, <1>3, PTL DEF Spec

-----------------------------------------------------------------------------
(* What is lost is counted *)

LossInv ==
    /\ \A c \in Clients : Lost(c) \in Nat
    /\ IsFiniteSet(Losses)
    /\ dropped + Cardinality(Counting) = Cardinality(Losses)

LEMMA LostInt ==
    ASSUME Shapes, NEW c \in Clients
    PROVE  Lost(c) \in Int /\ Len(queue[c]) \in Nat /\ Len(sent[c]) \in Nat /\ offered[c] \in Nat
<1>1. queue[c] \in Seq(Frames) /\ sent[c] \in Seq(Frames) /\ offered[c] \in Nat
    BY DEF Shapes
<1>2. Len(queue[c]) \in Nat /\ Len(sent[c]) \in Nat
    BY <1>1
<1> QED BY <1>1, <1>2 DEF Lost

LEMMA LossInit == Init => LossInv
<1> SUFFICES ASSUME Init PROVE LossInv
    OBVIOUS
<1>1. ASSUME NEW c \in Clients PROVE Lost(c) = 0 /\ 1..Lost(c) = {}
    BY DEF Init, Lost
<1>2. Losses = {}
    BY <1>1 DEF Losses
<1>3. Counting = {}
    BY DEF Init, Counting, Idle
<1>4. IsFiniteSet({}) /\ Cardinality({}) = 0
    BY FS_EmptySet
<1> QED BY <1>1, <1>2, <1>3, <1>4 DEF Init, LossInv

\* A step that loses nothing.
LEMMA LossKept ==
    ASSUME LossInv, UNCHANGED dropped, Counting' = Counting,
           \A c \in Clients : Lost(c)' = Lost(c)
    PROVE  LossInv'
<1>1. Losses' = Losses
    BY DEF Losses
<1> QED BY <1>1 DEF LossInv

\* One more frame of one client is lost.
LEMMA LossGrows ==
    ASSUME LossInv, NEW c \in Clients, Lost(c)' = Lost(c) + 1,
           \A d \in Clients : d # c => Lost(d)' = Lost(d)
    PROVE  /\ \A d \in Clients : Lost(d)' \in Nat
           /\ IsFiniteSet(Losses') /\ Cardinality(Losses') = Cardinality(Losses) + 1
           /\ Cardinality(Losses) \in Nat
<1> DEFINE n == Lost(c)
           new == <<c, n + 1>>
<1>1. n \in Nat
    BY DEF LossInv
<1>2. 1..(n + 1) = (1..n) \cup {n + 1} /\ n + 1 \notin 1..n
    BY <1>1
<1>3. Losses' = UNION {{d} \X (1..Lost(d)') : d \in Clients}
    BY DEF Losses
<1>4. \A x : x \in Losses' <=> \E d \in Clients : x \in {d} \X (1..Lost(d)')
    BY <1>3
<1>5. \A x : x \in Losses <=> \E d \in Clients : x \in {d} \X (1..Lost(d))
    BY DEF Losses
<1> HIDE DEF n
<1>6. Lost(c)' = n + 1 /\ Lost(c) = n
    BY DEF n
<1>7. new \notin Losses
    BY <1>2, <1>5, <1>6
<1>8. ASSUME NEW x PROVE x \in Losses' <=> x \in Losses \/ x = new
  <2>1. ASSUME NEW d \in Clients, d # c
        PROVE  x \in {d} \X (1..Lost(d)') <=> x \in {d} \X (1..Lost(d))
      BY <2>1
  <2>2. x \in {c} \X (1..Lost(c)') <=> x \in {c} \X (1..Lost(c)) \/ x = new
      BY <1>2, <1>6
  <2> QED BY <1>4, <1>5, <2>1, <2>2
<1>9. Losses' = Losses \cup {new}
    BY <1>8
<1>10. IsFiniteSet(Losses) /\ Cardinality(Losses) \in Nat
    BY FS_CardinalityType DEF LossInv
<1>11. IsFiniteSet(Losses') /\ Cardinality(Losses') = Cardinality(Losses) + 1
    BY <1>7, <1>9, <1>10, FS_AddElement
<1>12. \A d \in Clients : Lost(d)' \in Nat
    BY <1>1, <1>6 DEF LossInv
<1> QED BY <1>10, <1>11, <1>12

LEMMA CountingFinite == IsFiniteSet(Counting) /\ Cardinality(Counting) \in Nat
<1>1. IsFiniteSet(Publishers) /\ Counting \subseteq Publishers
    BY PublishersCounted DEF Counting
<1> QED BY <1>1, FS_Subset, FS_CardinalityType

\* What a call's move does to the calls that have yet to count.
LEMMA CountingMoves ==
    ASSUME NEW p \in Publishers, NEW k, GoesOn(p, k)
    PROVE  /\ (k.at = "count" <=> pub[p].at = "count") => Counting' = Counting
           /\ k.at = "count" /\ pub[p].at # "count" =>
                Cardinality(Counting') = Cardinality(Counting) + 1
           /\ k.at # "count" /\ pub[p].at = "count" =>
                Cardinality(Counting') = Cardinality(Counting) - 1
<1>1. Counting' = {q \in Publishers : pub'[q].at = "count"}
    BY DEF Counting
<1>2. pub'[p] = k /\ \A q \in Publishers : q # p => pub'[q] = pub[q]
    BY DEF GoesOn
<1>3. p \in Counting <=> pub[p].at = "count"
    BY DEF Counting
<1>4. (k.at = "count" <=> pub[p].at = "count") => Counting' = Counting
    BY <1>1, <1>2 DEF Counting
<1>5. k.at = "count" => Counting' = Counting \cup {p}
    BY <1>1, <1>2 DEF Counting
<1>6. k.at # "count" => Counting' = Counting \ {p}
    BY <1>1, <1>2 DEF Counting
<1>7. IsFiniteSet(Counting) /\ Cardinality(Counting) \in Nat
    BY CountingFinite
<1> QED BY <1>3, <1>4, <1>5, <1>6, <1>7, FS_AddElement, FS_RemoveElement

\* What a call does until it counts or appends does not show in the balance.
LEMMA LossQuiet ==
    ASSUME LossInv, NEW p \in Publishers, NEW k, GoesOn(p, k), pub[p].at # "count",
           k.at # "count", UNCHANGED <<dropped, offered, sent, queue>>
    PROVE  LossInv'
<1>1. Counting' = Counting
    BY CountingMoves
<1>2. ASSUME NEW c \in Clients PROVE Lost(c)' = Lost(c)
    BY DEF Lost
<1> QED BY <1>1, <1>2, LossKept

\* An eviction loses a frame that is yet to be counted, unless the client was
\* faster.
LEMMA LossEvict ==
    ASSUME Shapes, LossInv, NEW p \in Publishers, Evict(p)
    PROVE  LossInv'
<1>1. PICK c \in Clients : c = pub[p].to
    BY Evicted
<1> DEFINE x == IF queue[c] = <<>> THEN "recheck" ELSE "count"
           w == IF queue[c] = <<>> THEN queue[c] ELSE Tail(queue[c])
<1>2. /\ pub[p].at = "evict" /\ GoesOn(p, At(p, x)) /\ QueueOf(c, w)
      /\ UNCHANGED <<dropped, offered, sent>>
    BY <1>1, Evicted DEF Evict
<1>3. At(p, x).at = x
    BY DEF At
<1>4. ASSUME NEW d \in Clients, d # c PROVE Lost(d)' = Lost(d)
    BY <1>2, <1>4 DEF QueueOf, Lost
<1>5. CASE queue[c] = <<>>
  <2>1. queue'[c] = queue[c] /\ x = "recheck"
      BY <1>2, <1>5 DEF QueueOf
  <2>2. Lost(c)' = Lost(c)
      BY <1>2, <2>1 DEF Lost
  <2>3. Counting' = Counting
      BY <1>2, <1>3, <2>1, CountingMoves
  <2> QED BY <1>2, <1>4, <2>2, <2>3, LossKept
<1>6. CASE queue[c] # <<>>
  <2>1. queue[c] \in Seq(Frames)
      BY DEF Shapes
  <2>2. queue'[c] = Tail(queue[c]) /\ Len(queue'[c]) = Len(queue[c]) - 1 /\ x = "count"
      BY <1>2, <1>6, <2>1 DEF QueueOf
  <2>3. Lost(c)' = Lost(c) + 1
      BY <1>2, <2>2, LostInt DEF Lost
  <2>4. Cardinality(Counting') = Cardinality(Counting) + 1
      BY <1>2, <1>3, <2>2, CountingMoves
  <2>5. /\ \A d \in Clients : Lost(d)' \in Nat
        /\ IsFiniteSet(Losses') /\ Cardinality(Losses') = Cardinality(Losses) + 1
      BY <1>4, <2>3, LossGrows
  <2>6. dropped' + Cardinality(Counting') = Cardinality(Losses')
    <3>1. dropped \in Nat /\ Cardinality(Counting) \in Nat /\ dropped' = dropped
        BY <1>2, CountingFinite DEF Shapes
    <3> QED BY <2>4, <2>5, <3>1 DEF LossInv
  <2> QED BY <2>5, <2>6 DEF LossInv
<1> QED BY <1>5, <1>6

\* The eviction is counted.
LEMMA LossCount ==
    ASSUME Shapes, LossInv, NEW p \in Publishers, Count(p)
    PROVE  LossInv'
<1>1. /\ pub[p].at = "count" /\ GoesOn(p, At(p, "recheck")) /\ dropped' = dropped + 1
      /\ UNCHANGED <<offered, sent, queue>>
    BY Counted DEF Count, DroppedAfterEvict
<1>2. At(p, "recheck").at = "recheck"
    BY DEF At
<1>3. Cardinality(Counting') = Cardinality(Counting) - 1
    BY <1>1, <1>2, CountingMoves
<1>4. ASSUME NEW c \in Clients PROVE Lost(c)' = Lost(c)
    BY <1>1 DEF Lost
<1>5. Losses' = Losses
    BY <1>4 DEF Losses
<1>6. dropped \in Nat /\ Cardinality(Counting) \in Nat
    BY CountingFinite DEF Shapes
<1> QED BY <1>1, <1>3, <1>4, <1>5, <1>6 DEF LossInv

\* The new frame is lost and counted in one step, or the call goes on.
LEMMA LossRecheck ==
    ASSUME Shapes, LossInv, NEW p \in Publishers, Recheck(p)
    PROVE  LossInv'
<1>1. /\ pub[p].at = "recheck" /\ UNCHANGED <<queue, sent>>
      /\ pub[p].at \in Offering /\ "append" \in Offering
    BY DEF Recheck, Offering
<1>2. PICK c \in Clients : c = pub[p].to
    BY Rechecked
<1>3. CASE Full(c)
  <2> DEFINE k == [at |-> "offer", frame |-> pub[p].frame, todo |-> pub[p].todo \ {pub[p].to}]
  <2>1. dropped' = dropped + 1 /\ offered' = [offered EXCEPT ![c] = @ + 1] /\ GoesOn(p, k)
      BY <1>1, <1>2, <1>3, OfferEnds DEF Recheck, Offered
  <2>2. k.at = "offer"
      OBVIOUS
  <2> HIDE DEF k
  <2>3. Counting' = Counting
      BY <1>1, <2>1, <2>2, CountingMoves
  <2>4. offered'[c] = offered[c] + 1 /\ \A d \in Clients : d # c => offered'[d] = offered[d]
      BY <2>1 DEF Shapes
  <2>5. Lost(c)' = Lost(c) + 1
    <3>1. Len(queue[c]) \in Nat /\ Len(sent[c]) \in Nat /\ offered[c] \in Nat
        BY LostInt
    <3>2. queue'[c] = queue[c] /\ sent'[c] = sent[c]
        BY <1>1
    <3> QED BY <2>4, <3>1, <3>2 DEF Lost
  <2>6. ASSUME NEW d \in Clients, d # c PROVE Lost(d)' = Lost(d)
      BY <1>1, <2>4, <2>6 DEF Lost
  <2>7. /\ \A d \in Clients : Lost(d)' \in Nat
        /\ IsFiniteSet(Losses') /\ Cardinality(Losses') = Cardinality(Losses) + 1
      BY <2>5, <2>6, LossGrows
  <2>8. dropped' + Cardinality(Counting') = Cardinality(Losses')
    <3>1. dropped \in Nat /\ Cardinality(Counting) \in Nat
        BY CountingFinite DEF Shapes
    <3> QED BY <2>1, <2>3, <2>7, <3>1 DEF LossInv
  <2> QED BY <2>7, <2>8 DEF LossInv
<1>4. CASE ~Full(c)
  <2>1. UNCHANGED <<dropped, offered>> /\ GoesOn(p, At(p, "append"))
      BY <1>1, <1>2, <1>4, AtMoves DEF Recheck
  <2>2. At(p, "append").at = "append"
      BY DEF At
  <2> QED BY <1>1, <2>1, <2>2, LossQuiet
<1> QED BY <1>3, <1>4

\* A frame appended was offered: the balance stays.
LEMMA LossAppend ==
    ASSUME Shapes, LossInv, NEW p \in Publishers, AppendFrame(p)
    PROVE  LossInv'
<1>1. PICK c \in Clients : c = pub[p].to
    BY FrameAppended
<1> DEFINE k == [at |-> "offer", frame |-> pub[p].frame, todo |-> pub[p].todo \ {c}]
<1>2. /\ pub[p].at = "append" /\ GoesOn(p, k) /\ QueueOf(c, Append(queue[c], pub[p].frame))
      /\ UNCHANGED <<dropped, sent>> /\ offered' = [offered EXCEPT ![c] = @ + 1]
    BY <1>1, FrameAppended DEF AppendFrame, Offered
<1>3. k.at = "offer"
    OBVIOUS
<1> HIDE DEF k
<1>4. Counting' = Counting
    BY <1>2, <1>3, CountingMoves
<1>5. offered'[c] = offered[c] + 1 /\ \A d \in Clients : d # c => offered'[d] = offered[d]
    BY <1>2 DEF Shapes
<1>6. Len(queue'[c]) = Len(queue[c]) + 1
  <2>1. queue[c] \in Seq(Frames)
      BY DEF Shapes
  <2> QED BY <1>2, <2>1 DEF QueueOf
<1>7. Lost(c)' = Lost(c)
  <2>1. Len(queue[c]) \in Nat /\ Len(sent[c]) \in Nat /\ offered[c] \in Nat
      BY LostInt
  <2>2. sent'[c] = sent[c]
      BY <1>2
  <2>3. \A o, n, m \in Nat : (o + 1) - n - (m + 1) = o - n - m
      OBVIOUS
  <2>4. Lost(c) = offered[c] - Len(sent[c]) - Len(queue[c])
      BY DEF Lost
  <2>5. Lost(c)' = (offered[c] + 1) - Len(sent[c]) - (Len(queue[c]) + 1)
      BY <1>5, <1>6, <2>2 DEF Lost
  <2> QED BY <2>1, <2>3, <2>4, <2>5
<1>8. ASSUME NEW d \in Clients, d # c PROVE Lost(d)' = Lost(d)
    BY <1>2, <1>5, <1>8 DEF QueueOf, Lost
<1> QED BY <1>2, <1>4, <1>7, <1>8, LossKept

LEMMA LossStep == Shapes /\ LossInv /\ [Next]_vars => LossInv'
<1> SUFFICES ASSUME Shapes, LossInv, [Next]_vars PROVE LossInv'
    OBVIOUS
<1>0. Loop \in Publishers
    BY DEF Publishers
<1>1. ASSUME UNCHANGED <<dropped, offered, sent, queue, pub>> PROVE LossInv'
  <2>1. Counting' = Counting /\ \A c \in Clients : Lost(c)' = Lost(c)
      BY <1>1 DEF Counting, Lost
  <2> QED BY <1>1, <2>1, LossKept
<1>2. ASSUME NEW p \in Publishers, NumberFrame(p), UNCHANGED <<dropped, offered, sent, queue>>
      PROVE  LossInv'
  <2> DEFINE k == [at |-> "list", frame |-> seq', todo |-> {}]
  <2>1. pub[p].at = "idle" /\ GoesOn(p, k) /\ k.at = "list"
      BY <1>2, Numbered
  <2> HIDE DEF k
  <2> QED BY <1>2, <2>1, LossQuiet
<1>3. ASSUME NEW p \in Publishers, Publish(p) PROVE LossInv'
    BY <1>2, <1>3 DEF Publish
<1>4. ASSUME NEW c \in Clients, Connect(c) PROVE LossInv'
    BY <1>0, <1>2, <1>4 DEF Connect
<1>5. ASSUME NEW p \in Publishers, ListSubs(p) PROVE LossInv'
  <2> DEFINE k == [at |-> "offer", frame |-> pub[p].frame, todo |-> subs]
  <2>1. /\ pub[p].at = "list" /\ GoesOn(p, k) /\ k.at = "offer"
        /\ UNCHANGED <<dropped, offered, sent, queue>>
      BY <1>5, Listed DEF ListSubs
  <2> HIDE DEF k
  <2> QED BY <2>1, LossQuiet
<1>6. ASSUME NEW p \in Publishers, NEW c \in Clients, Check(p, c) PROVE LossInv'
  <2> DEFINE k == [at |-> IF Full(c) THEN "evict" ELSE "append",
                   frame |-> pub[p].frame, todo |-> pub[p].todo, to |-> c]
  <2>1. /\ pub[p].at = "offer" /\ GoesOn(p, k) /\ k.at # "count"
        /\ UNCHANGED <<dropped, offered, sent, queue>>
      BY <1>6, Checked DEF Check
  <2> HIDE DEF k
  <2> QED BY <2>1, LossQuiet
<1>7. ASSUME NEW p \in Publishers, Return(p) PROVE LossInv'
  <2>1. /\ pub[p].at = "offer" /\ GoesOn(p, Idle) /\ UNCHANGED <<dropped, offered, sent, queue>>
      BY <1>7, Returned DEF Return
  <2>2. Idle.at = "idle"
      BY DEF Idle
  <2> QED BY <2>1, <2>2, LossQuiet
<1>8. ASSUME NEW c \in Clients, SendFrame(c) PROVE LossInv'
  <2>1. queue[c] \in Seq(Frames) /\ queue[c] # <<>> /\ sent[c] \in Seq(Frames)
      BY <1>8, FrameSent DEF Shapes
  <2>2. /\ queue'[c] = Tail(queue[c]) /\ sent'[c] = Append(sent[c], Head(queue[c]))
        /\ UNCHANGED <<dropped, offered, pub>>
        /\ \A d \in Clients : d # c => sent'[d] = sent[d] /\ queue'[d] = queue[d]
      BY <1>8, FrameSent DEF SendFrame, QueueOf
  <2>3. Len(queue'[c]) = Len(queue[c]) - 1 /\ Len(sent'[c]) = Len(sent[c]) + 1
      BY <2>1, <2>2
  <2>4. Lost(c)' = Lost(c)
    <3>1. Len(queue[c]) \in Nat /\ Len(sent[c]) \in Nat /\ offered[c] \in Nat
        BY LostInt
    <3>2. offered'[c] = offered[c]
        BY <2>2
    <3> QED BY <2>3, <3>1, <3>2 DEF Lost
  <2>5. ASSUME NEW d \in Clients, d # c PROVE Lost(d)' = Lost(d)
      BY <2>2, <2>5 DEF Lost
  <2>6. Counting' = Counting
      BY <2>2 DEF Counting
  <2> QED BY <2>2, <2>4, <2>5, <2>6, LossKept
<1>9. ASSUME NEW c \in Clients, Disconnect(c) PROVE LossInv'
    BY <1>1, <1>9 DEF Disconnect
<1>10. CASE UNCHANGED vars
    BY <1>1, <1>10 DEF vars
<1> QED BY <1>3, <1>4, <1>5, <1>6, <1>7, <1>8, <1>9, <1>10, LossEvict, LossCount,
           LossRecheck, LossAppend DEF Next, PublishStep

\* No frame is lost unnoticed: hub.py:49 offers to each queue on the caller's
\* thread and bumps _dropped without a lock (hub.py:64-73), and still every frame
\* that a client was offered and will never get is counted once, or a call is
\* about to count it, for any number of threads and clients.
THEOREM LossesAreCounted == Spec => []DropsAreCounted
<1> DEFINE I == Shapes /\ LossInv
<1>1. Init => I
    BY ShapesInit, LossInit
<1>2. I /\ [Next]_vars => I'
    BY ShapesStep, LossStep
<1>3. I => DropsAreCounted
    BY DEF LossInv, DropsAreCounted
<1> HIDE DEF I
<1> QED BY <1>1, <1>2, <1>3, PTL DEF Spec
=============================================================================
