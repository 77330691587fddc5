--------------------------- MODULE AudioPathProofs ---------------------------
(***************************************************************************)
(* Proofs about AudioPath for any users, addresses, channels and bounds: the *)
(* types, the latency bound and the accounting of frames are invariants, and *)
(* a failed send never clears a newer endpoint.                              *)
(***************************************************************************)
EXTENDS AudioPath, SequenceTheorems, TLAPS

(* The first element of a sequence that is not empty. *)
LEMMA FirstOfSeq ==
  ASSUME NEW S, NEW s \in Seq(S), s # <<>>
  PROVE  s[1] \in S
OBVIOUS

(* A sequence of one element. *)
LEMMA SingletonSeq ==
  ASSUME NEW S, NEW s \in Seq(S), s # <<>>, Len(s) <= 1
  PROVE  s = <<s[1]>>
<1>1. Len(s) = 1 /\ s[1] \in S
  OBVIOUS
<1>2. <<s[1]>> \in Seq(S) /\ Len(<<s[1]>>) = 1 /\ <<s[1]>>[1] = s[1]
  BY <1>1
<1> QED BY <1>1, <1>2, SeqEqual

(* A queue that holds at most MAX_SOURCE_QUEUE_FRAMES frames, each young
   enough for its place. *)
Young(q) ==
  /\ q \in QueueType
  /\ Len(q.frames) <= MAX_SOURCE_QUEUE_FRAMES
  /\ \A k \in DOMAIN q.frames : q.frames[k].waited + k <= MAX_SOURCE_QUEUE_FRAMES

-----------------------------------------------------------------------------
(* The operations of a source queue. *)

(* SourceQueue::push keeps a queue young and grows it by the new frame, less
   the oldest one if the queue was full. *)
LEMMA PushKeepsYoung ==
  ASSUME NEW q, Young(q), NEW f \in FrameType, f.waited = 0
  PROVE  /\ Young(Pushed(q, f))
         /\ Len(Pushed(q, f).frames) = IF Full(q) THEN Len(q.frames) ELSE Len(q.frames) + 1
<1> DEFINE rest == IF Full(q) THEN Tail(q.frames) ELSE q.frames
           pushed == Append(rest, f)
<1>1. /\ q \in QueueType /\ q.frames \in Seq(FrameType) /\ Len(q.frames) \in Nat
      /\ q.frames = <<>> => Len(q.frames) = 0
  BY DEF Young, QueueType
<1>2. /\ rest \in Seq(FrameType)
      /\ Len(rest) < MAX_SOURCE_QUEUE_FRAMES
      /\ Len(rest) = IF Full(q) THEN Len(q.frames) - 1 ELSE Len(q.frames)
      /\ \A k \in 1..Len(rest) : rest[k].waited + k <= MAX_SOURCE_QUEUE_FRAMES
  <2>1. CASE Full(q)
    <3>1. /\ Tail(q.frames) \in Seq(FrameType)
          /\ Len(Tail(q.frames)) = Len(q.frames) - 1
          /\ \A k \in 1..(Len(q.frames) - 1) : Tail(q.frames)[k] = q.frames[k + 1]
      BY <1>1, <2>1, AudioAssumption DEF Full
    <3>2. ASSUME NEW k \in 1..(Len(q.frames) - 1)
          PROVE  q.frames[k + 1].waited + k <= MAX_SOURCE_QUEUE_FRAMES
      <4>1. q.frames[k + 1] \in FrameType /\ k + 1 \in 1..Len(q.frames)
        BY <1>1
      <4>2. q.frames[k + 1].waited + (k + 1) <= MAX_SOURCE_QUEUE_FRAMES
        BY <1>1, <4>1 DEF Young
      <4> QED BY <4>1, <4>2, AudioAssumption DEF FrameType
    <3> QED BY <1>1, <2>1, <3>1, <3>2, AudioAssumption DEF Full
  <2>2. CASE ~Full(q)
    BY <1>1, <2>2, AudioAssumption DEF Full, Young
  <2> QED BY <2>1, <2>2
<1>3. /\ pushed \in Seq(FrameType)
      /\ Len(pushed) = Len(rest) + 1
      /\ \A k \in 1..Len(rest) : pushed[k] = rest[k]
      /\ pushed[Len(rest) + 1] = f
  BY <1>2
<1>4. \A k \in 1..Len(pushed) : pushed[k].waited + k <= MAX_SOURCE_QUEUE_FRAMES
  <2> SUFFICES ASSUME NEW k \in 1..Len(pushed)
               PROVE  pushed[k].waited + k <= MAX_SOURCE_QUEUE_FRAMES
    OBVIOUS
  <2>1. CASE k \in 1..Len(rest) BY <2>1, <1>2, <1>3
  <2>2. CASE k = Len(rest) + 1 BY <2>2, <1>2, <1>3, AudioAssumption
  <2> QED BY <2>1, <2>2, <1>2, <1>3
<1>5. Pushed(q, f) = [frames |-> pushed, idle |-> 0]
  BY DEF Pushed
<1> QED BY <1>1, <1>2, <1>3, <1>4, <1>5, AudioAssumption DEF Young, QueueType

(* SourceQueue::pop keeps a queue young although a tick has gone by: every
   frame that stays moves one place forward. *)
LEMMA PopKeepsYoung ==
  ASSUME NEW q, Young(q)
  PROVE  /\ Young(Popped(q))
         /\ Len(Popped(q).frames) = IF q.frames = <<>> THEN 0 ELSE Len(q.frames) - 1
<1> DEFINE n == Len(q.frames) - 1
           moved == [k \in 1..n |-> Aged(q.frames[k + 1])]
<1>1. /\ q \in QueueType /\ q.frames \in Seq(FrameType) /\ Len(q.frames) \in Nat
      /\ q.frames # <<>> => Len(q.frames) > 0
  BY DEF Young, QueueType
<1>2. CASE q.frames = <<>>
  <2>1. Popped(q) = q
    BY <1>1, <1>2 DEF Popped, QueueType
  <2> QED BY <1>2, <2>1
<1>3. CASE q.frames # <<>>
  <2>1. n \in Nat
    BY <1>1, <1>3
  <2>2. ASSUME NEW k \in 1..n
        PROVE  /\ moved[k] \in FrameType
               /\ moved[k].waited = q.frames[k + 1].waited + 1
    <3>1. q.frames[k + 1] \in FrameType
      BY <1>1, <2>1
    <3> QED BY <3>1 DEF FrameType, Aged
  <2>3. moved \in [1..n -> FrameType]
    BY <2>2
  <2>4. Popped(q) = [frames |-> moved, idle |-> q.idle]
    <3>1. Popped(q) = [q EXCEPT !.frames = moved]
      BY <1>3 DEF Popped
    <3> HIDE DEF moved
    <3> QED BY <1>1, <3>1 DEF QueueType
  <2>5. ASSUME NEW k \in 1..n
        PROVE  moved[k].waited + k <= MAX_SOURCE_QUEUE_FRAMES
    <3>1. q.frames[k + 1] \in FrameType /\ k + 1 \in 1..Len(q.frames)
      BY <1>1, <2>1
    <3>2. q.frames[k + 1].waited + (k + 1) <= MAX_SOURCE_QUEUE_FRAMES
      BY <1>1, <3>1 DEF Young
    <3>3. moved[k].waited = q.frames[k + 1].waited + 1
      BY <2>2
    <3> HIDE DEF moved
    <3> QED BY <2>1, <3>1, <3>2, <3>3, AudioAssumption DEF FrameType
  <2>6. n = Len(q.frames) - 1 /\ n <= MAX_SOURCE_QUEUE_FRAMES
    BY <1>1, AudioAssumption DEF Young
  <2> HIDE DEF moved, n
  <2>7. moved \in Seq(FrameType) /\ Len(moved) = n /\ DOMAIN moved = 1..n
    BY <2>1, <2>3
  <2> QED BY <1>1, <1>3, <2>4, <2>5, <2>6, <2>7 DEF Young, QueueType
<1> QED BY <1>2, <1>3

-----------------------------------------------------------------------------
(* The invariant: what the runs check is inductive as a whole.  The latency
   bound is what keeps a push within its place, and needs the length bound of
   TypeOK; the accounting needs both. *)
Inv == TypeOK /\ LatencyBound /\ FramesConserved

(* In a state of the invariant a source is absent or a young queue. *)
LEMMA QueuesAreYoung ==
  ASSUME Inv, NEW u \in Users
  PROVE  \/ sources[u] = <<>> /\ Frames(u) = <<>>
         \/ /\ sources[u] = <<sources[u][1]>> /\ Frames(u) = sources[u][1].frames
            /\ Young(sources[u][1])
<1>1. sources[u] \in Seq(QueueType) /\ Len(sources[u]) <= 1
  BY DEF Inv, TypeOK
<1>2. CASE sources[u] = <<>>
  BY <1>2 DEF Frames
<1>3. CASE sources[u] # <<>>
  <2>1. sources[u] = <<sources[u][1]>> /\ sources[u][1] \in QueueType
    BY <1>1, <1>3
  <2>2. Frames(u) = sources[u][1].frames
    BY <1>3 DEF Frames
  <2> QED BY <2>1, <2>2 DEF Inv, TypeOK, LatencyBound, Young
<1> QED BY <1>2, <1>3

(* Conversely, sources that are absent or young satisfy their part of it. *)
LEMMA YoungQueuesSuffice ==
  ASSUME sources' = [u \in Users |-> sources'[u]],
         \A u \in Users : sources'[u] = <<>> \/ \E q : Young(q) /\ sources'[u] = <<q>>
  PROVE  /\ sources' \in [Users -> Seq(QueueType)]
         /\ \A u \in Users :
              /\ Len(sources'[u]) <= 1 /\ Len(Frames(u)') <= MAX_SOURCE_QUEUE_FRAMES
              /\ Len(Frames(u)') \in Nat
         /\ LatencyBound'
<1>1. ASSUME NEW u \in Users
      PROVE  /\ sources'[u] \in Seq(QueueType)
             /\ Len(sources'[u]) <= 1 /\ Len(Frames(u)') <= MAX_SOURCE_QUEUE_FRAMES
             /\ Len(Frames(u)') \in Nat
             /\ \A k \in DOMAIN Frames(u)' : Frames(u)'[k].waited + k <= MAX_SOURCE_QUEUE_FRAMES
  <2>1. CASE sources'[u] = <<>>
    BY <2>1, AudioAssumption DEF Frames
  <2>2. CASE sources'[u] # <<>>
    <3>1. PICK q : Young(q) /\ sources'[u] = <<q>>
      BY <2>2
    <3>2. Frames(u)' = q.frames
      BY <3>1 DEF Frames
    <3> QED BY <3>1, <3>2 DEF Young, QueueType
  <2> QED BY <2>1, <2>2
<1> QED BY <1>1 DEF LatencyBound

LEMMA InitEstablishesInv == Init => Inv
<1> SUFFICES ASSUME Init PROVE Inv
  OBVIOUS
<1>1. \A u \in Users : Frames(u) = <<>>
  BY DEF Init, Frames
<1>2. TypeOK
  BY <1>1, AudioAssumption DEF Init, TypeOK, Idle, EndpointType, RouteType, TallyType
<1>3. LatencyBound /\ FramesConserved
  BY <1>1 DEF Init, LatencyBound, FramesConserved
<1> QED BY <1>2, <1>3 DEF Inv

(* The receiver stores a frame: one more has arrived, and one more waits or
   the oldest one is dropped. *)
LEMMA StoreKeepsInv == Inv /\ StoreSourceFrame => Inv'
<1> SUFFICES ASSUME Inv, StoreSourceFrame PROVE Inv'
  OBVIOUS
<1> DEFINE v == receiver[1].user
           q == IF sources[v] = <<>> THEN EmptyQueue ELSE sources[v][1]
           f == [target |-> receiver[1].target, id |-> tally[v].arrived + 1, waited |-> 0]
<1>1. v \in Users /\ f \in FrameType /\ f.waited = 0
  <2>1. receiver \in Seq(PacketType) /\ receiver # <<>>
    BY DEF Inv, TypeOK, StoreSourceFrame, Idle
  <2>2. receiver[1] \in PacketType
    BY <2>1, FirstOfSeq
  <2>3. tally[v].arrived \in Nat
    BY <2>2 DEF Inv, TypeOK, PacketType, TallyType
  <2> QED BY <2>2, <2>3 DEF FrameType, PacketType
<1>2. Young(q) /\ q.frames = Frames(v)
  <2>1. CASE sources[v] = <<>>
    BY <2>1, AudioAssumption DEF EmptyQueue, Young, QueueType, Frames
  <2>2. CASE sources[v] # <<>>
    BY <1>1, <2>2, QueuesAreYoung
  <2> QED BY <2>1, <2>2
<1>3. /\ sources' = [sources EXCEPT ![v] = <<Pushed(q, f)>>]
      /\ tally' = [tally EXCEPT ![v].arrived = @ + 1, ![v].dropped = IF Full(q) THEN @ + 1 ELSE @]
      /\ receiver' = <<>>
      /\ UNCHANGED <<endpoint, route, outputs, failure, due, quota>>
  BY DEF StoreSourceFrame, Idle
<1> HIDE DEF v, q, f
<1>4. /\ Young(Pushed(q, f))
      /\ Len(Pushed(q, f).frames) = IF Full(q) THEN Len(q.frames) ELSE Len(q.frames) + 1
  BY <1>1, <1>2, PushKeepsYoung
<1>5. sources \in [Users -> Seq(QueueType)]
  BY DEF Inv, TypeOK
<1>6. \A u \in Users : sources'[u] = <<>> \/ \E p : Young(p) /\ sources'[u] = <<p>>
  BY <1>1, <1>3, <1>4, <1>5, QueuesAreYoung
<1>7. sources' = [u \in Users |-> sources'[u]]
  BY <1>3, <1>5
<1>8. tally \in [Users -> TallyType] /\ tally' \in [Users -> TallyType]
  <2>1. tally \in [Users -> TallyType]
    BY DEF Inv, TypeOK, TallyType
  <2> DEFINE t == [tally[v] EXCEPT !.arrived = @ + 1, !.dropped = IF Full(q) THEN @ + 1 ELSE @]
  <2>2. t \in TallyType
    <3>1. tally[v] \in TallyType
      BY <1>1, <2>1
    <3>2. tally[v].dropped + 1 \in Nat /\ tally[v].arrived + 1 \in Nat
      BY <3>1 DEF TallyType
    <3>3. (IF Full(q) THEN tally[v].dropped + 1 ELSE tally[v].dropped) \in Nat
      BY <3>1, <3>2 DEF TallyType
    <3>4. [tally[v] EXCEPT !.arrived = @ + 1] \in TallyType
      BY <3>1, <3>2 DEF TallyType
    <3> QED BY <3>1, <3>3, <3>4 DEF TallyType
  <2>3. tally' = [tally EXCEPT ![v] = t]
    BY <1>1, <1>3, <2>1 DEF TallyType
  <2> QED BY <1>1, <2>1, <2>2, <2>3
<1>9. TypeOK' /\ LatencyBound'
  <2>1. /\ sources' \in [Users -> Seq(QueueType)]
        /\ \A u \in Users : Len(sources'[u]) <= 1 /\ Len(Frames(u)') <= MAX_SOURCE_QUEUE_FRAMES
        /\ LatencyBound'
    BY <1>6, <1>7, YoungQueuesSuffice
  <2>2. receiver' \in Seq(PacketType) /\ Len(receiver') <= 1
    BY <1>3
  <2> QED BY <1>3, <1>8, <2>1, <2>2 DEF Inv, TypeOK, TallyType
<1>10. FramesConserved'
  <2> SUFFICES ASSUME NEW u \in Users
               PROVE  tally'[u].arrived
                        = tally'[u].mixed + tally'[u].dropped + tally'[u].expired + Len(Frames(u)')
    BY DEF FramesConserved
  <2>1. /\ tally[u] \in TallyType
        /\ tally[u].arrived
             = tally[u].mixed + tally[u].dropped + tally[u].expired + Len(Frames(u))
        /\ Len(Frames(u)) \in Nat
    BY QueuesAreYoung DEF Inv, TypeOK, FramesConserved, Young, QueueType
  <2>2. CASE u # v
    <3>1. tally'[u] = tally[u] /\ Frames(u)' = Frames(u)
      BY <1>3, <1>5, <1>8, <2>2 DEF Frames
    <3> QED BY <2>1, <3>1
  <2>3. CASE u = v
    <3>1. Frames(u)' = Pushed(q, f).frames
      BY <1>1, <1>3, <1>5, <2>3 DEF Frames
    <3>2. /\ tally'[u].arrived = tally[u].arrived + 1
          /\ tally'[u].dropped = IF Full(q) THEN tally[u].dropped + 1 ELSE tally[u].dropped
          /\ tally'[u].mixed = tally[u].mixed /\ tally'[u].expired = tally[u].expired
      BY <1>1, <1>3, <1>8, <2>1, <2>3 DEF TallyType
    <3> QED BY <1>2, <1>4, <2>1, <2>3, <3>1, <3>2 DEF TallyType
  <2> QED BY <2>2, <2>3
<1> QED BY <1>9, <1>10 DEF Inv

(* A tally, field by field. *)
LEMMA TallyFields ==
  ASSUME NEW t \in TallyType
  PROVE  t.arrived \in Nat /\ t.mixed \in Nat /\ t.dropped \in Nat /\ t.expired \in Nat
BY DEF TallyType

(* The mixer takes one frame of every live queue and forgets the idle ones. *)
LEMMA MixKeepsInv == Inv /\ BuildMixes => Inv'
<1> SUFFICES ASSUME Inv, BuildMixes PROVE Inv'
  OBVIOUS
<1> DEFINE taken(u) == [tally[u] EXCEPT
                          !.mixed = IF HasFrame(u) THEN @ + 1 ELSE @,
                          !.expired = IF sources[u] # <<>> /\ ~Alive(u)
                                      THEN @ + Len(sources[u][1].frames) ELSE @]
<1>1. /\ sources' = [u \in Users |-> IF Alive(u) THEN <<Popped(sources[u][1])>> ELSE <<>>]
      /\ tally' = [u \in Users |-> taken(u)]
  BY DEF BuildMixes
<1>2. ASSUME NEW u \in Users
      PROVE  /\ sources'[u] = <<>> \/ \E q : Young(q) /\ sources'[u] = <<q>>
             /\ tally'[u] \in TallyType
             /\ tally'[u].arrived
                  = tally'[u].mixed + tally'[u].dropped + tally'[u].expired + Len(Frames(u)')
  <2>1. /\ tally[u] \in TallyType
        /\ tally[u].arrived
             = tally[u].mixed + tally[u].dropped + tally[u].expired + Len(Frames(u))
    BY DEF Inv, TypeOK, FramesConserved, TallyType
  <2>2. tally'[u] = taken(u)
    BY <1>1
  <2>3. CASE sources[u] = <<>>
    <3>1. sources'[u] = <<>> /\ Frames(u)' = <<>> /\ Frames(u) = <<>>
      BY <1>1, <2>3 DEF Alive, Frames
    <3>2. tally'[u] = tally[u]
      BY <2>1, <2>2, <2>3 DEF HasFrame, Alive, TallyType
    <3>3. Frames(u)' = Frames(u)
      BY <3>1
    <3>4. tally'[u].arrived
            = tally'[u].mixed + tally'[u].dropped + tally'[u].expired + Len(Frames(u)')
      BY <2>1, <3>2, <3>3
    <3> QED BY <2>1, <3>1, <3>2, <3>4
  <2>4. CASE sources[u] # <<>> /\ ~Alive(u)
    <3>1. sources'[u] = <<>> /\ Frames(u)' = <<>>
      BY <1>1, <2>4 DEF Frames
    <3>2. Frames(u) = sources[u][1].frames /\ Len(Frames(u)) \in Nat
      BY <2>4, QueuesAreYoung DEF Young, QueueType
    <3>3. tally'[u] = [tally[u] EXCEPT !.expired = @ + Len(Frames(u))]
      BY <2>1, <2>2, <2>4, <3>2 DEF HasFrame, TallyType
    <3>4. /\ tally'[u] \in TallyType
          /\ tally'[u].expired = tally[u].expired + Len(Frames(u))
          /\ tally'[u].arrived = tally[u].arrived
          /\ tally'[u].dropped = tally[u].dropped /\ tally'[u].mixed = tally[u].mixed
      <4> DEFINE n == tally[u].expired + Len(Frames(u))
      <4>1. n \in Nat
        BY <2>1, <3>2, TallyFields
      <4>2. tally'[u] = [tally[u] EXCEPT !.expired = n]
        BY <3>3
      <4> HIDE DEF n
      <4>3. /\ tally'[u] \in TallyType /\ tally'[u].expired = n
            /\ tally'[u].arrived = tally[u].arrived
            /\ tally'[u].dropped = tally[u].dropped /\ tally'[u].mixed = tally[u].mixed
        BY <2>1, <4>1, <4>2 DEF TallyType
      <4> QED BY <4>3 DEF n
    <3>5. tally'[u].arrived
            = tally'[u].mixed + tally'[u].dropped + tally'[u].expired + Len(Frames(u)')
      <4>1. /\ tally[u].arrived \in Nat /\ tally[u].mixed \in Nat
            /\ tally[u].dropped \in Nat /\ tally[u].expired \in Nat
        BY <2>1, TallyFields
      <4> DEFINE m == tally[u].mixed
                 d == tally[u].dropped
                 e == tally[u].expired
                 w == Len(Frames(u))
      <4>2. m + d + e + w = m + d + (e + w) + 0
        <5>1. m \in Nat /\ d \in Nat /\ e \in Nat /\ w \in Nat
          BY <3>2, <4>1
        <5> HIDE DEF m, d, e, w
        <5> QED BY <5>1
      <4>3. Len(Frames(u)') = 0
        BY <3>1
      <4> QED BY <2>1, <3>4, <4>2, <4>3
    <3> QED BY <3>1, <3>4, <3>5
  <2>5. CASE Alive(u)
    <3> DEFINE q == sources[u][1]
    <3>1. Young(q) /\ Frames(u) = q.frames /\ sources[u] # <<>>
      BY <2>5, QueuesAreYoung DEF Alive
    <3>2. sources'[u] = <<Popped(q)>> /\ Frames(u)' = Popped(q).frames
      BY <1>1, <2>5 DEF Frames
    <3>3. tally'[u] = [tally[u] EXCEPT !.mixed = IF q.frames # <<>> THEN @ + 1 ELSE @]
      BY <2>1, <2>2, <2>5, <3>1 DEF HasFrame, TallyType
    <3> HIDE DEF q
    <3>4. /\ Young(Popped(q))
          /\ Len(Popped(q).frames) = IF q.frames = <<>> THEN 0 ELSE Len(q.frames) - 1
      BY <3>1, PopKeepsYoung
    <3>5. /\ Len(q.frames) \in Nat
          /\ q.frames = <<>> => Len(q.frames) = 0
      BY <3>1 DEF Young, QueueType
    <3>6. CASE q.frames = <<>>
      BY <2>1, <3>1, <3>2, <3>3, <3>4, <3>5, <3>6 DEF TallyType
    <3>7. CASE q.frames # <<>>
      <4>1. /\ tally'[u] \in TallyType
            /\ tally'[u].mixed = tally[u].mixed + 1 /\ tally'[u].arrived = tally[u].arrived
            /\ tally'[u].dropped = tally[u].dropped /\ tally'[u].expired = tally[u].expired
        BY <2>1, <3>3, <3>7 DEF TallyType
      <4>2. Len(Frames(u)) = Len(q.frames) /\ Len(Frames(u)') = Len(q.frames) - 1
        BY <3>1, <3>2, <3>4, <3>7
      <4>3. tally'[u].arrived
              = tally'[u].mixed + tally'[u].dropped + tally'[u].expired + Len(Frames(u)')
        <5>1. /\ tally[u].arrived \in Nat /\ tally[u].mixed \in Nat
              /\ tally[u].dropped \in Nat /\ tally[u].expired \in Nat
          BY <2>1, TallyFields
        <5> DEFINE m == tally[u].mixed
                   d == tally[u].dropped
                   e == tally[u].expired
                   w == Len(q.frames)
        <5>2. m + d + e + w = (m + 1) + d + e + (w - 1)
          <6>1. m \in Nat /\ d \in Nat /\ e \in Nat /\ w \in Nat
            BY <3>5, <5>1
          <6> HIDE DEF m, d, e, w
          <6> QED BY <6>1
        <5> QED BY <2>1, <4>1, <4>2, <5>2
      <4> QED BY <3>2, <3>4, <4>1, <4>3
    <3> QED BY <3>6, <3>7
  <2> QED BY <2>3, <2>4, <2>5
<1>3. sources' = [u \in Users |-> sources'[u]] /\ tally' \in [Users -> TallyType]
  <2>1. sources' = [u \in Users |-> sources'[u]]
    BY <1>1
  <2>2. tally' = [u \in Users |-> tally'[u]]
    BY <1>1
  <2> QED BY <1>2, <2>1, <2>2
<1>4. /\ sources' \in [Users -> Seq(QueueType)]
      /\ \A u \in Users : Len(sources'[u]) <= 1 /\ Len(Frames(u)') <= MAX_SOURCE_QUEUE_FRAMES
      /\ LatencyBound'
  BY <1>2, <1>3, YoungQueuesSuffice
<1>5. outputs' \in SUBSET OutputType
  <2>1. ASSUME NEW l \in Users, Reachable(l)
        PROVE  [user |-> l, addr |-> endpoint[l].addr] \in OutputType
    BY <2>1 DEF Inv, TypeOK, Reachable, EndpointType, OutputType
  <2> QED BY <2>1 DEF BuildMixes
<1>6. due' \in 0..MaxLag
  <2>1. due \in 0..MaxLag /\ due > 0 /\ due' = due - 1 /\ MaxLag \in Nat
    BY AudioAssumption DEF Inv, TypeOK, BuildMixes
  <2> QED BY <2>1
<1>7. UNCHANGED <<endpoint, route, receiver, failure, quota>>
  BY DEF BuildMixes
<1>8. TypeOK'
  BY <1>3, <1>4, <1>5, <1>6, <1>7 DEF Inv, TypeOK, TallyType
<1> QED BY <1>2, <1>4, <1>8 DEF Inv, FramesConserved

(* An interval passes: queues only grow more idle. *)
LEMMA ElapseKeepsInv == Inv /\ Elapse => Inv'
<1> SUFFICES ASSUME Inv, Elapse PROVE Inv'
  OBVIOUS
<1>1. ASSUME NEW u \in Users
      PROVE  /\ sources'[u] = <<>> \/ \E q : Young(q) /\ sources'[u] = <<q>>
             /\ Frames(u)' = Frames(u)
  <2>1. CASE sources[u] = <<>>
    BY <2>1 DEF Elapse, Frames
  <2>2. CASE sources[u] # <<>>
    <3> DEFINE q == sources[u][1]
               i == Min2(q.idle + 1, ACTIVE_SOURCE_WINDOW + 1)
    <3>1. Young(q) /\ Frames(u) = q.frames
      BY <2>2, QueuesAreYoung
    <3>2. sources'[u] = <<[q EXCEPT !.idle = i]>>
      BY <2>2 DEF Elapse
    <3>3. i \in Nat
      BY <3>1, AudioAssumption DEF Young, QueueType, Min2
    <3> HIDE DEF q, i
    <3>4. /\ [q EXCEPT !.idle = i] \in QueueType
          /\ [q EXCEPT !.idle = i].frames = q.frames
      BY <3>1, <3>3 DEF Young, QueueType
    <3> DEFINE p == [q EXCEPT !.idle = i]
    <3>5. Young(p) /\ p.frames = Frames(u)
      BY <3>1, <3>4 DEF Young
    <3>6. sources'[u] = <<p>>
      BY <3>2
    <3> HIDE DEF p
    <3>7. Frames(u)' = p.frames
      BY <3>6 DEF Frames
    <3> QED BY <3>5, <3>6, <3>7
  <2> QED BY <2>1, <2>2
<1>2. sources' = [u \in Users |-> sources'[u]]
  BY DEF Elapse
<1>3. /\ sources' \in [Users -> Seq(QueueType)]
      /\ \A u \in Users : Len(sources'[u]) <= 1 /\ Len(Frames(u)') <= MAX_SOURCE_QUEUE_FRAMES
      /\ LatencyBound'
  BY <1>1, <1>2, YoungQueuesSuffice
<1>4. endpoint' \in [Users -> EndpointType]
  <2> DEFINE e(u) == [endpoint[u] EXCEPT !.age =
                        IF endpoint[u].addr = NoAddr THEN 0
                        ELSE Min2(@ + 1, AUDIO_ENDPOINT_TIMEOUT + 1)]
  <2>1. ASSUME NEW u \in Users PROVE e(u) \in EndpointType
    <3>1. endpoint[u] \in EndpointType
      BY DEF Inv, TypeOK
    <3>2. Min2(endpoint[u].age + 1, AUDIO_ENDPOINT_TIMEOUT + 1) \in Nat
      BY <3>1, AudioAssumption DEF EndpointType, Min2
    <3> QED BY <3>1, <3>2 DEF EndpointType
  <2>2. endpoint' = [u \in Users |-> e(u)]
    BY DEF Elapse
  <2> HIDE DEF e
  <2> QED BY <2>1, <2>2
<1>5. due' \in 0..MaxLag
  BY AudioAssumption DEF Inv, TypeOK, Elapse
<1>6. quota' \in [Users -> SUBSET Targets]
  <2>1. \A u \in Users : route[u].tx \in SUBSET Targets
    BY DEF Inv, TypeOK, RouteType
  <2>2. quota' = [u \in Users |-> route[u].tx]
    BY DEF Elapse
  <2> QED BY <2>1, <2>2
<1>7. UNCHANGED <<route, receiver, outputs, failure, tally>>
  BY DEF Elapse
<1>8. TypeOK'
  BY <1>3, <1>4, <1>5, <1>6, <1>7 DEF Inv, TypeOK
<1>9. FramesConserved'
  BY <1>1, <1>7 DEF Inv, FramesConserved
<1> QED BY <1>3, <1>8, <1>9 DEF Inv

(* A step that leaves the queues alone has only its own types to keep. *)
LEMMA QueuesUntouched ==
  ASSUME Inv, UNCHANGED <<sources, tally>>,
         endpoint' \in [Users -> EndpointType],
         route' \in [Users -> RouteType],
         receiver' \in Seq(PacketType), Len(receiver') <= 1,
         outputs' \in SUBSET OutputType,
         failure' \in Seq(OutputType), Len(failure') <= 1,
         due' \in 0..MaxLag,
         quota' \in [Users -> SUBSET Targets]
  PROVE  Inv'
<1>1. \A u \in Users : Frames(u)' = Frames(u)
  BY DEF Frames
<1>2. TypeOK'
  BY <1>1 DEF Inv, TypeOK
<1>3. LatencyBound' /\ FramesConserved'
  BY <1>1 DEF Inv, LatencyBound, FramesConserved
<1> QED BY <1>2, <1>3 DEF Inv

LEMMA RegisterEndpointTypes ==
  ASSUME Inv, NEW u \in Users, NEW a \in Addrs, NEW r \in RouteType, RegisterEndpoint(u, a, r)
  PROVE  endpoint' \in [Users -> EndpointType] /\ route' \in [Users -> RouteType]
<1>1. [addr |-> a, age |-> 0] \in EndpointType
  BY DEF EndpointType
<1> QED BY <1>1 DEF Inv, TypeOK, RegisterEndpoint, Registered

LEMMA RegistrationKeepsInv ==
  ASSUME Inv, NEW u \in Users, NEW a \in Addrs,
         RegisterAudioEndpoint(u, a) \/ \E t \in Targets : RegisterAudioSource(u, t, a)
  PROVE  Inv'
<1>1. ASSUME NEW r \in Routes(u) PROVE r \in RouteType
  BY <1>1 DEF Routes, TxSets, RouteType
<1>2. CASE RegisterAudioEndpoint(u, a)
  <2>1. endpoint' \in [Users -> EndpointType] /\ route' \in [Users -> RouteType]
    BY <1>1, <1>2, RegisterEndpointTypes DEF RegisterAudioEndpoint
  <2> QED BY <1>2, <2>1, QueuesUntouched DEF Inv, TypeOK, RegisterAudioEndpoint
<1>3. ASSUME NEW t \in Targets, RegisterAudioSource(u, t, a)
      PROVE  Inv'
  <2>1. PICK r \in Routes(u) : RegisterEndpoint(u, a, r)
    BY <1>3 DEF RegisterAudioSource
  <2>2. endpoint' \in [Users -> EndpointType] /\ route' \in [Users -> RouteType]
    BY <1>1, <2>1, RegisterEndpointTypes
  <2>3. quota' \in [Users -> SUBSET Targets]
    BY <1>3 DEF Inv, TypeOK, RegisterAudioSource
  <2>4. receiver' \in Seq(PacketType) /\ Len(receiver') = 1
    BY <1>3 DEF RegisterAudioSource, PacketType
  <2>5. UNCHANGED <<sources, outputs, failure, due, tally>>
    BY <1>3 DEF RegisterAudioSource
  <2> QED BY <2>2, <2>3, <2>4, <2>5, QueuesUntouched DEF Inv, TypeOK
<1> QED BY <1>2, <1>3

LEMMA JoinKeepsInv == Inv /\ JoinChannel => Inv'
<1> SUFFICES ASSUME Inv, JoinChannel PROVE Inv'
  OBVIOUS
<1>1. receiver \in Seq(PacketType) /\ receiver # <<>>
  BY DEF Inv, TypeOK, JoinChannel, Idle
<1>2. receiver[1] \in PacketType
  BY <1>1, FirstOfSeq
<1>3. receiver' \in Seq(PacketType) /\ Len(receiver') = 1
  <2>1. [receiver[1] EXCEPT !.joined = TRUE] \in PacketType
    BY <1>2 DEF PacketType
  <2> QED BY <2>1 DEF JoinChannel
<1>4. route' \in [Users -> RouteType]
  <2> DEFINE u == receiver[1].user
  <2>1. route \in [Users -> RouteType] /\ u \in Users
    BY <1>2 DEF Inv, TypeOK, PacketType
  <2>2. PICK joined \in Joined(route[u], receiver[1].target) : route' = [route EXCEPT ![u] = joined]
    BY DEF JoinChannel
  <2>3. joined \in RouteType
    <3>1. route[u].tx \in SUBSET Targets /\ route[u].listen \in SUBSET Channels
      BY <2>1 DEF RouteType
    <3>2. receiver[1].target \in Targets
      BY <1>2 DEF PacketType
    <3>3. joined \in [tx : SUBSET Targets, listen : SUBSET Channels]
      BY <3>1, <3>2 DEF Joined
    <3> QED BY <3>3 DEF RouteType
  <2> QED BY <2>1, <2>2, <2>3
<1> QED BY <1>3, <1>4, QueuesUntouched DEF Inv, TypeOK, JoinChannel

LEMMA SendKeepsInv ==
  ASSUME Inv, ClearAudioEndpoint \/ \E o \in outputs : SendMix(o) \/ SendFails(o)
  PROVE  Inv'
<1>1. CASE ClearAudioEndpoint
  <2>1. endpoint' \in [Users -> EndpointType]
    <3>1. [addr |-> NoAddr, age |-> 0] \in EndpointType
      BY DEF EndpointType
    <3> QED BY <1>1, <3>1 DEF Inv, TypeOK, ClearAudioEndpoint
  <2>2. failure' = <<>>
    BY <1>1 DEF ClearAudioEndpoint, Idle
  <2>3. UNCHANGED <<route, sources, receiver, outputs, due, quota, tally>>
    BY <1>1 DEF ClearAudioEndpoint
  <2> QED BY <2>1, <2>2, <2>3, QueuesUntouched DEF Inv, TypeOK
<1>2. ASSUME NEW o \in outputs, SendMix(o) PROVE Inv'
  BY <1>2, QueuesUntouched DEF Inv, TypeOK, SendMix
<1>3. ASSUME NEW o \in outputs, SendFails(o) PROVE Inv'
  <2>1. failure' \in Seq(OutputType) /\ Len(failure') = 1
    BY <1>3 DEF Inv, TypeOK, SendFails
  <2> QED BY <1>3, <2>1, QueuesUntouched DEF Inv, TypeOK, SendFails
<1> QED BY <1>1, <1>2, <1>3

LEMMA RerouteKeepsInv ==
  ASSUME Inv, NEW u \in Users, NEW r \in Routes(u), Reroute(u, r)
  PROVE  Inv'
<1>1. r \in RouteType
  BY DEF Routes, TxSets, RouteType
<1> QED BY <1>1, QueuesUntouched DEF Inv, TypeOK, Reroute

-----------------------------------------------------------------------------
(* The theorems. *)

LEMMA NextKeepsInv == Inv /\ [Next]_vars => Inv'
<1> SUFFICES ASSUME Inv, [Next]_vars PROVE Inv'
  OBVIOUS
<1>1. CASE \E u \in Users, a \in Addrs : RegisterAudioEndpoint(u, a)
  BY <1>1, RegistrationKeepsInv
<1>2. CASE \E u \in Talkers, t \in Targets, a \in Addrs : RegisterAudioSource(u, t, a)
  BY <1>2, RegistrationKeepsInv, AudioAssumption
<1>3. CASE StoreSourceFrame
  BY <1>3, StoreKeepsInv
<1>4. CASE BuildMixes
  BY <1>4, MixKeepsInv
<1>5. CASE ClearAudioEndpoint \/ \E o \in outputs : SendMix(o) \/ SendFails(o)
  BY <1>5, SendKeepsInv
<1>6. CASE Elapse
  BY <1>6, ElapseKeepsInv
<1>7. CASE \E u \in Users : \E r \in Routes(u) : Reroute(u, r)
  BY <1>7, RerouteKeepsInv
<1>8. CASE UNCHANGED vars
  BY <1>8, QueuesUntouched DEF vars, Inv, TypeOK
<1>9. CASE JoinChannel
  BY <1>9, JoinKeepsInv
<1> QED BY <1>1, <1>2, <1>3, <1>4, <1>5, <1>6, <1>7, <1>8, <1>9 DEF Next

LEMMA Invariance == Spec => []Inv
BY InitEstablishesInv, NextKeepsInv, PTL DEF Spec

(* Every variable of the audio path keeps its type, and no source queue ever
   holds more than MAX_SOURCE_QUEUE_FRAMES frames (SourceQueue::push). *)
THEOREM AudioTypes == Spec => []TypeOK
<1>1. Inv => TypeOK
  BY DEF Inv
<1> QED BY <1>1, Invariance, PTL

(* However packets, ticks and the clock interleave, a frame waits for fewer
   than MAX_SOURCE_QUEUE_FRAMES ticks of the mixer (SourceQueue::push, pop). *)
THEOREM LatencyIsBounded == Spec => []LatencyBound
<1>1. Inv => LatencyBound
  BY DEF Inv
<1> QED BY <1>1, Invariance, PTL

(* The frames received are those mixed, dropped, expired and waiting: none is
   lost or mixed without being counted (store_source_frame, build_mixes). *)
THEOREM FramesAreConserved == Spec => []FramesConserved
<1>1. Inv => FramesConserved
  BY DEF Inv
<1> QED BY <1>1, Invariance, PTL

(* The endpoint that a client registered after a send failed is kept
   (clear_audio_endpoint_if_matches). *)
THEOREM NewEndpointIsKept == Spec => OnlyFailedEndpointCleared
<1> DEFINE Cleared == \A u \in Users :
             endpoint[u].addr # NoAddr /\ endpoint'[u].addr = NoAddr
               => failure = <<[user |-> u, addr |-> endpoint[u].addr]>>
<1>1. Inv /\ [Next]_vars => [Cleared]_vars
  <2> SUFFICES ASSUME Inv, Next, NEW u \in Users,
                      endpoint[u].addr # NoAddr, endpoint'[u].addr = NoAddr
               PROVE  failure = <<[user |-> u, addr |-> endpoint[u].addr]>>
    OBVIOUS
  <2>1. endpoint \in [Users -> EndpointType]
    BY DEF Inv, TypeOK
  <2>2. CASE ClearAudioEndpoint
    <3>1. /\ failure \in Seq(OutputType) /\ Len(failure) <= 1
          /\ failure # <<>>
      BY <2>2 DEF Inv, TypeOK, ClearAudioEndpoint, Idle
    <3>2. failure[1] \in OutputType
      BY <3>1, FirstOfSeq
    <3>3. failure = <<failure[1]>>
      BY <3>1, SingletonSeq
    <3>4. failure[1].user = u /\ failure[1].addr = endpoint[u].addr
      BY <2>1, <2>2, <3>2 DEF ClearAudioEndpoint, Matches
    <3>5. failure[1] = [user |-> u, addr |-> endpoint[u].addr]
      BY <3>2, <3>4 DEF OutputType
    <3> QED BY <3>3, <3>5
  <2>3. CASE Elapse
    <3>1. endpoint[u] \in EndpointType
      BY <2>1
    <3>2. endpoint'[u].addr = endpoint[u].addr
      BY <2>3, <3>1 DEF Elapse, EndpointType
    <3> QED BY <3>2
  <2>4. ASSUME NEW v \in Users, NEW a \in Addrs, endpoint' = Registered(v, a)
        PROVE  FALSE
    BY <2>1, <2>4, AudioAssumption DEF Registered
  <2>5. CASE UNCHANGED endpoint
    BY <2>5
  <2>6. CASE JoinChannel \/ StoreSourceFrame \/ BuildMixes
    BY <2>5, <2>6 DEF JoinChannel, StoreSourceFrame, BuildMixes
  <2>7. ASSUME NEW o \in outputs, SendMix(o) \/ SendFails(o) PROVE UNCHANGED endpoint
    BY <2>7 DEF SendMix, SendFails
  <2>8. ASSUME NEW v \in Users, NEW r \in Routes(v), Reroute(v, r) PROVE UNCHANGED endpoint
    BY <2>8 DEF Reroute
  <2>9. CASE \E v \in Users, a \in Addrs : RegisterAudioEndpoint(v, a)
    BY <2>4, <2>9 DEF RegisterAudioEndpoint, RegisterEndpoint
  <2>10. CASE \E v \in Talkers, t \in Targets, a \in Addrs : RegisterAudioSource(v, t, a)
    BY <2>4, <2>10, AudioAssumption DEF RegisterAudioSource, RegisterEndpoint
  <2> QED BY <2>2, <2>3, <2>5, <2>6, <2>7, <2>8, <2>9, <2>10 DEF Next
<1> QED BY <1>1, Invariance, PTL DEF Spec, OnlyFailedEndpointCleared

-----------------------------------------------------------------------------
(* The queues implement TalkerFifo. *)

(* The numbers of the frames of a queue, as a sequence. *)
LEMMA IdsOfFrames ==
  ASSUME NEW s \in Seq(FrameType)
  PROVE  /\ Ids(s) \in Seq(Nat) /\ Len(Ids(s)) = Len(s)
         /\ \A k \in 1..Len(s) : Ids(s)[k] = s[k].id
<1>1. ASSUME NEW k \in 1..Len(s) PROVE s[k].id \in Nat
  <2>1. s[k] \in FrameType
    OBVIOUS
  <2> QED BY <2>1 DEF FrameType
<1>2. Ids(s) \in [1..Len(s) -> Nat] /\ Len(s) \in Nat
  BY <1>1 DEF Ids
<1> QED BY <1>2 DEF Ids

(* A queue without its first frames has a suffix of the numbers. *)
LEMMA DroppedIsSuffix ==
  ASSUME NEW s \in Seq(FrameType), NEW t \in Seq(FrameType), NEW d \in 0..Len(s),
         Len(t) = Len(s) - d, \A k \in 1..Len(t) : t[k].id = s[k + d].id
  PROVE  Ids(t) \in Fifo!Suffixes(Ids(s))
<1>1. /\ Ids(s) \in Seq(Nat) /\ Len(Ids(s)) = Len(s) /\ Len(s) \in Nat
      /\ \A k \in 1..Len(s) : Ids(s)[k] = s[k].id
  BY IdsOfFrames
<1>2. /\ Ids(t) \in Seq(Nat) /\ Len(Ids(t)) = Len(t)
      /\ \A k \in 1..Len(t) : Ids(t)[k] = t[k].id
  BY IdsOfFrames
<1> DEFINE r == SubSeq(Ids(s), d + 1, Len(s))
<1>3. /\ r \in Seq(Nat) /\ Len(r) = Len(s) - d
      /\ \A k \in 1..(Len(s) - d) : r[k] = Ids(s)[k + d]
  <2> DEFINE m == d + 1
             n == Len(s)
             ids == Ids(s)
  <2>1. m \in Int /\ n \in Int /\ \A k \in m..n : ids[k] \in Nat
    BY <1>1
  <2>2. r = SubSeq(ids, m, n)
    OBVIOUS
  <2>3. m = d + 1 /\ n = Len(s) /\ ids = Ids(s)
    OBVIOUS
  <2> HIDE DEF m, n, ids, r
  <2>4. /\ r \in Seq(Nat) /\ Len(r) = IF m <= n THEN n - m + 1 ELSE 0
        /\ \A k \in 1..(n - m + 1) : r[k] = ids[m + k - 1]
    BY <2>1, <2>2, SubSeqProperties
  <2>5. Len(r) = Len(s) - d
    BY <1>1, <2>3, <2>4
  <2>6. ASSUME NEW k \in 1..(Len(s) - d) PROVE r[k] = Ids(s)[k + d]
    <3>1. k \in 1..(n - m + 1) /\ m + k - 1 = k + d
      BY <1>1, <2>3
    <3> QED BY <2>3, <2>4, <3>1
  <2> QED BY <2>4, <2>5, <2>6
<1>4. Ids(t) = r
  <2> HIDE DEF r
  <2>1. ASSUME NEW k \in 1..Len(Ids(t)) PROVE Ids(t)[k] = r[k]
    <3>1. k \in 1..Len(t) /\ k \in 1..(Len(s) - d) /\ k + d \in 1..Len(s)
      BY <1>1, <1>2
    <3> QED BY <1>1, <1>2, <1>3, <3>1
  <2> QED BY <1>2, <1>3, <2>1, SeqEqual
<1>5. d + 1 \in 1..(Len(Ids(s)) + 1) /\ r = SubSeq(Ids(s), d + 1, Len(Ids(s)))
  BY <1>1
<1> QED BY <1>4, <1>5 DEF Fifo!Suffixes

LEMMA FramesAreTyped ==
  ASSUME Inv, NEW u \in Users
  PROVE  Frames(u) \in Seq(FrameType) /\ Len(Frames(u)) \in Nat
<1>1. CASE Frames(u) = <<>>
  BY <1>1
<1>2. CASE Frames(u) # <<>>
  <2>1. Young(sources[u][1]) /\ Frames(u) = sources[u][1].frames
    BY <1>2, QueuesAreYoung
  <2> QED BY <2>1 DEF Young, QueueType
<1> QED BY <1>1, <1>2

LEMMA InitIsFifo == Init => Fifo!Init
<1> SUFFICES ASSUME Init PROVE Fifo!Init
  OBVIOUS
<1>1. ASSUME NEW u \in Users PROVE Ids(Frames(u)) = <<>> /\ tally[u].arrived = 0
  BY DEF Init, Frames, Ids
<1> QED BY <1>1 DEF Fifo!Init, Waiting, Arrived

(* A frame is stored behind what a full queue keeps. *)
LEMMA StoreIsAccept ==
  ASSUME Inv, StoreSourceFrame
  PROVE  \E u \in Users : Fifo!Accept(u)
<1> DEFINE v == receiver[1].user
           q == IF sources[v] = <<>> THEN EmptyQueue ELSE sources[v][1]
           n == tally[v].arrived + 1
           f == [target |-> receiver[1].target, id |-> n, waited |-> 0]
           rest == IF Full(q) THEN Tail(q.frames) ELSE q.frames
           d == IF Full(q) THEN 1 ELSE 0
<1>1. v \in Users /\ f \in FrameType /\ tally \in [Users -> TallyType] /\ f.id = n
  <2>1. receiver \in Seq(PacketType) /\ receiver # <<>>
    BY DEF Inv, TypeOK, StoreSourceFrame, Idle
  <2>2. receiver[1] \in PacketType
    BY <2>1, FirstOfSeq
  <2>3. tally[v].arrived \in Nat
    BY <2>2 DEF Inv, TypeOK, PacketType, TallyType
  <2> QED BY <2>2, <2>3 DEF FrameType, PacketType, Inv, TypeOK
<1>2. Young(q) /\ q.frames = Frames(v)
  <2>1. CASE sources[v] = <<>>
    BY <2>1, AudioAssumption DEF EmptyQueue, Young, QueueType, Frames
  <2>2. CASE sources[v] # <<>>
    BY <1>1, <2>2, QueuesAreYoung
  <2> QED BY <2>1, <2>2
<1>3. /\ sources' = [sources EXCEPT ![v] = <<Pushed(q, f)>>]
      /\ tally' = [tally EXCEPT ![v].arrived = n, ![v].dropped = IF Full(q) THEN @ + 1 ELSE @]
  BY DEF StoreSourceFrame
<1>4. sources \in [Users -> Seq(QueueType)]
  BY DEF Inv, TypeOK
<1>5. \A u \in Users : Frames(u)' = IF u = v THEN Append(rest, f) ELSE Frames(u)
  <2>1. Pushed(q, f).frames = Append(rest, f)
    BY Zenon DEF Pushed
  <2> DEFINE p == Pushed(q, f)
  <2>2. p.frames = Append(rest, f)
    BY <2>1, Zenon
  <2> HIDE DEF v, q, f, rest, p, d, n
  <2>3. sources' = [sources EXCEPT ![v] = <<p>>]
    BY <1>3 DEF p
  <2> TAKE u \in Users
  <2>4. CASE u = v
    <3>1. sources'[u] = <<p>>
      BY <1>1, <1>4, <2>3, <2>4
    <3>2. Frames(u)' = p.frames
      BY <3>1 DEF Frames
    <3> QED BY <2>2, <2>4, <3>2
  <2>5. CASE u # v
    BY <1>4, <2>3, <2>5 DEF Frames
  <2> QED BY <2>4, <2>5, SMTT(30)
<1>6. /\ q.frames \in Seq(FrameType) /\ Len(q.frames) \in Nat
      /\ Len(q.frames) <= MAX_SOURCE_QUEUE_FRAMES
      /\ q.frames = <<>> => Len(q.frames) = 0
  BY <1>2, SMTT(30) DEF Young, QueueType
<1>7. /\ rest \in Seq(FrameType) /\ Len(rest) \in Nat /\ Len(rest) < MAX_SOURCE_QUEUE_FRAMES
      /\ d \in 0..Len(q.frames) /\ Len(rest) = Len(q.frames) - d
      /\ \A k \in 1..Len(rest) : rest[k].id = q.frames[k + d].id
  <2>1. CASE Full(q)
    <3>1. q.frames # <<>> /\ Len(q.frames) = MAX_SOURCE_QUEUE_FRAMES
      BY <1>6, <2>1, AudioAssumption DEF Full
    <3>2. /\ Tail(q.frames) \in Seq(FrameType) /\ Len(Tail(q.frames)) = Len(q.frames) - 1
          /\ \A k \in 1..Len(Tail(q.frames)) : Tail(q.frames)[k] = q.frames[k + 1]
      BY <1>6, <3>1, HeadTailProperties
    <3>3. rest = Tail(q.frames) /\ d = 1
      BY <2>1
    <3> HIDE DEF rest, d, q
    <3> QED BY <1>6, <3>1, <3>2, <3>3, AudioAssumption
  <2>2. CASE ~Full(q)
    <3>1. rest = q.frames /\ d = 0 /\ Len(q.frames) # MAX_SOURCE_QUEUE_FRAMES
      BY <2>2 DEF Full
    <3> HIDE DEF rest, d, q
    <3> QED BY <1>6, <3>1, AudioAssumption
  <2> QED BY <2>1, <2>2
<1>8. /\ Arrived' = [Arrived EXCEPT ![v] = @ + 1] /\ Arrived[v] + 1 = n
  <2> HIDE DEF v, q, n
  <2>1. \A u \in Users : tally'[u].arrived = IF u = v THEN n ELSE tally[u].arrived
    BY <1>1, <1>3 DEF TallyType
  <2>2. Arrived[v] = tally[v].arrived /\ Arrived \in [Users -> Nat]
    BY <1>1 DEF Arrived, TallyType
  <2>3. Arrived[v] + 1 = n
    BY <2>2 DEF n
  <2> QED BY <1>1, <2>1, <2>2, <2>3 DEF Arrived
<1>9. Ids(rest) \in Fifo!Suffixes(Waiting[v]) /\ Len(Ids(rest)) < MAX_SOURCE_QUEUE_FRAMES
  <2>1. Waiting[v] = Ids(q.frames)
    BY <1>1, <1>2 DEF Waiting
  <2> HIDE DEF v, q, rest, d
  <2> QED BY <1>6, <1>7, <2>1, DroppedIsSuffix, IdsOfFrames
<1>10. Ids(Append(rest, f)) = Append(Ids(rest), n)
  <2> HIDE DEF rest, f, n, q, d
  <2>1. rest \in Seq(FrameType) /\ Len(rest) \in Nat
    BY <1>7
  <2>2. /\ Append(rest, f) \in Seq(FrameType) /\ Len(Append(rest, f)) = Len(rest) + 1
        /\ \A k \in 1..Len(rest) : Append(rest, f)[k] = rest[k]
        /\ Append(rest, f)[Len(rest) + 1] = f
    BY <1>1, <2>1
  <2>3. n \in Nat
    BY <1>1 DEF FrameType
  <2>4. /\ Ids(rest) \in Seq(Nat) /\ Len(Ids(rest)) = Len(rest)
        /\ \A k \in 1..Len(rest) : Ids(rest)[k] = rest[k].id
        /\ Ids(Append(rest, f)) \in Seq(Nat) /\ Len(Ids(Append(rest, f))) = Len(rest) + 1
        /\ \A k \in 1..(Len(rest) + 1) : Ids(Append(rest, f))[k] = Append(rest, f)[k].id
    BY <2>1, <2>2, IdsOfFrames
  <2>5. /\ Append(Ids(rest), n) \in Seq(Nat) /\ Len(Append(Ids(rest), n)) = Len(rest) + 1
        /\ \A k \in 1..Len(rest) : Append(Ids(rest), n)[k] = Ids(rest)[k]
        /\ Append(Ids(rest), n)[Len(rest) + 1] = n
    BY <2>3, <2>4
  <2>6. \A k \in 1..(Len(rest) + 1) : Ids(Append(rest, f))[k] = Append(Ids(rest), n)[k]
    <3> TAKE k \in 1..(Len(rest) + 1)
    <3>1. CASE k \in 1..Len(rest)
      <4>1. /\ Append(rest, f)[k] = rest[k] /\ Ids(rest)[k] = rest[k].id
            /\ Append(Ids(rest), n)[k] = Ids(rest)[k]
        BY <2>2, <2>4, <2>5, <3>1
      <4>2. Ids(Append(rest, f))[k] = Append(rest, f)[k].id
        BY <2>4
      <4> QED BY <4>1, <4>2
    <3>2. CASE k = Len(rest) + 1
      <4>1. k \in 1..(Len(rest) + 1) /\ Append(rest, f)[k] = f /\ Append(Ids(rest), n)[k] = n
        BY <2>2, <2>5, <3>2
      <4>2. Ids(Append(rest, f))[k] = Append(rest, f)[k].id
        BY <2>4, <4>1
      <4> QED BY <1>1, <4>1, <4>2
    <3>3. k \in 1..Len(rest) \/ k = Len(rest) + 1
      BY <2>1
    <3> QED BY <3>1, <3>2, <3>3
  <2> QED BY <2>4, <2>5, <2>6, SeqEqual
<1>11. Waiting' = [Waiting EXCEPT ![v] = Append(Ids(rest), Arrived[v] + 1)]
  <2> HIDE DEF v, rest, f, n, q
  <2>1. \A u \in Users : Ids(Frames(u)') = IF u = v THEN Append(Ids(rest), n) ELSE Ids(Frames(u))
    BY <1>5, <1>10
  <2>2. Waiting' = [u \in Users |-> Ids(Frames(u)')]
    BY DEF Waiting, Ids
  <2> QED BY <1>1, <1>8, <2>1, <2>2 DEF Waiting
<1> HIDE DEF v, rest
<1> QED BY <1>1, <1>8, <1>9, <1>11 DEF Fifo!Accept

(* Whatever else happens to the queues takes frames from their fronts. *)
LEMMA ShorterIsRelease ==
  ASSUME UNCHANGED Arrived,
         \A u \in Users : Ids(Frames(u)') \in Fifo!Suffixes(Ids(Frames(u)))
  PROVE  Fifo!Release
<1>1. Waiting' = [u \in Users |-> Ids(Frames(u)')]
  BY DEF Waiting, Ids
<1>2. \A u \in Users : Waiting'[u] \in Fifo!Suffixes(Waiting[u])
  BY <1>1 DEF Waiting
<1>3. Waiting' \in [Users -> UNION {Fifo!Suffixes(Waiting[u]) : u \in Users}]
  BY <1>1, <1>2
<1> QED BY <1>2, <1>3 DEF Fifo!Release

LEMMA MixIsRelease ==
  ASSUME Inv, BuildMixes
  PROVE  Fifo!Release
<1>1. UNCHANGED Arrived
  <2>1. ASSUME NEW u \in Users PROVE tally'[u].arrived = tally[u].arrived
    <3>1. tally[u] \in TallyType
      BY DEF Inv, TypeOK
    <3> QED BY <3>1 DEF BuildMixes, TallyType
  <2> QED BY <2>1 DEF Arrived
<1>2. ASSUME NEW u \in Users PROVE Ids(Frames(u)') \in Fifo!Suffixes(Ids(Frames(u)))
  <2>1. Frames(u) \in Seq(FrameType) /\ Len(Frames(u)) \in Nat
    BY FramesAreTyped
  <2>2. sources'[u] = IF Alive(u) THEN <<Popped(sources[u][1])>> ELSE <<>>
    BY DEF BuildMixes
  <2>3. CASE ~Alive(u) \/ Frames(u) = <<>>
    <3>1. Frames(u)' = <<>>
      <4>1. CASE ~Alive(u)
        BY <2>2, <4>1 DEF Frames
      <4>2. CASE Alive(u) /\ Frames(u) = <<>>
        <5>1. Young(sources[u][1]) /\ sources[u][1].frames = <<>>
          BY <4>2, QueuesAreYoung DEF Alive
        <5>2. Popped(sources[u][1]).frames = <<>>
          BY <5>1 DEF Popped, Young, QueueType
        <5> QED BY <2>2, <4>2, <5>2 DEF Frames
      <4> QED BY <2>3, <4>1, <4>2
    <3> DEFINE none == <<>>
               all == Len(Frames(u))
    <3>2. /\ none \in Seq(FrameType) /\ all \in 0..Len(Frames(u))
          /\ Len(none) = Len(Frames(u)) - all /\ 1..Len(none) = {}
      BY <2>1
    <3> HIDE DEF none, all
    <3>3. Ids(none) \in Fifo!Suffixes(Ids(Frames(u)))
      BY <2>1, <3>2, DroppedIsSuffix
    <3> QED BY <3>1, <3>3 DEF none
  <2>4. CASE Alive(u) /\ Frames(u) # <<>>
    <3> DEFINE q == sources[u][1]
               m == Len(q.frames) - 1
               moved == [k \in 1..m |-> Aged(q.frames[k + 1])]
    <3>1. Young(q) /\ Frames(u) = q.frames /\ q \in QueueType
      BY <2>4, QueuesAreYoung DEF Alive, Young
    <3>2. Frames(u)' = moved
      <4>1. Popped(q).frames = moved
        BY <2>4, <3>1 DEF Popped, QueueType
      <4> HIDE DEF q, moved
      <4>2. sources'[u] = <<Popped(q)>>
        BY <2>2, <2>4 DEF q
      <4> QED BY <4>1, <4>2 DEF Frames
    <3>3. m \in Nat /\ Len(Frames(u)) = m + 1
      BY <2>1, <2>4, <3>1
    <3>4. ASSUME NEW k \in 1..m
          PROVE  moved[k] \in FrameType /\ moved[k].id = Frames(u)[k + 1].id
      <4>1. Frames(u)[k + 1] \in FrameType
        BY <2>1, <3>3
      <4> QED BY <3>1, <4>1, SMTT(30) DEF Aged, FrameType
    <3>5. moved \in [1..m -> FrameType]
      BY <3>4
    <3> HIDE DEF moved, m
    <3>6. moved \in Seq(FrameType) /\ Len(moved) = m
      BY <3>3, <3>5
    <3>7. 1 \in 0..Len(Frames(u)) /\ Len(moved) = Len(Frames(u)) - 1
      BY <3>3, <3>6
    <3> QED BY <2>1, <3>2, <3>4, <3>6, <3>7, DroppedIsSuffix
  <2> QED BY <2>3, <2>4
<1> QED BY <1>1, <1>2, ShorterIsRelease

(* Only the receiver and the mixer touch the frames. *)
LEMMA FramesUntouched ==
  ASSUME UNCHANGED tally, \A u \in Users : Frames(u)' = Frames(u)
  PROVE  UNCHANGED <<Waiting, Arrived>>
BY DEF Waiting, Arrived, Ids

LEMMA NextIsFifo == Inv /\ [Next]_vars => [Fifo!Next]_<<Waiting, Arrived>>
<1> SUFFICES ASSUME Inv, [Next]_vars PROVE [Fifo!Next]_<<Waiting, Arrived>>
  OBVIOUS
<1>1. CASE StoreSourceFrame
  BY <1>1, StoreIsAccept DEF Fifo!Next
<1>2. CASE BuildMixes
  BY <1>2, MixIsRelease DEF Fifo!Next
<1>3. CASE UNCHANGED <<sources, tally>>
  <2>1. \A u \in Users : Frames(u)' = Frames(u)
    BY <1>3 DEF Frames
  <2> QED BY <1>3, <2>1, FramesUntouched
<1>4. CASE Elapse
  <2>1. ASSUME NEW u \in Users PROVE Frames(u)' = Frames(u)
    <3>1. CASE sources[u] = <<>>
      BY <1>4, <3>1 DEF Elapse, Frames
    <3>2. CASE sources[u] # <<>>
      <4> DEFINE q == sources[u][1]
                 i == Min2(q.idle + 1, ACTIVE_SOURCE_WINDOW + 1)
      <4>1. q \in QueueType
        BY <3>2, QueuesAreYoung DEF Young
      <4>2. sources'[u] = <<[q EXCEPT !.idle = i]>>
        BY <1>4, <3>2 DEF Elapse
      <4> HIDE DEF q, i
      <4>3. [q EXCEPT !.idle = i].frames = q.frames
        BY <4>1 DEF QueueType
      <4> DEFINE p == [q EXCEPT !.idle = i]
      <4>4. p.frames = q.frames /\ sources'[u] = <<p>>
        BY <4>2, <4>3
      <4> HIDE DEF p
      <4>5. Frames(u)' = q.frames
        BY <4>4 DEF Frames
      <4> QED BY <3>2, <4>5 DEF Frames, q
    <3> QED BY <3>1, <3>2
  <2>2. UNCHANGED tally
    BY <1>4 DEF Elapse
  <2> QED BY <2>1, <2>2, FramesUntouched
<1>5. CASE \/ \E u \in Users, a \in Addrs : RegisterAudioEndpoint(u, a)
           \/ \E u \in Talkers, t \in Targets, a \in Addrs : RegisterAudioSource(u, t, a)
           \/ JoinChannel \/ ClearAudioEndpoint
           \/ \E o \in outputs : SendMix(o) \/ SendFails(o)
           \/ \E u \in Users : \E r \in Routes(u) : Reroute(u, r)
  BY <1>3, <1>5 DEF RegisterAudioEndpoint, RegisterAudioSource, JoinChannel, ClearAudioEndpoint,
                    SendMix, SendFails, Reroute
<1>6. CASE UNCHANGED vars
  BY <1>3, <1>6 DEF vars
<1> QED BY <1>1, <1>2, <1>4, <1>5, <1>6 DEF Next

(* The source queues are a bounded FIFO that gives up frames at its front only
   (SourceQueue::push and pop, build_mixes): each frame leaves once, in the order of
   arrival, and at most MAX_SOURCE_QUEUE_FRAMES wait. *)
THEOREM QueuesAreFifo == Spec => ImplementsTalkerFifo
BY InitIsFifo, NextIsFifo, Invariance, PTL DEF Spec, ImplementsTalkerFifo, Fifo!Spec
=============================================================================
