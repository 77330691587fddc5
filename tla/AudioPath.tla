------------------------------ MODULE AudioPath ------------------------------
(***************************************************************************)
(* The UDP audio path of the server: the receiver task registers endpoints  *)
(* and stores one frame per packet in the talker's bounded queue, the mixer  *)
(* task wakes every MIX_INTERVAL, takes ONE frame from every live queue,     *)
(* builds a packet for each listener that hears something and sends it; a    *)
(* failed send clears the endpoint it was sent to.  The two tasks share only *)
(* the session and source tables, each behind a lock of its own, so a step   *)
(* of either task runs from one lock acquisition to the next.                *)
(*                                                                         *)
(* Time is counted in MIX_INTERVALs.  Samples, gains and codecs are left     *)
(* out, and so is at what gain a listener hears a frame.                    *)
(***************************************************************************)
EXTENDS Naturals, Sequences, FiniteSets

CONSTANTS
  Users,                    \* enrolled users, never SERVER_USER_ID
  Talkers,                  \* those of them that ever send audio; the rest only listen
  Channels,                 \* party-line channels
  Addrs,                    \* UDP source addresses of clients
  NoAddr,                   \* Session.addr = None
  MAX_SOURCE_QUEUE_FRAMES,  \* frames a source queue holds
  ACTIVE_SOURCE_WINDOW,     \* MIX_INTERVALs a queue outlives its last push
  AUDIO_ENDPOINT_TIMEOUT,   \* MIX_INTERVALs an endpoint outlives its last packet
  MaxLag,                   \* bound: mixer ticks due and not yet taken
  MaxPackets,               \* bound: audio packets per talker
  MaxTargets,               \* bound: targets a session transmits to at once
  Paced                     \* TRUE: a talker sends one packet per target per interval

ASSUME AudioAssumption ==
  /\ Talkers \subseteq Users
  /\ MAX_SOURCE_QUEUE_FRAMES \in Nat \ {0}
  /\ ACTIVE_SOURCE_WINDOW \in Nat
  /\ AUDIO_ENDPOINT_TIMEOUT \in Nat
  /\ MaxLag \in Nat /\ MaxPackets \in Nat /\ MaxTargets \in Nat
  /\ NoAddr \notin Addrs
  /\ Paced \in BOOLEAN

(* AudioTarget::Channel(c) is the channel c, AudioTarget::Direct(u) the user u. *)
Targets == Channels \cup Users

(* What active_tx_targets of u may be, and listen_channels. *)
TxSets(u) ==
  {tx \in SUBSET (Targets \ {u}) : Cardinality(tx) <= (IF u \in Talkers THEN MaxTargets ELSE 0)}
Routes(u) == [tx : TxSets(u), listen : SUBSET Channels]

RouteType == [tx : SUBSET Targets, listen : SUBSET Channels]

VARIABLES
  endpoint,   \* endpoint[u]: Session.addr and MIX_INTERVALs since audio_last_seen
  route,      \* route[u]: active_tx_targets and listen_channels of u's session
  sources,    \* sources[u]: <<>> or <<q>>, the SourceQueue of u if it exists
  receiver,   \* the packet the receiver task has registered and not yet stored
  outputs,    \* MixOutputs built by the last tick and not yet sent
  failure,    \* a send error the mixer has seen and not yet acted on
  due,        \* ticks of the mix interval not yet taken by the mixer
  quota,      \* quota[u]: targets u has still to serve in this interval (Paced)
  tally       \* tally[u]: frames arrived, mixed, dropped and expired, for the properties

vars == <<endpoint, route, sources, receiver, outputs, failure, due, quota, tally>>

Min2(a, b) == IF a < b THEN a ELSE b
Idle == <<>>

Init ==
  /\ endpoint = [u \in Users |-> [addr |-> NoAddr, age |-> 0]]
  /\ route \in [Users -> RouteType]
  /\ \A u \in Users : route[u] \in Routes(u)
  /\ sources = [u \in Users |-> <<>>]
  /\ receiver = Idle
  /\ outputs = {}
  /\ failure = Idle
  /\ due = 0
  /\ quota = [u \in Users |-> route[u].tx]
  /\ tally = [u \in Users |-> [arrived |-> 0, mixed |-> 0, dropped |-> 0, expired |-> 0]]

-----------------------------------------------------------------------------
(* The receiver task. *)

Registered(u, a) == [endpoint EXCEPT ![u] = [addr |-> a, age |-> 0]]

(* register_audio_endpoint; a desired configuration is applied to the session
   once more, so the routes are what they were or what is desired. *)
RegisterEndpoint(u, a, r) ==
  /\ endpoint' = Registered(u, a)
  /\ route' = [route EXCEPT ![u] = r]

(* A registration packet does nothing else. *)
RegisterAudioEndpoint(u, a) ==
  /\ receiver = Idle
  /\ \E r \in Routes(u) : RegisterEndpoint(u, a, r)
  /\ UNCHANGED <<sources, receiver, outputs, failure, due, quota, tally>>

(* What register_audio_source makes of the routes of a talker that has none:
   it hears the channel it talks to, and transmits to it unless a desired
   configuration or the talk mode has it otherwise. *)
Joined(r, t) ==
  [tx : {r.tx} \cup (IF t \in Channels /\ r.tx = {} THEN {{t}} ELSE {}),
   listen : {IF t \in Channels /\ r.listen = {} THEN {t} ELSE r.listen}]

(* A decodable audio packet registers its endpoint, *)
RegisterAudioSource(u, t, a) ==
  /\ receiver = Idle
  /\ tally[u].arrived < MaxPackets
  /\ Paced => t \in quota[u]
  /\ t # u
  /\ \E r \in Routes(u) : RegisterEndpoint(u, a, r)
  /\ quota' = [quota EXCEPT ![u] = @ \ {t}]
  /\ receiver' = <<[user |-> u, target |-> t, joined |-> FALSE]>>
  /\ UNCHANGED <<sources, outputs, failure, due, tally>>

(* joins its channel once the session lock is taken again, *)
JoinChannel ==
  /\ receiver # Idle /\ ~receiver[1].joined
  /\ \E joined \in Joined(route[receiver[1].user], receiver[1].target) :
       route' = [route EXCEPT ![receiver[1].user] = joined]
  /\ receiver' = <<[receiver[1] EXCEPT !.joined = TRUE]>>
  /\ UNCHANGED <<endpoint, sources, outputs, failure, due, quota, tally>>

(* and its frame is stored. *)
(* SourceQueue::push: a full queue gives up its oldest frame. *)
FullOneLate(q) == Len(q.frames) > MAX_SOURCE_QUEUE_FRAMES    \* fault: off by one
Full(q) == Len(q.frames) = MAX_SOURCE_QUEUE_FRAMES

\* fault: the newest waiting frame gives way instead of the oldest
PushedOverNewest(q, frame) ==
  [frames |-> Append(IF Full(q) THEN SubSeq(q.frames, 1, Len(q.frames) - 1) ELSE q.frames, frame),
   idle |-> 0]
\* fault: the newest frame is served first
PushedInFront(q, frame) ==
  [frames |-> <<frame>> \o (IF Full(q) THEN Tail(q.frames) ELSE q.frames), idle |-> 0]
Pushed(q, frame) ==
  [frames |-> Append(IF Full(q) THEN Tail(q.frames) ELSE q.frames, frame), idle |-> 0]
EmptyQueue == [frames |-> <<>>, idle |-> 0]

StoreSourceFrame ==
  /\ receiver # Idle /\ receiver[1].joined
  /\ LET u == receiver[1].user
         q == IF sources[u] = <<>> THEN EmptyQueue ELSE sources[u][1]
         frame == [target |-> receiver[1].target, id |-> tally[u].arrived + 1, waited |-> 0]
     IN /\ sources' = [sources EXCEPT ![u] = <<Pushed(q, frame)>>]
        /\ tally' = [tally EXCEPT ![u].arrived = @ + 1,
                                  ![u].dropped = IF Full(q) THEN @ + 1 ELSE @]
  /\ receiver' = Idle
  /\ UNCHANGED <<endpoint, route, outputs, failure, due, quota>>

-----------------------------------------------------------------------------
(* The mixer task. *)

Alive(u) == sources[u] # <<>> /\ sources[u][1].idle <= ACTIVE_SOURCE_WINDOW
HasFrame(u) == Alive(u) /\ sources[u][1].frames # <<>>
Frame(u) == Head(sources[u][1].frames)

(* SourceQueue::pop; the frames left behind have waited one tick more. *)
Aged(frame) == [frame EXCEPT !.waited = @ + 1]

\* fault: the mixer reads the front of the queue and leaves it there
Peeked(q) ==
  [q EXCEPT !.frames = [k \in 1..Len(q.frames) |-> Aged(q.frames[k])]]
Popped(q) ==
  [q EXCEPT !.frames =
     IF @ = <<>> THEN <<>> ELSE [k \in 1..(Len(q.frames) - 1) |-> Aged(q.frames[k + 1])]]

Hears(l, u) ==
  /\ l # u /\ HasFrame(u)
  /\ Frame(u).target \in route[u].tx
  /\ Frame(u).target = l \/ Frame(u).target \in route[l].listen

Reachable(l) == endpoint[l].addr # NoAddr /\ endpoint[l].age <= AUDIO_ENDPOINT_TIMEOUT

BuildMixes ==
  /\ outputs = {} /\ failure = Idle
  /\ due > 0
  /\ due' = due - 1
  /\ sources' = [u \in Users |-> IF Alive(u) THEN <<Popped(sources[u][1])>> ELSE <<>>]
  /\ tally' = [u \in Users |->
       [tally[u] EXCEPT
          !.mixed = IF HasFrame(u) THEN @ + 1 ELSE @,
          !.expired = IF sources[u] # <<>> /\ ~Alive(u)
                      THEN @ + Len(sources[u][1].frames) ELSE @]]
  /\ outputs' = {[user |-> l, addr |-> endpoint[l].addr] :
                   l \in {m \in Users : Reachable(m) /\ \E u \in Users : Hears(m, u)}}
  /\ UNCHANGED <<endpoint, route, receiver, failure, quota>>

(* One output leaves, or is given up because it cannot be encoded. *)
SendMix(o) ==
  /\ failure = Idle
  /\ o \in outputs
  /\ outputs' = outputs \ {o}
  /\ UNCHANGED <<endpoint, route, sources, receiver, failure, due, quota, tally>>

SendFails(o) ==
  /\ failure = Idle
  /\ o \in outputs
  /\ outputs' = outputs \ {o}
  /\ failure' = <<o>>
  /\ UNCHANGED <<endpoint, route, sources, receiver, due, quota, tally>>

(* clear_audio_endpoint_if_matches: the lock is taken after the send has
   failed, so the client may have registered again in between. *)
MatchesAny(o) == TRUE    \* fault: whatever endpoint is there is cleared
Matches(o) == endpoint[o.user].addr = o.addr
ClearAudioEndpoint ==
  /\ failure # Idle
  /\ endpoint' = IF Matches(failure[1])
                 THEN [endpoint EXCEPT ![failure[1].user] = [addr |-> NoAddr, age |-> 0]]
                 ELSE endpoint
  /\ failure' = Idle
  /\ UNCHANGED <<route, sources, receiver, outputs, due, quota, tally>>

-----------------------------------------------------------------------------
(* The clock and the control plane. *)

(* One MIX_INTERVAL passes.  Ages saturate one past their timeout. *)
Elapse ==
  /\ due < MaxLag
  /\ due' = due + 1
  /\ endpoint' = [u \in Users |->
       [endpoint[u] EXCEPT !.age = IF endpoint[u].addr = NoAddr THEN 0
                                   ELSE Min2(@ + 1, AUDIO_ENDPOINT_TIMEOUT + 1)]]
  /\ sources' = [u \in Users |->
       IF sources[u] = <<>> THEN <<>>
       ELSE <<[sources[u][1] EXCEPT !.idle = Min2(@ + 1, ACTIVE_SOURCE_WINDOW + 1)]>>]
  /\ quota' = [u \in Users |-> route[u].tx]
  /\ UNCHANGED <<route, receiver, outputs, failure, tally>>

(* Next to the audio tasks the control plane rewrites a session's routes. *)
Reroute(u, r) ==
  /\ route' = [route EXCEPT ![u] = r]
  /\ UNCHANGED <<endpoint, sources, receiver, outputs, failure, due, quota, tally>>

Next ==
  \/ \E u \in Users, a \in Addrs : RegisterAudioEndpoint(u, a)
  \/ \E u \in Talkers, t \in Targets, a \in Addrs : RegisterAudioSource(u, t, a)
  \/ JoinChannel
  \/ StoreSourceFrame
  \/ BuildMixes
  \/ \E o \in outputs : SendMix(o) \/ SendFails(o)
  \/ ClearAudioEndpoint
  \/ Elapse
  \/ \E u \in Users : \E r \in Routes(u) : Reroute(u, r)

Spec == Init /\ [][Next]_vars

-----------------------------------------------------------------------------
(* Properties. *)

Frames(u) == IF sources[u] = <<>> THEN <<>> ELSE sources[u][1].frames

EndpointType == [addr : Addrs \cup {NoAddr}, age : Nat]
PacketType == [user : Users, target : Targets, joined : BOOLEAN]
OutputType == [user : Users, addr : Addrs]
TallyType == [arrived : Nat, mixed : Nat, dropped : Nat, expired : Nat]
FrameType == [target : Targets, id : Nat, waited : Nat]
QueueType == [frames : Seq(FrameType), idle : Nat]

(* Every variable keeps its type, and no queue outgrows its bound. *)
TypeOK ==
  /\ endpoint \in [Users -> EndpointType]
  /\ route \in [Users -> RouteType]
  /\ sources \in [Users -> Seq(QueueType)]
  /\ \A u \in Users : Len(sources[u]) <= 1 /\ Len(Frames(u)) <= MAX_SOURCE_QUEUE_FRAMES
  /\ receiver \in Seq(PacketType) /\ Len(receiver) <= 1
  /\ outputs \subseteq OutputType
  /\ failure \in Seq(OutputType) /\ Len(failure) <= 1
  /\ due \in 0..MaxLag
  /\ quota \in [Users -> SUBSET Targets]
  /\ tally \in [Users -> TallyType]

(* Latency does not grow without limit: the k-th frame of a queue has already
   waited so few ticks that it is mixed, dropped or expired within
   MAX_SOURCE_QUEUE_FRAMES ticks of its arrival, however bursty the talker. *)
LatencyBound ==
  \A u \in Users : \A k \in DOMAIN Frames(u) :
    Frames(u)[k].waited + k <= MAX_SOURCE_QUEUE_FRAMES

(* Every frame the receiver stored is accounted for exactly once: it still
   waits, was mixed, was dropped by a full queue, or went with an idle queue. *)
FramesConserved ==
  \A u \in Users :
    tally[u].arrived = tally[u].mixed + tally[u].dropped + tally[u].expired + Len(Frames(u))

(* A client sends one frame per target of its active buttons and MIX_INTERVAL.
   It never loses a frame to a full queue, as long as the mixer runs less than
   a queue's length late (one place is for the frame the receiver had in hand
   when the mixer found the queue empty). *)
UnionNeverDrops ==
  Paced /\ MaxLag + 1 < MAX_SOURCE_QUEUE_FRAMES => \A u \in Users : tally[u].dropped = 0

(* A failed send takes away the endpoint it was sent to and never one the
   client has registered since from another address. *)
OnlyFailedEndpointCleared ==
  [][\A u \in Users :
       endpoint[u].addr # NoAddr /\ endpoint'[u].addr = NoAddr
         => failure = <<[user |-> u, addr |-> endpoint[u].addr]>>]_vars

(* What the queues and the tally are in the eyes of TalkerFifo. *)
Ids(frames) == [k \in 1..Len(frames) |-> frames[k].id]
Waiting == [u \in Users |-> Ids(Frames(u))]
Arrived == [u \in Users |-> tally[u].arrived]

(* The queues are the bounded FIFO of TalkerFifo: frames leave in order of
   arrival, each at most once, and at most MAX_SOURCE_QUEUE_FRAMES wait. *)
Fifo == INSTANCE TalkerFifo WITH
  Talkers <- Users, Capacity <- MAX_SOURCE_QUEUE_FRAMES, waiting <- Waiting, arrived <- Arrived
ImplementsTalkerFifo == Fifo!Spec
=============================================================================
