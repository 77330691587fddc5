-------------------------- MODULE ControlLinkProofs --------------------------
(***************************************************************************)
(* Proofs about ControlLink for any requests, channel capacity and number of *)
(* connections: the types, that callers are at most one answer behind, that    *)
(* nobody who waits is forgotten, and that the window shows what the server   *)
(* has once nothing is under way.                                            *)
(***************************************************************************)
EXTENDS ControlLink, SequenceTheorems, TLAPS

-----------------------------------------------------------------------------
(* Sequences: what Append, Tail and Members do to each other. *)

(* A sequence that is not empty is its head before its tail. *)
LEMMA HeadAndTail ==
  ASSUME NEW S, NEW s \in Seq(S), s # <<>>
  PROVE  /\ Head(s) \in S /\ Tail(s) \in Seq(S)
         /\ Head(s) = s[1]
         /\ Len(s) \in Nat \ {0} /\ Len(Tail(s)) = Len(s) - 1
         /\ \A k \in 1..(Len(s) - 1) : Tail(s)[k] = s[k + 1]
OBVIOUS

(* Appending adds one member. *)
LEMMA MembersOfAppend ==
  ASSUME NEW S, NEW s \in Seq(S), NEW x \in S
  PROVE  Members(Append(s, x)) = Members(s) \cup {x}
<1> DEFINE t == Append(s, x)
<1>1. /\ t \in Seq(S) /\ Len(s) \in Nat /\ Len(t) = Len(s) + 1
      /\ DOMAIN s = 1..Len(s) /\ DOMAIN t = 1..(Len(s) + 1)
      /\ \A k \in 1..Len(s) : t[k] = s[k]
      /\ t[Len(s) + 1] = x
  OBVIOUS
<1> HIDE DEF t
<1>2. \A k \in DOMAIN t : k \in DOMAIN s \/ k = Len(s) + 1
  BY <1>1
<1>3. Len(s) + 1 \in DOMAIN t /\ \A k \in DOMAIN s : k \in DOMAIN t
  BY <1>1
<1>4. Members(t) = Members(s) \cup {x}
  BY <1>1, <1>2, <1>3 DEF Members
<1> QED BY <1>4 DEF t

(* The head and the members of the tail are all there are. *)
LEMMA MembersOfTail ==
  ASSUME NEW S, NEW s \in Seq(S), s # <<>>
  PROVE  Members(s) = {Head(s)} \cup Members(Tail(s))
<1> DEFINE t == Tail(s)
<1>1. /\ Head(s) = s[1] /\ Len(s) \in Nat \ {0} /\ DOMAIN s = 1..Len(s)
      /\ DOMAIN t = 1..(Len(s) - 1)
      /\ \A k \in 1..(Len(s) - 1) : t[k] = s[k + 1]
  BY HeadAndTail
<1> HIDE DEF t
<1>2. \A k \in DOMAIN s : k = 1 \/ (k - 1 \in DOMAIN t /\ t[k - 1] = s[k])
  BY <1>1
<1>3. 1 \in DOMAIN s /\ \A k \in DOMAIN t : k + 1 \in DOMAIN s /\ t[k] = s[k + 1]
  BY <1>1
<1>4. Members(s) = {Head(s)} \cup Members(t)
  BY <1>1, <1>2, <1>3 DEF Members
<1> QED BY <1>4 DEF t

(* Nothing is left of a sequence of one. *)
LEMMA TailOfOne ==
  ASSUME NEW S, NEW s \in Seq(S), Len(s) = 1
  PROVE  s # <<>> /\ Tail(s) = <<>>
<1>1. s # <<>> /\ Tail(s) \in Seq(S) /\ Len(Tail(s)) = 0
  OBVIOUS
<1>2. Tail(s) = <<>>
  BY <1>1, EmptySeq
<1> QED BY <1>1, <1>2

(* Nobody is a member of the empty sequence. *)
LEMMA MembersOfEmpty == Members(<<>>) = {}
BY DEF Members

(* The tail of what is appended to. *)
LEMMA TailOfAppend ==
  ASSUME NEW S, NEW s \in Seq(S), s # <<>>, NEW x \in S
  PROVE  Tail(Append(s, x)) = Append(Tail(s), x)
<1> DEFINE t == Tail(Append(s, x))
           u == Append(Tail(s), x)
<1>1. t \in Seq(S) /\ u \in Seq(S) /\ Len(t) = Len(s) /\ Len(u) = Len(s)
  OBVIOUS
<1>2. \A k \in 1..Len(s) : t[k] = u[k]
  OBVIOUS
<1> HIDE DEF t, u
<1>3. t = u
  BY <1>1, <1>2, SeqEqual
<1> QED BY <1>3 DEF t, u

(* Appending to the front part, or to the back part, of a concatenation. *)
LEMMA AppendToConcat ==
  ASSUME NEW S, NEW s \in Seq(S), NEW t \in Seq(S), NEW x \in S
  PROVE  /\ s \o Append(t, x) = Append(s \o t, x)
         /\ Append(s, x) \o t = s \o (<<x>> \o t)
<1> DEFINE a == s \o Append(t, x)
           b == Append(s \o t, x)
           c == Append(s, x) \o t
           d == s \o (<<x>> \o t)
<1>1. /\ a \in Seq(S) /\ b \in Seq(S) /\ Len(a) = Len(s) + Len(t) + 1
      /\ Len(b) = Len(s) + Len(t) + 1
  OBVIOUS
<1>2. /\ c \in Seq(S) /\ d \in Seq(S) /\ Len(c) = Len(s) + Len(t) + 1
      /\ Len(d) = Len(s) + Len(t) + 1
  OBVIOUS
<1>3. \A k \in 1..(Len(s) + Len(t) + 1) : a[k] = b[k]
  OBVIOUS
<1>4. \A k \in 1..(Len(s) + Len(t) + 1) : c[k] = d[k]
  OBVIOUS
<1> HIDE DEF a, b, c, d
<1>5. a = b
  BY <1>1, <1>3, SeqEqual
<1>6. c = d
  BY <1>2, <1>4, SeqEqual
<1> QED BY <1>5, <1>6 DEF a, b, c, d

(* The ids of messages follow what happens to the messages. *)
LEMMA IdsOfSeq ==
  ASSUME NEW I, NEW s \in Seq(MessageFor(I))
  PROVE  /\ IdsOf(s) \in Seq(I) /\ Len(IdsOf(s)) = Len(s)
         /\ \A k \in 1..Len(s) : IdsOf(s)[k] = s[k].id
<1>1. \A k \in 1..Len(s) : s[k] \in MessageFor(I)
  OBVIOUS
<1>2. \A k \in 1..Len(s) : s[k].id \in I
  BY <1>1 DEF MessageFor
<1> QED BY <1>2 DEF IdsOf

(* An appended message adds its id last. *)
LEMMA IdsOfAppend ==
  ASSUME NEW I, NEW s \in Seq(MessageFor(I)), NEW m \in MessageFor(I)
  PROVE  IdsOf(Append(s, m)) = Append(IdsOf(s), m.id)
<1> DEFINE a == IdsOf(Append(s, m))
           b == Append(IdsOf(s), m.id)
<1>1. Append(s, m) \in Seq(MessageFor(I)) /\ Len(Append(s, m)) = Len(s) + 1
  OBVIOUS
<1>2. m.id \in I
  BY DEF MessageFor
<1>3. /\ a \in Seq(I) /\ Len(a) = Len(s) + 1
      /\ \A k \in 1..(Len(s) + 1) : a[k] = Append(s, m)[k].id
  BY <1>1, IdsOfSeq
<1>4. /\ b \in Seq(I) /\ Len(b) = Len(s) + 1
      /\ \A k \in 1..Len(s) : b[k] = s[k].id
      /\ b[Len(s) + 1] = m.id
  BY <1>2, IdsOfSeq
<1>5. \A k \in 1..(Len(s) + 1) : Append(s, m)[k].id = b[k]
  BY <1>4
<1> HIDE DEF a, b
<1>6. a = b
  BY <1>3, <1>4, <1>5, SeqEqual
<1> QED BY <1>6 DEF a, b

(* The tail of the messages has the tail of the ids. *)
LEMMA IdsOfTail ==
  ASSUME NEW I, NEW s \in Seq(MessageFor(I)), s # <<>>
  PROVE  IdsOf(s) = <<Head(s).id>> \o IdsOf(Tail(s)) /\ Head(s).id \in I
<1> DEFINE a == IdsOf(s)
           t == IdsOf(Tail(s))
           h == Head(s).id
           b == <<h>> \o t
<1>1. /\ Head(s) \in MessageFor(I) /\ Tail(s) \in Seq(MessageFor(I)) /\ Head(s) = s[1]
      /\ Len(s) \in Nat \ {0} /\ Len(Tail(s)) = Len(s) - 1
      /\ \A k \in 1..(Len(s) - 1) : Tail(s)[k] = s[k + 1]
  BY HeadAndTail
<1>2. h \in I
  BY <1>1 DEF MessageFor
<1>3. /\ a \in Seq(I) /\ Len(a) = Len(s)
      /\ \A k \in 1..Len(s) : a[k] = s[k].id
  BY IdsOfSeq
<1>4. /\ t \in Seq(I) /\ Len(t) = Len(s) - 1
      /\ \A k \in 1..(Len(s) - 1) : t[k] = s[k + 1].id
  <2>1. /\ t \in Seq(I) /\ Len(t) = Len(Tail(s))
        /\ \A k \in 1..Len(Tail(s)) : t[k] = Tail(s)[k].id
    BY <1>1, IdsOfSeq, Zenon
  <2> QED BY <2>1, <1>1, SMTT(30)
<1> HIDE DEF a, t, h
<1>5. b \in Seq(I) /\ Len(b) = Len(s) /\ b[1] = h
      /\ \A k \in 2..Len(s) : b[k] = t[k - 1]
  <2>1. <<h>> \in Seq(I) /\ Len(<<h>>) = 1 /\ <<h>>[1] = h
    BY <1>2
  <2>2. /\ b \in Seq(I) /\ Len(b) = 1 + Len(t)
        /\ \A k \in 1..(1 + Len(t)) : b[k] = IF k <= 1 THEN <<h>>[k] ELSE t[k - 1]
    BY <2>1, <1>4, ConcatProperties
  <2> HIDE DEF b
  <2> QED BY <2>1, <2>2, <1>1, <1>4
<1>6. \A k \in 1..Len(s) : a[k] = b[k]
  <2> TAKE k \in 1..Len(s)
  <2>1. CASE k = 1 BY <2>1, <1>1, <1>3, <1>5 DEF h
  <2>2. CASE k # 1
    <3>1. k \in 2..Len(s) /\ k - 1 \in 1..(Len(s) - 1)
      BY <2>2, <1>1
    <3> QED BY <3>1, <1>3, <1>4, <1>5
  <2> QED BY <2>1, <2>2
<1> HIDE DEF b
<1>7. a = b
  BY <1>3, <1>5, <1>6, SeqEqual
<1> QED BY <1>2, <1>7 DEF a, b, t, h

-----------------------------------------------------------------------------
(* Types. *)

ServerType ==
  [live : BOOLEAN, desired : BOOLEAN, locks : 0..MaxLocks, copy : Configs]

(* Every variable starts within its type. *)
LEMMA InitTypes == Init => TypeOK
<1> SUFFICES ASSUME Init PROVE TypeOK
  OBVIOUS
<1>1. /\ phase \in {"connecting", "backoff", "open"}
      /\ conn \in Conns \cup {NoConn} /\ (phase = "open" => conn \in Conns)
      /\ task \in [Conns -> {"none", "open", "greeted", "ended"}]
      /\ control \in Conns \cup {NoConn}
      /\ answer \in [Requests -> {"none", "waiting", "answered", "unavailable",
                                  "forgotten", "refused"}]
      /\ local \in Configs /\ refused \subseteq Keys
  BY DEF Init, NoConn, Silence, Configs, Keys
<1>2. /\ queue = <<>> /\ pending = <<>> /\ replies = <<>>
      /\ inbox = [c \in Conns |-> <<>>] /\ events = <<>>
  BY DEF Init
<1>3. /\ queue \in Seq(MessageFor(Requests)) /\ Len(queue) <= QueueLimit
      /\ pending \in Seq(Requests) /\ replies \in Seq(Ids)
      /\ inbox \in [Conns -> Seq(MessageFor(Ids))]
      /\ events \in Seq(Configs)
  BY <1>2, LinkAssumption
<1>4. server \in ServerType
  BY LinkAssumption DEF Init, Silence, Configs, ServerType
<1> QED BY <1>1, <1>3, <1>4 DEF TypeOK, ServerType

(* A configuration pushed to a connection, or to none. *)
LEMMA PushedType ==
  ASSUME TypeOK, NEW to, NEW copy \in Configs
  PROVE  Pushed(to, copy) \in Seq(Configs)
<1>1. events \in Seq(Configs)
  BY DEF TypeOK
<1>2. Append(events, copy) \in Seq(Configs)
  BY <1>1
<1> QED BY <1>1, <1>2 DEF Pushed

(* What the server's task takes from its inbox, and what it answers. *)
LEMMA ReplyTypes ==
  ASSUME TypeOK, NEW c \in Conns, inbox[c] # <<>>, Reply(c)
  PROVE  /\ Head(inbox[c]) \in MessageFor(Ids)
         /\ inbox' \in [Conns -> Seq(MessageFor(Ids))]
         /\ replies' \in Seq(Ids)
<1>1. inbox[c] \in Seq(MessageFor(Ids))
  BY DEF TypeOK
<1>2. Head(inbox[c]) \in MessageFor(Ids) /\ Tail(inbox[c]) \in Seq(MessageFor(Ids))
  BY <1>1
<1>3. Head(inbox[c]).id \in Ids
  BY <1>2 DEF MessageFor
<1>4. inbox' \in [Conns -> Seq(MessageFor(Ids))]
  BY <1>2 DEF Reply, TypeOK
<1>5. replies' \in Seq(Ids)
  BY <1>3 DEF Reply, TypeOK
<1> QED BY <1>2, <1>4, <1>5

(* Failing callers keeps the answers' types. *)
LEMMA UnavailableType ==
  ASSUME TypeOK, NEW R
  PROVE  Unavailable(R) \in [Requests -> {"none", "waiting", "answered", "unavailable",
                                          "forgotten", "refused"}]
BY DEF Unavailable, TypeOK

(* A lost connection keeps the types, whoever is told of it. *)
LEMMA DisconnectTypes ==
  ASSUME TypeOK, phase = "open", NEW unsent, Disconnect(unsent),
         queue' \in Seq(MessageFor(Requests)), Len(queue') <= QueueLimit
  PROVE  TypeOK'
<1>1. answer' \in [Requests -> {"none", "waiting", "answered", "unavailable",
                                "forgotten", "refused"}]
  BY UnavailableType DEF Disconnect, Failed
<1>2. local' \in Configs
  BY DEF Disconnect, ClearButtons, TypeOK, Configs
<1>3. /\ pending' = <<>> /\ replies' = <<>> /\ events' = <<>>
      /\ pending' \in Seq(Requests) /\ replies' \in Seq(Ids) /\ events' \in Seq(Configs)
  BY DEF Disconnect
<1> QED BY <1>1, <1>2, <1>3 DEF Disconnect, TypeOK

(* A request of the queue's head, and the queue without it. *)
LEMMA QueueHead ==
  ASSUME TypeOK, queue # <<>>
  PROVE  /\ Head(queue) \in MessageFor(Requests) /\ Head(queue) \in MessageFor(Ids)
         /\ Head(queue).id \in Requests
         /\ Tail(queue) \in Seq(MessageFor(Requests)) /\ Len(Tail(queue)) <= QueueLimit
<1>1. queue \in Seq(MessageFor(Requests)) /\ Len(queue) <= QueueLimit
  BY DEF TypeOK
<1>2. Head(queue) \in MessageFor(Requests) /\ Tail(queue) \in Seq(MessageFor(Requests))
      /\ Len(queue) \in Nat /\ Len(Tail(queue)) = Len(queue) - 1
  BY <1>1
<1>3. Len(Tail(queue)) <= QueueLimit
  BY <1>1, <1>2, LinkAssumption
<1>4. Head(queue) \in MessageFor(Ids) /\ Head(queue).id \in Requests
  BY <1>2 DEF MessageFor, Ids
<1> QED BY <1>2, <1>3, <1>4

(* Every step keeps the types and the channel's capacity. *)
LEMMA NextTypes == TypeOK /\ [Next]_vars => TypeOK'
<1> SUFFICES ASSUME TypeOK, [Next]_vars PROVE TypeOK'
  OBVIOUS
<1> USE DEF NoConn
<1>1. ASSUME NEW r \in Requests, NEW kind \in {"hello", "config", "health"}, Ask(r, kind)
      PROVE  TypeOK'
  <2>1. Said(r, kind) \in MessageFor(Requests)
    BY <1>1 DEF Said, MessageFor, Keys
  <2>2. queue' \in Seq(MessageFor(Requests)) /\ Len(queue') <= QueueLimit
    BY <1>1, <2>1, LinkAssumption DEF Ask, Room, TypeOK
  <2>3. answer' \in [Requests -> {"none", "waiting", "answered", "unavailable",
                                  "forgotten", "refused"}]
    BY <1>1 DEF Ask, TypeOK
  <2> QED BY <1>1, <2>2, <2>3 DEF Ask, TypeOK
<1>2. ASSUME NEW r \in Requests, NEW key \in Keys, NEW on \in BOOLEAN, Press(r, key, on)
      PROVE  TypeOK'
  <2> DEFINE m == [id |-> r, kind |-> "press", key |-> key, on |-> on]
  <2>1. m \in MessageFor(Requests)
    BY DEF MessageFor
  <2>2. queue' \in Seq(MessageFor(Requests)) /\ Len(queue') <= QueueLimit
    <3>1. queue' = IF Room THEN Append(queue, m) ELSE queue
      BY <1>2 DEF Press
    <3> HIDE DEF m
    <3> QED BY <2>1, <3>1, LinkAssumption DEF Room, TypeOK
  <2>3. answer' \in [Requests -> {"none", "waiting", "answered", "unavailable",
                                  "forgotten", "refused"}]
    BY <1>2 DEF Press, TypeOK
  <2>4. local' \in Configs
    BY <1>2 DEF Press, TypeOK, Configs
  <2>5. refused' \subseteq Keys
    BY <1>2 DEF Press, TypeOK
  <2> QED BY <1>2, <2>2, <2>3, <2>4, <2>5 DEF Press, TypeOK
<1>3. ASSUME ConnectFails PROVE TypeOK'
  BY <1>3 DEF ConnectFails, TypeOK
<1>4. ASSUME ConnectSucceeds PROVE TypeOK'
  <2>1. conn' \in Conns /\ conn' = conn + 1
    BY <1>4, LinkAssumption DEF ConnectSucceeds, TypeOK, Conns
  <2>2. Said(ReconnectHello, "hello") \in MessageFor(Ids)
    BY DEF Said, MessageFor, Keys, Ids
  <2>3. inbox' \in [Conns -> Seq(MessageFor(Ids))]
    <3>1. <<Said(ReconnectHello, "hello")>> \in Seq(MessageFor(Ids))
      BY <2>2
    <3>2. <<>> \in Seq(MessageFor(Ids))
      OBVIOUS
    <3> QED BY <1>4, <3>1, <3>2 DEF ConnectSucceeds, TypeOK
  <2>4. task' \in [Conns -> {"none", "open", "greeted", "ended"}]
    BY <1>4 DEF ConnectSucceeds, TypeOK
  <2>5. /\ pending' = <<>> /\ replies' = <<>> /\ events' = <<>>
        /\ pending' \in Seq(Requests) /\ replies' \in Seq(Ids) /\ events' \in Seq(Configs)
    BY <1>4 DEF ConnectSucceeds
  <2> QED BY <1>4, <2>1, <2>3, <2>4, <2>5 DEF ConnectSucceeds, TypeOK
<1>5. ASSUME Wake PROVE TypeOK'
  BY <1>5 DEF Wake, TypeOK
<1>6. ASSUME Refuse PROVE TypeOK'
  <2>1. queue' \in Seq(MessageFor(Requests)) /\ Len(queue') <= QueueLimit
    BY <1>6, QueueHead DEF Refuse
  <2>2. answer' \in [Requests -> {"none", "waiting", "answered", "unavailable",
                                  "forgotten", "refused"}]
    BY <1>6, UnavailableType DEF Refuse
  <2> QED BY <1>6, <2>1, <2>2 DEF Refuse, TypeOK
<1>7. ASSUME Send PROVE TypeOK'
  <2>1. queue' \in Seq(MessageFor(Requests)) /\ Len(queue') <= QueueLimit
    BY <1>7, QueueHead DEF Send
  <2>2. pending' \in Seq(Requests)
    BY <1>7, QueueHead DEF Send, Entered, TypeOK
  <2>3. inbox' \in [Conns -> Seq(MessageFor(Ids))]
    <3>1. conn \in Conns /\ inbox[conn] \in Seq(MessageFor(Ids))
      BY <1>7 DEF Send, TypeOK
    <3>2. Append(inbox[conn], Head(queue)) \in Seq(MessageFor(Ids))
      BY <1>7, <3>1, QueueHead DEF Send
    <3> QED BY <1>7, <3>1, <3>2 DEF Send, TypeOK
  <2> QED BY <1>7, <2>1, <2>2, <2>3 DEF Send, TypeOK
<1>8. ASSUME ReadResponse PROVE TypeOK'
  <2>1. replies' \in Seq(Ids)
    BY <1>8 DEF ReadResponse, TypeOK
  <2>2. pending' \in Seq(Requests)
    <3>1. CASE pending = <<>> BY <1>8, <3>1 DEF ReadResponse, TypeOK
    <3>2. CASE pending # <<>>
      <4>1. Tail(pending) \in Seq(Requests)
        BY <3>2 DEF TypeOK
      <4> QED BY <1>8, <3>2, <4>1 DEF ReadResponse
    <3> QED BY <3>1, <3>2
  <2>3. answer' \in [Requests -> {"none", "waiting", "answered", "unavailable",
                                  "forgotten", "refused"}]
    <3>1. CASE pending = <<>> BY <1>8, <3>1 DEF ReadResponse, TypeOK
    <3>2. CASE pending # <<>>
      <4>1. Head(pending) \in Requests
        BY <3>2 DEF TypeOK
      <4> QED BY <1>8, <3>2, <4>1 DEF ReadResponse, TypeOK
    <3> QED BY <3>1, <3>2
  <2> QED BY <1>8, <2>1, <2>2, <2>3 DEF ReadResponse, TypeOK
<1>9. ASSUME ReadEvent PROVE TypeOK'
  <2>1. events \in Seq(Configs)
    BY DEF TypeOK
  <2>2. Head(events) \in Configs /\ Tail(events) \in Seq(Configs)
    BY <1>9, <2>1, HeadAndTail DEF ReadEvent
  <2> QED BY <1>9, <2>1, <2>2 DEF ReadEvent, TypeOK
<1>10. ASSUME ConnectionLost PROVE TypeOK'
  BY <1>10, DisconnectTypes DEF ConnectionLost, TypeOK
<1>11. ASSUME SendFails PROVE TypeOK'
  BY <1>11, DisconnectTypes, QueueHead DEF SendFails
<1>12. ASSUME NEW c \in Conns, Handle(c) PROVE TypeOK'
  <2>1. inbox[c] # <<>> /\ Reply(c) /\ UNCHANGED client
    BY <1>12 DEF Handle, HandleHello, HandleConfig, HandleHealth, HandlePress, Reads
  <2>2. /\ Head(inbox[c]) \in MessageFor(Ids)
        /\ inbox' \in [Conns -> Seq(MessageFor(Ids))] /\ replies' \in Seq(Ids)
    BY <2>1, ReplyTypes
  <2>3. /\ server.live \in BOOLEAN /\ server.desired \in BOOLEAN
        /\ server.copy \in Configs /\ control \in Conns \cup {NoConn}
    BY DEF TypeOK
  <2>4. CASE HandleHello(c)
    <3>1. events' \in Seq(Configs)
      BY <2>3, <2>4, PushedType DEF HandleHello, TypeOK
    <3>2. /\ task' \in [Conns -> {"none", "open", "greeted", "ended"}] /\ control' = c
          /\ server' \in ServerType
          /\ UNCHANGED refused
      BY <2>4 DEF HandleHello, TypeOK, ServerType
    <3> QED BY <2>1, <2>2, <3>1, <3>2 DEF TypeOK, ServerType, client
  <2>5. CASE HandleConfig(c)
    <3>1. events' \in Seq(Configs)
      BY <2>3, <2>5, PushedType DEF HandleConfig, TypeOK
    <3>2. /\ server' \in ServerType
          /\ UNCHANGED <<refused, task, control>>
      BY <2>5 DEF HandleConfig, TypeOK, ServerType
    <3> QED BY <2>1, <2>2, <3>1, <3>2 DEF TypeOK, ServerType, client
  <2>6. CASE HandleHealth(c)
    BY <2>1, <2>2, <2>6 DEF HandleHealth, TypeOK, client
  <2>7. CASE HandlePress(c)
    <3> DEFINE m == Head(inbox[c])
               copy == [server.copy EXCEPT ![m.key] = m.on]
    <3>1. copy \in Configs
      <4>1. m.key \in Keys /\ m.on \in BOOLEAN
        BY <2>2 DEF MessageFor
      <4> QED BY <2>3, <4>1 DEF Configs
    <3>2. Pushed(control, copy) \in Seq(Configs)
      <4> HIDE DEF copy
      <4> QED BY <3>1, PushedType
    <3>3. UNCHANGED <<refused, task, control>>
      BY <2>7 DEF HandlePress
    <3>4. CASE server.live /\ ~(m.key = "button" /\ server.copy["locked"])
      <4>1. server' = [server EXCEPT !.copy = copy] /\ events' = Pushed(control, copy)
        BY <2>7, <3>4 DEF HandlePress, Pressed
      <4> HIDE DEF copy
      <4>2. server' \in ServerType
        BY <4>1, <3>1 DEF TypeOK, ServerType
      <4> QED BY <2>1, <2>2, <3>2, <3>3, <4>1, <4>2 DEF TypeOK, ServerType, client
    <3>5. CASE ~(server.live /\ ~(m.key = "button" /\ server.copy["locked"]))
      <4>1. UNCHANGED <<events, server>>
        BY <2>7, <3>5 DEF HandlePress
      <4> QED BY <2>1, <2>2, <3>3, <4>1 DEF TypeOK, client
    <3> QED BY <3>4, <3>5
  <2> QED BY <1>12, <2>4, <2>5, <2>6, <2>7 DEF Handle
<1>13. ASSUME NEW c \in Conns, End(c) PROVE TypeOK'
  <2>1. /\ task' \in [Conns -> {"none", "open", "greeted", "ended"}]
        /\ UNCHANGED <<refused, inbox, replies>> /\ UNCHANGED client
    BY <1>13 DEF End, TypeOK
  <2>2. CASE task[c] = "greeted"
    <3>1. Silenced(server.copy) \in Configs /\ Remaining(c) \in Conns \cup {NoConn}
      BY DEF Silenced, Configs, Remaining, TypeOK
    <3>2. Pushed(Remaining(c), Silenced(server.copy)) \in Seq(Configs)
      BY <3>1, PushedType
    <3>3. \A written \in 0..Len(events) : SubSeq(events, 1, written) \in Seq(Configs)
      <4>1. events \in Seq(Configs)
        BY DEF TypeOK
      <4> QED BY <4>1, SubSeqProperties
    <3>4. events' \in Seq(Configs)
      BY <1>13, <2>2, <3>2, <3>3 DEF End
    <3>5. /\ control' = Remaining(c)
          /\ server' = [server EXCEPT !.copy = Silenced(server.copy)]
      BY <1>13, <2>2 DEF End
    <3>6. server' \in ServerType
      BY <3>1, <3>5 DEF TypeOK, ServerType
    <3> QED BY <2>1, <3>1, <3>4, <3>5, <3>6 DEF TypeOK, ServerType, client
  <2>3. CASE task[c] # "greeted"
    <3>1. UNCHANGED <<control, server, events>>
      BY <1>13, <2>3 DEF End
    <3> QED BY <2>1, <3>1 DEF TypeOK, client
  <2> QED BY <2>2, <2>3
<1>14. ASSUME Lock PROVE TypeOK'
  <2> DEFINE copy == [server.copy EXCEPT !["locked"] = ~@]
  <2>1. copy \in Configs
    BY DEF TypeOK, Configs
  <2>2. /\ events' = Pushed(control, copy)
        /\ server' = [live |-> TRUE, desired |-> TRUE, locks |-> server.locks + 1, copy |-> copy]
        /\ UNCHANGED <<refused, inbox, replies, task, control>> /\ UNCHANGED client
    BY <1>14 DEF Lock
  <2>3. server.locks + 1 \in 0..MaxLocks
    BY <1>14, LinkAssumption DEF Lock, TypeOK
  <2> HIDE DEF copy
  <2>4. events' \in Seq(Configs) /\ server' \in ServerType
    BY <2>1, <2>2, <2>3, PushedType DEF ServerType
  <2> QED BY <2>2, <2>4 DEF TypeOK, ServerType, client
<1>15. CASE UNCHANGED vars
  BY <1>15 DEF vars, TypeOK
<1> QED BY <1>1, <1>2, <1>3, <1>4, <1>5, <1>6, <1>7, <1>8, <1>9, <1>10, <1>11, <1>12, <1>13, <1>14,
          <1>15,
          LinkAssumption
       DEF Next, Connect, Read

(* Every variable keeps its type and the control channel its capacity,
   whatever is asked, lost or reconnected. *)
THEOREM LinkTypes == Spec => []TypeOK
BY InitTypes, NextTypes, PTL DEF Spec, HangingSpec

-----------------------------------------------------------------------------
(* Pairing and waiting.  Neither is inductive by itself: both need that nobody
   is entered as waiting while there is no connection. *)

NoneWaitOffline == phase # "open" => pending = <<>>
Inv == TypeOK /\ NoneWaitOffline /\ AtMostOneBehind /\ WaitersAreKnown

(* Nobody waits and nothing is due at the start. *)
LEMMA InitInv == Init => Inv
<1> SUFFICES ASSUME Init PROVE Inv
  OBVIOUS
<1>1. TypeOK
  BY InitTypes
<1>2. phase = "connecting" /\ pending = <<>> /\ \A r \in Requests : answer[r] = "none"
  BY DEF Init
<1> QED BY <1>1, <1>2 DEF Inv, NoneWaitOffline, AtMostOneBehind, WaitersAreKnown

(* A step that leaves the client's connection and those who wait alone. *)
LEMMA SameDue ==
  ASSUME Inv, UNCHANGED <<phase, conn, pending>>, phase = "open" => Due' = Due
  PROVE  NoneWaitOffline' /\ AtMostOneBehind'
BY DEF Inv, NoneWaitOffline, AtMostOneBehind

(* A step that leaves queue, waiting callers and answers alone forgets nobody. *)
LEMMA SameWaiters ==
  ASSUME Inv, UNCHANGED <<queue, pending, answer>>
  PROVE  WaitersAreKnown'
BY DEF Inv, WaitersAreKnown

(* A response takes the place of its message among the answers that are due. *)
LEMMA ReplyKeepsDue ==
  ASSUME TypeOK, phase = "open", NEW c \in Conns, inbox[c] # <<>>, Reply(c),
         UNCHANGED <<phase, conn>>
  PROVE  Due' = Due
<1> DEFINE box == inbox[conn]
           rest == IdsOf(Tail(box))
<1>1. conn \in Conns /\ box \in Seq(MessageFor(Ids)) /\ replies \in Seq(Ids)
  BY DEF TypeOK
<1>2. CASE c # conn
  <2>1. inbox'[conn] = inbox[conn] /\ replies' = replies
    BY <1>1, <1>2 DEF Reply, Left, TypeOK
  <2> QED BY <2>1 DEF Due
<1>3. CASE c = conn
  <2>1. /\ inbox'[conn] = Tail(box) /\ replies' = Append(replies, Head(box).id)
        /\ box # <<>>
    BY <1>1, <1>3 DEF Reply, Left, TypeOK
  <2>2. /\ IdsOf(box) = <<Head(box).id>> \o rest /\ Head(box).id \in Ids
        /\ rest \in Seq(Ids)
    <3>1. Tail(box) \in Seq(MessageFor(Ids))
      BY <1>1, <2>1
    <3> QED BY <1>1, <2>1, <3>1, IdsOfTail, IdsOfSeq
  <2>3. Due' = replies' \o rest
    BY <2>1 DEF Due, IdsOf
  <2>4. Append(replies, Head(box).id) \o rest = replies \o (<<Head(box).id>> \o rest)
    BY <1>1, <2>2, AppendToConcat, SMTT(30)
  <2> QED BY <2>1, <2>2, <2>3, <2>4 DEF Due
<1> QED BY <1>2, <1>3

(* The answers that are due are ids. *)
LEMMA DueType ==
  ASSUME TypeOK, phase = "open"
  PROVE  Due \in Seq(Ids) /\ IdsOf(inbox[conn]) \in Seq(Ids) /\ pending \in Seq(Ids)
<1>1. inbox[conn] \in Seq(MessageFor(Ids)) /\ replies \in Seq(Ids)
  BY DEF TypeOK
<1>2. IdsOf(inbox[conn]) \in Seq(Ids)
  BY <1>1, IdsOfSeq
<1>3. pending \in Seq(Requests) /\ Requests \subseteq Ids
  BY DEF TypeOK, Ids
<1> QED BY <1>1, <1>2, <1>3 DEF Due

(* A fresh connection owes nothing, or the answer to the task's own hello. *)
LEMMA ConnectKeepsInv ==
  ASSUME Inv, TypeOK', ConnectSucceeds
  PROVE  Inv'
<1>1. /\ conn + 1 \in Conns /\ conn' = conn + 1 /\ phase' = "open" /\ phase # "open"
      /\ pending' = <<>> /\ replies' = <<>> /\ UNCHANGED <<queue, answer>>
      /\ conn \in Nat
  BY LinkAssumption DEF ConnectSucceeds, Inv, TypeOK, Conns, NoConn
<1>2. inbox'[conn'] = IF conn > 0 THEN <<Said(ReconnectHello, "hello")>> ELSE <<>>
  BY <1>1 DEF ConnectSucceeds, Inv, TypeOK
<1>3. CASE conn > 0
  <2> DEFINE one == <<Said(ReconnectHello, "hello")>>
  <2>1. Said(ReconnectHello, "hello") \in MessageFor(Ids)
    BY DEF Said, MessageFor, Keys, Ids
  <2>2. one \in Seq(MessageFor(Ids)) /\ Len(one) = 1
    BY <2>1
  <2> HIDE DEF one
  <2>3. Due' = <<>> \o IdsOf(one)
    BY <1>1, <1>2, <1>3 DEF Due, IdsOf, one
  <2>4. IdsOf(one) \in Seq(Ids) /\ Len(IdsOf(one)) = 1
    BY <2>2, IdsOfSeq
  <2>5. Due' = IdsOf(one)
    BY <2>3, <2>4, ConcatEmptySeq
  <2>6. Due' # <<>> /\ Tail(Due') = <<>>
    BY <2>4, <2>5, TailOfOne
  <2>7. AtMostOneBehind'
    BY <1>1, <1>3, <2>6 DEF AtMostOneBehind
  <2> QED BY <1>1, <2>7 DEF Inv, NoneWaitOffline, WaitersAreKnown
<1>4. CASE ~(conn > 0)
  <2>1. Due' = <<>> \o [k \in 1..0 |-> <<>>[k].id]
    BY <1>1, <1>2, <1>4 DEF Due, IdsOf
  <2>2. Due' = <<>>
    BY <2>1
  <2>3. AtMostOneBehind'
    BY <1>1, <2>2 DEF AtMostOneBehind
  <2> QED BY <1>1, <2>3 DEF Inv, NoneWaitOffline, WaitersAreKnown
<1> QED BY <1>3, <1>4

(* A request that is sent is due, and waited for, last. *)
LEMMA SendKeepsInv ==
  ASSUME Inv, TypeOK', Send
  PROVE  Inv'
<1> DEFINE m == Head(queue)
<1>1. /\ m \in MessageFor(Ids) /\ m.id \in Requests /\ m.id \in Ids
      /\ phase = "open" /\ queue # <<>> /\ queue \in Seq(MessageFor(Requests))
      /\ conn \in Conns /\ inbox[conn] \in Seq(MessageFor(Ids)) /\ replies \in Seq(Ids)
      /\ Due \in Seq(Ids) /\ pending \in Seq(Ids) /\ pending \in Seq(Requests)
      /\ IdsOf(inbox[conn]) \in Seq(Ids)
  BY QueueHead, DueType DEF Send, Inv, TypeOK, Ids
<1>2. /\ pending' = Append(pending, m.id) /\ inbox'[conn] = Append(inbox[conn], m)
      /\ queue' = Tail(queue) /\ UNCHANGED <<phase, conn, answer, replies>>
  BY <1>1 DEF Send, Entered, Inv, TypeOK
<1> HIDE DEF m
<1>3. Due' = Append(Due, m.id)
  <2>1. Due' = replies \o IdsOf(Append(inbox[conn], m))
    BY <1>2 DEF Due, IdsOf
  <2>2. IdsOf(Append(inbox[conn], m)) = Append(IdsOf(inbox[conn]), m.id)
    BY <1>1, IdsOfAppend
  <2> QED BY <1>1, <2>1, <2>2, AppendToConcat DEF Due
<1>4. AtMostOneBehind'
  <2>1. CASE Due = pending
    BY <1>2, <1>3, <2>1 DEF AtMostOneBehind
  <2>2. CASE conn > 1 /\ Due # <<>> /\ Tail(Due) = pending
    <3>1. Tail(Due') = pending'
      BY <1>1, <1>2, <1>3, <2>2, TailOfAppend
    <3>2. Due' # <<>>
      BY <1>1, <1>3
    <3> QED BY <1>2, <2>2, <3>1, <3>2 DEF AtMostOneBehind
  <2> QED BY <1>1, <2>1, <2>2 DEF Inv, AtMostOneBehind
<1>5. WaitersAreKnown'
  <2>1. Members(pending') = Members(pending) \cup {m.id}
    BY <1>1, <1>2, MembersOfAppend
  <2>2. Members(queue) = {m} \cup Members(queue')
    BY <1>1, <1>2, MembersOfTail DEF m
  <2> QED BY <1>2, <2>1, <2>2 DEF Inv, WaitersAreKnown
<1> QED BY <1>1, <1>2, <1>4, <1>5 DEF Inv, NoneWaitOffline

(* A response that is read is the first one due; if nobody waits for it, it
   is the only one. *)
LEMMA ReadKeepsInv ==
  ASSUME Inv, TypeOK', ReadResponse
  PROVE  Inv'
<1>1. /\ phase = "open" /\ replies # <<>> /\ replies \in Seq(Ids) /\ replies' = Tail(replies)
      /\ UNCHANGED <<phase, conn, queue, inbox>>
      /\ Due \in Seq(Ids) /\ IdsOf(inbox[conn]) \in Seq(Ids)
      /\ pending \in Seq(Requests)
  BY DueType DEF ReadResponse, Inv, TypeOK
<1>2. Due # <<>> /\ Due' = Tail(Due)
  <2> DEFINE r == replies
             b == IdsOf(inbox[conn])
             t == Tail(r \o b)
             u == Tail(r) \o b
  <2>1. Due = r \o b /\ Due' = u
    BY <1>1 DEF Due, IdsOf
  <2>2. r \in Seq(Ids) /\ b \in Seq(Ids) /\ r # <<>>
    BY <1>1
  <2> HIDE DEF r, b
  <2>3. /\ t \in Seq(Ids) /\ u \in Seq(Ids) /\ Len(r) \in Nat \ {0} /\ Len(b) \in Nat
        /\ Len(t) = Len(r) + Len(b) - 1 /\ Len(u) = Len(r) + Len(b) - 1 /\ r \o b # <<>>
    BY <2>2
  <2>4. \A k \in 1..(Len(r) + Len(b) - 1) : t[k] = u[k]
    BY <2>2
  <2> HIDE DEF t, u
  <2>5. t = u
    BY <2>3, <2>4, SeqEqual
  <2> QED BY <2>1, <2>3, <2>5 DEF t
<1>3. CASE pending = <<>>
  <2>1. UNCHANGED <<pending, answer>>
    BY <1>3 DEF ReadResponse
  <2>2. Tail(Due) = <<>>
    BY <1>1, <1>2, <1>3 DEF Inv, AtMostOneBehind
  <2> QED BY <1>1, <1>2, <1>3, <2>1, <2>2
          DEF Inv, NoneWaitOffline, AtMostOneBehind, WaitersAreKnown
<1>4. CASE pending # <<>>
  <2>1. /\ pending' = Tail(pending) /\ Head(pending) \in Requests
        /\ answer' = [answer EXCEPT ![Head(pending)] = IF @ = "waiting" THEN "answered" ELSE @]
    BY <1>1, <1>4 DEF ReadResponse
  <2>2. AtMostOneBehind'
    <3>1. CASE Due = pending
      BY <1>2, <2>1, <3>1 DEF AtMostOneBehind
    <3>2. CASE conn > 1 /\ Tail(Due) = pending
      BY <1>1, <1>2, <1>4, <2>1, <3>2 DEF AtMostOneBehind
    <3> QED BY <1>1, <3>1, <3>2 DEF Inv, AtMostOneBehind
  <2>3. WaitersAreKnown'
    <3>1. Members(pending) = {Head(pending)} \cup Members(pending')
      BY <1>1, <1>4, <2>1, MembersOfTail
    <3>2. \A r \in Requests : answer'[r] = "waiting" => r # Head(pending) /\ answer[r] = "waiting"
      BY <2>1 DEF Inv, TypeOK
    <3> QED BY <1>1, <3>1, <3>2 DEF Inv, WaitersAreKnown
  <2> QED BY <1>1, <2>2, <2>3 DEF Inv, NoneWaitOffline
<1> QED BY <1>3, <1>4

(* Losing the connection fails everybody who is entered, and the request that
   could not be written. *)
LEMMA DisconnectKeepsInv ==
  ASSUME Inv, TypeOK', NEW unsent, Disconnect(unsent),
         Members(queue) \subseteq Members(queue') \cup {m \in Members(queue) : m.id \in unsent}
  PROVE  Inv'
<1>1. phase' = "backoff" /\ pending' = <<>>
  BY DEF Disconnect
<1>2. WaitersAreKnown'
  <2>1. ASSUME NEW r \in Requests, answer'[r] = "waiting"
        PROVE  answer[r] = "waiting" /\ r \notin Members(pending) \cup unsent
    BY <2>1 DEF Disconnect, Failed, Unavailable
  <2> QED BY <2>1 DEF Inv, WaitersAreKnown
<1> QED BY <1>1, <1>2 DEF Inv, NoneWaitOffline, AtMostOneBehind

(* Every step keeps the inductive invariant. *)
LEMMA NextInv == Inv /\ [Next]_vars => Inv'
<1> SUFFICES ASSUME Inv, [Next]_vars PROVE Inv'
  OBVIOUS
<1>0. TypeOK /\ TypeOK'
  BY NextTypes DEF Inv
<1>1. ASSUME NEW r \in Requests, NEW kind \in {"hello", "config", "health"}, Ask(r, kind)
      PROVE  Inv'
  <2>1. UNCHANGED <<phase, conn, pending, replies, inbox>>
    BY <1>1 DEF Ask
  <2>2. NoneWaitOffline' /\ AtMostOneBehind'
    BY <2>1, SameDue DEF Due, IdsOf
  <2>3. queue \in Seq(MessageFor(Requests)) /\ Said(r, kind) \in MessageFor(Requests)
    BY <1>0 DEF TypeOK, Said, MessageFor, Keys
  <2>4. Members(queue') = Members(queue) \cup {Said(r, kind)}
    BY <1>1, <2>3, MembersOfAppend DEF Ask
  <2>5. \A q \in Requests : answer'[q] = "waiting" => q = r \/ answer[q] = "waiting"
    BY <1>0, <1>1 DEF Ask, TypeOK
  <2>6. Said(r, kind).id = r
    BY DEF Said
  <2>7. WaitersAreKnown'
    BY <2>1, <2>4, <2>5, <2>6 DEF Inv, WaitersAreKnown
  <2> QED BY <1>0, <2>2, <2>7 DEF Inv
<1>2. ASSUME NEW r \in Requests, NEW key \in Keys, NEW on \in BOOLEAN, Press(r, key, on)
      PROVE  Inv'
  <2> DEFINE m == [id |-> r, kind |-> "press", key |-> key, on |-> on]
  <2>1. UNCHANGED <<phase, conn, pending, replies, inbox>>
    BY <1>2 DEF Press
  <2>2. NoneWaitOffline' /\ AtMostOneBehind'
    BY <2>1, SameDue DEF Due, IdsOf
  <2>3. queue \in Seq(MessageFor(Requests)) /\ m \in MessageFor(Requests)
    BY <1>0 DEF TypeOK, MessageFor
  <2>4. Members(queue) \subseteq Members(queue')
    <3>1. queue' = IF Room THEN Append(queue, m) ELSE queue
      BY <1>2 DEF Press
    <3> HIDE DEF m
    <3> QED BY <2>3, <3>1, MembersOfAppend
  <2>5. \A q \in Requests : answer'[q] = "waiting" => answer[q] = "waiting"
    BY <1>0, <1>2 DEF Press, TypeOK
  <2>6. WaitersAreKnown'
    BY <2>1, <2>4, <2>5 DEF Inv, WaitersAreKnown
  <2> QED BY <1>0, <2>2, <2>6 DEF Inv
<1>3. ASSUME ConnectFails \/ Wake PROVE Inv'
  <2>1. /\ phase # "open" /\ phase' # "open"
        /\ UNCHANGED <<queue, pending, answer>>
    BY <1>3 DEF ConnectFails, Wake
  <2> QED BY <1>0, <2>1, SameWaiters DEF Inv, NoneWaitOffline, AtMostOneBehind
<1>4. ASSUME ConnectSucceeds PROVE Inv'
  BY <1>0, <1>4, ConnectKeepsInv
<1>5. ASSUME Refuse PROVE Inv'
  <2>1. /\ phase = "backoff" /\ UNCHANGED <<phase, conn, pending>> /\ queue # <<>>
        /\ queue' = Tail(queue) /\ answer' = Unavailable({Head(queue).id})
        /\ queue \in Seq(MessageFor(Requests))
    BY <1>0, <1>5 DEF Refuse, TypeOK
  <2>2. Members(queue) = {Head(queue)} \cup Members(queue')
    BY <2>1, MembersOfTail
  <2>3. ASSUME NEW r \in Requests, answer'[r] = "waiting"
        PROVE  answer[r] = "waiting" /\ r # Head(queue).id
    BY <2>1, <2>3 DEF Unavailable
  <2>4. WaitersAreKnown'
    BY <2>1, <2>2, <2>3 DEF Inv, WaitersAreKnown
  <2> QED BY <1>0, <2>1, <2>4 DEF Inv, NoneWaitOffline, AtMostOneBehind
<1>6. ASSUME Send PROVE Inv'
  BY <1>0, <1>6, SendKeepsInv
<1>7. ASSUME ReadResponse PROVE Inv'
  BY <1>0, <1>7, ReadKeepsInv
<1>8. ASSUME ReadEvent PROVE Inv'
  <2>1. UNCHANGED <<phase, conn, queue, pending, answer, replies, inbox>>
    BY <1>8 DEF ReadEvent
  <2>2. NoneWaitOffline' /\ AtMostOneBehind'
    BY <2>1, SameDue DEF Due, IdsOf
  <2> QED BY <1>0, <2>1, <2>2, SameWaiters DEF Inv
<1>9. ASSUME ConnectionLost PROVE Inv'
  BY <1>0, <1>9, DisconnectKeepsInv DEF ConnectionLost
<1>10. ASSUME SendFails PROVE Inv'
  <2>1. /\ queue # <<>> /\ queue \in Seq(MessageFor(Requests)) /\ queue' = Tail(queue)
        /\ Disconnect({Head(queue).id})
    BY <1>0, <1>10 DEF SendFails, TypeOK
  <2>2. Members(queue) = {Head(queue)} \cup Members(queue')
    BY <2>1, MembersOfTail
  <2> QED BY <1>0, <2>1, <2>2, DisconnectKeepsInv
<1>11. ASSUME NEW c \in Conns, Handle(c) PROVE Inv'
  <2>1. inbox[c] # <<>> /\ Reply(c) /\ UNCHANGED client
    BY <1>11 DEF Handle, HandleHello, HandleConfig, HandleHealth, HandlePress, Reads
  <2>2. UNCHANGED <<phase, conn, queue, pending, answer>>
    BY <2>1 DEF client
  <2>3. NoneWaitOffline' /\ AtMostOneBehind'
    BY <1>0, <2>1, <2>2, ReplyKeepsDue, SameDue
  <2> QED BY <1>0, <2>2, <2>3, SameWaiters DEF Inv
<1>12. ASSUME NEW c \in Conns, End(c) PROVE Inv'
  <2>1. UNCHANGED <<phase, conn, queue, pending, answer, replies, inbox>>
    BY <1>12 DEF End, client
  <2>2. NoneWaitOffline' /\ AtMostOneBehind'
    BY <2>1, SameDue DEF Due, IdsOf
  <2> QED BY <1>0, <2>1, <2>2, SameWaiters DEF Inv
<1>13. CASE Lock \/ UNCHANGED vars
  <2>1. UNCHANGED <<phase, conn, queue, pending, answer, replies, inbox>>
    BY <1>13 DEF Lock, client, vars
  <2>2. NoneWaitOffline' /\ AtMostOneBehind'
    BY <2>1, SameDue DEF Due, IdsOf
  <2> QED BY <1>0, <2>1, <2>2, SameWaiters DEF Inv
<1> QED BY <1>1, <1>2, <1>3, <1>4, <1>5, <1>6, <1>7, <1>8, <1>9, <1>10, <1>11, <1>12, <1>13,
          LinkAssumption
       DEF Next, Connect, Read

(* The answer a caller is given is its own, or the one to the message just
   before its own, and on the first connection always its own: however many
   requests are under way and however often the client reconnects. *)
THEOREM OneAnswerBehind == Spec => []AtMostOneBehind
<1>1. Inv => AtMostOneBehind
  BY DEF Inv
<1> QED BY InitInv, NextInv, <1>1, PTL DEF Spec, HangingSpec

(* A caller that waits is never forgotten: its request is queued, or it is
   entered for an answer of the connection in place. *)
THEOREM NobodyIsForgotten == Spec => []WaitersAreKnown
<1>1. Inv => WaitersAreKnown
  BY DEF Inv
<1> QED BY InitInv, NextInv, <1>1, PTL DEF Spec, HangingSpec

-----------------------------------------------------------------------------
(* What the window shows.  The registered connection has said hello, and the
   server's newest copy is the last that is on its way to the window; if none is,
   the window has it but for what a press has changed since.  A press of locked
   buttons is on its way only if it was made before the window knew: then the
   configuration that locked them arrives after it. *)

Shown == Keys \cup {"locked"}
Untouched(item) ==
  \/ item = "button" /\ server.copy["locked"]
  \/ \A m \in Members(queue) \cup Members(inbox[conn]) : m.kind = "press" => m.key # item

FutureUnused == \A c \in Conns : c > conn => task[c] = "none"
RegisteredGreeted == control # NoConn => task[control] = "greeted" /\ server.live
NewestUnderWay ==
  phase = "open" /\ control = conn /\ server.desired =>
    IF events # <<>> THEN events[Len(events)] = server.copy
    ELSE \A item \in Shown \ refused : Untouched(item) => local[item] = server.copy[item]
ShownInv == TypeOK /\ FutureUnused /\ RegisteredGreeted /\ NewestUnderWay

(* The last of a sequence that grows or is read. *)
LEMMA LastOfAppend ==
  ASSUME NEW S, NEW s \in Seq(S), NEW x \in S
  PROVE  Append(s, x) # <<>> /\ Append(s, x)[Len(Append(s, x))] = x
OBVIOUS

LEMMA LastOfTail ==
  ASSUME NEW S, NEW s \in Seq(S), s # <<>>
  PROVE  IF Tail(s) = <<>> THEN s[Len(s)] = Head(s)
         ELSE Tail(s)[Len(Tail(s))] = s[Len(s)]
<1> DEFINE t == Tail(s)
<1>1. /\ Head(s) = s[1] /\ Len(s) \in Nat \ {0} /\ Len(t) = Len(s) - 1
      /\ \A k \in 1..(Len(s) - 1) : t[k] = s[k + 1]
      /\ t \in Seq(S)
  BY HeadAndTail
<1> HIDE DEF t
<1>2. t = <<>> <=> Len(t) = 0
  BY <1>1, EmptySeq
<1>3. CASE t = <<>>
  <2>1. Len(s) = 1
    BY <1>1, <1>2, <1>3
  <2> QED BY <1>1, <1>3, <2>1 DEF t
<1>4. CASE t # <<>>
  <2>1. Len(s) - 1 \in 1..(Len(s) - 1) /\ Len(s) - 1 + 1 = Len(s)
    BY <1>1, <1>2, <1>4
  <2> QED BY <1>1, <1>4, <2>1 DEF t
<1> QED BY <1>3, <1>4

(* Messages are about talk or the button. *)
LEMMA KeysOfMembers ==
  ASSUME NEW I, NEW s \in Seq(MessageFor(I)), NEW m \in Members(s)
  PROVE  m.key \in Keys
<1>1. PICK k \in 1..Len(s) : m = s[k]
  BY DEF Members
<1>2. s[k] \in MessageFor(I)
  BY <1>1
<1> QED BY <1>1, <1>2 DEF MessageFor

(* Nobody is registered and nothing is shown at the start. *)
LEMMA InitShown == Init => ShownInv
<1> SUFFICES ASSUME Init PROVE ShownInv
  OBVIOUS
<1>1. TypeOK
  BY InitTypes
<1>2. phase = "connecting" /\ control = NoConn /\ task = [c \in Conns |-> "none"]
  BY DEF Init
<1> QED BY <1>1, <1>2 DEF ShownInv, FutureUnused, RegisteredGreeted, NewestUnderWay

(* A push to the registered connection that the client reads is the newest that
   is under way. *)
LEMMA PushIsNewest ==
  ASSUME TypeOK, phase = "open", control = conn, NEW copy \in Configs
  PROVE  /\ Pushed(control, copy) # <<>>
         /\ Pushed(control, copy)[Len(Pushed(control, copy))] = copy
<1>1. Pushed(control, copy) = Append(events, copy) /\ events \in Seq(Configs)
  BY DEF Pushed, Left, TypeOK
<1> QED BY <1>1, LastOfAppend

(* Who is registered has said hello on a connection that was made, which the
   client's tasks and requests do not change. *)
LEMMA SameRegistered ==
  ASSUME ShownInv, UNCHANGED <<conn, task, control, server>>
  PROVE  FutureUnused' /\ RegisteredGreeted'
BY DEF ShownInv, FutureUnused, RegisteredGreeted

(* A step that leaves both copies alone and takes no press from the way. *)
LEMMA SameShown ==
  ASSUME ShownInv, UNCHANGED <<phase, conn, local, refused, events, control, server>>,
         phase = "open" =>
           \A m \in Members(queue) \cup Members(inbox[conn]) :
             m.kind = "press" => m \in (Members(queue) \cup Members(inbox[conn]))'
  PROVE  NewestUnderWay'
<1> SUFFICES ASSUME phase = "open", control = conn, server.desired, events = <<>>,
                    NEW item \in Shown \ refused, Untouched(item)'
             PROVE  local[item] = server.copy[item]
  BY DEF ShownInv, NewestUnderWay
<1>1. Untouched(item)
  BY DEF Untouched
<1> QED BY <1>1 DEF ShownInv, NewestUnderWay

(* A press is shown before it is on its way: nothing is claimed of its key. *)
LEMMA PressKeepsShown ==
  ASSUME ShownInv, NEW r \in Requests, NEW key \in Keys, NEW on \in BOOLEAN, Press(r, key, on)
  PROVE  NewestUnderWay'
<1> DEFINE m == [id |-> r, kind |-> "press", key |-> key, on |-> on]
<1>1. /\ UNCHANGED <<phase, conn, inbox, events, control, server>>
      /\ local' = [local EXCEPT ![key] = on]
      /\ key = "button" => ~local["locked"]
      /\ queue' = IF Room THEN Append(queue, m) ELSE queue
      /\ refused' = IF Room THEN refused \ {key} ELSE refused \cup {key}
  BY DEF Press
<1>2. TypeOK /\ m \in MessageFor(Requests) /\ queue \in Seq(MessageFor(Requests))
  BY DEF ShownInv, TypeOK, MessageFor
<1>3. m.kind = "press" /\ m.key = key
  OBVIOUS
<1> HIDE DEF m
<1>4. Members(queue') = IF Room THEN Members(queue) \cup {m} ELSE Members(queue)
  <2>1. Members(Append(queue, m)) = Members(queue) \cup {m}
    BY <1>2, MembersOfAppend
  <2> QED BY <1>1, <2>1
<1> SUFFICES ASSUME phase = "open", control = conn, server.desired, events = <<>>,
                    NEW item \in Shown \ refused', Untouched(item)'
             PROVE  local'[item] = server.copy[item]
  BY <1>1 DEF ShownInv, NewestUnderWay
<1>5. conn \in Conns /\ inbox[conn] \in Seq(MessageFor(Ids)) /\ refused \subseteq Keys
  BY <1>2 DEF TypeOK
<1>6. local["locked"] = server.copy["locked"]
  <2>1. \A n \in Members(queue) \cup Members(inbox[conn]) : n.key \in Keys
    BY <1>2, <1>5, KeysOfMembers
  <2>2. "locked" \notin Keys
    BY DEF Keys
  <2>3. Untouched("locked")
    BY <2>1, <2>2 DEF Untouched
  <2>4. "locked" \in Shown \ refused
    BY <1>5 DEF Shown, Keys
  <2> QED BY <2>3, <2>4 DEF ShownInv, NewestUnderWay
<1>7. item # key
  <2>1. CASE Room
    <3>1. m \in Members(queue')
      BY <1>4, <2>1
    <3> QED BY <1>1, <1>3, <1>6, <3>1 DEF Untouched
  <2>2. CASE ~Room
    BY <1>1, <2>2
  <2> QED BY <2>1, <2>2
<1>8. item \in Shown \ refused /\ Untouched(item)
  BY <1>1, <1>4, <1>7 DEF Untouched
<1>9. local'[item] = local[item]
  BY <1>1, <1>2, <1>7 DEF TypeOK, Configs, Shown
<1> QED BY <1>8, <1>9 DEF ShownInv, NewestUnderWay

(* What the window reads last is the newest. *)
LEMMA ReadKeepsShown ==
  ASSUME ShownInv, ReadEvent
  PROVE  NewestUnderWay'
<1>1. /\ events # <<>> /\ events' = Tail(events) /\ local' = Head(events)
      /\ UNCHANGED <<phase, conn, control, server>>
  BY DEF ReadEvent
<1>2. events \in Seq(Configs)
  BY DEF ShownInv, TypeOK
<1>3. IF Tail(events) = <<>> THEN events[Len(events)] = Head(events)
      ELSE Tail(events)[Len(Tail(events))] = events[Len(events)]
  BY <1>1, <1>2, LastOfTail
<1> QED BY <1>1, <1>3 DEF ShownInv, NewestUnderWay

(* What the server handles it pushes, unless it changes nothing of what is shown. *)
LEMMA HandleKeepsShown ==
  ASSUME ShownInv, TypeOK', NEW c \in Conns, Handle(c)
  PROVE  ShownInv'
<1>1. TypeOK /\ inbox[c] # <<>> /\ Reply(c) /\ UNCHANGED client /\ UNCHANGED refused
  BY DEF ShownInv, Handle, HandleHello, HandleConfig, HandleHealth, HandlePress, Reads
<1>2. UNCHANGED <<phase, conn, queue, local>>
  BY <1>1 DEF client
<1>3. task[c] \in {"open", "greeted"} /\ ~(c > conn)
  BY DEF ShownInv, FutureUnused, Handle, HandleHello, HandleConfig, HandleHealth, HandlePress,
         Reads
<1>4. server.copy \in Configs
  BY <1>1 DEF TypeOK
<1>5. inbox[c] \in Seq(MessageFor(Ids)) /\ Head(inbox[c]) \in MessageFor(Ids)
  BY <1>1, ReplyTypes DEF TypeOK
<1>6. ASSUME phase = "open", Head(inbox[c]).kind # "press"
      PROVE  \A m \in Members(queue) \cup Members(inbox[conn]) :
               m.kind = "press" => m \in (Members(queue) \cup Members(inbox[conn]))'
  <2>1. conn \in Conns /\ inbox' = [inbox EXCEPT ![c] = Tail(@)]
    BY <1>1, <1>6 DEF Reply, TypeOK
  <2>2. Members(inbox[c]) = {Head(inbox[c])} \cup Members(Tail(inbox[c]))
    BY <1>1, <1>5, MembersOfTail
  <2>3. inbox'[conn] = IF c = conn THEN Tail(inbox[c]) ELSE inbox[conn]
    BY <1>1, <2>1 DEF TypeOK
  <2>4. Members(inbox'[conn]) = IF c = conn THEN Members(Tail(inbox[c])) ELSE Members(inbox[conn])
    BY <2>3
  <2>5. Members(queue') = Members(queue)
    BY <1>2
  <2> QED BY <1>2, <1>6, <2>2, <2>4, <2>5
<1>7. CASE HandleHello(c)
  <2>1. /\ task' = [task EXCEPT ![c] = "greeted"] /\ control' = c
        /\ server' = [server EXCEPT !.live = TRUE]
        /\ events' = IF server.desired THEN Pushed(c, server.copy) ELSE events
    BY <1>7 DEF HandleHello
  <2>2. /\ server'.live /\ server'.copy = server.copy /\ server'.desired = server.desired
        /\ task'[c] = "greeted"
    BY <1>1, <2>1 DEF TypeOK
  <2>3. FutureUnused' /\ RegisteredGreeted'
    BY <1>1, <1>2, <1>3, <2>1, <2>2 DEF ShownInv, FutureUnused, RegisteredGreeted, TypeOK
  <2>4. NewestUnderWay'
    <3>1. SUFFICES ASSUME phase = "open", c = conn, server.desired
                   PROVE  /\ events' # <<>> /\ events'[Len(events')] = server.copy
      BY <1>2, <2>1, <2>2 DEF NewestUnderWay
    <3>2. events' = Append(events, server.copy) /\ events \in Seq(Configs)
      BY <1>1, <2>1, <3>1 DEF Pushed, Left, TypeOK
    <3> QED BY <1>4, <3>2, LastOfAppend
  <2> QED BY <2>3, <2>4 DEF ShownInv
<1>8. CASE HandleConfig(c)
  <2>1. /\ UNCHANGED <<task, control>> /\ server' = [server EXCEPT !.desired = TRUE]
        /\ events' = IF server.live THEN Pushed(control, server.copy) ELSE events
    BY <1>8 DEF HandleConfig
  <2>2. server'.live = server.live /\ server'.copy = server.copy
    BY <1>1, <2>1 DEF TypeOK
  <2>3. FutureUnused' /\ RegisteredGreeted'
    BY <1>2, <2>1, <2>2 DEF ShownInv, FutureUnused, RegisteredGreeted
  <2>4. NewestUnderWay'
    <3>1. SUFFICES ASSUME phase = "open", control = conn
                   PROVE  /\ events' # <<>> /\ events'[Len(events')] = server.copy
      BY <1>2, <2>1, <2>2 DEF NewestUnderWay
    <3>2. server.live
      BY <1>1, <3>1 DEF ShownInv, RegisteredGreeted, TypeOK, Conns, NoConn
    <3> QED BY <1>1, <1>4, <2>1, <3>1, <3>2, PushIsNewest
  <2> QED BY <2>3, <2>4 DEF ShownInv
<1>9. CASE HandleHealth(c)
  <2>1. UNCHANGED <<task, events, control, server>> /\ Head(inbox[c]).kind # "press"
    BY <1>9 DEF HandleHealth, Reads
  <2> QED BY <1>1, <1>2, <1>6, <2>1, SameShown, SameRegistered DEF ShownInv
<1>10. CASE HandlePress(c)
  <2> DEFINE m == Head(inbox[c])
             copy == [server.copy EXCEPT ![m.key] = m.on]
             taken == server.live /\ ~(m.key = "button" /\ server.copy["locked"])
  <2>1. UNCHANGED <<task, control>>
    BY <1>10 DEF HandlePress
  <2>2. copy \in Configs
    BY <1>4, <1>5 DEF MessageFor, Configs
  <2>3. CASE taken
    <3>1. server' = [server EXCEPT !.copy = copy] /\ events' = Pushed(control, copy)
      BY <1>10, <2>3 DEF HandlePress, Pressed
    <3> HIDE DEF copy
    <3>2. server'.live = server.live /\ server'.copy = copy
      BY <1>1, <3>1 DEF TypeOK
    <3>3. FutureUnused' /\ RegisteredGreeted'
      BY <1>2, <2>1, <3>2 DEF ShownInv, FutureUnused, RegisteredGreeted
    <3>4. NewestUnderWay'
      BY <1>1, <1>2, <2>1, <2>2, <3>1, <3>2, PushIsNewest DEF NewestUnderWay
    <3> QED BY <3>3, <3>4 DEF ShownInv
  <2>4. CASE ~taken
    <3>1. UNCHANGED <<events, server>>
      BY <1>10, <2>4 DEF HandlePress
    <3>2. NewestUnderWay'
      <4>1. SUFFICES ASSUME phase = "open", control = conn, server.desired, events = <<>>,
                            NEW item \in Shown \ refused, Untouched(item)'
                     PROVE  local[item] = server.copy[item]
        BY <1>1, <1>2, <2>1, <3>1 DEF ShownInv, NewestUnderWay
      <4>2. server.live
        BY <1>1, <4>1 DEF ShownInv, RegisteredGreeted, TypeOK, Conns, NoConn
      <4>3. m.key = "button" /\ server.copy["locked"]
        BY <2>4, <4>2
      <4>4. Untouched(item)
        <5>1. CASE item = "button" BY <4>3, <5>1 DEF Untouched
        <5>2. CASE item # "button"
          <6>1. conn \in Conns /\ inbox' = [inbox EXCEPT ![c] = Tail(@)]
            BY <1>1, <4>1 DEF Reply, TypeOK
          <6>2. inbox'[conn] = IF c = conn THEN Tail(inbox[c]) ELSE inbox[conn]
            BY <1>1, <6>1 DEF TypeOK
          <6>3. Members(inbox[c]) = {m} \cup Members(Tail(inbox[c]))
            BY <1>1, <1>5, MembersOfTail
          <6>4. \A n \in Members(queue) \cup Members(inbox[conn]) :
                  n = m \/ n \in (Members(queue) \cup Members(inbox[conn]))'
            BY <1>2, <6>2, <6>3
          <6> HIDE DEF m
          <6> QED BY <1>2, <3>1, <4>1, <4>3, <5>2, <6>4 DEF Untouched
        <5> QED BY <5>1, <5>2
      <4> QED BY <4>1, <4>4 DEF ShownInv, NewestUnderWay
    <3> QED BY <1>2, <2>1, <3>1, <3>2, SameRegistered DEF ShownInv
  <2> QED BY <2>3, <2>4
<1> QED BY <1>7, <1>8, <1>9, <1>10 DEF Handle

(* The end of a connection registers nobody, or silences who is registered and
   says so. *)
LEMMA EndKeepsShown ==
  ASSUME ShownInv, TypeOK', NEW c \in Conns, End(c)
  PROVE  ShownInv'
<1>1. /\ TypeOK /\ task' = [task EXCEPT ![c] = "ended"] /\ task[c] # "none"
      /\ UNCHANGED <<refused, inbox>> /\ UNCHANGED <<phase, conn, queue, local>>
  BY DEF ShownInv, End, client
<1>2. FutureUnused'
  BY <1>1 DEF ShownInv, FutureUnused, TypeOK
<1>3. CASE task[c] = "greeted"
  <2>1. /\ control' = Remaining(c) /\ server' = [server EXCEPT !.copy = Silenced(server.copy)]
        /\ Left(c) => events' = Pushed(Remaining(c), Silenced(server.copy))
    BY <1>3 DEF End
  <2>2. Silenced(server.copy) \in Configs
    BY <1>1 DEF Silenced, Configs, TypeOK
  <2>3. /\ server'.live = server.live /\ server'.desired = server.desired
        /\ server'.copy = Silenced(server.copy)
    BY <1>1, <2>1 DEF TypeOK
  <2>4. RegisteredGreeted'
    BY <1>1, <2>1, <2>3 DEF ShownInv, RegisteredGreeted, Remaining, TypeOK
  <2>5. NewestUnderWay'
    <3>1. SUFFICES ASSUME phase = "open", control' = conn
                   PROVE  /\ events' # <<>> /\ events'[Len(events')] = Silenced(server.copy)
      BY <1>1, <2>3 DEF NewestUnderWay
    <3>2. conn \in Conns /\ conn # NoConn
      BY <1>1, <3>1 DEF TypeOK, Conns, NoConn
    <3>3. control = conn /\ c # conn /\ Remaining(c) = control
      BY <2>1, <3>1, <3>2 DEF Remaining
    <3>4. events' = Pushed(control, Silenced(server.copy))
      BY <2>1, <3>3 DEF Left
    <3> QED BY <1>1, <2>2, <3>1, <3>3, <3>4, PushIsNewest
  <2> QED BY <1>2, <2>4, <2>5 DEF ShownInv
<1>4. CASE task[c] # "greeted"
  <2>1. UNCHANGED <<control, server, events>>
    BY <1>4 DEF End
  <2>2. RegisteredGreeted'
    BY <1>1, <1>4, <2>1 DEF ShownInv, RegisteredGreeted, TypeOK
  <2> QED BY <1>1, <1>2, <2>1, <2>2, SameShown DEF ShownInv
<1> QED BY <1>3, <1>4

(* Every step keeps what is shown in line with what is under way. *)
LEMMA NextShown == ShownInv /\ [Next]_vars => ShownInv'
<1> SUFFICES ASSUME ShownInv, [Next]_vars PROVE ShownInv'
  OBVIOUS
<1>0. TypeOK /\ TypeOK'
  BY NextTypes DEF ShownInv
<1>1. ASSUME NEW r \in Requests, NEW kind \in {"hello", "config", "health"}, Ask(r, kind)
      PROVE  ShownInv'
  <2>1. /\ UNCHANGED <<phase, conn, local, refused, events, task, control, server, inbox>>
        /\ queue' = Append(queue, Said(r, kind))
    BY <1>1 DEF Ask
  <2>2. queue \in Seq(MessageFor(Requests)) /\ Said(r, kind) \in MessageFor(Requests)
    BY <1>0 DEF TypeOK, Said, MessageFor, Keys
  <2>3. Members(queue) \subseteq Members(queue')
    BY <2>1, <2>2, MembersOfAppend
  <2> QED BY <1>0, <2>1, <2>3, SameShown, SameRegistered DEF ShownInv
<1>2. ASSUME NEW r \in Requests, NEW key \in Keys, NEW on \in BOOLEAN, Press(r, key, on)
      PROVE  ShownInv'
  BY <1>0, <1>2, PressKeepsShown, SameRegistered DEF ShownInv, Press
<1>3. ASSUME ConnectFails \/ Wake \/ Refuse PROVE ShownInv'
  <2>1. phase' # "open" /\ UNCHANGED <<conn, task, control, server>>
    BY <1>3 DEF ConnectFails, Wake, Refuse
  <2> QED BY <1>0, <2>1, SameRegistered DEF ShownInv, NewestUnderWay
<1>4. ASSUME ConnectSucceeds PROVE ShownInv'
  <2>1. /\ conn' = conn + 1 /\ conn + 1 \in Conns /\ conn \in Nat
        /\ task' = [task EXCEPT ![conn + 1] = "open"] /\ UNCHANGED <<control, server>>
    BY <1>0, <1>4, LinkAssumption DEF ConnectSucceeds, TypeOK, Conns, NoConn
  <2>2. task[conn + 1] = "none"
    BY <2>1 DEF ShownInv, FutureUnused, Conns
  <2>3. control # conn + 1
    <3>1. conn + 1 # NoConn
      BY <2>1 DEF NoConn
    <3> QED BY <2>2, <3>1 DEF ShownInv, RegisteredGreeted
  <2>4. FutureUnused'
    BY <1>0, <2>1 DEF ShownInv, FutureUnused, TypeOK, Conns
  <2>5. RegisteredGreeted'
    BY <1>0, <2>1, <2>3 DEF ShownInv, RegisteredGreeted, TypeOK
  <2> QED BY <1>0, <2>1, <2>3, <2>4, <2>5 DEF ShownInv, NewestUnderWay
<1>5. ASSUME Send PROVE ShownInv'
  <2> DEFINE m == Head(queue)
  <2>1. /\ UNCHANGED <<phase, conn, local, refused, events, task, control, server>>
        /\ phase = "open" /\ queue # <<>> /\ queue' = Tail(queue)
        /\ inbox' = [inbox EXCEPT ![conn] = Append(@, m)]
    BY <1>5 DEF Send
  <2>2. /\ conn \in Conns /\ inbox[conn] \in Seq(MessageFor(Ids))
        /\ m \in MessageFor(Ids) /\ queue \in Seq(MessageFor(Requests))
    BY <1>0, <2>1, QueueHead DEF TypeOK
  <2>3. inbox'[conn] = Append(inbox[conn], m)
    BY <1>0, <2>1, <2>2 DEF TypeOK
  <2>4. Members(inbox'[conn]) = Members(inbox[conn]) \cup {m}
    BY <2>2, <2>3, MembersOfAppend
  <2>5. Members(queue) = {m} \cup Members(queue')
    BY <2>1, <2>2, MembersOfTail
  <2> HIDE DEF m
  <2>6. Members(inbox[conn])' = Members(inbox'[conn])
    BY <2>1
  <2> QED BY <1>0, <2>1, <2>4, <2>5, <2>6, SameShown, SameRegistered DEF ShownInv
<1>6. ASSUME ReadResponse PROVE ShownInv'
  <2>1. UNCHANGED <<phase, conn, queue, local, refused, inbox, events, task, control, server>>
    BY <1>6 DEF ReadResponse
  <2> QED BY <1>0, <2>1, SameShown, SameRegistered DEF ShownInv
<1>7. ASSUME ReadEvent PROVE ShownInv'
  BY <1>0, <1>7, ReadKeepsShown, SameRegistered DEF ShownInv, ReadEvent
<1>8. ASSUME ConnectionLost \/ SendFails PROVE ShownInv'
  <2>1. phase' # "open" /\ UNCHANGED <<conn, task, control, server>>
    BY <1>8 DEF ConnectionLost, SendFails, Disconnect
  <2> QED BY <1>0, <2>1, SameRegistered DEF ShownInv, NewestUnderWay
<1>9. ASSUME NEW c \in Conns, Handle(c) PROVE ShownInv'
  BY <1>0, <1>9, HandleKeepsShown
<1>10. ASSUME NEW c \in Conns, End(c) PROVE ShownInv'
  BY <1>0, <1>10, EndKeepsShown
<1>11. ASSUME Lock PROVE ShownInv'
  <2> DEFINE copy == [server.copy EXCEPT !["locked"] = ~@]
  <2>1. copy \in Configs
    BY <1>0 DEF TypeOK, Configs
  <2>2. /\ server'.live /\ server'.copy = copy /\ events' = Pushed(control, copy)
        /\ UNCHANGED <<phase, conn, task, control>>
    BY <1>11 DEF Lock, client
  <2> HIDE DEF copy
  <2>3. FutureUnused' /\ RegisteredGreeted'
    BY <2>2 DEF ShownInv, FutureUnused, RegisteredGreeted
  <2>4. NewestUnderWay'
    BY <1>0, <2>1, <2>2, PushIsNewest DEF NewestUnderWay
  <2> QED BY <1>0, <2>3, <2>4 DEF ShownInv
<1>12. CASE UNCHANGED vars
  <2>1. UNCHANGED <<phase, conn, queue, local, refused, inbox, events, task, control, server>>
    BY <1>12 DEF vars
  <2> QED BY <1>0, <2>1, SameShown, SameRegistered DEF ShownInv
<1> QED BY <1>1, <1>2, <1>3, <1>4, <1>5, <1>6, <1>7, <1>8, <1>9, <1>10, <1>11, <1>12,
          LinkAssumption
       DEF Next, Connect, Read

(* The window of a registered client shows the server's state as soon as neither a
   press nor a configuration is under way, but for keys whose last press the full
   channel refused: for any number of connections, late hellos and clean-ups of
   old ones included. *)
THEOREM WindowShowsServer == Spec => []SettledAgrees
<1>1. ShownInv => SettledAgrees
  <2> SUFFICES ASSUME ShownInv, Settled, NEW item \in DOMAIN local \ refused
               PROVE  local[item] = server.copy[item]
    BY DEF SettledAgrees
  <2>1. DOMAIN local = Shown
    BY DEF ShownInv, TypeOK, Configs, Shown
  <2>2. Untouched(item)
    BY DEF Settled, Untouched
  <2> QED BY <2>1, <2>2 DEF ShownInv, NewestUnderWay, Settled
<1> QED BY InitShown, NextShown, <1>1, PTL DEF Spec, HangingSpec
=============================================================================
