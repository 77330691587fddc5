--------------------------- MODULE ConfigPushProofs ---------------------------
(***************************************************************************)
(* Proofs about ConfigPush, the part of TalkAndPush that is P there, for any  *)
(* users, connections, other threads and number of changes: no change of a    *)
(* configuration is lost on its way to a client.                              *)
(***************************************************************************)
EXTENDS TalkAndPush, TLAPS

-----------------------------------------------------------------------------
(* The invariant.  That the newest version is on its way needs who sends what to
   whom: a push carries the version it saw to the connection it looked up, and a
   connection that registers later greets its client with what is newest then. *)

(* A connection has a user from its hello on. *)
HelloNamesUser == \A c \in Conns : pushConn[c].phase = "new" <=> pushConn[c].user = NoUser

(* Who is registered is a connection of that user that has not yet left. *)
OwnRegistered ==
  \A u \in PushedUsers : control[u] # NoConn =>
    pushConn[control[u]].user = u /\ pushConn[control[u]].phase \in {"greet", "seed", "open", "closing"}

(* No version that is on its way is newer than the session. *)
Known(u, n) == n = 0 \/ (u \in PushedUsers /\ n <= version[u])

(* A connection's task works for its user, sends to connections of that user, and
   greets on its own connection. *)
TaskRight(t) ==
  /\ task[t].step # "idle" => task[t].user \in PushedUsers
  /\ task[t].step # "idle" /\ t \in Conns => task[t].user = pushConn[t].user
  /\ task[t].step = "send" => task[t].sender \in Conns /\ pushConn[task[t].sender].user = task[t].user
  /\ task[t].step = "greeting" => t \in Conns /\ task[t].sender = t /\ pushConn[t].phase = "greet"
  /\ Known(task[t].user, task[t].snapshot)
TasksRight == \A t \in P!Tasks : TaskRight(t)

NothingFromFuture ==
  \A c \in Conns :
    /\ Known(pushConn[c].user, newest[c])
    /\ \A i \in DOMAIN inbox[c] : Known(pushConn[c].user, inbox[c][i])

(* The newest version is on its way to the connection c of u by the task t, *)
Carries(t, u, c) ==
  /\ task[t].user = u
  /\ \/ task[t].step = "snapshot"
     \/ task[t].step = "lookup" /\ task[t].snapshot = version[u]
     \/ task[t].step \in {"send", "greeting"} /\ task[t].sender = c /\ task[t].snapshot = version[u]

(* A connection that has said hello for u, which may have changed the session, and
   is about to take over. *)
Coming(u) ==
  \E d \in Conns : pushConn[d].user = u /\ pushConn[d].phase \in {"preconfigured", "unknown"}

(* or has been sent, or read, or is not owed; or the connection has yet to greet its
   client, to receive the configuration it starts with, or to leave the registry, or
   another is about to take over. *)
Arrives(u, c) ==
  \/ newest[c] = version[u]
  \/ \E i \in DOMAIN inbox[c] : inbox[c][i] = version[u]
  \/ \E t \in P!Tasks : Carries(t, u, c)
  \/ pushConn[c].phase = "greet" /\ task[c].step # "greeting"
  \/ pushConn[c].phase \in {"seed", "closing"}
  \/ Coming(u)
NewestOnItsWay == \A u \in PushedUsers : control[u] # NoConn => Arrives(u, control[u])

Inv ==
  P!TypeOK /\ HelloNamesUser /\ OwnRegistered /\ TasksRight /\ NothingFromFuture /\ NewestOnItsWay

LEMMA InvSettles == Inv => P!NewestReachesClient
<1> SUFFICES ASSUME Inv, NEW u \in PushedUsers, P!Settled(u), control[u] # NoConn
             PROVE  newest[control[u]] = version[u]
  BY DEF P!NewestReachesClient
<1> DEFINE c == control[u]
<1>1. c \in Conns /\ pushConn[c].user = u /\ pushConn[c].phase # "gone"
  BY DEF Inv, P!TypeOK, OwnRegistered
<1>4. pushConn[c].phase = "open" /\ inbox[c] = <<>>
  BY <1>1 DEF P!Settled
<1>2. Arrives(u, c)
  BY DEF Inv, NewestOnItsWay
<1>3. (\A t \in P!Tasks : ~Carries(t, u, c)) /\ ~Coming(u)
  BY DEF P!Settled, Carries, Coming
<1> HIDE DEF c
<1> QED BY <1>1, <1>2, <1>3, <1>4 DEF Arrives, c

LEMMA InitEstablishesInv == P!PushAssumption /\ P!Init => Inv
<1> SUFFICES ASSUME P!PushAssumption, P!Init PROVE Inv
  OBVIOUS
<1>1. P!TypeOK
  BY DEF P!PushAssumption, P!Init, P!TypeOK, P!Phases, P!NoPush, P!Push_t
<1>2. HelloNamesUser /\ OwnRegistered /\ NewestOnItsWay
  BY DEF P!Init, HelloNamesUser, OwnRegistered, NewestOnItsWay
<1>3. TasksRight /\ NothingFromFuture
  BY DEF P!Init, TasksRight, TaskRight, NothingFromFuture, Known, P!NoPush
<1> QED BY <1>1, <1>2, <1>3 DEF Inv

(* The parts of a task, and of a connection. *)
LEMMA TaskTypes ==
  ASSUME P!TypeOK, NEW t \in P!Tasks
  PROVE  /\ task[t] \in P!Push_t /\ task[t].user \in PushedUsers \cup {NoUser}
         /\ task[t].snapshot \in Nat /\ task[t].sender \in Conns \cup {NoConn}
<1>1. task[t] \in P!Push_t
  BY DEF P!TypeOK
<1> QED BY <1>1 DEF P!Push_t

LEMMA ConnTypes ==
  ASSUME P!TypeOK, NEW c \in Conns
  PROVE  /\ pushConn[c] \in [phase : P!Phases, user : PushedUsers \cup {NoUser}]
         /\ pushConn[c].phase \in P!Phases /\ pushConn[c].user \in PushedUsers \cup {NoUser}
         /\ newest[c] \in Nat /\ inbox[c] \in Seq(Nat)
BY DEF P!TypeOK
LEMMA NoPushType == P!NoPush \in P!Push_t /\ P!NoPush.step = "idle" /\ P!NoPush.user = NoUser /\ P!NoPush.snapshot = 0
BY DEF P!NoPush, P!Push_t


-----------------------------------------------------------------------------
(* Steps of one task that leave everything else alone. *)
LEMMA TaskStep ==
  ASSUME P!PushAssumption, Inv, NEW t \in P!Tasks, NEW k \in P!Push_t, task' = [task EXCEPT ![t] = k],
         UNCHANGED <<pushConn, control, version, inbox, shown, newest, last>>,
         TaskRight(t)',
         \A u \in PushedUsers : control[u] # NoConn /\ Carries(t, u, control[u]) => Carries(t, u, control[u])',
         \A u \in PushedUsers : control[u] = t /\ k.step = "greeting" => Carries(t, u, t)'
  PROVE  Inv'
<1>1. P!TypeOK' /\ HelloNamesUser' /\ OwnRegistered' /\ NothingFromFuture'
  BY DEF Inv, P!TypeOK, HelloNamesUser, OwnRegistered, NothingFromFuture, Known
<1>2. task'[t] = k /\ (\A s \in P!Tasks : s # t => task'[s] = task[s])
      /\ \A v : Coming(v)' <=> Coming(v)
  BY DEF Inv, P!TypeOK, Coming
<1>3. TasksRight'
  <2>1. ASSUME NEW s \in P!Tasks, s # t PROVE TaskRight(s)'
    BY <1>2, <2>1 DEF Inv, TasksRight, TaskRight, Known
  <2> QED BY <2>1 DEF TasksRight
<1>4. NewestOnItsWay'
  <2> SUFFICES ASSUME NEW u \in PushedUsers, control[u] # NoConn PROVE Arrives(u, control[u])'
    BY DEF NewestOnItsWay
  <2> DEFINE c == control[u]
  <2>1. c \in Conns /\ Arrives(u, c) /\ c \in P!Tasks
    BY DEF Inv, P!TypeOK, NewestOnItsWay, P!Tasks
  <2>2. CASE \E s \in P!Tasks : Carries(s, u, c)
    <3>1. PICK s \in P!Tasks : Carries(s, u, c)
      BY <2>2
    <3>2. CASE s = t
      BY <3>1, <3>2 DEF Arrives
    <3>3. CASE s # t
      <4>1. Carries(s, u, c)'
        BY <1>2, <3>1, <3>3 DEF Carries
      <4> QED BY <4>1 DEF Arrives
    <3> QED BY <3>2, <3>3
  <2>3. CASE pushConn[c].phase = "greet" /\ task[c].step # "greeting"
    <3>1. CASE c = t /\ k.step = "greeting"
      BY <3>1 DEF Arrives
    <3>2. CASE ~(c = t /\ k.step = "greeting")
      BY <1>2, <2>1, <2>3, <3>2 DEF Arrives
    <3> QED BY <3>1, <3>2
  <2>4. CASE \/ newest[c] = version[u] \/ \E i \in DOMAIN inbox[c] : inbox[c][i] = version[u]
             \/ pushConn[c].phase \in {"seed", "closing"} \/ Coming(u)
    BY <1>2, <2>4 DEF Arrives
  <2> QED BY <2>1, <2>2, <2>3, <2>4 DEF Arrives
<1> QED BY <1>1, <1>3, <1>4 DEF Inv

LEMMA SnapshotKeepsInv ==
  ASSUME P!PushAssumption, Inv, NEW t \in P!Tasks, P!Snapshot(t)
  PROVE  Inv'
<1> DEFINE k == [task[t] EXCEPT !.step = "lookup", !.snapshot = version[task[t].user]]
<1>1. /\ task[t] \in P!Push_t /\ task[t].step = "snapshot" /\ task[t].user \in PushedUsers
      /\ version[task[t].user] \in Nat
  BY TaskTypes DEF P!PushAssumption, Inv, P!Snapshot, TasksRight, TaskRight, P!TypeOK
<1>2. /\ k \in P!Push_t /\ k.step = "lookup" /\ k.user = task[t].user
      /\ k.snapshot = version[task[t].user]
  BY <1>1 DEF P!Push_t
<1>3. task' = [task EXCEPT ![t] = k] /\ UNCHANGED <<pushConn, control, version, inbox, shown, newest, last>>
  BY DEF P!Snapshot, Inv, P!TypeOK, P!Push_t
<1> HIDE DEF k
<1>4. task'[t] = k
  BY <1>3 DEF Inv, P!TypeOK
<1>5. TaskRight(t)'
  BY <1>1, <1>2, <1>3, <1>4 DEF Inv, TasksRight, TaskRight, Known
<1>6. \A u \in PushedUsers : Carries(t, u, control[u]) => Carries(t, u, control[u])'
  BY <1>1, <1>2, <1>3, <1>4 DEF Carries
<1> QED BY <1>2, <1>3, <1>5, <1>6, TaskStep

LEMMA LookupKeepsInv ==
  ASSUME P!PushAssumption, Inv, NEW t \in P!Tasks, P!Lookup(t)
  PROVE  Inv'
<1> DEFINE u == task[t].user
           c == control[u]
           k == IF c = NoConn THEN P!NoPush ELSE [task[t] EXCEPT !.step = "send", !.sender = c]
<1>1. /\ task[t] \in P!Push_t /\ task[t].step = "lookup" /\ u \in PushedUsers
      /\ Known(u, task[t].snapshot) /\ c \in Conns \cup {NoConn}
      /\ t \in Conns => u = pushConn[t].user
  BY TaskTypes DEF Inv, P!Lookup, TasksRight, TaskRight, P!TypeOK
<1>2. task' = [task EXCEPT ![t] = k] /\ UNCHANGED <<pushConn, control, version, inbox, shown, newest, last>>
  BY DEF P!Lookup, Inv, P!TypeOK, P!Push_t
<1>3. CASE c = NoConn
  <2>1. k = P!NoPush /\ k \in P!Push_t
    BY <1>3 DEF P!NoPush, P!Push_t
  <2>2. task'[t] = P!NoPush
    BY <1>2, <2>1 DEF Inv, P!TypeOK
  <2>3. TaskRight(t)'
    BY <2>2 DEF TaskRight, P!NoPush, Known
  <2>4. \A v \in PushedUsers : control[v] # NoConn => ~Carries(t, v, control[v])
    BY <1>3 DEF Carries
  <2> HIDE DEF k
  <2> QED BY <1>2, <2>1, <2>3, <2>4, TaskStep DEF P!NoPush
<1>4. CASE c # NoConn
  <2>1. /\ k \in P!Push_t /\ k.step = "send" /\ k.user = u /\ k.sender = c
        /\ k.snapshot = task[t].snapshot
    BY <1>1, <1>4 DEF P!Push_t
  <2>2. pushConn[c].user = u
    BY <1>1, <1>4 DEF Inv, OwnRegistered
  <2> HIDE DEF k
  <2>3. task'[t] = k
    BY <1>2 DEF Inv, P!TypeOK
  <2>4. TaskRight(t)'
    BY <1>1, <1>2, <1>4, <2>1, <2>2, <2>3 DEF TaskRight, Known
  <2>5. \A v \in PushedUsers : Carries(t, v, control[v]) => Carries(t, v, control[v])'
    BY <1>1, <1>2, <2>1, <2>3 DEF Carries
  <2> QED BY <1>2, <2>1, <2>4, <2>5, TaskStep
<1> QED BY <1>3, <1>4

LEMMA PresenceKeepsInv ==
  ASSUME P!PushAssumption, Inv, NEW r \in Requests, NEW u \in PushedUsers, P!PresenceUpdate(r, u)
  PROVE  Inv'
<1> DEFINE k == [P!NoPush EXCEPT !.step = "send", !.user = u, !.sender = control[u]]
<1>1. r \in P!Tasks /\ r \notin Conns /\ control[u] \in Conns /\ pushConn[control[u]].user = u
  BY DEF P!PushAssumption, P!Tasks, P!PresenceUpdate, Inv, P!TypeOK, OwnRegistered
<1>2. k \in P!Push_t /\ k.step = "send" /\ k.user = u /\ k.snapshot = 0 /\ k.sender = control[u]
  BY <1>1, NoPushType DEF P!Push_t, P!NoPush
<1>3. task' = [task EXCEPT ![r] = k] /\ UNCHANGED <<pushConn, control, version, inbox, shown, newest, last>>
  BY DEF P!PresenceUpdate
<1> HIDE DEF k
<1>4. task'[r] = k /\ task[r].step = "idle"
  BY <1>1, <1>3 DEF Inv, P!TypeOK, P!PresenceUpdate
<1>5. TaskRight(r)'
  BY <1>1, <1>2, <1>3, <1>4 DEF TaskRight, Known
<1>6. \A v \in PushedUsers : ~Carries(r, v, control[v])
  BY <1>4 DEF Carries
<1> QED BY <1>1, <1>2, <1>3, <1>5, <1>6, TaskStep

LEMMA GreetSnapshotKeepsInv ==
  ASSUME P!PushAssumption, Inv, NEW c \in Conns, P!GreetSnapshot(c)
  PROVE  Inv'
<1> DEFINE u == pushConn[c].user
           k == [step |-> "greeting", user |-> u, snapshot |-> version[u], sender |-> c]
<1>1. /\ c \in P!Tasks /\ pushConn[c].phase = "greet" /\ u \in PushedUsers /\ version[u] \in Nat
      /\ task[c].step = "idle"
  BY ConnTypes DEF P!PushAssumption, Inv, P!GreetSnapshot, HelloNamesUser, P!TypeOK, P!Tasks
<1>2. k \in P!Push_t
  BY <1>1 DEF P!Push_t
<1>3. task' = [task EXCEPT ![c] = k] /\ UNCHANGED <<pushConn, control, version, inbox, shown, newest, last>>
  BY DEF P!GreetSnapshot
<1>4. task'[c] = k
  BY <1>1, <1>3 DEF Inv, P!TypeOK
<1>5. TaskRight(c)'
  BY <1>1, <1>3, <1>4 DEF TaskRight, Known
<1>6. \A v \in PushedUsers : ~Carries(c, v, control[v])
  BY <1>1 DEF Carries
<1>7. \A v \in PushedUsers : control[v] = c => Carries(c, v, c)'
  <2> SUFFICES ASSUME NEW v \in PushedUsers, control[v] = c PROVE Carries(c, v, c)'
    OBVIOUS
  <2>1. u = v
    BY <1>1 DEF P!PushAssumption, Inv, OwnRegistered
  <2> QED BY <1>3, <1>4, <2>1 DEF Carries
<1> QED BY <1>1, <1>2, <1>3, <1>5, <1>6, <1>7, TaskStep

-----------------------------------------------------------------------------
(* A change: a request, or the connection of that user, is about to push it. *)
LEMMA ChangeStep ==
  ASSUME P!PushAssumption, Inv, NEW t \in P!Tasks, NEW u \in PushedUsers, P!Changed(t, u),
         task[t].step = "idle" \/ task[t].user = u,
         t \in Conns => pushConn[t].user = u,
         UNCHANGED <<control, inbox, shown, newest, last>>,
         \/ UNCHANGED pushConn
         \/ /\ t \in Conns /\ pushConn[t].phase = "seed" /\ P!Phase(t, "open")
         \/ /\ t \in Conns /\ pushConn[t].phase = "clearing" /\ P!Phase(t, "returning")
  PROVE  Inv'
<1> DEFINE k == [P!NoPush EXCEPT !.step = "snapshot", !.user = u]
<1>k. k \in P!Push_t /\ k.step = "snapshot" /\ k.user = u /\ k.snapshot = 0
  BY NoPushType DEF P!Push_t
<1>1. task' = [task EXCEPT ![t] = k] /\ version' = [version EXCEPT ![u] = @ + 1]
  BY DEF P!Changed
<1>2. task'[t] = k /\ \A s \in P!Tasks : s # t => task'[s] = task[s]
  BY <1>1 DEF Inv, P!TypeOK
<1>3. /\ version[u] \in Nat /\ version[u] < MaxVersion /\ version'[u] = version[u] + 1
      /\ \A v \in PushedUsers : v # u => version'[v] = version[v]
  BY <1>1 DEF P!PushAssumption, Inv, P!TypeOK, P!Changed
<1>4. \A v, n : n \in Nat /\ Known(v, n) => Known(v, n)'
  BY <1>3 DEF Known
<1>5. /\ pushConn' \in [Conns -> [phase : P!Phases, user : PushedUsers \cup {NoUser}]]
      /\ \A c \in Conns : pushConn'[c].user = pushConn[c].user /\ (c # t => pushConn'[c] = pushConn[c])
      /\ t \in Conns =>
           \/ pushConn'[t].phase = pushConn[t].phase
           \/ pushConn[t].phase = "seed" /\ pushConn'[t].phase = "open"
           \/ pushConn[t].phase = "clearing" /\ pushConn'[t].phase = "returning"
  <2>1. CASE UNCHANGED pushConn
    BY <2>1 DEF Inv, P!TypeOK
  <2>2. CASE t \in Conns /\ pushConn[t].phase = "seed" /\ P!Phase(t, "open")
    BY <2>2, ConnTypes DEF Inv, P!TypeOK, P!Phase, P!Phases
  <2>3. CASE t \in Conns /\ pushConn[t].phase = "clearing" /\ P!Phase(t, "returning")
    BY <2>3, ConnTypes DEF Inv, P!TypeOK, P!Phase, P!Phases
  <2> QED BY <2>1, <2>2, <2>3
<1> HIDE DEF k
<1>6. P!TypeOK'
  <2>1. version' \in [PushedUsers -> 0..MaxVersion]
    BY <1>1, <1>3 DEF P!PushAssumption, Inv, P!TypeOK
  <2>2. task' \in [P!Tasks -> P!Push_t]
    BY <1>1, <1>k DEF Inv, P!TypeOK
  <2>3. \A c \in Conns : pushConn'[c].phase = "gone" => inbox'[c] = <<>>
    BY <1>5 DEF Inv, P!TypeOK
  <2> QED BY <1>5, <2>1, <2>2, <2>3 DEF Inv, P!TypeOK
<1>7. HelloNamesUser' /\ OwnRegistered'
  <2>1. HelloNamesUser'
    BY <1>5 DEF Inv, HelloNamesUser
  <2>2. ASSUME NEW v \in PushedUsers, control[v] # NoConn
        PROVE  /\ pushConn'[control[v]].user = v
               /\ pushConn'[control[v]].phase \in {"greet", "seed", "open", "closing"}
    <3>1. control[v] \in Conns
      BY <2>2 DEF Inv, P!TypeOK
    <3> QED BY <1>5, <2>2, <3>1 DEF Inv, OwnRegistered
  <2> QED BY <2>1, <2>2 DEF OwnRegistered
<1>8. TasksRight'
  <2>1. ASSUME NEW s \in P!Tasks, s # t PROVE TaskRight(s)'
    <3>1. TaskRight(s) /\ task'[s] = task[s] /\ task[s].snapshot \in Nat
      BY <1>2, <2>1, TaskTypes DEF Inv, TasksRight
    <3>2. Known(task[s].user, task[s].snapshot)'
      BY <1>3, <3>1 DEF TaskRight, Known
    <3> QED BY <1>5, <2>1, <3>1, <3>2 DEF TaskRight, Known
  <2>2. TaskRight(t)'
    BY <1>2, <1>5, <1>k DEF TaskRight, Known
  <2> QED BY <2>1, <2>2 DEF TasksRight
<1>9. NothingFromFuture'
  <2> SUFFICES ASSUME NEW c \in Conns
               PROVE  /\ Known(pushConn[c].user, newest[c])'
                      /\ \A i \in DOMAIN inbox[c] : Known(pushConn[c].user, inbox[c][i])'
    BY DEF NothingFromFuture
  <2>1. newest[c] \in Nat /\ \A i \in DOMAIN inbox[c] : inbox[c][i] \in Nat
    BY ConnTypes DEF Inv
  <2> QED BY <1>3, <1>5, <2>1 DEF Inv, NothingFromFuture, Known
<1>10. NewestOnItsWay'
  <2> SUFFICES ASSUME NEW v \in PushedUsers, control[v] # NoConn PROVE Arrives(v, control[v])'
    BY DEF NewestOnItsWay
  <2> DEFINE c == control[v]
  <2>1. c \in Conns /\ pushConn[c].user = v /\ Arrives(v, c) /\ c \in P!Tasks
    BY DEF Inv, P!TypeOK, OwnRegistered, NewestOnItsWay, P!Tasks
  <2>2. CASE v = u
    <3>1. Carries(t, v, c)'
      BY <1>2, <1>k, <2>2 DEF Carries
    <3> QED BY <3>1 DEF Arrives
  <2>3. CASE v # u
    <3>1. c # t /\ pushConn'[c] = pushConn[c] /\ version'[v] = version[v] /\ task'[c] = task[c]
      BY <1>2, <1>3, <1>5, <2>1, <2>3
    <3>2. CASE \E s \in P!Tasks : Carries(s, v, c)
      <4>1. PICK s \in P!Tasks : Carries(s, v, c)
        BY <3>2
      <4>2. s # t
        BY <2>3, <4>1 DEF Carries
      <4>3. Carries(s, v, c)'
        BY <1>2, <3>1, <4>1, <4>2 DEF Carries
      <4> QED BY <4>3 DEF Arrives
    <3>4. Coming(v) => Coming(v)'
      BY <1>5 DEF Coming
    <3>3. CASE ~\E s \in P!Tasks : Carries(s, v, c)
      BY <2>1, <3>1, <3>3, <3>4 DEF Arrives
    <3> QED BY <3>2, <3>3
  <2> QED BY <2>2, <2>3
<1> QED BY <1>6, <1>7, <1>8, <1>9, <1>10 DEF Inv

LEMMA RequestKeepsInv ==
  ASSUME P!PushAssumption, Inv, NEW r \in Requests, NEW u \in PushedUsers, P!Request(r, u)
  PROVE  Inv'
BY ChangeStep DEF P!PushAssumption, P!Request, P!Tasks

LEMMA OwnChangeKeepsInv ==
  ASSUME P!PushAssumption, Inv, NEW c \in Conns, P!Seed(c) \/ P!OwnMessage(c) \/ P!ClearAndPush(c)
  PROVE  Inv'
<1>1. pushConn[c].phase # "new" /\ c \in P!Tasks
  BY DEF P!Seed, P!OwnMessage, P!ClearAndPush, P!Tasks
<1>2. pushConn[c].user \in PushedUsers
  BY <1>1, ConnTypes DEF Inv, HelloNamesUser
<1>3. task[c].step = "idle" \/ task[c].user = pushConn[c].user
  BY <1>1 DEF Inv, TasksRight, TaskRight
<1>4. CASE P!Seed(c)
  BY <1>1, <1>2, <1>3, <1>4, ChangeStep DEF P!Seed
<1>5. CASE P!OwnMessage(c)
  BY <1>1, <1>2, <1>3, <1>5, ChangeStep DEF P!OwnMessage
<1>6. CASE P!ClearAndPush(c)
  BY <1>1, <1>2, <1>3, <1>6, ChangeStep DEF P!ClearAndPush
<1> QED BY <1>4, <1>5, <1>6

-----------------------------------------------------------------------------
(* A task ends: what it carried has been sent to c, carried nothing, or no
   longer goes to the registered connection. *)
LEMMA Appended ==
  ASSUME NEW s \in Seq(Nat), NEW n \in Nat
  PROVE  /\ Append(s, n) \in Seq(Nat) /\ Append(s, n)[Len(s) + 1] = n
         /\ DOMAIN Append(s, n) = 1..(Len(s) + 1) /\ Len(s) \in Nat
         /\ \A i \in DOMAIN s : i \in DOMAIN Append(s, n) /\ Append(s, n)[i] = s[i]
         /\ \A i \in DOMAIN Append(s, n) : Append(s, n)[i] = n \/ (i \in DOMAIN s /\ Append(s, n)[i] = s[i])
OBVIOUS

LEMMA SendKeepsInv ==
  ASSUME P!PushAssumption, Inv, NEW t \in P!Tasks, P!Send(t)
  PROVE  Inv'
<1> DEFINE u == task[t].user
           c == task[t].sender
           n == task[t].snapshot
<1>1. /\ task[t].step = "send" /\ u \in PushedUsers /\ c \in Conns /\ pushConn[c].user = u
      /\ n \in Nat /\ Known(u, n) /\ inbox[c] \in Seq(Nat) /\ version[u] \in Nat
  BY TaskTypes DEF P!PushAssumption, Inv, P!Send, TasksRight, TaskRight, P!TypeOK
<1>2. /\ task' = [task EXCEPT ![t] = P!NoPush] /\ UNCHANGED <<pushConn, version, shown, newest, last>>
      /\ task'[t] = P!NoPush /\ \A s \in P!Tasks : s # t => task'[s] = task[s]
  BY DEF P!Send, Inv, P!TypeOK
<1>a. \A v : Coming(v)' <=> Coming(v)
  BY <1>2 DEF Coming
<1>3. task' \in [P!Tasks -> P!Push_t]
  BY <1>2, NoPushType DEF Inv, P!TypeOK
<1>4. HelloNamesUser' /\ TasksRight'
  BY <1>2, NoPushType DEF Inv, HelloNamesUser, TasksRight, TaskRight, Known
<1>5. CASE ~P!Receives(c)
  <2>1. control' = [control EXCEPT ![u] = NoConn] /\ UNCHANGED inbox
    BY <1>5 DEF P!Send
  <2>2. control'[u] = NoConn /\ \A v \in PushedUsers : v # u => control'[v] = control[v]
    BY <1>1, <2>1 DEF Inv, P!TypeOK
  <2>3. P!TypeOK' /\ NothingFromFuture' /\ OwnRegistered'
    BY <1>2, <1>3, <2>1, <2>2, ZenonT(60) DEF Inv, P!TypeOK, NothingFromFuture, Known, OwnRegistered
  <2>4. ASSUME NEW v \in PushedUsers, control'[v] # NoConn PROVE Arrives(v, control[v])'
    <3> DEFINE d == control[v]
    <3>1. v # u /\ control'[v] = d
      BY <2>2, <2>4
    <3>2. d \in Conns /\ d \in P!Tasks /\ Arrives(v, d)
      BY <2>4, <3>1 DEF Inv, P!TypeOK, NewestOnItsWay, P!Tasks
    <3>3. \A s \in P!Tasks : Carries(s, v, d) => Carries(s, v, d)'
      BY <1>2, <3>1 DEF Carries
    <3>4. task[d].step # "greeting" => task'[d].step # "greeting"
      BY <1>2, <3>2, NoPushType
    <3> QED BY <1>2, <1>a, <2>1, <3>1, <3>2, <3>3, <3>4 DEF Arrives
  <2> QED BY <1>4, <2>3, <2>4 DEF Inv, NewestOnItsWay
<1>6. CASE P!Receives(c)
  <2>1. /\ UNCHANGED control
        /\ inbox' = IF n = 0 THEN inbox ELSE [inbox EXCEPT ![c] = Append(@, n)]
    BY <1>6 DEF P!Send, P!Presence
  <2>2. \A d \in Conns : d # c => inbox'[d] = inbox[d]
    BY <1>1, <2>1 DEF Inv, P!TypeOK
  <2>3. inbox'[c] = IF n = 0 THEN inbox[c] ELSE Append(inbox[c], n)
    BY <1>1, <2>1 DEF Inv, P!TypeOK
  <2>4. /\ inbox'[c] \in Seq(Nat)
        /\ \A i \in DOMAIN inbox[c] : i \in DOMAIN inbox'[c] /\ inbox'[c][i] = inbox[c][i]
        /\ \A i \in DOMAIN inbox'[c] : inbox'[c][i] = n \/ (i \in DOMAIN inbox[c] /\ inbox'[c][i] = inbox[c][i])
        /\ n # 0 => \E i \in DOMAIN inbox'[c] : inbox'[c][i] = n
    <3>1. CASE n = 0
      BY <1>1, <2>3, <3>1
    <3>2. CASE n # 0
      <4>1. inbox'[c] = Append(inbox[c], n)
        BY <2>3, <3>2
      <4>2. Len(inbox[c]) + 1 \in DOMAIN Append(inbox[c], n)
        BY <1>1, Appended
      <4> HIDE DEF n, c
      <4>3. /\ inbox'[c] \in Seq(Nat)
            /\ \A i \in DOMAIN inbox[c] : i \in DOMAIN inbox'[c] /\ inbox'[c][i] = inbox[c][i]
            /\ \A i \in DOMAIN inbox'[c] : inbox'[c][i] = n \/ (i \in DOMAIN inbox[c] /\ inbox'[c][i] = inbox[c][i])
        BY <1>1, <4>1, Appended
      <4>4. \E i \in DOMAIN inbox'[c] : inbox'[c][i] = n
        BY <1>1, <4>1, <4>2, Appended
      <4> QED BY <4>3, <4>4
    <3> QED BY <3>1, <3>2
  <2>5. P!TypeOK'
    <3>1. inbox' \in [Conns -> Seq(Nat)]
      BY <1>1, <2>1, <2>3, <2>4 DEF Inv, P!TypeOK
    <3>2. \A d \in Conns : pushConn'[d].phase = "gone" => inbox'[d] = <<>>
      BY <1>2, <1>6, <2>2 DEF Inv, P!TypeOK, P!Receives
    <3> QED BY <1>2, <1>3, <2>1, <3>1, <3>2 DEF Inv, P!TypeOK
  <2>6. OwnRegistered'
    BY <1>2, <2>1 DEF Inv, OwnRegistered
  <2>7. NothingFromFuture'
    <3> SUFFICES ASSUME NEW d \in Conns
                 PROVE  /\ Known(pushConn[d].user, newest[d])'
                        /\ \A i \in DOMAIN inbox'[d] : Known(pushConn[d].user, inbox[d][i])'
      BY DEF NothingFromFuture
    <3>1. /\ Known(pushConn[d].user, newest[d]) /\ \A i \in DOMAIN inbox[d] : Known(pushConn[d].user, inbox[d][i])
      BY DEF Inv, NothingFromFuture
    <3>2. CASE d # c
      BY <1>2, <2>2, <3>1, <3>2 DEF Known
    <3>3. CASE d = c
      BY <1>1, <1>2, <2>4, <3>1, <3>3 DEF Known
    <3> QED BY <3>2, <3>3
  <2>8. ASSUME NEW v \in PushedUsers, control[v] # NoConn PROVE Arrives(v, control[v])'
    <3> DEFINE d == control[v]
    <3>1. d \in Conns /\ d \in P!Tasks /\ Arrives(v, d) /\ pushConn[d].user = v
      BY <2>8 DEF Inv, P!TypeOK, NewestOnItsWay, OwnRegistered, P!Tasks
    <3>2. CASE Carries(t, v, d)
      <4>1. d = c /\ v = u /\ n = version[u]
        BY <1>1, <3>2 DEF Carries
      <4>2. CASE n # 0
        BY <1>2, <2>1, <2>4, <4>1, <4>2 DEF Arrives
      <4>3. CASE n = 0
        <5>1. newest[c] = 0
          <6>1. Known(pushConn[c].user, newest[c]) /\ newest[c] \in Nat /\ version[pushConn[c].user] = 0
            BY <1>1, <4>1, <4>3, ConnTypes DEF Inv, NothingFromFuture
          <6> QED BY <6>1 DEF Known
        <5> QED BY <1>2, <2>1, <4>1, <4>3, <5>1 DEF Arrives
      <4> QED BY <4>2, <4>3
    <3>3. CASE \E s \in P!Tasks : s # t /\ Carries(s, v, d)
      <4>1. PICK s \in P!Tasks : s # t /\ Carries(s, v, d)
        BY <3>3
      <4>2. Carries(s, v, d)'
        BY <1>2, <2>1, <4>1 DEF Carries
      <4> QED BY <4>2 DEF Arrives
    <3>4. CASE \E i \in DOMAIN inbox[d] : inbox[d][i] = version[v]
      <4>1. \E i \in DOMAIN inbox'[d] : inbox'[d][i] = version[v]
        BY <2>2, <2>4, <3>1, <3>4
      <4> QED BY <1>2, <2>1, <4>1 DEF Arrives
    <3>5. CASE newest[d] = version[v] \/ pushConn[d].phase \in {"seed", "closing"} \/ Coming(v)
      BY <1>2, <1>a, <2>1, <3>5 DEF Arrives
    <3>6. CASE pushConn[d].phase = "greet" /\ task[d].step # "greeting"
      <4>1. task'[d].step # "greeting"
        BY <1>2, <3>1, <3>6, NoPushType
      <4> QED BY <1>2, <2>1, <3>6, <4>1 DEF Arrives
    <3> QED BY <3>1, <3>2, <3>3, <3>4, <3>5, <3>6 DEF Arrives
  <2>9. NewestOnItsWay'
    BY <2>1, <2>8 DEF NewestOnItsWay
  <2> QED BY <1>4, <2>5, <2>6, <2>7, <2>9 DEF Inv
<1> QED BY <1>5, <1>6

LEMMA GreetSendKeepsInv ==
  ASSUME P!PushAssumption, Inv, NEW c \in Conns, P!GreetSend(c)
  PROVE  Inv'
<1> DEFINE u == pushConn[c].user
           n == task[c].snapshot
<1>1. /\ c \in P!Tasks /\ task[c].step = "greeting" /\ task[c].sender = c /\ task[c].user = u
      /\ pushConn[c].phase = "greet" /\ u \in PushedUsers /\ n \in Nat /\ Known(u, n)
      /\ inbox[c] \in Seq(Nat)
  BY TaskTypes, ConnTypes DEF Inv, P!GreetSend, TasksRight, TaskRight, P!Tasks
<1>2. /\ task' = [task EXCEPT ![c] = P!NoPush] /\ UNCHANGED <<control, version, shown, newest, last>>
      /\ task'[c] = P!NoPush /\ \A s \in P!Tasks : s # c => task'[s] = task[s]
  BY <1>1 DEF P!GreetSend, Inv, P!TypeOK
<1>3. task' \in [P!Tasks -> P!Push_t]
  BY <1>2, NoPushType DEF Inv, P!TypeOK
<1>4. /\ pushConn' \in [Conns -> [phase : P!Phases, user : PushedUsers \cup {NoUser}]]
      /\ pushConn'[c].phase = "open" /\ pushConn'[c].user = u
      /\ \A d \in Conns : d # c => pushConn'[d] = pushConn[d]
  BY ConnTypes DEF P!GreetSend, P!Phase, P!Phases, Inv, P!TypeOK
<1>5. /\ inbox'[c] = Append(inbox[c], n) /\ inbox' \in [Conns -> Seq(Nat)]
      /\ \A d \in Conns : d # c => inbox'[d] = inbox[d]
  BY <1>1 DEF P!GreetSend, Inv, P!TypeOK
<1>6. /\ Len(inbox[c]) + 1 \in DOMAIN inbox'[c] /\ inbox'[c][Len(inbox[c]) + 1] = n
      /\ \A i \in DOMAIN inbox[c] : i \in DOMAIN inbox'[c] /\ inbox'[c][i] = inbox[c][i]
      /\ \A i \in DOMAIN inbox'[c] : inbox'[c][i] = n \/ (i \in DOMAIN inbox[c] /\ inbox'[c][i] = inbox[c][i])
  <2> HIDE DEF n
  <2> QED BY <1>1, <1>5, Appended, SMTT(30)
<1>7. P!TypeOK'
  <2>1. \A d \in Conns : pushConn'[d].phase = "gone" => inbox'[d] = <<>>
    BY <1>4, <1>5 DEF Inv, P!TypeOK
  <2> QED BY <1>2, <1>3, <1>4, <1>5, <2>1 DEF Inv, P!TypeOK
<1>8. HelloNamesUser'
  BY <1>1, <1>4 DEF P!PushAssumption, Inv, HelloNamesUser
<1>9. OwnRegistered'
  <2> SUFFICES ASSUME NEW v \in PushedUsers, control[v] # NoConn
               PROVE  /\ pushConn'[control[v]].user = v
                      /\ pushConn'[control[v]].phase \in {"greet", "seed", "open", "closing"}
    BY <1>2 DEF OwnRegistered
  <2>1. control[v] \in Conns
    BY DEF Inv, P!TypeOK
  <2> QED BY <1>4, <2>1 DEF Inv, OwnRegistered
<1>10. TasksRight'
  <2>1. ASSUME NEW s \in P!Tasks, s # c PROVE TaskRight(s)'
    <3>1. \A d \in Conns : pushConn'[d].user = pushConn[d].user
      BY <1>4
    <3> QED BY <1>2, <1>4, <2>1, <3>1 DEF Inv, TasksRight, TaskRight, Known
  <2>2. TaskRight(c)'
    BY <1>2, NoPushType DEF TaskRight, Known
  <2> QED BY <2>1, <2>2 DEF TasksRight
<1>11. NothingFromFuture'
  <2> SUFFICES ASSUME NEW d \in Conns
               PROVE  /\ Known(pushConn[d].user, newest[d])'
                      /\ \A i \in DOMAIN inbox'[d] : Known(pushConn[d].user, inbox[d][i])'
    BY DEF NothingFromFuture
  <2>1. /\ Known(pushConn[d].user, newest[d]) /\ \A i \in DOMAIN inbox[d] : Known(pushConn[d].user, inbox[d][i])
    BY DEF Inv, NothingFromFuture
  <2>2. CASE d # c
    BY <1>2, <1>4, <1>5, <2>1, <2>2 DEF Known
  <2>3. CASE d = c
    BY <1>1, <1>2, <1>4, <1>6, <2>1, <2>3 DEF Known
  <2> QED BY <2>2, <2>3
<1>12. NewestOnItsWay'
  <2> SUFFICES ASSUME NEW v \in PushedUsers, control[v] # NoConn PROVE Arrives(v, control[v])'
    BY <1>2 DEF NewestOnItsWay
  <2> DEFINE d == control[v]
  <2>1. d \in Conns /\ d \in P!Tasks /\ Arrives(v, d) /\ pushConn[d].user = v
    BY DEF Inv, P!TypeOK, NewestOnItsWay, OwnRegistered, P!Tasks
  <2>2. CASE Carries(c, v, d)
    <3>1. d = c /\ n = version[v]
      BY <1>1, <2>2 DEF Carries
    <3> QED BY <1>2, <1>6, <3>1 DEF Arrives
  <2>3. CASE \E s \in P!Tasks : s # c /\ Carries(s, v, d)
    <3>1. PICK s \in P!Tasks : s # c /\ Carries(s, v, d)
      BY <2>3
    <3>2. Carries(s, v, d)'
      BY <1>2, <3>1 DEF Carries
    <3> QED BY <1>2, <3>2 DEF Arrives
  <2>4. CASE \E i \in DOMAIN inbox[d] : inbox[d][i] = version[v]
    <3>1. \E i \in DOMAIN inbox'[d] : inbox'[d][i] = version[v]
      BY <1>5, <1>6, <2>1, <2>4, ZenonT(60)
    <3> QED BY <1>2, <3>1 DEF Arrives
  <2>6. CASE Coming(v)
    <3>1. Coming(v)'
      BY <1>1, <1>4, <2>6 DEF Coming
    <3> QED BY <3>1 DEF Arrives
  <2>5. CASE \/ newest[d] = version[v]
             \/ d # c /\ pushConn[d].phase \in {"seed", "closing"}
             \/ d # c /\ pushConn[d].phase = "greet" /\ task[d].step # "greeting"
    BY <1>2, <1>4, <2>1, <2>5 DEF Arrives
  <2> QED BY <1>1, <2>1, <2>2, <2>3, <2>4, <2>5, <2>6 DEF Arrives
<1> QED BY <1>7, <1>8, <1>9, <1>10, <1>11, <1>12 DEF Inv

-----------------------------------------------------------------------------
(* Steps of a connection that leave the session and every push alone. *)
LEMMA HelloKeepsInv ==
  ASSUME P!PushAssumption, Inv, NEW c \in Conns, NEW u \in PushedUsers, NEW desired \in BOOLEAN,
         P!Hello(c, u, desired)
  PROVE  Inv'
<1>1. /\ pushConn[c].phase = "new" /\ pushConn[c].user = NoUser
      /\ UNCHANGED <<control, task, inbox, shown, newest, last>>
  BY DEF Inv, P!Hello, HelloNamesUser
<1>v. /\ version' \in [PushedUsers -> 0..MaxVersion]
      /\ \A v \in PushedUsers : v # u => version'[v] = version[v]
      /\ \A v, n : n \in Nat /\ Known(v, n) => Known(v, n)'
  <2>1. PICK n \in {version[u], version[u] + 1} : n <= MaxVersion /\ version' = [version EXCEPT ![u] = n]
    BY DEF P!Hello
  <2>2. version[u] \in 0..MaxVersion /\ MaxVersion \in Nat
    BY DEF P!PushAssumption, Inv, P!TypeOK
  <2>3. n \in 0..MaxVersion /\ version[u] <= n
    BY <2>1, <2>2
  <2>4. version' \in [PushedUsers -> 0..MaxVersion]
    BY <2>1, <2>3 DEF Inv, P!TypeOK
  <2>5. version'[u] = n /\ \A v \in PushedUsers : v # u => version'[v] = version[v]
    BY <2>1 DEF Inv, P!TypeOK
  <2>6. \A v \in PushedUsers : version[v] \in Nat /\ version'[v] \in Nat /\ version[v] <= version'[v]
    <3>1. ASSUME NEW v \in PushedUsers
          PROVE  version[v] \in Nat /\ version'[v] \in Nat /\ version[v] <= version'[v]
      <4>1. version[v] \in Nat /\ n \in Nat
        BY <2>2, <2>3 DEF Inv, P!TypeOK
      <4>2. CASE v = u
        BY <2>3, <2>5, <4>1, <4>2
      <4>3. CASE v # u
        BY <2>5, <4>1, <4>3
      <4> QED BY <4>2, <4>3
    <3> QED BY <3>1
  <2>7. ASSUME NEW v, NEW m \in Nat, Known(v, m) PROVE Known(v, m)'
    BY <2>6, <2>7 DEF Known
  <2> QED BY <2>4, <2>5, <2>7
<1>2. /\ pushConn' \in [Conns -> [phase : P!Phases, user : PushedUsers \cup {NoUser}]]
      /\ pushConn'[c].phase \in {"preconfigured", "unknown"} /\ pushConn'[c].user = u
      /\ \A d \in Conns : d # c => pushConn'[d] = pushConn[d]
  <2> DEFINE k == [phase |-> IF desired THEN "preconfigured" ELSE "unknown", user |-> u]
  <2>1. /\ k \in [phase : P!Phases, user : PushedUsers \cup {NoUser}]
        /\ k.phase \in {"preconfigured", "unknown"} /\ k.user = u
    BY DEF P!Phases
  <2>2. pushConn' = [pushConn EXCEPT ![c] = k]
    BY DEF P!Hello
  <2> HIDE DEF k
  <2> QED BY <2>1, <2>2 DEF Inv, P!TypeOK
<1>3. \A v \in PushedUsers : control[v] # NoConn => control[v] # c /\ control[v] \in Conns
  BY <1>1 DEF P!PushAssumption, Inv, OwnRegistered, P!TypeOK
<1>4. P!TypeOK'
  <2>1. \A d \in Conns : pushConn'[d].phase = "gone" => inbox'[d] = <<>>
    BY <1>1, <1>2 DEF Inv, P!TypeOK
  <2> QED BY <1>1, <1>2, <1>v, <2>1 DEF Inv, P!TypeOK
<1>5. HelloNamesUser'
  BY <1>1, <1>2 DEF P!PushAssumption, Inv, HelloNamesUser
<1>6. OwnRegistered'
  BY <1>1, <1>2, <1>3 DEF Inv, OwnRegistered
<1>7. TasksRight'
  <2> SUFFICES ASSUME NEW t \in P!Tasks PROVE TaskRight(t)'
    BY DEF TasksRight
  <2>1. TaskRight(t) /\ (t = c => task[t].step = "idle")
    BY <1>1 DEF P!PushAssumption, Inv, TasksRight, TaskRight
  <2>2. task[t].step = "send" => task[t].sender # c
    BY <1>1, <2>1 DEF P!PushAssumption, TaskRight
  <2>3. Known(task[t].user, task[t].snapshot)'
    BY <1>1, <1>v, <2>1, TaskTypes DEF Inv, TaskRight
  <2> QED BY <1>1, <1>2, <2>1, <2>2, <2>3 DEF TaskRight
<1>8. NothingFromFuture'
  <2> SUFFICES ASSUME NEW d \in Conns
               PROVE  /\ Known(pushConn[d].user, newest[d])'
                      /\ \A i \in DOMAIN inbox'[d] : Known(pushConn[d].user, inbox[d][i])'
    BY DEF NothingFromFuture
  <2>1. /\ newest[d] \in Nat /\ \A i \in DOMAIN inbox[d] : inbox[d][i] \in Nat
        /\ Known(pushConn[d].user, newest[d]) /\ \A i \in DOMAIN inbox[d] : Known(pushConn[d].user, inbox[d][i])
    BY ConnTypes DEF Inv, NothingFromFuture
  <2>2. CASE d # c
    BY <1>1, <1>2, <1>v, <2>1, <2>2 DEF Known
  <2>3. CASE d = c
    <3>1. newest[c] = 0 /\ \A i \in DOMAIN inbox[c] : inbox[c][i] = 0
      BY <1>1, <2>1, <2>3 DEF P!PushAssumption, Known
    <3> QED BY <1>1, <2>3, <3>1 DEF Known
  <2> QED BY <2>2, <2>3
<1>9. NewestOnItsWay'
  <2> SUFFICES ASSUME NEW v \in PushedUsers, control[v] # NoConn PROVE Arrives(v, control[v])'
    BY <1>1 DEF NewestOnItsWay
  <2>1. pushConn'[control[v]] = pushConn[control[v]] /\ Arrives(v, control[v])
    BY <1>2, <1>3 DEF Inv, NewestOnItsWay
  <2>2. CASE v = u
    <3>1. Coming(v)'
      BY <1>2, <2>2 DEF Coming
    <3> QED BY <3>1 DEF Arrives
  <2>3. CASE v # u
    <3>1. Coming(v) => Coming(v)'
      <4>1. \A d \in Conns : d = c => pushConn[d].user # v
        BY <1>1 DEF P!PushAssumption
      <4> QED BY <1>2, <4>1 DEF Coming
    <3> QED BY <1>1, <1>v, <2>1, <2>3, <3>1 DEF Arrives, Carries
  <2> QED BY <2>2, <2>3
<1> QED BY <1>4, <1>5, <1>6, <1>7, <1>8, <1>9 DEF Inv

(* A connection changes its phase only. *)
LEMMA PhaseTypes ==
  ASSUME P!PushAssumption, Inv, NEW c \in Conns, NEW p \in P!Phases, P!Phase(c, p)
  PROVE  /\ pushConn' \in [Conns -> [phase : P!Phases, user : PushedUsers \cup {NoUser}]]
         /\ pushConn'[c].phase = p
         /\ \A d \in Conns : pushConn'[d].user = pushConn[d].user /\ (d # c => pushConn'[d] = pushConn[d])
         /\ \A v : Coming(v) /\ (pushConn[c].user = v => pushConn[c].phase \notin {"preconfigured", "unknown"})
                    => Coming(v)'
<1>1. /\ pushConn' \in [Conns -> [phase : P!Phases, user : PushedUsers \cup {NoUser}]]
      /\ pushConn'[c].phase = p
      /\ \A d \in Conns : pushConn'[d].user = pushConn[d].user /\ (d # c => pushConn'[d] = pushConn[d])
  BY ConnTypes DEF P!Phase, Inv, P!TypeOK
<1> QED BY <1>1 DEF Coming

LEMMA RegisterKeepsInv ==
  ASSUME P!PushAssumption, Inv, NEW c \in Conns, P!Register(c)
  PROVE  Inv'
<1> DEFINE u == pushConn[c].user
<1>1. /\ pushConn[c].phase \in {"preconfigured", "unknown"} /\ u \in PushedUsers
      /\ UNCHANGED <<version, task, inbox, shown>> /\ version[u] \in Nat
  BY ConnTypes DEF P!PushAssumption, Inv, P!Register, HelloNamesUser, P!TypeOK
<1>2. /\ control' \in [PushedUsers -> Conns \cup {NoConn}] /\ last' \in [PushedUsers -> Conns \cup {NoConn}]
      /\ control'[u] = c /\ \A v \in PushedUsers : v # u => control'[v] = control[v]
  BY <1>1 DEF P!Register, Inv, P!TypeOK
<1>3. PICK p \in {"greet", "seed", "open"} :
        /\ P!Phase(c, p) /\ p \in P!Phases
        /\ newest' = IF p = "greet" THEN newest ELSE [newest EXCEPT ![c] = version[u]]
  BY DEF P!Register, P!Phases
<1>n. /\ newest' \in [Conns -> Nat] /\ (p # "greet" => newest'[c] = version[u])
      /\ newest'[c] \in {newest[c], version[u]} /\ \A d \in Conns : d # c => newest'[d] = newest[d]
  BY <1>1, <1>3 DEF Inv, P!TypeOK
<1>4. /\ pushConn' \in [Conns -> [phase : P!Phases, user : PushedUsers \cup {NoUser}]]
      /\ pushConn'[c].phase = p
      /\ \A d \in Conns : pushConn'[d].user = pushConn[d].user /\ (d # c => pushConn'[d] = pushConn[d])
      /\ \A v : Coming(v) /\ v # u => Coming(v)'
  BY <1>3, PhaseTypes
<1>5. P!TypeOK'
  <2>1. \A d \in Conns : pushConn'[d].phase = "gone" => inbox'[d] = <<>>
    BY <1>1, <1>3, <1>4 DEF Inv, P!TypeOK
  <2> QED BY <1>1, <1>2, <1>4, <1>n, <2>1 DEF Inv, P!TypeOK
<1>6. HelloNamesUser'
  BY <1>1, <1>3, <1>4 DEF P!PushAssumption, Inv, HelloNamesUser
<1>7. \A v \in PushedUsers : v # u /\ control[v] # NoConn => control[v] # c /\ control[v] \in Conns
  BY DEF Inv, OwnRegistered, P!TypeOK
<1>8. OwnRegistered'
  <2> SUFFICES ASSUME NEW v \in PushedUsers, control'[v] # NoConn
               PROVE  /\ pushConn'[control'[v]].user = v
                      /\ pushConn'[control'[v]].phase \in {"greet", "seed", "open", "closing"}
    BY DEF OwnRegistered
  <2>1. CASE v = u
    BY <1>1, <1>2, <1>3, <1>4, <2>1
  <2>2. CASE v # u
    BY <1>2, <1>4, <1>7, <2>2 DEF Inv, OwnRegistered
  <2> QED BY <2>1, <2>2
<1>9. TasksRight'
  <2> SUFFICES ASSUME NEW t \in P!Tasks PROVE TaskRight(t)'
    BY DEF TasksRight
  <2>1. TaskRight(t) /\ task'[t] = task[t]
    BY <1>1 DEF Inv, TasksRight
  <2>2. task[t].step = "greeting" => t # c
    BY <1>1, <2>1 DEF TaskRight
  <2> QED BY <1>1, <1>4, <2>1, <2>2 DEF TaskRight, Known
<1>10. NothingFromFuture'
  BY <1>1, <1>4, <1>n DEF Inv, NothingFromFuture, Known
<1>11. NewestOnItsWay'
  <2> SUFFICES ASSUME NEW v \in PushedUsers, control'[v] # NoConn PROVE Arrives(v, control[v])'
    BY DEF NewestOnItsWay
  <2>1. CASE v = u
    <3>1. task[c].step # "greeting"
      BY <1>1 DEF Inv, TasksRight, TaskRight, P!Tasks
    <3> QED BY <1>1, <1>2, <1>3, <1>4, <1>n, <2>1, <3>1 DEF Arrives
  <2>2. CASE v # u
    <3>1. /\ control'[v] = control[v] /\ pushConn'[control[v]] = pushConn[control[v]]
          /\ Arrives(v, control[v]) /\ newest'[control[v]] = newest[control[v]]
      BY <1>n, <1>2, <1>4, <1>7, <2>2 DEF Inv, NewestOnItsWay
    <3> QED BY <1>1, <1>4, <1>7, <1>n, <2>2, <3>1 DEF Arrives, Carries
  <2> QED BY <2>1, <2>2
<1> QED BY <1>5, <1>6, <1>8, <1>9, <1>10, <1>11 DEF Inv

(* The client takes the first event from its inbox. *)
LEMMA Popped ==
  ASSUME NEW s \in Seq(Nat), s # <<>>
  PROVE  /\ Head(s) \in Nat /\ Tail(s) \in Seq(Nat) /\ Head(s) = s[1] /\ 1 \in DOMAIN s
         /\ \A i \in DOMAIN Tail(s) : i + 1 \in DOMAIN s /\ Tail(s)[i] = s[i + 1]
         /\ \A i \in DOMAIN s : i = 1 \/ (i - 1 \in DOMAIN Tail(s) /\ Tail(s)[i - 1] = s[i])
OBVIOUS

LEMMA ClientReadsKeepsInv ==
  ASSUME P!PushAssumption, Inv, NEW c \in Conns, P!ClientReads(c)
  PROVE  Inv'
<1> DEFINE u == pushConn[c].user
           h == Head(inbox[c])
<1>1. /\ pushConn[c].phase \in {"seed", "open"} /\ u \in PushedUsers
      /\ inbox[c] \in Seq(Nat) /\ inbox[c] # <<>> /\ h \in Nat /\ newest[c] \in Nat
      /\ version[u] \in Nat /\ UNCHANGED <<pushConn, control, version, task, last>>
  BY ConnTypes, Popped DEF P!PushAssumption, Inv, P!ClientReads, HelloNamesUser, P!TypeOK
<1>2. /\ inbox'[c] = Tail(inbox[c]) /\ inbox' \in [Conns -> Seq(Nat)]
      /\ \A d \in Conns : d # c => inbox'[d] = inbox[d]
  BY <1>1, Popped DEF P!ClientReads, Inv, P!TypeOK
<1>3. /\ newest'[c] = IF h > newest[c] THEN h ELSE newest[c]
      /\ newest' \in [Conns -> Nat] /\ \A d \in Conns : d # c => newest'[d] = newest[d]
  BY <1>1 DEF P!ClientReads, Inv, P!TypeOK
<1>4. shown' \in [Conns -> Nat]
  BY <1>1 DEF P!ClientReads, Inv, P!TypeOK
<1>5. Known(u, h) /\ Known(u, newest[c])
  BY <1>1, Popped DEF Inv, NothingFromFuture
<1>6. P!TypeOK'
  <2>1. \A d \in Conns : pushConn'[d].phase = "gone" => inbox'[d] = <<>>
    BY <1>1, <1>2 DEF Inv, P!TypeOK
  <2> QED BY <1>1, <1>2, <1>3, <1>4, <2>1 DEF Inv, P!TypeOK
<1>7. HelloNamesUser' /\ OwnRegistered' /\ TasksRight'
  BY <1>1 DEF Inv, HelloNamesUser, OwnRegistered, TasksRight, TaskRight, Known
<1>8. NothingFromFuture'
  <2> SUFFICES ASSUME NEW d \in Conns
               PROVE  /\ Known(pushConn[d].user, newest[d])'
                      /\ \A i \in DOMAIN inbox'[d] : Known(pushConn[d].user, inbox[d][i])'
    BY DEF NothingFromFuture
  <2>1. /\ Known(pushConn[d].user, newest[d]) /\ \A i \in DOMAIN inbox[d] : Known(pushConn[d].user, inbox[d][i])
    BY DEF Inv, NothingFromFuture
  <2>2. CASE d # c
    BY <1>1, <1>2, <1>3, <2>1, <2>2 DEF Known
  <2>3. CASE d = c
    <3>1. \A i \in DOMAIN Tail(inbox[c]) : Known(u, Tail(inbox[c])[i])
      BY <1>1, <2>1, <2>3, Popped
    <3> QED BY <1>1, <1>2, <1>3, <1>5, <2>3, <3>1 DEF Known
  <2> QED BY <2>2, <2>3
<1>9. NewestOnItsWay'
  <2> SUFFICES ASSUME NEW v \in PushedUsers, control[v] # NoConn PROVE Arrives(v, control[v])'
    BY <1>1 DEF NewestOnItsWay
  <2> DEFINE d == control[v]
  <2>1. d \in Conns /\ Arrives(v, d) /\ pushConn[d].user = v
    BY DEF Inv, P!TypeOK, NewestOnItsWay, OwnRegistered
  <2>4. Coming(v) => Coming(v)'
    BY <1>1 DEF Coming
  <2>2. CASE d # c
    BY <1>1, <1>2, <1>3, <2>1, <2>2, <2>4 DEF Arrives, Carries
  <2>3. CASE d = c
    <3>1. v = u
      BY <2>1, <2>3
    <3>2. CASE newest[c] = version[u]
      <4>1. newest'[c] = version[u]
        BY <1>1, <1>3, <1>5, <3>2 DEF Known
      <4> QED BY <1>1, <2>3, <3>1, <4>1 DEF Arrives
    <3>3. CASE h = version[u]
      <4>1. newest'[c] = version[u]
        BY <1>1, <1>3, <1>5, <3>3 DEF Known
      <4> QED BY <1>1, <2>3, <3>1, <4>1 DEF Arrives
    <3>4. CASE \E i \in DOMAIN inbox[c] : i # 1 /\ inbox[c][i] = version[u]
      <4>1. PICK i \in DOMAIN inbox[c] : i # 1 /\ inbox[c][i] = version[u]
        BY <3>4
      <4>2. i - 1 \in DOMAIN inbox'[c] /\ inbox'[c][i - 1] = version[u]
        BY <1>1, <1>2, <4>1, Popped, SMTT(30)
      <4> QED BY <1>1, <2>3, <3>1, <4>2 DEF Arrives
    <3>5. CASE \/ \E t \in P!Tasks : Carries(t, u, c)
               \/ pushConn[c].phase = "greet" /\ task[c].step # "greeting"
               \/ pushConn[c].phase \in {"seed", "closing"}
               \/ Coming(u)
      BY <1>1, <2>3, <2>4, <3>1, <3>5 DEF Arrives, Carries
    <3>6. h = inbox[c][1]
      BY <1>1, Popped
    <3> QED BY <2>1, <2>3, <3>1, <3>2, <3>3, <3>4, <3>5, <3>6 DEF Arrives
  <2> QED BY <2>2, <2>3
<1> QED BY <1>6, <1>7, <1>8, <1>9 DEF Inv

LEMMA SocketEndsKeepsInv ==
  ASSUME P!PushAssumption, Inv, NEW c \in Conns, P!SocketEnds(c)
  PROVE  Inv'
<1>1. /\ pushConn[c].phase \in {"seed", "open"} /\ P!Phase(c, "closing")
      /\ UNCHANGED <<control, version, task, inbox, shown, newest, last>>
  BY DEF P!SocketEnds
<1>2. /\ pushConn' \in [Conns -> [phase : P!Phases, user : PushedUsers \cup {NoUser}]]
      /\ pushConn'[c].phase = "closing"
      /\ \A d \in Conns : pushConn'[d].user = pushConn[d].user /\ (d # c => pushConn'[d] = pushConn[d])
      /\ \A v : Coming(v) => Coming(v)'
  BY <1>1, PhaseTypes DEF P!Phases
<1>3. P!TypeOK'
  <2>1. \A d \in Conns : pushConn'[d].phase = "gone" => inbox'[d] = <<>>
    BY <1>1, <1>2 DEF Inv, P!TypeOK
  <2> QED BY <1>1, <1>2, <2>1 DEF Inv, P!TypeOK
<1>4. HelloNamesUser'
  BY <1>1, <1>2 DEF P!PushAssumption, Inv, HelloNamesUser
<1>5. \A v \in PushedUsers : control[v] # NoConn => control[v] \in Conns
  BY DEF Inv, P!TypeOK
<1>6. OwnRegistered'
  BY <1>1, <1>2, <1>5 DEF Inv, OwnRegistered
<1>7. TasksRight'
  BY <1>1, <1>2 DEF Inv, TasksRight, TaskRight, Known
<1>8. NothingFromFuture'
  BY <1>1, <1>2 DEF Inv, NothingFromFuture, Known
<1>9. NewestOnItsWay'
  BY <1>1, <1>2, <1>5 DEF Inv, NewestOnItsWay, Arrives, Carries
<1> QED BY <1>3, <1>4, <1>6, <1>7, <1>8, <1>9 DEF Inv

LEMMA UnregisterKeepsInv ==
  ASSUME P!PushAssumption, Inv, NEW c \in Conns, P!Unregister(c)
  PROVE  Inv'
<1> DEFINE u == pushConn[c].user
<1>1. /\ pushConn[c].phase = "closing" /\ u \in PushedUsers /\ P!Phase(c, "clearing")
      /\ UNCHANGED <<version, task, inbox, shown, newest, last>>
  BY ConnTypes DEF Inv, P!Unregister, HelloNamesUser
<1>2. /\ pushConn' \in [Conns -> [phase : P!Phases, user : PushedUsers \cup {NoUser}]]
      /\ pushConn'[c].phase = "clearing"
      /\ \A d \in Conns : pushConn'[d].user = pushConn[d].user /\ (d # c => pushConn'[d] = pushConn[d])
      /\ \A v : Coming(v) => Coming(v)'
  BY <1>1, PhaseTypes DEF P!Phases
<1>3. /\ control' \in [PushedUsers -> Conns \cup {NoConn}]
      /\ \A v \in PushedUsers : control'[v] # NoConn => control'[v] = control[v] /\ control[v] # c /\ control[v] \in Conns
  <2>1. CASE P!Registered(c)
    BY <1>1, <2>1 DEF P!Unregister, P!Registered, Inv, P!TypeOK, OwnRegistered
  <2>2. CASE ~P!Registered(c)
    BY <1>1, <2>2 DEF P!Unregister, P!Registered, Inv, P!TypeOK, OwnRegistered
  <2> QED BY <2>1, <2>2
<1>4. P!TypeOK'
  <2>1. \A d \in Conns : pushConn'[d].phase = "gone" => inbox'[d] = <<>>
    BY <1>1, <1>2 DEF Inv, P!TypeOK
  <2> QED BY <1>1, <1>2, <1>3, <2>1 DEF Inv, P!TypeOK
<1>5. HelloNamesUser'
  BY <1>1, <1>2 DEF P!PushAssumption, Inv, HelloNamesUser
<1>6. OwnRegistered'
  BY <1>2, <1>3 DEF Inv, OwnRegistered
<1>7. TasksRight'
  BY <1>1, <1>2 DEF Inv, TasksRight, TaskRight, Known
<1>8. NothingFromFuture'
  BY <1>1, <1>2 DEF Inv, NothingFromFuture, Known
<1>9. NewestOnItsWay'
  <2> SUFFICES ASSUME NEW v \in PushedUsers, control'[v] # NoConn PROVE Arrives(v, control[v])'
    BY DEF NewestOnItsWay
  <2>1. /\ control'[v] = control[v] /\ pushConn'[control[v]] = pushConn[control[v]]
        /\ Arrives(v, control[v])
    BY <1>2, <1>3 DEF Inv, NewestOnItsWay
  <2> QED BY <1>1, <1>2, <2>1 DEF Arrives, Carries
<1> QED BY <1>4, <1>5, <1>6, <1>7, <1>8, <1>9 DEF Inv

LEMMA ReturnKeepsInv ==
  ASSUME P!PushAssumption, Inv, NEW c \in Conns, P!Return(c)
  PROVE  Inv'
<1>1. /\ pushConn[c].phase \in {"returning", "clearing"} /\ P!Phase(c, "gone")
      /\ UNCHANGED <<control, version, task, last>>
  BY DEF P!Return
<1>2. /\ pushConn' \in [Conns -> [phase : P!Phases, user : PushedUsers \cup {NoUser}]]
      /\ pushConn'[c].phase = "gone"
      /\ \A d \in Conns : pushConn'[d].user = pushConn[d].user /\ (d # c => pushConn'[d] = pushConn[d])
      /\ \A v : Coming(v) => Coming(v)'
  BY <1>1, PhaseTypes DEF P!Phases
<1>3. /\ inbox' \in [Conns -> Seq(Nat)] /\ inbox'[c] = <<>>
      /\ shown' \in [Conns -> Nat] /\ newest' \in [Conns -> Nat] /\ newest'[c] = 0
      /\ \A d \in Conns : d # c => inbox'[d] = inbox[d] /\ newest'[d] = newest[d]
  BY DEF P!Return, Inv, P!TypeOK
<1>4. P!TypeOK'
  <2>1. \A d \in Conns : pushConn'[d].phase = "gone" => inbox'[d] = <<>>
    BY <1>2, <1>3 DEF Inv, P!TypeOK
  <2> QED BY <1>1, <1>2, <1>3, <2>1 DEF Inv, P!TypeOK
<1>5. HelloNamesUser'
  BY <1>1, <1>2 DEF P!PushAssumption, Inv, HelloNamesUser
<1>6. \A v \in PushedUsers : control[v] # NoConn => control[v] \in Conns /\ control[v] # c
  BY <1>1, ZenonT(60) DEF Inv, P!TypeOK, OwnRegistered
<1>7. OwnRegistered'
  BY <1>1, <1>2, <1>6 DEF Inv, OwnRegistered
<1>8. TasksRight'
  BY <1>1, <1>2 DEF Inv, TasksRight, TaskRight, Known
<1>9. NothingFromFuture'
  <2> SUFFICES ASSUME NEW d \in Conns
               PROVE  /\ Known(pushConn[d].user, newest[d])'
                      /\ \A i \in DOMAIN inbox'[d] : Known(pushConn[d].user, inbox[d][i])'
    BY DEF NothingFromFuture
  <2>1. CASE d = c
    <3>1. DOMAIN inbox'[d] = {} /\ newest'[d] = 0
      BY <1>3, <2>1
    <3> QED BY <3>1 DEF Known
  <2>2. CASE d # c
    BY <1>1, <1>2, <1>3, <2>2 DEF Inv, NothingFromFuture, Known
  <2> QED BY <2>1, <2>2
<1>10. NewestOnItsWay'
  <2> SUFFICES ASSUME NEW v \in PushedUsers, control[v] # NoConn PROVE Arrives(v, control[v])'
    BY <1>1 DEF NewestOnItsWay
  <2> DEFINE d == control[v]
  <2>1. /\ d \in Conns /\ pushConn'[d] = pushConn[d] /\ inbox'[d] = inbox[d] /\ newest'[d] = newest[d]
        /\ Arrives(v, d)
    BY <1>2, <1>3, <1>6 DEF Inv, NewestOnItsWay
  <2> QED BY <1>1, <1>2, <2>1 DEF Arrives, Carries
<1> QED BY <1>4, <1>5, <1>7, <1>8, <1>9, <1>10 DEF Inv

-----------------------------------------------------------------------------
LEMMA NextKeepsInv == P!PushAssumption /\ Inv /\ [P!Next]_pushVars => Inv'
<1> SUFFICES ASSUME P!PushAssumption, Inv, [P!Next]_pushVars PROVE Inv'
  OBVIOUS
<1>1. ASSUME NEW t \in P!Tasks, P!Push(t) PROVE Inv'
  BY <1>1, SnapshotKeepsInv, LookupKeepsInv, SendKeepsInv DEF P!Push
<1>2. ASSUME NEW r \in Requests, NEW u \in PushedUsers, P!Request(r, u) \/ P!PresenceUpdate(r, u) PROVE Inv'
  BY <1>2, RequestKeepsInv, PresenceKeepsInv
<1>3. ASSUME NEW c \in Conns, NEW u \in PushedUsers, NEW desired \in BOOLEAN, P!Hello(c, u, desired) PROVE Inv'
  BY <1>3, HelloKeepsInv
<1>4. ASSUME NEW c \in Conns, P!Connection(c) PROVE Inv'
  BY <1>4, RegisterKeepsInv, GreetSnapshotKeepsInv, GreetSendKeepsInv, UnregisterKeepsInv,
     OwnChangeKeepsInv, ReturnKeepsInv DEF P!Connection
<1>5. ASSUME NEW c \in Conns, P!Seed(c) \/ P!OwnMessage(c) \/ P!ClientReads(c) \/ P!SocketEnds(c) PROVE Inv'
  BY <1>5, OwnChangeKeepsInv, ClientReadsKeepsInv, SocketEndsKeepsInv
<1>6. CASE UNCHANGED pushVars
  BY <1>6 DEF pushVars, Inv, P!TypeOK, HelloNamesUser, OwnRegistered, TasksRight, TaskRight,
     NothingFromFuture, Known, NewestOnItsWay, Arrives, Carries, Coming
<1> QED BY <1>1, <1>2, <1>3, <1>4, <1>5, <1>6 DEF P!Next

(* A behaviour of the composition that is about pushes is one of ConfigPush. *)
LEMMA PushStep ==
  ASSUME [PartsNext]_partVars
  PROVE  part' = part /\ (part = "push" => [P!Next]_pushVars)
BY DEF PartsNext, partVars, Pushing

LEMMA Invariance == ASSUME P!PushAssumption PROVE Parts => [](part = "push" => Inv)
<1>1. PartsInit => (part = "push" => Inv)
  BY InitEstablishesInv DEF PartsInit
<1>2. (part = "push" => Inv) /\ [PartsNext]_partVars => (part = "push" => Inv)'
  BY PushStep, NextKeepsInv
<1> QED BY <1>1, <1>2, PTL DEF Parts

(* Every variable keeps its type, and nothing waits for a connection task that
   returned (handle_control_tcp_client). *)
THEOREM PushTypes == ASSUME P!PushAssumption PROVE Parts => [](part = "push" => P!TypeOK)
<1>1. (part = "push" => Inv) => (part = "push" => P!TypeOK)
  BY DEF Inv
<1> QED BY <1>1, Invariance, PTL

(* No order of a greeting, a registration and the pushes of other threads loses
   the newest configuration: when everything under way for a user has finished, the
   client on the registered connection has read it, or its hello found no desired
   configuration and nothing was changed after it registered (push_config_update,
   register_control_client). *)
THEOREM NewestIsRead == ASSUME P!PushAssumption PROVE Parts => []NewestReachesClient
<1>1. (part = "push" => Inv) => NewestReachesClient
  BY InvSettles DEF NewestReachesClient
<1> QED BY <1>1, Invariance, PTL
=============================================================================
