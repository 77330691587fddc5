------------------------------ MODULE ConfigPush ------------------------------
(***************************************************************************)
(* How a client learns its configuration: the registry of control clients    *)
(* (user id -> sender of the newest connection), the greeting of a            *)
(* preconfigured client, and push_config_update, which every handler that     *)
(* changed a session runs afterwards.  A push reads the session, lets go of   *)
(* its lock, looks the sender up, and sends; the tasks of the runtime are      *)
(* threads, so other pushes, registrations and clean-ups come in between.     *)
(*                                                                         *)
(* The whole of a ConfigUpdate event is abstracted to the number of changes   *)
(* its snapshot has seen.                                                     *)
(***************************************************************************)
EXTENDS Naturals, Sequences, FiniteSets

CONSTANTS
  Users, Conns, NoUser, NoConn,
  Requests,        \* admin requests, other users' handlers and the presence task
  MaxVersion       \* bound: changes of one session

Tasks == Requests \cup Conns

PushAssumption ==
  /\ NoConn \notin Conns /\ NoUser \notin Users /\ Requests \cap Conns = {}
  /\ MaxVersion \in Nat \ {0}

VARIABLES
  conn,      \* conn[c]: phase of the connection and the user it registered
  control,   \* control_clients: the connection that receives u's events
  version,   \* version[u]: number of changes made to u's session
  task,      \* task[t]: the push task t is in the middle of
  inbox,     \* inbox[c]: events sent to c that its client has not applied
  shown,     \* shown[c]: version the client on c applied last
  newest,    \* newest[c]: newest version the client on c has read or is not owed
  last       \* last[u]: the connection that registered u last, for the properties

vars == <<conn, control, version, task, inbox, shown, newest, last>>

Presence == 0    \* the snapshot of NoPush stands for an event that carries no configuration

NoPush == [step |-> "idle", user |-> NoUser, snapshot |-> 0, sender |-> NoConn]

Init ==
  /\ conn = [c \in Conns |-> [phase |-> "new", user |-> NoUser]]
  /\ control = [u \in Users |-> NoConn]
  /\ version = [u \in Users |-> 0]
  /\ task = [t \in Tasks |-> NoPush]
  /\ inbox = [c \in Conns |-> <<>>]
  /\ shown = [c \in Conns |-> 0]
  /\ newest = [c \in Conns |-> 0]
  /\ last = [u \in Users |-> NoConn]

-----------------------------------------------------------------------------
(* push_config_update *)

\* fault: the handler that changed the session does not push
ChangedUnpushed(t, u) ==
  /\ version[u] < MaxVersion
  /\ version' = [version EXCEPT ![u] = @ + 1]
  /\ UNCHANGED task
Changed(t, u) ==
  /\ version[u] < MaxVersion
  /\ version' = [version EXCEPT ![u] = @ + 1]
  /\ task' = [task EXCEPT ![t] = [NoPush EXCEPT !.step = "snapshot", !.user = u]]

Snapshot(t) ==
  /\ task[t].step = "snapshot"
  /\ task' = [task EXCEPT ![t].step = "lookup", ![t].snapshot = version[task[t].user]]
  /\ UNCHANGED <<conn, control, version, inbox, shown, newest, last>>

Lookup(t) ==
  /\ task[t].step = "lookup"
  /\ LET c == control[task[t].user]
     IN task' = [task EXCEPT ![t] =
                   IF c = NoConn THEN NoPush ELSE [@ EXCEPT !.step = "send", !.sender = c]]
  /\ UNCHANGED <<conn, control, version, inbox, shown, newest, last>>

(* The event reaches the connection as long as its task has not returned; a
   failed send takes away the sender that is registered by then. *)
Receives(c) == conn[c].phase # "gone"

Send(t) ==
  /\ task[t].step = "send"
  /\ LET c == task[t].sender
     IN IF Receives(c)
        THEN /\ inbox' = IF task[t].snapshot = Presence THEN inbox
                         ELSE [inbox EXCEPT ![c] = Append(@, task[t].snapshot)]
             /\ UNCHANGED control
        ELSE /\ control' = [control EXCEPT ![task[t].user] = NoConn]
             /\ UNCHANGED inbox
  /\ task' = [task EXCEPT ![t] = NoPush]
  /\ UNCHANGED <<conn, version, shown, newest, last>>

Push(t) == Snapshot(t) \/ Lookup(t) \/ Send(t)

(* push_presence_updates: every half second each registered client is sent
   the channel rosters the same way.  The users are listed first, which only says
   whom to look up. *)
PresenceUpdate(r, u) ==
  /\ task[r].step = "idle"
  /\ control[u] # NoConn
  /\ task' = [task EXCEPT ![r] = [NoPush EXCEPT !.step = "send", !.user = u, !.sender = control[u]]]
  /\ UNCHANGED <<conn, control, version, inbox, shown, newest, last>>

(* A request of the admin API, or of another client, changes u's session. *)
Request(r, u) ==
  /\ task[r].step = "idle"
  /\ Changed(r, u)
  /\ UNCHANGED <<conn, control, inbox, shown, newest, last>>

-----------------------------------------------------------------------------
(* A control connection. *)

Phase(c, phase) == conn' = [conn EXCEPT ![c].phase = phase]

(* apply_control(Hello): the reply says whether a desired configuration exists.
   That is independent of the changes of the session: delete_client_handler takes
   the one away and a failed save leaves one behind without touching the session,
   while keys, calls and emergencies change the session alone.  The desired
   configuration, or the operator's default channels, is written over the session,
   which may change it, and nobody is told. *)
Hello(c, u, desired) ==
  /\ conn[c].phase = "new"
  /\ conn' = [conn EXCEPT ![c] =
                [phase |-> IF desired THEN "preconfigured" ELSE "unknown", user |-> u]]
  /\ \E n \in {version[u], version[u] + 1} :
       n <= MaxVersion /\ version' = [version EXCEPT ![u] = n]
  /\ UNCHANGED <<control, task, inbox, shown, newest, last>>

(* register_control_client: the newest connection of the user takes over.  A
   client that is not preconfigured is not greeted: when it starts, it sends the
   configuration it starts with; when it comes back, the task that sent the hello
   drops the answer, and the client keeps what it had. *)
Register(c) ==
  /\ control' = [control EXCEPT ![conn[c].user] = c]
  /\ last' = [last EXCEPT ![conn[c].user] = c]
  /\ \/ conn[c].phase = "preconfigured" /\ Phase(c, "greet") /\ UNCHANGED newest
     \/ /\ conn[c].phase = "unknown"
        /\ Phase(c, "seed") \/ Phase(c, "open")
        /\ newest' = [newest EXCEPT ![c] = version[conn[c].user]]
  /\ UNCHANGED <<version, task, inbox, shown>>

(* A preconfigured client is sent its configuration, *)
GreetSnapshot(c) ==
  /\ conn[c].phase = "greet" /\ task[c].step = "idle"
  /\ task' = [task EXCEPT ![c] =
       [step |-> "greeting", user |-> conn[c].user, snapshot |-> version[conn[c].user], sender |-> c]]
  /\ UNCHANGED <<conn, control, version, inbox, shown, newest, last>>

GreetSend(c) ==
  /\ task[c].step = "greeting"
  /\ inbox' = [inbox EXCEPT ![c] = Append(@, task[c].snapshot)]
  /\ task' = [task EXCEPT ![c] = NoPush]
  /\ Phase(c, "open")
  /\ UNCHANGED <<control, version, shown, newest, last>>

(* and a client that starts without one sends the configuration it starts with. *)
Seed(c) ==
  /\ conn[c].phase = "seed"
  /\ Changed(c, conn[c].user)
  /\ Phase(c, "open")
  /\ UNCHANGED <<control, inbox, shown, newest, last>>

(* Messages of the client itself change its session too. *)
OwnMessage(c) ==
  /\ conn[c].phase = "open" /\ task[c].step = "idle"
  /\ Changed(c, conn[c].user)
  /\ UNCHANGED <<conn, control, inbox, shown, newest, last>>

(* The client applies the events of its connection in the order sent; they leave
   the server once its task is back at the socket. *)
ClientReads(c) ==
  /\ conn[c].phase \in {"seed", "open"}
  /\ inbox[c] # <<>>
  /\ shown' = [shown EXCEPT ![c] = Head(inbox[c])]
  /\ newest' = [newest EXCEPT ![c] = IF Head(inbox[c]) > @ THEN Head(inbox[c]) ELSE @]
  /\ inbox' = [inbox EXCEPT ![c] = Tail(@)]
  /\ UNCHANGED <<conn, control, version, task, last>>

SocketEnds(c) ==
  /\ conn[c].phase \in {"seed", "open"} /\ task[c].step = "idle"
  /\ Phase(c, "closing")
  /\ UNCHANGED <<control, version, task, inbox, shown, newest, last>>

(* unregister_control_client removes the connection's own sender only. *)
Registered(c) == control[conn[c].user] = c
Unregister(c) ==
  /\ conn[c].phase = "closing"
  /\ control' = IF Registered(c) THEN [control EXCEPT ![conn[c].user] = NoConn] ELSE control
  /\ Phase(c, "clearing")
  /\ UNCHANGED <<version, task, inbox, shown, newest, last>>

(* clear_active_buttons changes the session, and pushes, before the task
   returns and drops the receiver of its events. *)
ClearAndPush(c) ==
  /\ conn[c].phase = "clearing"
  /\ Changed(c, conn[c].user)
  /\ Phase(c, "returning")
  /\ UNCHANGED <<control, inbox, shown, newest, last>>

Return(c) ==
  /\ \/ conn[c].phase = "returning" /\ task[c].step = "idle"
     \/ conn[c].phase = "clearing" /\ version[conn[c].user] = MaxVersion
  /\ Phase(c, "gone")
  /\ inbox' = [inbox EXCEPT ![c] = <<>>]
  /\ shown' = [shown EXCEPT ![c] = 0] /\ newest' = [newest EXCEPT ![c] = 0]
  /\ UNCHANGED <<control, version, task, last>>

Connection(c) ==
  Register(c) \/ GreetSnapshot(c) \/ GreetSend(c) \/ Unregister(c) \/ ClearAndPush(c) \/ Return(c)

Next ==
  \/ \E t \in Tasks : Push(t)
  \/ \E r \in Requests, u \in Users : Request(r, u) \/ PresenceUpdate(r, u)
  \/ \E c \in Conns :
       \/ \E u \in Users, desired \in BOOLEAN : Hello(c, u, desired)
       \/ Connection(c) \/ Seed(c) \/ OwnMessage(c) \/ ClientReads(c) \/ SocketEnds(c)

(* What has begun runs on: pushes, the steps of a connection's task, and the
   client reading its socket.  New requests and messages are not owed. *)
Fairness ==
  /\ \A t \in Tasks : WF_vars(Push(t))
  /\ \A c \in Conns : WF_vars(Connection(c)) /\ WF_vars(Seed(c)) /\ WF_vars(ClientReads(c))

Spec == Init /\ [][Next]_vars /\ Fairness

-----------------------------------------------------------------------------
(* Properties. *)

Push_t ==
  [step : {"idle", "snapshot", "lookup", "send", "greeting"}, user : Users \cup {NoUser},
   snapshot : Nat, sender : Conns \cup {NoConn}]

Phases == {"new", "preconfigured", "unknown", "greet", "seed", "open",
           "closing", "clearing", "returning", "gone"}

(* Every variable keeps its type, and nothing waits for a task that returned. *)
TypeOK ==
  /\ conn \in [Conns -> [phase : Phases, user : Users \cup {NoUser}]]
  /\ control \in [Users -> Conns \cup {NoConn}]
  /\ version \in [Users -> 0..MaxVersion]
  /\ task \in [Tasks -> Push_t]
  /\ inbox \in [Conns -> Seq(Nat)]
  /\ \A c \in Conns : conn[c].phase = "gone" => inbox[c] = <<>>
  /\ shown \in [Conns -> Nat] /\ newest \in [Conns -> Nat]
  /\ last \in [Users -> Conns \cup {NoConn}]

Settled(u) ==
  /\ \A t \in Tasks : task[t].user # u
  /\ \A c \in Conns : conn[c].user = u => conn[c].phase \in {"open", "gone"} /\ inbox[c] = <<>>

(* When everything under way for a user has finished, the client on the
   registered connection has read the newest configuration at some point: no
   change falls between a greeting, a registration and the pushes.  A client
   whose hello found no desired configuration is owed only what was changed after
   it registered: what its session held before, a reconnected client never learns. *)
NewestReachesClient ==
  \A u \in Users :
    Settled(u) /\ control[u] # NoConn => newest[control[u]] = version[u]

(* "Live audio behavior only changes after the server returns the
   authoritative config_update" (docs/advanced-routing-ui.md): once settled,
   the client runs on the configuration the server holds. *)
ClientShowsServerState ==
  \A u \in Users :
    Settled(u) /\ control[u] # NoConn => shown[control[u]] = version[u]

(* "After reconnecting they send hello again so the server can resume pushing"
   (README.md): the connection that registered a user last stays the one that
   is sent its events for as long as it is open. *)
ReconnectedIsRegistered ==
  \A u \in Users : last[u] # NoConn /\ conn[last[u]].phase = "open" => control[u] = last[u]

(* A change that the client on the registered connection is owed is eventually
   read by it, or a newer one is, or the client goes away. *)
ChangeReachesClient ==
  \A c \in Conns, n \in 1..MaxVersion :
    (conn[c].phase = "open" /\ Registered(c) /\ version[conn[c].user] >= n)
      ~> (newest[c] >= n \/ conn[c].phase # "open" \/ ~Registered(c))
=============================================================================
