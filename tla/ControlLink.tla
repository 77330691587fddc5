----------------------------- MODULE ControlLink -----------------------------
(***************************************************************************)
(* One client's control connection (clients/core) and the server's end of    *)
(* it: the task that connects, sends what the rest of the client queues,      *)
(* pairs the server's answers with the callers, fails callers while it        *)
(* reconnects, and shows the server's pushed configuration.                  *)
(*                                                                         *)
(* The client changes its own copy of the talk state as soon as a button is   *)
(* pressed and then queues the message; the server, unless it refuses,       *)
(* pushes its own copy after every change.  The admin may lock the buttons   *)
(* meanwhile.  The two copies differ while any of this is under way.         *)
(*                                                                         *)
(* A connection that the client has left may still hold messages, and the      *)
(* server's task of it reads them, or ends, when it is scheduled: next to the  *)
(* task of the client's next connection.  Handlers are atomic here; their      *)
(* interleavings are the subject of ControlSession and ConfigPush.           *)
(***************************************************************************)
EXTENDS Naturals, Sequences, FiniteSets

CONSTANTS
  Requests,        \* control requests, each made once
  Greeting,        \* the request that carries the hello of a starting client
  Presses,         \* the requests that are presses in the client's window
  ReconnectHello,  \* the hello that the task itself writes when it reconnects
  QueueLimit,      \* capacity of the control channel
  MaxConnects,     \* bound: how often a connection attempt succeeds
  MaxLocks         \* bound: how often the admin locks the buttons or unlocks them

ASSUME LinkAssumption ==
  /\ Greeting \in Requests
  /\ Presses \subseteq Requests \ {Greeting}
  /\ ReconnectHello \notin Requests
  /\ QueueLimit \in Nat \ {0}
  /\ MaxConnects \in Nat \ {0}
  /\ MaxLocks \in Nat

(* regular_talk_active, and one momentary button among active_buttons; the rest
   of a configuration is whether the admin has locked the buttons. *)
Keys == {"talk", "button"}
Configs == [Keys \cup {"locked"} -> BOOLEAN]
ClearButtons(copy) == [copy EXCEPT !["button"] = FALSE]
Silence == [item \in Keys \cup {"locked"} |-> FALSE]
Silenced(copy) == [copy EXCEPT !["talk"] = FALSE, !["button"] = FALSE]

Conns == 1..MaxConnects
NoConn == 0
Ids == Requests \cup {ReconnectHello}
MessageFor(ids) ==
  [id : ids, kind : {"hello", "config", "health", "press"}, key : Keys, on : BOOLEAN]
Said(r, kind) == [id |-> r, kind |-> kind, key |-> "talk", on |-> FALSE]

VARIABLES
  phase,      \* where the client's task is
  conn,       \* the number of its latest connection; connected_once is conn > 0
  queue,      \* control_rx
  pending,    \* pending_responses: who waits for an answer on this connection
  answer,     \* answer[r]: what the caller of request r knows
  local,      \* the client's configuration, with the talk state it shows
  refused,    \* history: the keys whose last press the full channel has refused, since
              \* the last event was read
  inbox,      \* inbox[c]: messages on their way to the server
  replies,    \* which messages the responses on their way to the client answer
  events,     \* the configurations that are on their way to it
  task,       \* task[c]: the server's task of connection c
  control,    \* control_clients: the connection registered for the user
  server      \* whether the user has a session and a stored configuration, how often the
              \* admin has changed that, and the copy of it that is pushed

client == <<phase, conn, queue, pending, answer, local>>
vars == <<phase, conn, queue, pending, answer, local, refused, inbox, replies, events, task,
          control, server>>

Init ==
  /\ phase = "connecting" /\ conn = NoConn
  /\ queue = <<>> /\ pending = <<>>
  /\ answer = [r \in Requests |-> "none"]
  /\ local = Silence /\ refused = {}
  /\ inbox = [c \in Conns |-> <<>>] /\ replies = <<>>
  /\ task = [c \in Conns |-> "none"] /\ events = <<>>
  /\ control = NoConn
  /\ \E desired \in BOOLEAN :
       server = [live |-> FALSE, desired |-> desired, locks |-> 0, copy |-> Silence]

-----------------------------------------------------------------------------
(* Callers. *)

\* fault: one request too many is queued
RoomForOneMore == Len(queue) <= QueueLimit
Room == Len(queue) < QueueLimit

(* A request whose caller waits: the hello and the startup configuration of a
   client, telemetry, the local API.  It waits for room in the channel too. *)
Ask(r, kind) ==
  /\ answer[r] = "none" /\ (kind = "hello" <=> r = Greeting)
  /\ Room
  /\ queue' = Append(queue, Said(r, kind))
  /\ answer' = [answer EXCEPT ![r] = "waiting"]
  /\ UNCHANGED <<phase, conn, pending, local, refused, inbox, replies, events, task, control, server>>

(* A press in the client's window, unless the buttons are locked there: shown
   at once, queued without waiting, and refused but still shown when the channel
   is full. *)
Press(r, key, on) ==
  /\ answer[r] = "none" /\ (key = "button" => ~local["locked"])
  /\ local' = [local EXCEPT ![key] = on]
  /\ answer' = [answer EXCEPT ![r] = IF Room THEN "forgotten" ELSE "refused"]
  /\ queue' = IF Room THEN Append(queue, [id |-> r, kind |-> "press", key |-> key, on |-> on])
              ELSE queue
  /\ refused' = IF Room THEN refused \ {key} ELSE refused \cup {key}
  /\ UNCHANGED <<phase, conn, pending, inbox, replies, events, task, control, server>>

(* control_unavailable_response to those of R who still wait *)
Unavailable(R) ==
  [r \in Requests |-> IF r \in R /\ answer[r] = "waiting" THEN "unavailable" ELSE answer[r]]
Members(s) == {s[k] : k \in DOMAIN s}

-----------------------------------------------------------------------------
(* The client's task.  It reads responses and events from one socket, and
   either kind in order; what it does with the one does not depend on the
   other, so their order among each other is not kept. *)

(* The attempt fails, or the hello of a reconnect cannot be written. *)
ConnectFails ==
  /\ phase = "connecting"
  /\ phase' = "backoff"
  /\ UNCHANGED <<conn, queue, pending, answer, local, refused, inbox, replies, events, task,
                 control, server>>

(* Only a reconnect says hello by itself, and nobody is entered as waiting
   for the answer to that. *)
ConnectSucceeds ==
  /\ phase = "connecting" /\ conn < MaxConnects
  /\ phase' = "open"
  /\ conn' = conn + 1
  /\ pending' = <<>> /\ replies' = <<>> /\ events' = <<>>
  /\ inbox' = [inbox EXCEPT ![conn + 1] =
                 IF conn > 0 THEN <<Said(ReconnectHello, "hello")>> ELSE <<>>]
  /\ task' = [task EXCEPT ![conn + 1] = "open"]
  /\ UNCHANGED <<queue, answer, local, refused, control, server>>

Wake ==
  /\ phase = "backoff"
  /\ phase' = "connecting"
  /\ UNCHANGED <<conn, queue, pending, answer, local, refused, inbox, replies, events, task,
                 control, server>>

(* wait_before_reconnect fails what is queued, unless the client has never
   been connected. *)
Refuse ==
  /\ phase = "backoff" /\ conn > 0 /\ queue # <<>>
  /\ answer' = Unavailable({Head(queue).id})
  /\ queue' = Tail(queue)
  /\ UNCHANGED <<refused, phase, conn, pending, local, inbox, replies, events, task, control, server>>

\* fault: the newest caller is entered before those who wait already
EnteredFirst(id) == <<id>> \o pending
(* pending_responses.push_back(response_tx) *)
Entered(id) == Append(pending, id)

Send ==
  /\ phase = "open" /\ queue # <<>>
  /\ queue' = Tail(queue)
  /\ pending' = Entered(Head(queue).id)
  /\ inbox' = [inbox EXCEPT ![conn] = Append(@, Head(queue))]
  /\ UNCHANGED <<phase, conn, answer, local, refused, replies, events, task, control, server>>

\* fault: the callers that wait for an answer are forgotten
FailedForgotten(unsent) == Unavailable(unsent)
(* fail_pending_control_responses, and the request that could not be written *)
Failed(unsent) == Unavailable(Members(pending) \cup unsent)

(* The connection is lost: everybody who waits for an answer is told so, and
   the buttons go out, but not regular talk. *)
Disconnect(unsent) ==
  /\ phase' = "backoff"
  /\ answer' = Failed(unsent)
  /\ pending' = <<>> /\ replies' = <<>> /\ events' = <<>>
  /\ local' = ClearButtons(local)
  /\ UNCHANGED <<refused, conn, inbox, task, control, server>>

ConnectionLost ==
  /\ phase = "open"
  /\ Disconnect({}) /\ UNCHANGED queue
SendFails ==
  /\ phase = "open" /\ queue # <<>>
  /\ Disconnect({Head(queue).id}) /\ queue' = Tail(queue)

(* handle_control_text: a response goes to the caller who has waited longest,
   and nowhere if nobody waits; an event replaces the client's copy. *)
ReadResponse ==
  /\ phase = "open" /\ replies # <<>>
  /\ replies' = Tail(replies)
  /\ IF pending = <<>> THEN UNCHANGED <<pending, answer>>
     ELSE /\ answer' = [answer EXCEPT ![Head(pending)] =
                          IF @ = "waiting" THEN "answered" ELSE @]
          /\ pending' = Tail(pending)
  /\ UNCHANGED <<phase, conn, queue, local, refused, inbox, events, task, control, server>>

ReadEvent ==
  /\ phase = "open" /\ events # <<>>
  /\ events' = Tail(events)
  /\ local' = Head(events)
  /\ refused' = {}
  /\ UNCHANGED <<phase, conn, queue, pending, answer, inbox, replies, task, control, server>>

-----------------------------------------------------------------------------
(* The server's tasks. *)

(* The client has left connection c, and nobody reads what is sent on it. *)
Left(c) == phase # "open" \/ conn # c
Pushed(to, copy) == IF Left(to) THEN events ELSE Append(events, copy)
Reads(c, kind) ==
  task[c] \in {"open", "greeted"} /\ inbox[c] # <<>> /\ Head(inbox[c]).kind = kind
(* The response is written as soon as the handler returns. *)
Reply(c) ==
  /\ inbox' = [inbox EXCEPT ![c] = Tail(@)]
  /\ replies' = IF Left(c) THEN replies ELSE Append(replies, Head(inbox[c]).id)

(* A hello makes c the registered connection; a preconfigured client is sent
   its configuration. *)
HandleHello(c) ==
  /\ Reads(c, "hello") /\ Reply(c)
  /\ task' = [task EXCEPT ![c] = "greeted"]
  /\ control' = c
  /\ server' = [server EXCEPT !.live = TRUE]
  /\ events' = IF server.desired THEN Pushed(c, server.copy) ELSE events
  /\ UNCHANGED <<refused, client>>

HandleConfig(c) ==
  /\ Reads(c, "config") /\ Reply(c)
  /\ server' = [server EXCEPT !.desired = TRUE]
  /\ events' = IF server.live THEN Pushed(control, server.copy) ELSE events
  /\ UNCHANGED <<refused, task, control, client>>

HandleHealth(c) ==
  /\ Reads(c, "health") /\ Reply(c)
  /\ UNCHANGED <<refused, task, events, control, server, client>>

\* fault: a press is not pushed back to the client that made it
PressedUnpushed(copy) == events
Pressed(copy) == Pushed(control, copy)

(* apply_regular_talk_event, apply_button_event; an error, and no push, before the
   user has a session or if the admin has locked the buttons. *)
HandlePress(c) ==
  /\ Reads(c, "press") /\ Reply(c)
  /\ LET m == Head(inbox[c])
         copy == [server.copy EXCEPT ![m.key] = m.on]
     IN IF server.live /\ ~(m.key = "button" /\ server.copy["locked"])
        THEN /\ server' = [server EXCEPT !.copy = copy]
             /\ events' = Pressed(copy)
        ELSE UNCHANGED <<events, server>>
  /\ UNCHANGED <<refused, task, control, client>>

(* The admin's page locks the user's buttons or unlocks them. *)
Lock ==
  /\ server.locks < MaxLocks
  /\ LET copy == [server.copy EXCEPT !["locked"] = ~@]
     IN /\ server' = [live |-> TRUE, desired |-> TRUE, locks |-> server.locks + 1, copy |-> copy]
        /\ events' = Pushed(control, copy)
  /\ UNCHANGED <<refused, inbox, replies, task, control, client>>

(* unregister_control_client *)
Remaining(c) == IF control = c THEN NoConn ELSE control

(* The server's socket ends, with messages unread and events unwritten or not;
   if the connection had said hello its user is silenced, whoever is registered
   by then. *)
End(c) ==
  /\ task[c] \in {"open", "greeted"}
  /\ task' = [task EXCEPT ![c] = "ended"]
  /\ IF task[c] = "greeted"
     THEN /\ control' = Remaining(c)
          /\ server' = [server EXCEPT !.copy = Silenced(@)]
          /\ IF Left(c) THEN events' = Pushed(Remaining(c), Silenced(server.copy))
             ELSE \E written \in 0..Len(events) : events' = SubSeq(events, 1, written)
     ELSE UNCHANGED <<control, server, events>>
  /\ UNCHANGED <<refused, inbox, replies, client>>

-----------------------------------------------------------------------------
Handle(c) == HandleHello(c) \/ HandleConfig(c) \/ HandleHealth(c) \/ HandlePress(c)
Read == ReadResponse \/ ReadEvent
Connect == ConnectFails \/ ConnectSucceeds

Next ==
  \/ \E r \in Requests \ Presses, kind \in {"hello", "config", "health"} : Ask(r, kind)
  \/ \E r \in Presses, key \in Keys, on \in BOOLEAN : Press(r, key, on)
  \/ Connect \/ Wake \/ Refuse \/ Send \/ Read \/ ConnectionLost \/ SendFails
  \/ \E c \in Conns : Handle(c) \/ End(c)
  \/ Lock

(* Both ends run.  A queued request and the end of the wait race in a select
   that takes either: a request does not lose for ever.  A client notices that
   the server has gone, and the server that the client has. *)
Fairness ==
  /\ WF_vars(Wake) /\ SF_vars(Refuse)
  /\ WF_vars(Send) /\ WF_vars(ReadResponse) /\ WF_vars(ReadEvent)
  /\ WF_vars(ConnectionLost /\ task[conn] = "ended")
  /\ \A c \in Conns : WF_vars(Handle(c)) /\ WF_vars(End(c) /\ Left(c))

(* A connection attempt that nothing bounds: connect_async has no timeout. *)
HangingSpec == Init /\ [][Next]_vars /\ Fairness
(* Connection attempts come to an end. *)
Spec == HangingSpec /\ WF_vars(Connect)

-----------------------------------------------------------------------------
(* Properties. *)

(* Every variable keeps its type, and the channel its capacity. *)
TypeOK ==
  /\ phase \in {"connecting", "backoff", "open"}
  /\ conn \in Conns \cup {NoConn} /\ (phase = "open" => conn \in Conns)
  /\ queue \in Seq(MessageFor(Requests)) /\ Len(queue) <= QueueLimit
  /\ pending \in Seq(Requests)
  /\ answer \in [Requests -> {"none", "waiting", "answered", "unavailable",
                              "forgotten", "refused"}]
  /\ local \in Configs /\ refused \subseteq Keys
  /\ inbox \in [Conns -> Seq(MessageFor(Ids))]
  /\ replies \in Seq(Ids)
  /\ task \in [Conns -> {"none", "open", "greeted", "ended"}]
  /\ events \in Seq(Configs)
  /\ control \in Conns \cup {NoConn}
  /\ server \in [live : BOOLEAN, desired : BOOLEAN, locks : 0..MaxLocks, copy : Configs]

(* The answers that are due on the client's connection, in the order in which
   they will arrive. *)
IdsOf(messages) == [k \in 1..Len(messages) |-> messages[k].id]
Due == replies \o IdsOf(inbox[conn])

(* On the first connection every answer goes to the request it answers.  After
   a reconnect the answer to the task's own hello is taken for the next
   caller's, and the callers are one answer behind, but never more than one. *)
AtMostOneBehind ==
  phase = "open" =>
    \/ Due = pending
    \/ conn > 1 /\ Due # <<>> /\ Tail(Due) = pending

(* Nobody is forgotten: who still waits for an answer has a request in the
   channel or is entered as waiting on the connection. *)
WaitersAreKnown ==
  \A r \in Requests : answer[r] = "waiting" =>
    r \in Members(pending) \cup {m.id : m \in Members(queue)}

(* Every request whose caller waits, which nobody does for a press, is answered
   in the end, if only with an error, once the client has been connected at all;
   before that it waits for the server. *)
EventuallyAnswered ==
  \A r \in Requests \ Presses : (conn > 0 /\ answer[r] = "waiting") ~> answer[r] # "waiting"

(* No press is on its way from the window of a registered client to the server,
   and no configuration on its way back.  The server has one of the user stored:
   without it a hello is answered by no push. *)
Settled ==
  /\ phase = "open" /\ control = conn /\ server.desired
  /\ events = <<>>
  /\ \A m \in Members(queue) \cup Members(inbox[conn]) : m.kind # "press"

(* Then the window shows what the server has, whatever was pressed, locked, lost
   and silenced while older states were on their way to it; but for a key whose
   last press the full channel refused, which try_queue_control_message does
   after the press has been shown. *)
SettledAgrees ==
  Settled => \A item \in DOMAIN local \ refused : local[item] = server.copy[item]

(* "After a client has connected once, local UI/API control requests made
   while the control WebSocket is reconnecting fail fast instead of hanging
   indefinitely" (README.md): a request made during a reconnect does not depend
   on the connection attempt coming to an end. *)
FailsFast ==
  \A r \in Requests :
    (conn > 0 /\ phase # "open" /\ answer[r] = "waiting") ~> answer[r] # "waiting"
=============================================================================
