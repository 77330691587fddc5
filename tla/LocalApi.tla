------------------------------- MODULE LocalApi -------------------------------
(***************************************************************************)
(* The commands of a client and the copy of its session that it works on.        *)
(*                                                                         *)
(* The mobile shell queues a command and changes the copy at once; the local      *)
(* HTTP API, of the desktop and of the Pi, and the native shell wait for the      *)
(* server's answer and leave the copy to the server's updates; a line typed at    *)
(* the terminal does both; a hotkey does neither.  The server handles a message    *)
(* by its own rules (apply_control), pushes the session and answers.  That an      *)
(* answer can reach the wrong caller after a reconnect is module ControlLink.      *)
(***************************************************************************)
EXTENDS Integers, Sequences

CONSTANTS
  Buttons,     \* the configured buttons: [id, mode, channels, users]
  Peers,       \* other users
  Present,     \* those of them with a session
  Routes,      \* the sets of TX channels that are asked for
  Codecs,
  Alerts,
  NoUser,
  Patches,     \* the changes that the admin makes: functions from fields
  QueueSize,   \* capacity of the control channel (16)
  MaxWire,     \* bound: messages on the socket
  MaxCommands, \* bound: commands
  MaxChanges,  \* bound: changes by others
  MaxDrops     \* bound: losses of the connection

TalkModes == {"muted", "ptt", "open"}

LocalApiAssumption ==
  /\ Present \subseteq Peers /\ NoUser \notin Peers
  /\ \A b \in Buttons : b.mode \in {"momentary", "latching"} /\ b.users \subseteq Peers
  /\ \A p \in Patches : DOMAIN p \subseteq {"tx", "mode", "codec", "priority", "allow", "caller", "alerts"}
  /\ \A p \in Patches : "mode" \in DOMAIN p => p.mode \in TalkModes
  /\ QueueSize \in Nat \ {0} /\ MaxWire \in Nat \ {0}

VARIABLES
  server,    \* the session
  local,     \* ClientConfig
  link,      \* the control connection is up
  queue,     \* the control channel: [msg, by]
  wire,      \* requests on the socket
  down,      \* updates and answers on the socket
  waiting,   \* a caller that waits: the messages it has left, and whether the first is sent; or none
  toggling,  \* a toggle that has looked at the copy: the command that it gives next, or none
  ended,     \* the client has ended
  stale,     \* history: a change of the copy that the server did not follow, with no update since
  bounds

vars == <<server, local, link, queue, wire, down, waiting, toggling, ended, stale, bounds>>

Start ==
  [tx |-> {1}, mode |-> "ptt", talk |-> FALSE, held |-> {}, calls |-> {}, caller |-> NoUser,
   codec |-> "pcm48", priority |-> FALSE, alerts |-> {},
   allow |-> {"local_api", "channels", "codec", "talk_mode", "priority", "buttons"}]

Init ==
  /\ server = Start
  /\ local = [shown |-> Start, last |-> "ptt"]
  /\ link = TRUE /\ queue = <<>> /\ wire = <<>> /\ down = <<>>
  /\ waiting = {} /\ toggling = {} /\ ended = FALSE /\ stale = FALSE
  /\ bounds = [commands |-> 0, changes |-> 0, drops |-> 0]

Copy == local.shown
May(s, what) == what \in s.allow
Called(s, p) == \E call \in s.calls : call.to = p

(* ClientConfig::active_tx_targets *)
Targets(s) ==
  [channels : {IF s.mode = "open" \/ (s.mode = "ptt" /\ s.talk) THEN s.tx ELSE {}},
   buttons : {b \in Buttons : b.id \in s.held}, users : {{call.to : call \in s.calls}}]

-----------------------------------------------------------------------------
(* What the server makes of a message: apply_control. *)

Refused(s) == [ok |-> FALSE, session |-> s]
Done(s) == [ok |-> TRUE, session |-> s]

NowActive(b, was, pressed) == IF b.mode = "momentary" THEN pressed ELSE IF pressed THEN ~was ELSE was
HeldWith(held, b, active) == IF active THEN held \cup {b.id} ELSE held \ {b.id}

(* apply_direct_call_event, for the caller *)
CallsWith(calls, p, active, duck) ==
  {call \in calls : call.to # p} \cup (IF active THEN {[to |-> p, duck |-> duck]} ELSE {})
CallAtServer(s, p, m) ==
  IF p \notin Present THEN Refused(s)
  ELSE Done([s EXCEPT !.calls = CallsWith(@, p, m.active, m.duck)])

(* validate_config_lockout *)
ConfigAllowed(s, m) ==
  /\ May(s, "channels") \/ m.tx = s.tx
  /\ May(s, "codec") \/ m.codec = s.codec
  /\ May(s, "talk_mode") \/ m.mode = s.mode
  /\ May(s, "priority") \/ m.priority \subseteq {s.priority}

Handled(s, m) ==
  CASE m.op = "talk" -> Done([s EXCEPT !.talk = m.active])
    [] m.op = "mode" -> IF May(s, "talk_mode") THEN Done([s EXCEPT !.mode = m.mode]) ELSE Refused(s)
    [] m.op = "codec" -> IF May(s, "codec") THEN Done([s EXCEPT !.codec = m.codec]) ELSE Refused(s)
    [] m.op = "priority" -> IF May(s, "priority") THEN Done([s EXCEPT !.priority = m.active]) ELSE Refused(s)
    [] m.op = "button" ->
         IF ~May(s, "buttons") \/ m.button \notin Buttons THEN Refused(s)
         ELSE Done([s EXCEPT !.held = HeldWith(@, m.button, NowActive(m.button, m.button.id \in @, m.pressed))])
    [] m.op = "call" -> CallAtServer(s, m.to, m)
    [] m.op = "reply" -> IF s.caller = NoUser THEN Refused(s) ELSE CallAtServer(s, s.caller, m)
    [] m.op = "ack" -> IF m.alert \in Alerts THEN Done([s EXCEPT !.alerts = @ \ {m.alert}]) ELSE Refused(s)
    [] m.op = "cancel" -> Refused(s)   \* who is alerted is never the sender
    [] m.op = "config" ->
         IF ~ConfigAllowed(s, m) THEN Refused(s)
         ELSE Done([s EXCEPT !.tx = m.tx, !.codec = m.codec, !.mode = m.mode,
                             !.priority = IF m.priority = {} THEN @ ELSE TRUE \in m.priority])
    [] OTHER -> Done(s)   \* an alert of the client's own

-----------------------------------------------------------------------------
(* What the client expects: the copy after a command that it queues. *)

(* ClientConfig::set_talk_mode, restored_unmute_talk_mode *)
WithMode(c, mode) == [c EXCEPT !.shown.mode = mode, !.last = IF mode = "muted" THEN @ ELSE mode]
Unmuted == IF local.last = "muted" THEN "ptt" ELSE local.last

(* queue_button *)
\* fault: a second press of a latching button holds it
BecomesHeld(b, was, pressed) == pressed
Becomes(b, was, pressed) ==
  IF b.mode = "momentary" THEN pressed ELSE IF pressed THEN ~was ELSE was

ExpectedCopy(m) ==
  CASE m.op = "talk" -> [local EXCEPT !.shown.talk = m.active]
    [] m.op = "mode" -> IF m.mode = "muted" THEN [WithMode(local, m.mode) EXCEPT !.shown.talk = FALSE]
                        ELSE WithMode(local, m.mode)
    [] m.op = "codec" -> [local EXCEPT !.shown.codec = m.codec]
    [] m.op = "button" ->
         [local EXCEPT !.shown.held = HeldWith(@, m.button, Becomes(m.button, m.button.id \in @, m.pressed))]
    [] m.op = "call" -> [local EXCEPT !.shown.calls = CallsWith(@, m.to, m.active, m.duck)]
    [] m.op = "reply" -> [local EXCEPT !.shown.calls = CallsWith(@, Copy.caller, m.active, m.duck)]
    [] m.op \in {"ack", "cancel"} -> [local EXCEPT !.shown.alerts = @ \ {m.alert}]
    [] OTHER -> local

(* ensure_local_api_allowed, ensure_policy_allowed *)
Permitted(m) ==
  /\ May(Copy, "local_api")
  /\ m.op = "mode" => May(Copy, "talk_mode")
  /\ m.op = "codec" => May(Copy, "codec")
  /\ m.op = "button" => May(Copy, "buttons")
  /\ m.op = "reply" => Copy.caller # NoUser

Talk(active) == [op |-> "talk", active |-> active]
Mode(mode) == [op |-> "mode", mode |-> mode]
Call(p, active, duck) == [op |-> "call", to |-> p, active |-> active, duck |-> duck]
Reply(active, duck) == [op |-> "reply", active |-> active, duck |-> duck]
Commands ==
  {Talk(a) : a \in BOOLEAN} \cup {Mode(mode) : mode \in TalkModes} \cup {Mode(Unmuted)}
    \cup {[op |-> "codec", codec |-> c] : c \in Codecs}
    \cup {[op |-> "button", button |-> b, pressed |-> p] : b \in Buttons, p \in BOOLEAN}
    \cup {Call(p, TRUE, d) : p \in Peers, d \in BOOLEAN} \cup {Call(p, FALSE, FALSE) : p \in Peers}
    \cup {Reply(a, FALSE) : a \in BOOLEAN}
    \cup {[op |-> op, alert |-> a] : op \in {"ack", "cancel"}, a \in Alerts}
    \cup {[op |-> "raise"]}

(* The toggles, decided by the copy. *)
Toggles ==
  {Talk(~Copy.talk)} \cup {Call(p, ~Called(Copy, p), FALSE) : p \in Peers} \cup {Reply(~Called(Copy, Copy.caller), FALSE)}

Commanded ==
  /\ ~ended /\ bounds.commands < MaxCommands
  /\ bounds' = [bounds EXCEPT !.commands = @ + 1]

(* LocalClientApi::queue_*: under the lock of the copy *)
Queue(m) ==
  /\ Permitted(m)
  /\ local' = ExpectedCopy(m)
  /\ IF Len(queue) < QueueSize
     THEN queue' = Append(queue, [msg |-> m, by |-> "nobody"]) /\ UNCHANGED stale
     ELSE stale' = (stale \/ local' # local) /\ UNCHANGED queue
  /\ UNCHANGED <<server, link, wire, down, waiting, ended>>

MobileCommand ==
  /\ Commanded
  /\ \E m \in Commands : Queue(m)
  /\ UNCHANGED toggling
(* queue_talk_toggle and the others let go of the lock between the two steps *)
LookAtCopy ==
  /\ Commanded /\ toggling = {} /\ May(Copy, "local_api")
  /\ \E m \in Toggles : toggling' = {m}
  /\ UNCHANGED <<server, local, link, queue, wire, down, waiting, ended, stale>>
FinishToggle ==
  /\ ~ended /\ \E m \in toggling : Queue(m) \/ (~Permitted(m) /\ UNCHANGED <<server, local, link, queue, wire, down, waiting, ended, stale>>)
  /\ toggling' = {} /\ UNCHANGED bounds

-----------------------------------------------------------------------------
(* Those who wait for the answer: forward_control_message, queue_control_message. *)

Ask(by, msgs) ==
  /\ waiting = {} /\ waiting' = {[by |-> by, left |-> msgs, sent |-> FALSE]}
  /\ UNCHANGED <<server, link, queue, wire, down, toggling, ended, stale>>

Request ==
  /\ Commanded
  /\ \E m \in Commands \cup Toggles : Permitted(m) /\ Ask("caller", <<m>>)
  /\ UNCHANGED local

(* PUT /config: the whole form, and the priority once more *)
Form(c) == [op |-> "config", tx |-> c.tx, mode |-> c.mode, codec |-> c.codec, priority |-> {c.priority}]
FormAllowed(m) ==   \* validate_full_config_allowed
  May(Copy, "local_api") /\ ConfigAllowed(Copy, m)
PutConfig ==
  /\ Commanded
  /\ \E route \in Routes, p \in BOOLEAN :
       LET m == Form([Copy EXCEPT !.tx = route, !.priority = p])
       IN FormAllowed(m) /\ Ask("caller", <<m, [op |-> "priority", active |-> p]>>)
  /\ UNCHANGED local

(* apply_runtime_command: no lockout is looked at, the copy is changed, then asked *)
TerminalCommand ==
  /\ Commanded
  /\ \/ \E route \in Routes :
          /\ local' = [local EXCEPT !.shown.tx = route]
          /\ Ask("terminal", <<[Form(local'.shown) EXCEPT !.priority = {}]>>)
     \/ \E mode \in TalkModes \cup {Unmuted} : local' = WithMode(local, mode) /\ Ask("terminal", <<Mode(mode)>>)
     \/ local' = ExpectedCopy(Mode("muted")) /\ Ask("terminal", <<Mode("muted")>>)
     \/ \E a \in BOOLEAN : local' = ExpectedCopy(Talk(a)) /\ Ask("terminal", <<Talk(a)>>)
     \/ \E m \in Commands : m.op \in {"button", "call", "reply"} /\ Ask("terminal", <<m>>) /\ UNCHANGED local

Send ==
  /\ ~ended /\ Len(queue) < QueueSize
  /\ \E w \in waiting : ~w.sent /\ queue' = Append(queue, [msg |-> Head(w.left), by |-> w.by])
  /\ waiting' = {[w EXCEPT !.sent = TRUE] : w \in waiting}
  /\ UNCHANGED <<server, local, link, wire, down, toggling, ended, stale, bounds>>

(* run_blocking_hotkey_loop: the answer is dropped *)
Hotkey ==
  /\ Commanded /\ Len(queue) < QueueSize
  /\ \E b \in Buttons, p \in BOOLEAN :
       queue' = Append(queue, [msg |-> [op |-> "button", button |-> b, pressed |-> p], by |-> "nobody"])
  /\ UNCHANGED <<server, local, link, wire, down, waiting, toggling, ended, stale>>

(* The answer: the next message, or the end of it; an error at the terminal ends
   the client. *)
Answered(by, ok) ==
  /\ waiting' = IF by = "nobody" THEN waiting
                ELSE {[v EXCEPT !.left = Tail(@), !.sent = FALSE] :
                        v \in {w \in waiting : ok /\ Len(w.left) > 1}}
  /\ ended' = (ended \/ (by = "terminal" /\ ~ok))

-----------------------------------------------------------------------------
(* The connection and the server. *)

(* run_control_connection *)
Transmit ==
  /\ ~ended /\ link /\ queue # <<>> /\ Len(wire) < MaxWire
  /\ wire' = Append(wire, Head(queue)) /\ queue' = Tail(queue)
  /\ UNCHANGED <<server, local, link, down, waiting, toggling, ended, stale, bounds>>

Pushed(s) == [kind |-> "update", session |-> s, by |-> "nobody", ok |-> TRUE]
Answer(by, ok) == IF by = "nobody" THEN <<>> ELSE <<[kind |-> "answer", by |-> by, ok |-> ok]>>
Serve ==
  /\ ~ended /\ wire # <<>> /\ wire' = Tail(wire)
  /\ LET result == Handled(server, Head(wire).msg)
     IN /\ server' = result.session
        /\ down' = down \o (IF result.ok THEN <<Pushed(server')>> ELSE <<>>) \o Answer(Head(wire).by, result.ok)
        /\ stale' = (stale \/ ~result.ok)
  /\ UNCHANGED <<local, link, queue, waiting, toggling, ended, bounds>>

(* apply_control_event: the update is the copy from now on *)
\* fault: the calls are kept as they are
TakenButCalls(s) == [WithMode(local, s.mode) EXCEPT !.shown = [s EXCEPT !.calls = Copy.calls]]
Taken(s) == [WithMode(local, s.mode) EXCEPT !.shown = s]
Read ==
  /\ ~ended /\ down # <<>> /\ down' = Tail(down)
  /\ IF Head(down).kind = "update"
     THEN /\ local' = Taken(Head(down).session) /\ stale' = FALSE
          /\ UNCHANGED <<waiting, ended>>
     ELSE /\ Answered(Head(down).by, Head(down).ok)
          /\ UNCHANGED <<local, stale>>
  /\ UNCHANGED <<server, link, queue, wire, toggling, bounds>>

(* The connection is lost: what was on it, the held buttons of the copy, and at the
   server the talk state of the session (clear_active_buttons). *)
Drop ==
  /\ ~ended /\ link /\ bounds.drops < MaxDrops
  /\ bounds' = [bounds EXCEPT !.drops = @ + 1]
  /\ link' = FALSE /\ wire' = <<>> /\ down' = <<>>
  /\ local' = [local EXCEPT !.shown.held = {}]
  /\ server' = [server EXCEPT !.talk = FALSE, !.held = {}, !.calls = {}]
  /\ stale' = TRUE
  /\ IF \E w \in waiting : w.sent /\ \A i \in DOMAIN queue : queue[i].by # w.by
     THEN \E w \in waiting : Answered(w.by, FALSE)
     ELSE UNCHANGED <<waiting, ended>>
  /\ UNCHANGED <<queue, toggling>>
(* wait_before_reconnect *)
FailFast ==
  /\ ~ended /\ ~link /\ queue # <<>> /\ queue' = Tail(queue)
  /\ Answered(Head(queue).by, FALSE)
  /\ UNCHANGED <<server, local, link, wire, down, toggling, stale, bounds>>
Reconnect ==
  /\ ~ended /\ ~link /\ link' = TRUE
  /\ down' = <<Pushed(server)>>
  /\ UNCHANGED <<server, local, queue, wire, waiting, toggling, ended, stale, bounds>>

(* The admin, or another user's call or alert. *)
OthersChange ==
  /\ ~ended /\ bounds.changes < MaxChanges
  /\ bounds' = [bounds EXCEPT !.changes = @ + 1]
  /\ \E p \in Patches : server' = [f \in DOMAIN server |-> IF f \in DOMAIN p THEN p[f] ELSE server[f]]
  /\ down' = IF link THEN Append(down, Pushed(server')) ELSE down
  /\ UNCHANGED <<local, link, queue, wire, waiting, toggling, ended, stale>>

Next ==
  \/ MobileCommand \/ LookAtCopy \/ FinishToggle
  \/ Request \/ PutConfig \/ TerminalCommand \/ Send \/ Hotkey
  \/ Transmit \/ Serve \/ Read \/ Drop \/ FailFast \/ Reconnect \/ OthersChange

Spec == Init /\ [][Next]_vars

-----------------------------------------------------------------------------
(* Properties. *)

(* Every variable keeps its type. *)
TypeOK ==
  /\ server.mode \in TalkModes /\ Copy.mode \in TalkModes /\ local.last \in TalkModes \ {"muted"}
  /\ DOMAIN Copy = DOMAIN server
  /\ Len(queue) <= QueueSize /\ Len(wire) <= MaxWire

Quiet == ~ended /\ link /\ queue = <<>> /\ wire = <<>> /\ down = <<>> /\ waiting = {}

(* When nothing is on the way and the server has refused nothing since its last update,
   the client shows and transmits what the server has of it, whatever was guessed,
   lost, refused or changed by others before. *)
CopyAgrees == Quiet /\ ~stale => Copy = server /\ Targets(Copy) = Targets(server)

(* The client guesses right: a command that is queued while nothing else is on the way
   changes the copy into just the session that the server makes of it, unless it
   refuses.  One guess is wrong in the code and left out here: muting ends the regular
   talk in the copy alone. *)
Shown(s, m) == IF m.op = "mode" /\ m.mode = "muted" THEN [s EXCEPT !.talk = FALSE] ELSE s
GuessRight ==
  (MobileCommand \/ FinishToggle) /\ Quiet /\ ~stale /\ queue' # queue =>
    LET m == queue'[1].msg
        result == Handled(server, m)
    IN result.ok => Shown(local'.shown, m) = Shown(result.session, m)
GuessesRight == [][GuessRight]_vars

(* "If the WebSocket control connection drops, the desktop and app-host clients keep
   audio I/O running and reconnect automatically" (README.md:740): a client does not
   end while it has no connection. *)
KeepsRunning == ended => link
=============================================================================
