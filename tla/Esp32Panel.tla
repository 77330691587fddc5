------------------------------ MODULE Esp32Panel ------------------------------
(* The talk key, the dedicated buttons and the reply button of the ESP32 beltpack
   (clients/esp32) over its control connection, with the server's end of it.

   Four tasks of the firmware share the state: the button task, the websocket task, the
   task of the Wi-Fi events and the registration task, which looks once a second whether a
   hello is due.  A key changes the device's own state first and is sent after it; every
   update of the server replaces the whole of that state.

   The server acts on a message for the user that it names, whether or not the connection
   has said hello, and clears a user's talk state at the end of a connection only if that
   connection has.  It refuses the buttons of a client that the admin has locked, and tells
   the device so with a message that changes nothing but a line of text.  Each end learns on
   its own that a connection is gone.

   The answers that say no more than that, the other permissions that the admin can take
   away, debouncing, alerts as reply targets, a button's actions other than transmitting
   (Workflow), enrollment (the device is enrolled: Enrollment) and the pushes that go
   astray (ConfigPush) are left out. *)
EXTENDS Naturals, Sequences, SequencesExt

CONSTANTS
  Buttons,        \* ids of the dedicated buttons
  Latching,       \* those that are configured to latch
  Peers,          \* other users, who all have sessions
  NoUser,         \* 0
  Lists,          \* the button lists that the admin gives the client
  MayFail,        \* a message may be lost on a connection that lives (a timeout of the send)
  MaxConns,       \* bound: connections
  MaxKeys,        \* bound: presses
  MaxLosses,      \* bound: losses of the Wi-Fi
  MaxChanges,     \* bound: changes by the admin and calls by others
  MaxWire         \* bound: messages on a connection

PanelAssumption ==
  /\ {"talk", "reply"} \cap Buttons = {}
  /\ Latching \subseteq Buttons /\ Lists \subseteq SUBSET Buttons
  /\ NoUser \notin Peers /\ MayFail \in BOOLEAN
  /\ IsFiniteSet(Buttons) /\ {MaxConns, MaxWire} \subseteq Nat

Conns == 1..MaxConns
NoConn == 0

VARIABLES
  held,      \* the keys that are down: "talk", "reply" and ids of buttons
  config,    \* s_config and the last caller of s_ui_state
  reply,     \* s_reply_active_target
  flag,      \* s_control_hello_pending, s_control_startup_config_pending
  toSend,    \* toSend[t]: what the button task and the Wi-Fi task have yet to send
  link,      \* the device's connection, or NoConn
  up,        \* up[c]: messages to the server
  down,      \* messages to the device on its connection
  conn,      \* conn[c]: the server's end
  registry,  \* the connection that updates go to, or NoConn
  server,    \* the session, whether the client's configuration is stored and locks its buttons
  lost,      \* history: a message was lost and no update has arrived since
  refused,   \* history: buttons the server refused since an update arrived
  bounds

vars == <<held, config, reply, flag, toSend, link, up, down, conn, registry, server, lost, refused, bounds>>
device == <<held, config, reply, flag, toSend, link, lost>>

Init ==
  /\ held = {} /\ reply = NoUser
  /\ config = [buttons |-> {}, active |-> {}, talk |-> FALSE, caller |-> NoUser]
  /\ flag = [hello |-> FALSE, startup |-> FALSE]
  /\ toSend = [keys |-> <<>>, wifi |-> <<>>]
  /\ link = NoConn /\ registry = NoConn
  /\ up = [c \in Conns |-> <<>>] /\ down = <<>>
  /\ conn = [c \in Conns |-> "unused"]
  /\ \E B \in Lists \cup {{}}, lock \in BOOLEAN :
       /\ lock => B # {}
       /\ server = [live |-> FALSE, stored |-> B # {}, locked |-> lock, buttons |-> B,
                    active |-> {}, talk |-> FALSE, calls |-> {}, caller |-> NoUser]
  /\ lost = FALSE /\ refused = {}
  /\ bounds = [keys |-> 0, losses |-> 0, changes |-> 0]

Count(what, max) == bounds[what] < max /\ bounds' = [bounds EXCEPT ![what] = @ + 1]
With(set, x, on) == IF on THEN set \cup {x} ELSE set \ {x}
NowActive(b, was, pressed) == IF b \in Latching /\ ~pressed THEN was
                              ELSE IF b \in Latching THEN ~was ELSE pressed

-----------------------------------------------------------------------------
(* The device. *)

Talk(active) == [op |-> "talk", active |-> active]
Button(b, pressed) == [op |-> "button", id |-> b, active |-> pressed]
Call(p, active) == [op |-> "call", to |-> p, active |-> active]

(* send_json: nothing is kept of a message that is not sent. *)
Send(message) ==
  \/ /\ link # NoConn /\ Len(up[link]) < MaxWire
     /\ up' = [up EXCEPT ![link] = Append(@, message)]
     /\ UNCHANGED lost
  \/ /\ link = NoConn \/ MayFail
     /\ lost' = TRUE
     /\ UNCHANGED up

(* set_local_regular_talk, set_local_button_pressed *)
Pressed(k, isDown) ==
  IF k = "talk" THEN [config EXCEPT !.talk = isDown]
  ELSE IF k \in config.buttons
       THEN [config EXCEPT !.active = With(@, k, NowActive(k, k \in @, isDown))]
       ELSE config

(* handle_physical_button, once the key has been stable for 30 ms *)
Key(k) ==
  /\ toSend.keys = <<>>
  /\ LET isDown == k \notin held
     IN /\ IF isDown THEN Count("keys", MaxKeys) ELSE UNCHANGED bounds
        /\ held' = With(held, k, isDown)
        /\ config' = Pressed(k, isDown)
        /\ toSend' = [toSend EXCEPT !.keys =
                        <<IF k = "talk" THEN Talk(isDown) ELSE Button(k, isDown)>>]
  /\ UNCHANGED <<reply, flag, link, up, down, conn, registry, server, lost, refused>>

(* handle_reply_button: a release ends the call to whom the press called. *)
ReplyKey ==
  /\ toSend.keys = <<>>
  /\ LET isDown == "reply" \notin held
         target == IF isDown THEN config.caller ELSE reply
     IN /\ IF isDown THEN Count("keys", MaxKeys) ELSE UNCHANGED bounds
        /\ held' = With(held, "reply", isDown)
        /\ reply' = IF isDown THEN target ELSE NoUser
        /\ toSend' = [toSend EXCEPT !.keys =
                        IF target = NoUser THEN <<>> ELSE <<Call(target, isDown)>>]
  /\ UNCHANGED <<config, flag, link, up, down, conn, registry, server, lost, refused>>

Sends(task) ==
  /\ toSend[task] # <<>>
  /\ Send(Head(toSend[task]))
  /\ toSend' = [toSend EXCEPT ![task] = Tail(@)]
  /\ UNCHANGED <<held, config, reply, flag, link, down, conn, registry, server, refused, bounds>>

(* clear_local_transmit_state: what it sends when it sends releases *)
Cleared == [config EXCEPT !.talk = FALSE, !.active = {}]
Releases ==
  (IF config.talk THEN <<Talk(FALSE)>> ELSE <<>>)
    \o SetToSeq({Button(b, FALSE) : b \in config.active})
    \o (IF reply # NoUser THEN <<Call(reply, FALSE)>> ELSE <<>>)

(* The Wi-Fi event comes first; the connection may outlive the loss. *)
WifiLost ==
  /\ toSend.wifi = <<>>
  /\ Count("losses", MaxLosses)
  /\ config' = Cleared /\ reply' = NoUser
  /\ toSend' = [toSend EXCEPT !.wifi = IF link = NoConn THEN <<>> ELSE Releases]
  /\ UNCHANGED <<held, flag, link, up, down, conn, registry, server, lost, refused>>

Connected ==
  /\ link = NoConn
  /\ \E c \in Conns :
       /\ conn[c] = "unused" /\ \A d \in 1..(c - 1) : conn[d] # "unused"
       /\ link' = c
       /\ conn' = [conn EXCEPT ![c] = "open"]
  /\ flag' = [hello |-> TRUE, startup |-> FALSE]
  /\ UNCHANGED <<held, config, reply, toSend, up, down, registry, server, lost, refused, bounds>>

(* The disconnect and the error event: nothing is released on the wire. *)
Disconnected ==
  /\ link # NoConn
  /\ link' = NoConn /\ down' = <<>>
  /\ config' = Cleared /\ reply' = NoUser
  /\ flag' = [hello |-> FALSE, startup |-> FALSE]
  /\ UNCHANGED <<held, toSend, up, conn, registry, server, lost, refused, bounds>>

(* registration_task: a pending flag is taken whether or not the send succeeds. *)
Registers ==
  /\ link # NoConn
  /\ \E which \in {"hello", "startup"} :
       /\ flag[which] /\ (which = "startup" => ~flag.hello)
       /\ flag' = [flag EXCEPT ![which] = FALSE]
       /\ Send([op |-> which])
  /\ UNCHANGED <<held, config, reply, toSend, link, down, conn, registry, server, refused, bounds>>

(* handle_control_json: an update replaces talk, buttons and caller. *)
Receives ==
  /\ down # <<>>
  /\ LET message == Head(down)
     IN IF message.op = "hello"
        THEN /\ flag' = [flag EXCEPT !.startup = @ \/ ~message.stored]
             /\ UNCHANGED <<config, lost, refused>>
        ELSE config' = message.session /\ lost' = FALSE /\ refused' = {} /\ UNCHANGED flag
  /\ down' = Tail(down)
  /\ UNCHANGED <<held, reply, toSend, link, up, conn, registry, server, bounds>>

-----------------------------------------------------------------------------
(* The server. *)

Update(s) ==
  [op |-> "update",
   session |-> [buttons |-> s.buttons, active |-> s.active, talk |-> s.talk, caller |-> s.caller]]
Told(c, messages) == IF c = link /\ c # NoConn THEN down \o messages ELSE down

(* push_config_update, to the connection that is registered *)
Push(s) == server' = s /\ down' = Told(registry, <<Update(s)>>)

(* apply_button_event: a release that changes nothing is pushed like any other. *)
Handled(m) == [server EXCEPT !.active = With(@, m.id, NowActive(m.id, m.id \in @, m.active))]
\* fault: no push if nothing has changed
ActsIfChanged(m) == IF Handled(m) = server THEN UNCHANGED <<server, down>> ELSE Push(Handled(m))
ActsOnButton(m) == Push(Handled(m))

(* ensure_control_allowed *)
Refused(m) == m.op = "button" /\ server.locked

(* Anything but a hello acts on the session of its user.  The startup configuration is
   refused if it goes against what the admin has locked. *)
Acts(m) ==
  CASE Refused(m) -> UNCHANGED <<server, down>>
    [] m.op = "talk" /\ server.live -> Push([server EXCEPT !.talk = m.active])
    [] m.op = "button" /\ ~server.locked /\ server.live /\ m.id \in server.buttons -> ActsOnButton(m)
    [] m.op = "call" -> Push([server EXCEPT !.live = TRUE, !.calls = With(@, m.to, m.active)])
    [] m.op = "startup" ->
         \/ Push([server EXCEPT !.stored = TRUE, !.live = TRUE])
         \/ server.locked /\ UNCHANGED <<server, down>>
    [] OTHER -> UNCHANGED <<server, down>>

Greets(c) ==
  /\ server' = [server EXCEPT !.live = TRUE]
  /\ registry' = c
  /\ conn' = [conn EXCEPT ![c] = "registered"]
  /\ down' = Told(c, <<[op |-> "hello", stored |-> server.stored]>>
                       \o (IF server.stored THEN <<Update(server)>> ELSE <<>>))

Handles(c) ==
  /\ conn[c] \in {"open", "registered"} /\ up[c] # <<>> /\ Len(down) < MaxWire
  /\ LET message == Head(up[c])
     IN /\ IF message.op = "hello" THEN Greets(c)
           ELSE Acts(message) /\ UNCHANGED <<conn, registry>>
        /\ refused' = IF Refused(message) THEN refused \cup {message.id} ELSE refused
  /\ up' = [up EXCEPT ![c] = Tail(@)]
  /\ UNCHANGED <<device, bounds>>

(* The end of handle_control_connection: unregister_control_client and
   clear_active_buttons, for a connection that has said hello.  What it has not read is
   lost with it. *)
Ends(c) ==
  /\ conn[c] \in {"open", "registered"}
  /\ conn' = [conn EXCEPT ![c] = "gone"]
  /\ up' = [up EXCEPT ![c] = <<>>]
  /\ registry' = IF registry = c THEN NoConn ELSE registry
  /\ IF conn[c] = "registered"
     THEN /\ server' = [server EXCEPT !.talk = FALSE, !.active = {}, !.calls = {}]
          /\ down' = Told(registry', <<Update(server')>>)
     ELSE UNCHANGED <<server, down>>
  /\ UNCHANGED <<device, refused, bounds>>

(* The admin gives the client other buttons, locks or unlocks them; a peer calls it. *)
Changes ==
  /\ Count("changes", MaxChanges) /\ Len(down) < MaxWire
  /\ \/ \E B \in Lists, lock \in BOOLEAN :
          Push([server EXCEPT !.live = TRUE, !.stored = TRUE, !.locked = lock, !.buttons = B,
                              !.active = @ \cap B])
     \/ server.live /\ \E p \in Peers : Push([server EXCEPT !.caller = p])
  /\ UNCHANGED <<device, up, conn, registry, refused>>

Next ==
  \/ \E k \in {"talk"} \cup Buttons : Key(k)
  \/ ReplyKey
  \/ \E task \in {"keys", "wifi"} : Sends(task)
  \/ WifiLost \/ Connected \/ Disconnected \/ Registers \/ Receives
  \/ \E c \in Conns : Handles(c) \/ Ends(c)
  \/ Changes

Spec == Init /\ [][Next]_vars

-----------------------------------------------------------------------------
(* Updates go to a connection that has said hello, and the Wi-Fi task sends releases. *)
TypeOK ==
  /\ held \subseteq {"talk", "reply"} \cup Buttons
  /\ config.active \subseteq config.buttons /\ config.buttons \subseteq Buttons
  /\ reply \in Peers \cup {NoUser}
  /\ registry # NoConn => conn[registry] = "registered"
  /\ \A i \in DOMAIN toSend.wifi : ~toSend.wifi[i].active
  /\ flag.hello \/ flag.startup => link # NoConn
  /\ server.locked => server.stored

(* Nothing is under way between the device and the server that has greeted it. *)
Settled ==
  /\ link # NoConn /\ registry = link
  /\ up[link] = <<>> /\ down = <<>>
  /\ toSend.keys = <<>> /\ toSend.wifi = <<>>
  /\ ~flag.hello /\ ~flag.startup

(* Once everything has arrived, the lights and the microphone of the device follow the
   server's session, whatever presses, releases by a loss of the Wi-Fi, reconnects and
   changes by others crossed each other on the way - unless the last message was lost, and
   but for the buttons that the server has refused since it last sent an update.  Those are
   locked: a client whose buttons are not locked agrees in all of them. *)
PanelAgrees ==
  Settled /\ ~lost =>
    /\ config.talk = server.talk
    /\ config.buttons = server.buttons
    /\ \A b \in Buttons \ refused : b \in config.active <=> b \in server.active
    /\ ~server.locked => refused = {}

(* A press that the server refuses changes nothing on the device.  Violated: a key acts on
   the device first, and a button that latches stays as it is there until an update. *)
RefusedIsUndone == Settled /\ ~lost => config.active = server.active

(* "Dedicated buttons do not stay active after disconnect/reconnect"
   (docs/field-testing.md): once the server has seen every earlier connection end, a
   momentary button that is active is being held. *)
ButtonsReleased ==
  Settled /\ (\A c \in Conns \ {link} : conn[c] \in {"unused", "gone"}) =>
    config.active \ Latching \subseteq held

(* A direct call to whom the reply button called ends with the button.  Violated: the
   release that a loss of the Wi-Fi sends can overtake the start that the button task is
   about to send, and the button's own release then finds no target. *)
ReplyEnds ==
  Settled /\ (\A c \in Conns \ {link} : conn[c] \in {"unused", "gone"}) =>
    (server.calls # {} => "reply" \in held)
=============================================================================
