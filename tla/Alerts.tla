------------------------------- MODULE Alerts -------------------------------
(***************************************************************************)
(* Alerts and announcements.  A handler resolves its targets to recipients     *)
(* under the session lock, takes an id without a lock, appends the alert under  *)
(* the alert lock, and then pushes to everybody concerned, one by one.  An      *)
(* announcement does so for every target and may speak in between: it starts   *)
(* virtual audio sources that the mixer plays frame by frame.                  *)
(*                                                                         *)
(* A push is one step here; what happens inside a push is module ConfigPush.   *)
(***************************************************************************)
EXTENDS Integers, Sequences, FiniteSets

LOCAL Seqs == INSTANCE SequencesExt

CONSTANTS
  Users,         \* clients with a session
  Server,        \* SERVER_USER_ID
  Tasks,         \* handlers that run at once
  Senders,       \* who sends alerts to one target, of Users and Server
  Announcements, \* the sets of targets of the admin's announcements
  Channels,
  Listens,       \* [Users -> SUBSET Channels]
  Heard,         \* users with a fresh audio endpoint, connected or not
  KeepInactive,  \* MAX_INACTIVE_ALERTS
  Stride, Count, \* 31 and TTS_SOURCE_USER_COUNT
  Frames,        \* frames of a spoken message
  MaxAlerts,     \* bound: alerts ever numbered
  MaxVoices      \* bound: spoken announcements begun

AlertAssumption ==
  /\ Server \notin Users /\ Channels \cap Users = {}
  /\ Listens \in [Users -> SUBSET Channels] /\ Heard \subseteq Users
  /\ Senders \subseteq Users \cup {Server}
  /\ Announcements \subseteq SUBSET (Users \cup Channels) /\ {} \notin Announcements
  /\ KeepInactive \in Nat /\ Frames \in Nat \ {0}
  /\ Stride \in Nat \ {0} /\ Count \in Nat \ {0}
  /\ MaxAlerts \in Nat /\ MaxVoices \in Nat

VARIABLES
  alerts,     \* ServerState.alerts, oldest first
  nextId,     \* next_alert_id
  nextVoice,  \* next_tts_id
  voices,     \* virtual_sources
  control,    \* users whose events somebody receives
  shown,      \* shown[u]: the alerts that u's client displays
  task,       \* task[t]: what a handler is in the middle of
  mute        \* ids of alerts whose announcement failed to speak

vars == <<alerts, nextId, nextVoice, voices, control, shown, task, mute>>

Targets == Users \cup Channels
IdleTask == [step |-> "idle", sender |-> Server, targets |-> <<>>, found |-> <<>>, id |-> 0,
             made |-> {}, voice |-> 0, text |-> FALSE, speak |-> FALSE, tell |-> {}]

Init ==
  /\ alerts = <<>> /\ nextId = 1 /\ nextVoice = 1 /\ voices = <<>>
  /\ control = {} /\ shown = [u \in Users |-> {}]
  /\ task = [t \in Tasks |-> IdleTask] /\ mute = {}

-----------------------------------------------------------------------------
(* RuntimeAlert: who it still waits for. *)

Open(a) == IF a.cancelled THEN {} ELSE a.rcpts \ a.acked
Inactive(a) == Open(a) = {}
ActiveFor(list, u) == {list[i].id : i \in {j \in DOMAIN list : u \in Open(list[j])}}

(* alert_statuses_for_user: what u waits for or has to answer, and how far it is.
   (Of those that u need not answer the client gets the newest twenty.) *)
Display(list, u) ==
  {[id |-> list[i].id, acked |-> list[i].acked, cancelled |-> list[i].cancelled,
    active |-> u \in Open(list[i])] :
     i \in {j \in DOMAIN list : u \in {list[j].sender} \cup list[j].rcpts}}

(* trim_alert_history: the oldest of those that wait for nobody go. *)
Trimmed(list) ==
  LET inactive == {i \in DOMAIN list : Inactive(list[i])}
      newer(i) == Cardinality({j \in inactive : j > i})
      kept == {i \in DOMAIN list : i \in inactive => newer(i) < KeepInactive}
  IN [k \in 1..Cardinality(kept) |-> list[CHOOSE i \in kept : Cardinality({j \in kept : j < i}) = k - 1]]

(* resolve_alert_recipients *)
Live(u) == u \in control \cup Heard
Recipients(sender, target) ==
  {u \in Users \ {sender} : Live(u) /\ (u = target \/ target \in Listens[u])}

Pushed(u) == IF u \in control THEN [shown EXCEPT ![u] = Display(alerts, u)] ELSE shown

-----------------------------------------------------------------------------
(* apply_send_alert_event, and an announcement with its targets in order. *)

Begin(t, sender, targets, text, speak) ==
  /\ task[t].step = "idle" /\ (text \/ speak)
  /\ nextId + Len(targets) <= MaxAlerts + 1 /\ (speak => nextVoice <= MaxVoices)
  /\ task' = [task EXCEPT ![t] = [IdleTask EXCEPT
       !.step = "resolve", !.sender = sender, !.targets = targets, !.text = text, !.speak = speak]]
  /\ UNCHANGED <<alerts, nextId, nextVoice, voices, control, shown, mute>>

SendAlert(t, sender, target) == Begin(t, sender, <<target>>, TRUE, FALSE)
Announce(t, targets, text, speak) ==
  Begin(t, Server, Seqs!SetToSeq(targets), text, speak)

(* One target after the other; a target that reaches nobody ends the handler.
   With the last, an announcement takes its number. *)
Resolve(t) ==
  /\ task[t].step = "resolve"
  /\ LET k == task[t]
         reached == Recipients(k.sender, k.targets[Len(k.found) + 1])
         all == Append(k.found, reached)
         done == Len(all) = Len(k.targets)
     IN \/ /\ reached = {}
           /\ task' = [task EXCEPT ![t] = IdleTask]
           /\ UNCHANGED nextVoice
        \/ /\ reached # {}
           /\ task' = [task EXCEPT ![t] = [k EXCEPT
                !.found = all, !.tell = @ \cup reached \cup {k.sender},
                !.voice = IF done /\ k.speak THEN nextVoice ELSE 0,
                !.step = IF ~done THEN "resolve" ELSE IF k.text THEN "number" ELSE "speak"]]
           /\ nextVoice' = IF done /\ k.speak THEN nextVoice + 1 ELSE nextVoice
  /\ UNCHANGED <<alerts, nextId, voices, control, shown, mute>>

(* create_runtime_alert: the id first, *)
Number(t) ==
  /\ task[t].step = "number" /\ nextId <= MaxAlerts
  /\ task' = [task EXCEPT ![t].step = "create", ![t].id = nextId]
  /\ nextId' = nextId + 1
  /\ UNCHANGED <<alerts, nextVoice, voices, control, shown, mute>>

(* then the alert.  Of the targets, those that are left to create are the last. *)
Create(t) ==
  /\ task[t].step = "create"
  /\ LET k == task[t]
         alert == [id |-> k.id, sender |-> k.sender, rcpts |-> Head(k.found), acked |-> {},
                   cancelled |-> FALSE]
         rest == Tail(k.found)
     IN /\ alerts' = Trimmed(Append(alerts, alert))
        /\ task' = [task EXCEPT ![t].found = rest, ![t].made = @ \cup {k.id},
                      ![t].step = IF rest # <<>> THEN "number" ELSE IF k.speak THEN "speak" ELSE "tell"]
  /\ UNCHANGED <<nextId, nextVoice, voices, control, shown, mute>>

(* synthesize_tts_audio: a failure leaves the handler at once.  The alerts that it
   has created are there, and nobody has been told of them. *)
SpeechFails(t) ==
  /\ task[t].step = "speak"
  /\ mute' = mute \cup task[t].made
  /\ task' = [task EXCEPT ![t] = IdleTask]
  /\ UNCHANGED <<alerts, nextId, nextVoice, voices, control, shown>>

(* tts_source_user_id *)
Source(voice, index) == (voice * Stride + index) % Count

(* start_tts_source, once for each target *)
Speak(t) ==
  /\ task[t].step = "speak"
  /\ voices' = voices \o [i \in DOMAIN task[t].targets |->
       [source |-> Source(task[t].voice, i - 1), target |-> task[t].targets[i], left |-> Frames]]
  /\ task' = [task EXCEPT ![t].step = "tell"]
  /\ UNCHANGED <<alerts, nextId, nextVoice, control, shown, mute>>

(* push_config_update for each of those concerned, in some fixed order *)
Tell(t) ==
  /\ task[t].step = "tell"
  /\ LET u == CHOOSE v \in task[t].tell : TRUE IN
       /\ shown' = IF u \in Users THEN Pushed(u) ELSE shown
       /\ task' = [task EXCEPT ![t] = IF @.tell = {u} THEN IdleTask ELSE [task[t] EXCEPT !.tell = @ \ {u}]]
  /\ UNCHANGED <<alerts, nextId, nextVoice, voices, control, mute>>

-----------------------------------------------------------------------------
(* apply_ack_alert_event, apply_cancel_alert_event *)

\* fault: an answer is told to the one who gave it
ToldOfAnswer(alert, u) == {u}
ToldOf(alert, u) == {u, alert.sender}

Ack(t, u, i) ==
  /\ task[t].step = "idle" /\ u \in control /\ u \in alerts[i].rcpts
  /\ alerts' = Trimmed([alerts EXCEPT ![i].acked = @ \cup {u}])
  /\ task' = [task EXCEPT ![t] = [IdleTask EXCEPT !.step = "tell", !.tell = ToldOf(alerts[i], u)]]
  /\ UNCHANGED <<nextId, nextVoice, voices, control, shown, mute>>

Concerned(alert) == {alert.sender} \cup alert.rcpts

Cancel(t, u, i) ==
  /\ task[t].step = "idle" /\ u \in {Server, alerts[i].sender}
  /\ alerts' = Trimmed([alerts EXCEPT ![i].cancelled = TRUE])
  /\ task' = [task EXCEPT ![t] = [IdleTask EXCEPT !.step = "tell", !.tell = Concerned(alerts[i])]]
  /\ UNCHANGED <<nextId, nextVoice, voices, control, shown, mute>>

-----------------------------------------------------------------------------
(* A client connects, is registered and greeted, and leaves. *)

Connect(u) ==
  /\ u \notin control
  /\ control' = control \cup {u}
  /\ shown' = [shown EXCEPT ![u] = Display(alerts, u)]
  /\ UNCHANGED <<alerts, nextId, nextVoice, voices, task, mute>>

Leave(u) ==
  /\ u \in control
  /\ control' = control \ {u}
  /\ shown' = [shown EXCEPT ![u] = {}]
  /\ UNCHANGED <<alerts, nextId, nextVoice, voices, task, mute>>

(* build_mixes: every virtual source gives a frame, and goes with its last. *)
PlayVoices ==
  /\ voices # <<>>
  /\ voices' = SelectSeq([i \in DOMAIN voices |-> [voices[i] EXCEPT !.left = @ - 1]],
                         LAMBDA v : v.left > 0)
  /\ UNCHANGED <<alerts, nextId, nextVoice, control, shown, task, mute>>

Continue(t) ==
  Resolve(t) \/ Number(t) \/ Create(t) \/ SpeechFails(t) \/ Speak(t) \/ Tell(t)

Next ==
  \/ \E t \in Tasks :
       \/ Continue(t)
       \/ \E sender \in Senders, target \in Targets : SendAlert(t, sender, target)
       \/ \E targets \in Announcements, text, speak \in BOOLEAN : Announce(t, targets, text, speak)
       \/ \E i \in DOMAIN alerts, u \in Users : Ack(t, u, i)
       \/ \E i \in DOMAIN alerts, u \in Users \cup {Server} : Cancel(t, u, i)
  \/ \E u \in Users : Connect(u) \/ Leave(u)
  \/ PlayVoices

Spec == Init /\ [][Next]_vars

-----------------------------------------------------------------------------
(* Properties. *)

(* Every variable keeps its type; what the list keeps of the past is bounded. *)
TypeOK ==
  /\ \A i \in DOMAIN alerts :
       alerts[i] \in [id : 1..MaxAlerts, sender : Users \cup {Server}, rcpts : SUBSET Users,
                      acked : SUBSET Users, cancelled : BOOLEAN]
  /\ Cardinality({i \in DOMAIN alerts : Inactive(alerts[i])}) <= KeepInactive
  /\ control \subseteq Users
  /\ \A u \in Users : shown[u] \subseteq [id : 1..MaxAlerts, acked : SUBSET Users,
                                         cancelled : BOOLEAN, active : BOOLEAN]
  /\ nextId \in 1..(MaxAlerts + 1) /\ nextVoice \in Nat

Telling(u) == \E t \in Tasks : u \in task[t].tell

(* "visible call alerts to a user or live listeners of a channel"
   (docs/ifb-talent-workflows.md): a connected client for which no push is due
   displays exactly the alerts that wait for its answer, however handlers,
   answers, cancellations, trimming and reconnects interleave.  Left out are
   those of an announcement that failed to speak, of which nobody is told. *)
AlertShown ==
  \A u \in control : ~Telling(u) => {d.id : d \in {e \in shown[u] : e.active}} \ mute = ActiveFor(alerts, u) \ mute

(* Who sent an alert sees who has acknowledged it and whether it was cancelled, as
   soon as no push is due. *)
SenderInformed ==
  \A i \in DOMAIN alerts : LET a == alerts[i] IN
    a.sender \in control /\ ~Telling(a.sender) /\ a.id \notin mute
      => \E d \in shown[a.sender] : d.id = a.id /\ d.acked = a.acked /\ d.cancelled = a.cancelled

(* The admin's request answers with the newest alert of the list: it is the one
   the request created. *)
AnswersWithOwn ==
  \A t \in Tasks :
    task[t].step = "tell" /\ task[t].targets # <<>> /\ task[t].text
      => alerts # <<>> /\ alerts[Len(alerts)].id = task[t].id

(* No two announcements that are on air share a virtual source: the mixer merges
   the routes of equal ids. *)
VoicesApart ==
  \A i, j \in DOMAIN voices : i # j => voices[i].source # voices[j].source
=============================================================================
