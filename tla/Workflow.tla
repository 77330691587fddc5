------------------------------- MODULE Workflow -------------------------------
(***************************************************************************)
(* What the admin configures: channels, presets, templates and desired clients, *)
(* by requests of the page, by buttons that an operator presses, and by the      *)
(* messages of clients.  Every way in normalizes some parts of what it is given, *)
(* a session normalizes what it runs on, and a restart normalizes all that it     *)
(* loads.  A request is one step here and always saved; what happens when saving  *)
(* fails, and between the steps of a request, is module AdminStore.               *)
(***************************************************************************)
EXTENDS Integers, Sequences, FiniteSetsExt

CONSTANTS
  Editable,   \* users, templates and channels that requests are about
  EditableTemplates,
  EditableChannels,
  Requested,  \* what requests ask for: clients, not normalized
  MaxRequests, \* bound: requests
  MaxLevel,   \* the highest gain that is allowed
  None        \* no client, no session

(* default_workflow_channels, default_workflow_presets *)
Open == 0
Program == 1
Production == 2
Referee == 3
Director == 4
Cue == 5
PA == 6
Channels == 0..7
Staff == {1, 2, 10, 20, 21, 90, 91}

VARIABLES
  channels,   \* ids with a name, and whether the name is blank
  presets,    \* presets, a function from their ids to clients
  templates,  \* templates, a function from their ids
  clients,    \* desired clients
  live,       \* what the sessions run on
  pressed,    \* a button under way: who, and the actions that are left; or none
  requests    \* requests so far

vars == <<channels, presets, templates, clients, live, pressed, requests>>

-----------------------------------------------------------------------------
(* Buttons are numbered in the order of their ids; 0 has a blank one. *)

Button(id, actions) == [id |-> id, actions |-> actions]
Transmit == [kind |-> "transmit"]
Alert == [kind |-> "alert"]
ApplyPresetOf(p) == [kind |-> "preset", preset |-> p]
SetTalkMode(users, mode) == [kind |-> "mode", users |-> users, mode |-> mode]
RouteEdit(users, listen, tx) == [kind |-> "edit", users |-> users, listen |-> listen, tx |-> tx]

Client(role, listen, tx, mode, buttons) ==
  [role |-> role, name |-> {}, listen |-> listen, tx |-> tx, mode |-> mode, buttons |-> buttons,
   ifb |-> FALSE, program |-> {}, interrupt |-> {}, talkers |-> {}, level |-> 0,
   locked |-> TRUE]

(* What a client and an action of a button may hold. *)
Routes == SUBSET Channels
RouteChange == [add : Routes, remove : Routes, toggle : Routes]
TalkModes == {"ptt", "open", "muted"}
ActionType ==
  [kind : {"transmit", "alert"}] \cup [kind : {"preset"}, preset : STRING]
    \cup [kind : {"mode"}, users : SUBSET (Staff \cup {0}), mode : TalkModes]
    \cup [kind : {"edit"}, users : SUBSET (Staff \cup {0}), listen : RouteChange, tx : RouteChange]
ClientType ==
  [role : {"client", "bridge"}, name : SUBSET {"program", "pa"}, listen : Routes, tx : Routes,
   mode : TalkModes, buttons : Seq([id : Nat, actions : Seq(ActionType)]), ifb : BOOLEAN,
   program : Routes, interrupt : Routes, talkers : SUBSET (Nat \X Nat), level : Nat,
   locked : BOOLEAN]

WorkflowAssumption ==
  /\ Editable \subseteq Staff /\ EditableChannels \subseteq Channels
  /\ Requested \subseteq ClientType /\ None \notin ClientType /\ MaxLevel \in Nat

DirectorTemplate ==
  Client("client", {Program, Production, Referee, Cue}, {Production}, "ptt",
         <<Button(5, <<Transmit>>), Button(4, <<Transmit>>), Button(3, <<Transmit>>)>>)
ProducerTemplate ==
  Client("client", {Program, Production, Cue}, {Production}, "ptt",
         <<Button(2, <<Transmit>>), Button(3, <<Transmit>>), Button(1, <<Alert>>)>>)
TalentTemplate ==
  [Client("client", {Program, Director, Cue}, {}, "muted", <<>>) EXCEPT
     !.ifb = TRUE, !.program = {Program}, !.interrupt = {Director, Cue}, !.level = 1]
RefereeTemplate ==
  Client("client", {Referee, Director}, {Referee}, "ptt",
         <<Button(2, <<Transmit>>), Button(3, <<Transmit>>), Button(1, <<Alert>>)>>)
ProgramBridgeTemplate ==
  [Client("bridge", {}, {Program}, "open", <<>>) EXCEPT !.name = {"program"}]
PaBridgeTemplate ==
  [Client("bridge", {PA}, {}, "muted", <<>>) EXCEPT !.name = {"pa"}]

DefaultTemplates == [
  director |-> DirectorTemplate, producer |-> ProducerTemplate, talent |-> TalentTemplate,
  referee |-> RefereeTemplate, program_bridge |-> ProgramBridgeTemplate,
  pa_bridge |-> PaBridgeTemplate]

NoShow == [u \in Staff |-> None]
DefaultShow ==
  [u \in Staff |->
     CASE u = 1 -> DirectorTemplate [] u = 2 -> ProducerTemplate [] u = 10 -> TalentTemplate
       [] u \in {20, 21} -> RefereeTemplate [] u = 90 -> ProgramBridgeTemplate
       [] u = 91 -> PaBridgeTemplate]

-----------------------------------------------------------------------------
(* normalize_button_configs, normalize_ifb_config, normalize_talker_volumes and
   the limits of pans and gains *)

NormalizedActions(actions) ==
  [i \in DOMAIN actions |->
     IF actions[i].kind \in {"mode", "edit"} THEN [actions[i] EXCEPT !.users = @ \ {0}] ELSE actions[i]]

Ids(buttons) == {buttons[i].id : i \in DOMAIN buttons} \ {0}
Kth(ids, k) == CHOOSE id \in ids : Cardinality({i \in ids : i <= id}) = k
First(buttons, id) == buttons[Min({i \in DOMAIN buttons : buttons[i].id = id})]
NormalizedButtons(buttons) ==
  [k \in 1..Cardinality(Ids(buttons)) |->
     LET id == Kth(Ids(buttons), k)
     IN Button(id, NormalizedActions(First(buttons, id).actions))]

Lower(level) == Min({level, MaxLevel})
NormalizedTalkers(talkers, u) == {<<g[1], Lower(g[2])>> : g \in {t \in talkers : t[1] # u}}

Normalized(c) ==
  [c EXCEPT !.buttons = NormalizedButtons(@), !.program = @ \ c.interrupt, !.level = Lower(@)]
NormalizedClient(c, u) == [Normalized(c) EXCEPT !.talkers = NormalizedTalkers(@, u)]
NormalizedTemplate(c) == [Normalized(c) EXCEPT !.talkers = {<<t[1], Lower(t[2])>> : t \in @}]

NormalizedShow(show) ==
  [u \in Staff |-> IF show[u] = None THEN None ELSE NormalizedClient(show[u], u)]

(* apply_desired_to_session_fields *)
\* fault: the session takes the gains as they are
OnSessionAsIs(c, u) == Normalized(c)
OnSession(c, u) == NormalizedClient(c, u)

(* ClientTemplateClientConfig::to_desired *)
ToDesired(c, u) == NormalizedClient(c, u)

-----------------------------------------------------------------------------
(* load_admin_state, normalize_admin_state.  What there is none of at all comes
   from the defaults. *)

DefaultChannels == [c \in Channels |-> FALSE]
LoadedChannels ==
  LET some == IF channels = <<>> THEN DefaultChannels ELSE channels
  IN [c \in DOMAIN some \cup {Open} |-> IF c = Open THEN FALSE ELSE some[c]]
DefaultPresets == [small_show_ifb |-> NormalizedShow(DefaultShow)]
LoadedPresets ==
  IF presets = <<>> THEN DefaultPresets ELSE [p \in DOMAIN presets |-> NormalizedShow(presets[p])]
LoadedTemplates ==
  IF templates = <<>> THEN [t \in DOMAIN DefaultTemplates |-> NormalizedTemplate(DefaultTemplates[t])]
  ELSE [t \in DOMAIN templates |-> NormalizedTemplate(templates[t])]
LoadedClients == NormalizedShow(clients)

NoPress == [user |-> 0, left |-> <<>>, at |-> None]

(* The server starts without a file, or with one that has little in it. *)
Init ==
  /\ channels \in {DefaultChannels, [c \in {Open} |-> FALSE]} /\ presets = DefaultPresets
  /\ templates \in {DefaultTemplates, [t \in {"pa_bridge"} |-> PaBridgeTemplate]}
  /\ clients = NoShow /\ live = NoShow /\ pressed = NoPress /\ requests = 0

Restart ==
  /\ channels' = LoadedChannels /\ presets' = LoadedPresets /\ templates' = LoadedTemplates
  /\ clients' = LoadedClients /\ live' = NoShow /\ pressed' = NoPress

-----------------------------------------------------------------------------
(* Desired clients. *)

(* desired_baseline_for_user: of a client that nobody has configured, its session. *)
NewClient == [Client("client", {Open}, {Open}, "ptt", <<>>) EXCEPT !.locked = FALSE]
Baseline(u) ==
  IF clients[u] # None THEN clients[u] ELSE IF live[u] # None THEN live[u] ELSE NewClient

(* apply_desired_client: it makes a session where there is none. *)
Applied(u, c) ==
  /\ clients' = [clients EXCEPT ![u] = c]
  /\ live' = [live EXCEPT ![u] = OnSession(c, u)]
Apply(u, c) == Applied(u, c) /\ UNCHANGED <<channels, presets, templates>>

(* put_client_handler, and a patch of everything: the gains stay as they are asked for *)
Asked(c) == Normalized(c)
PutClient(u, c) == Apply(u, Asked(c)) /\ UNCHANGED pressed
PatchRoutes(u, listen, tx) ==
  Apply(u, [Baseline(u) EXCEPT !.listen = listen, !.tx = tx]) /\ UNCHANGED pressed
DeleteClient(u) ==
  /\ clients' = [clients EXCEPT ![u] = None]
  /\ UNCHANGED <<channels, presets, templates, live, pressed>>

(* apply_control, Config: from a client that is not locked *)
ClientConfig(u, c) ==
  /\ live[u] # None /\ ~Baseline(u).locked
  /\ Apply(u, [Normalized(c) EXCEPT !.locked = FALSE])
  /\ UNCHANGED pressed

(* apply_control, Hello *)
Greeted(u) ==
  LET c == IF live[u] # None THEN live[u] ELSE NewClient
  IN IF clients[u] # None THEN OnSession(clients[u], u)
     ELSE [c EXCEPT !.listen = IF @ = {} THEN {Open} ELSE @, !.tx = IF @ = {} THEN {Open} ELSE @]
Hello(u) ==
  /\ live' = [live EXCEPT ![u] = Greeted(u)]
  /\ UNCHANGED <<channels, presets, templates, clients, pressed>>

-----------------------------------------------------------------------------
(* Presets, templates and channels. *)

PutPreset(p, show) ==
  /\ presets' = [q \in DOMAIN presets \cup {p} |-> IF q = p THEN NormalizedShow(show) ELSE presets[q]]
  /\ UNCHANGED <<channels, templates, clients, live, pressed>>
DeletePreset(p) ==
  /\ presets' = [q \in DOMAIN presets \ {p} |-> presets[q]]
  /\ UNCHANGED <<channels, templates, clients, live, pressed>>

(* apply_preset *)
PresetApplied(p) ==
  LET show == NormalizedShow(presets[p])
      has == {u \in Staff : show[u] # None}
  IN /\ clients' = [u \in Staff |-> IF u \in has THEN show[u] ELSE clients[u]]
     /\ live' = [u \in Staff |-> IF u \in has THEN OnSession(show[u], u) ELSE live[u]]
     /\ UNCHANGED <<channels, presets, templates>>
ApplyPreset(p) == p \in DOMAIN presets /\ PresetApplied(p) /\ UNCHANGED pressed

PutTemplate(t, c) ==
  /\ templates' = [s \in DOMAIN templates \cup {t} |-> IF s = t THEN NormalizedTemplate(c) ELSE templates[s]]
  /\ UNCHANGED <<channels, presets, clients, live, pressed>>
DeleteTemplate(t) ==
  /\ templates' = [s \in DOMAIN templates \ {t} |-> templates[s]]
  /\ UNCHANGED <<channels, presets, clients, live, pressed>>
ApplyTemplate(t, u) ==
  t \in DOMAIN templates /\ Apply(u, ToDesired(templates[t], u)) /\ UNCHANGED pressed

PutChannel(c, blank) ==
  /\ channels' = [d \in DOMAIN channels \cup {c} |-> IF d = c THEN blank ELSE channels[d]]
  /\ UNCHANGED <<presets, templates, clients, live, pressed>>
DeleteChannel(c) ==
  /\ channels' = [d \in DOMAIN channels \ {c} |-> channels[d]]
  /\ UNCHANGED <<presets, templates, clients, live, pressed, requests>>

-----------------------------------------------------------------------------
(* execute_button_activation_actions: one action after the other, and for each
   user that an action is about first the configuration as it is, then the
   edited one.  A failure leaves what has been done. *)

Press(u) ==
  /\ pressed = NoPress /\ live[u] # None
  /\ \E i \in DOMAIN live[u].buttons :
       pressed' = [user |-> u, left |-> live[u].buttons[i].actions, at |-> None]
  /\ UNCHANGED <<channels, presets, templates, clients, live>>

UsersOf(action) == IF action.users = {} THEN {pressed.user} ELSE action.users

Edited(routes, edit) ==
  LET kept == (routes \cup edit.add) \ edit.remove
  IN (kept \ edit.toggle) \cup (edit.toggle \ kept)

Next1 == pressed' = [pressed EXCEPT !.left = Tail(@), !.at = None]
Fails == pressed' = NoPress /\ UNCHANGED <<channels, presets, templates, clients, live>>

ReadBaseline ==
  /\ pressed.left # <<>> /\ pressed.at = None
  /\ LET a == Head(pressed.left) IN
       \/ /\ a.kind \in {"mode", "edit"}
          /\ pressed' = [pressed EXCEPT !.at =
               [todo |-> UsersOf(a), was |-> Baseline(Min(UsersOf(a)))]]
          /\ UNCHANGED <<channels, presets, templates, clients, live>>
       \/ /\ a.kind = "preset"
          /\ \/ a.preset \notin DOMAIN presets /\ Fails
             \/ a.preset \in DOMAIN presets /\ PresetApplied(a.preset) /\ Next1
       \/ /\ a.kind = "alert"
          /\ Next1 \/ Fails    \* nobody is reached
          /\ UNCHANGED <<channels, presets, templates, clients, live>>
       \/ /\ a.kind = "transmit" /\ Next1
          /\ UNCHANGED <<channels, presets, templates, clients, live>>

ApplyEdit ==
  /\ pressed.at # None
  /\ LET a == Head(pressed.left)
         u == Min(pressed.at.todo)
         was == pressed.at.was
         rest == pressed.at.todo \ {u}
     IN /\ Apply(u, IF a.kind = "mode" THEN [was EXCEPT !.mode = a.mode]
                    ELSE [was EXCEPT !.listen = Edited(@, a.listen), !.tx = Edited(@, a.tx)])
        /\ IF rest = {} THEN Next1
           ELSE pressed' = [pressed EXCEPT !.at = [todo |-> rest, was |-> Baseline(Min(rest))]]

Release ==
  /\ pressed # NoPress /\ pressed.left = <<>> /\ pressed' = NoPress
  /\ UNCHANGED <<channels, presets, templates, clients, live>>

-----------------------------------------------------------------------------
Shows == {[NoShow EXCEPT ![u] = c] : u \in Editable, c \in Requested}

Request ==
  \/ \E u \in Editable :
       \/ \E c \in Requested : PutClient(u, c) \/ ClientConfig(u, c)
       \/ PatchRoutes(u, {PA}, {PA}) \/ DeleteClient(u)
       \/ \E t \in EditableTemplates : ApplyTemplate(t, u)
  \/ \E show \in Shows : PutPreset("new", show)
  \/ \E p \in DOMAIN presets : DeletePreset(p) \/ ApplyPreset(p)
  \/ \E t \in EditableTemplates : DeleteTemplate(t) \/ \E c \in Requested : PutTemplate(t, c)
  \/ \E c \in EditableChannels : DeleteChannel(c) \/ \E blank \in BOOLEAN : PutChannel(c, blank)

Next ==
  \/ requests < MaxRequests /\ Request /\ requests' = requests + 1
  \/ /\ \/ \E u \in Editable : Hello(u) \/ Press(u)
        \/ ReadBaseline \/ ApplyEdit \/ Release \/ Restart
     /\ UNCHANGED requests

Spec == Init /\ [][Next]_vars

-----------------------------------------------------------------------------
(* workflow_validation_warnings, of one client.  name is what the name contains. *)

IsBridge(c) == c.role = "bridge"
IsProgramBridge(c) == IsBridge(c) /\ ("program" \in c.name \/ Program \in c.tx)
IsPaBridge(c) == IsBridge(c) /\ ("pa" \in c.name \/ PA \in c.listen)

Warnings(c) ==
  {w \in {"pa route", "feedback", "no program", "no interrupt", "interrupt not heard",
          "program bridge", "pa bridge", "listen-only client not locked"} :
    \/ w = "pa route" /\ PA \in c.tx /\ ~IsPaBridge(c)
    \/ w = "feedback" /\ IsBridge(c) /\ c.tx \cap c.listen # {}
    \/ w = "no program" /\ c.ifb /\ c.program = {}
    \/ w = "no interrupt" /\ c.ifb /\ c.interrupt = {}
    \/ w = "interrupt not heard" /\ c.ifb /\ ~(c.interrupt \subseteq c.listen)
    \/ w = "program bridge" /\ IsProgramBridge(c) /\ (Program \notin c.tx \/ c.mode # "open")
    \/ w = "pa bridge" /\ IsPaBridge(c) /\ (c.tx # {} \/ c.mode # "muted")
    \/ w = "listen-only client not locked" /\ c.ifb /\ c.tx = {} /\ c.mode = "muted" /\ ~c.locked}

-----------------------------------------------------------------------------
(* Properties. *)

(* Every variable keeps its type. *)
TypeOK ==
  /\ DOMAIN channels \subseteq Channels
  /\ \A u \in Staff : clients[u] # None => clients[u].listen \cup clients[u].tx \subseteq Channels
  /\ \A u \in Staff : live[u] # None => live[u].program \cap live[u].interrupt = {}

(* "Talent listen-only should be a real server config, not a UI convention"
   (docs/ifb-talent-workflows.md): a session of a configured client runs on exactly what is
   configured, by whatever request, preset, template, button or message it came,
   and however often the client has connected since. *)
SessionRunsDesired ==
  \A u \in Staff : clients[u] # None /\ live[u] # None => live[u] = NormalizedClient(clients[u], u)

(* A restart changes nothing for anybody: a client gets the session that it had,
   and a preset or template that there is does what it did. *)
RestartKeepsShow ==
  /\ \A u \in Staff : clients[u] # None =>
       LoadedClients[u] # None /\ OnSession(LoadedClients[u], u) = OnSession(clients[u], u)
  /\ \A p \in DOMAIN presets : LoadedPresets[p] = presets[p]
  /\ \A t \in DOMAIN templates, u \in Editable : ToDesired(LoadedTemplates[t], u) = ToDesired(templates[t], u)

(* "split bridge input/output aliases or use different channels to prevent feedback"
   says one of the warnings, and another that an interrupt is not listened to: a configured client of whom the page has nothing
   to say runs on no route that feeds back, and on an IFB block whose program can
   be ducked and whose interrupts can be heard. *)
QuietMeansSound ==
  \A u \in Staff : clients[u] # None /\ live[u] # None /\ Warnings(clients[u]) = {} =>
    /\ live[u].role = "bridge" => live[u].tx \cap live[u].listen = {}
    /\ live[u].ifb => live[u].program # {} /\ live[u].interrupt # {} /\ live[u].interrupt \subseteq live[u].listen

(* What has been deleted stays deleted. *)
DeletedStaysDeleted ==
  /\ DOMAIN LoadedPresets = DOMAIN presets /\ DOMAIN LoadedTemplates = DOMAIN templates
  /\ DOMAIN LoadedChannels = DOMAIN channels
=============================================================================
