------------------------------- MODULE MixRules -------------------------------
(***************************************************************************)
(* One tick of the mixer, after it has taken a frame from every queue and every *)
(* virtual source (module AudioPath): which frames each listener hears, and for *)
(* which reasons each of them is ducked.  The gain of a frame is the listener's *)
(* volumes times a factor for every reason.                                    *)
(*                                                                         *)
(* A frame may have waited in its queue while its talker has let go of the key:  *)
(* what is transmitted now and what the frames were sent to are independent.     *)
(***************************************************************************)
EXTENDS Integers, FiniteSets

CONSTANTS
  Users,       \* users with a session and an audio address
  Talkers,     \* those of them that talk
  Virtual,     \* a virtual source of the server
  Channels,
  Mixed,       \* AudioTarget::Mixed
  Listens,     \* [Users -> SUBSET Channels]
  Listener,    \* the user whose IFB block is configured
  Talking,     \* the sets of targets that a talker may have active
  Privileged,  \* talkers that may have priority, on all channels
  Emergencies  \* emergencies: a source, its recipients, mute_others

MixAssumption ==
  /\ Listener \in Users /\ Privileged \subseteq Talkers /\ Talkers \subseteq Users /\ Virtual \notin Users /\ Mixed \notin Users \cup Channels
  /\ Users \cap Channels = {} /\ Listens \in [Users -> SUBSET Channels]
  /\ Talking \subseteq SUBSET (Users \cup Channels)
  /\ \A e \in Emergencies : e.source \in Users /\ e.to \subseteq Users \ {e.source} /\ e.mute \in BOOLEAN

VARIABLES
  ifb,        \* Session.ifb of Listener: program, interrupt
  tx,         \* active_tx_targets of each talker
  priority,   \* talkers with priority
  calls,      \* <<caller, target>>: a call, or a held button, that ducks
  emergency,  \* ServerState.emergency, a set of at most one
  heard       \* what each listener was sent last: frames, each with the reasons to duck it

vars == <<ifb, tx, priority, calls, emergency, heard>>

Reasons == {"priority", "ifb", "direct", "emergency"}
Silence == [u \in Users |-> {}]

(* normalize_ifb_config: an interrupt channel is not a program channel as well. *)
Normalized(program, interrupt) == [program |-> program \ interrupt, interrupt |-> interrupt]

Init ==
  /\ ifb = Normalized({}, {}) /\ tx \in [Talkers -> Talking] /\ priority \in SUBSET Privileged
  /\ calls = {} /\ emergency = {} /\ heard = Silence

-----------------------------------------------------------------------------
(* build_mixes, of frames with a user, a target and, from a virtual source, flags *)

Sends(F, f) ==
  IF f.user = Virtual THEN TRUE ELSE f.target \in tx[f.user]
HasPriority(F, f) ==
  IF f.user = Virtual THEN \E g \in F : g.user = Virtual /\ g.priority /\ g.target = f.target
  ELSE f.user \in priority

OnChannel(l, f, chans) ==
  f.user # l /\ f.target \in Channels \cap chans /\ f.target \in Listens[l]

PriorityChannels(l, F) ==
  {f.target : f \in {g \in F : OnChannel(l, g, Channels) /\ Sends(F, g) /\ HasPriority(F, g)}}

Ifb(l) == IF l = Listener THEN ifb ELSE Normalized({}, {})
IfbActive(l, F) == \E f \in F : OnChannel(l, f, Ifb(l).interrupt) /\ Sends(F, f)

DirectDuck(l, F) ==
  \/ \E f \in F : f.user = Virtual /\ f.duck /\ f.target = l
  \/ \E f \in F : f.target = l /\ <<f.user, l>> \in calls

Overridden(l) == \E e \in emergency : l \in e.to

Reaches(l, F, f) ==
  /\ f.user # l
  /\ \/ f.target \in Channels \cap Listens[l] /\ Sends(F, f)
     \/ f.target = l /\ Sends(F, f)
     \/ f.target = Mixed /\ \E e \in emergency : e.source = f.user /\ l \in e.to

\* fault: what is said to the listener alone gets through
MutedButDirect(l, f) == Overridden(l) /\ f.target \notin {Mixed, l} /\ \E e \in emergency : e.mute
Muted(l, f) == Overridden(l) /\ f.target # Mixed /\ \E e \in emergency : e.mute

DuckedByPriority(l, F, f) == f.target \in PriorityChannels(l, F) /\ ~HasPriority(F, f)

Ducks(l, F, f) ==
  {r \in Reasons :
    \/ r = "priority" /\ DuckedByPriority(l, F, f)
    \/ r = "ifb" /\ IfbActive(l, F) /\ f.target \in Ifb(l).program
    \/ r = "direct" /\ DirectDuck(l, F) /\ f.target # l
    \/ r = "emergency" /\ Overridden(l) /\ f.target # Mixed}

Mix(F) ==
  /\ heard' = [l \in Users |->
       {[frame |-> f, ducks |-> Ducks(l, F, f)] : f \in {g \in F : Reaches(l, F, g) /\ ~Muted(l, g)}}]
  /\ UNCHANGED <<ifb, tx, priority, calls, emergency>>

(* What the queues can give: one frame of each user, and one of the virtual source. *)
Frame(u, target) == [user |-> u, target |-> target, priority |-> FALSE, duck |-> FALSE]
FramesOf(u) == {{}} \cup {{Frame(u, target)} : target \in (UNION Talking) \cup {Mixed}}
Announced ==
  {{}} \cup {{[user |-> Virtual, target |-> target, priority |-> p, duck |-> d]} :
               target \in Channels \cup {Listener}, p \in BOOLEAN, d \in BOOLEAN}

(* run_audio_mixer: the mixes of a tick are sent before the next tick. *)
SendMixes ==
  /\ heard # Silence /\ heard' = Silence
  /\ UNCHANGED <<ifb, tx, priority, calls, emergency>>

(* Configuration, presses and emergencies between two ticks. *)
SetIfb(program, interrupt) ==
  /\ ifb' = Normalized(program, interrupt)
  /\ UNCHANGED <<tx, priority, calls, emergency, heard>>
Talk(u, targets) ==
  /\ tx' = [tx EXCEPT ![u] = targets]
  /\ calls' = {c \in calls : c[1] # u \/ c[2] \in targets}
  /\ UNCHANGED <<ifb, priority, emergency, heard>>
Call(u, to) ==
  /\ to \in tx[u] /\ calls' = calls \cup {<<u, to>>}
  /\ UNCHANGED <<ifb, tx, priority, emergency, heard>>
Emergency(e) ==
  /\ emergency' = e
  /\ UNCHANGED <<ifb, tx, priority, calls, heard>>

Change ==
  /\ heard = Silence
  /\ \/ \E program, interrupt \in SUBSET Channels : SetIfb(program, interrupt)
     \/ \E u \in Talkers, targets \in Talking : Talk(u, targets)
     \/ \E u \in Talkers : \E to \in Users \ {u} : Call(u, to)
     \/ \E e \in {{}} \cup {{e} : e \in Emergencies} : Emergency(e)

Tick ==
  /\ heard = Silence
  /\ \E a \in Announced : \E pick \in [Talkers -> UNION {FramesOf(u) : u \in Talkers}] :
       /\ \A u \in Talkers : pick[u] \in FramesOf(u)
       /\ Mix(a \cup UNION {pick[u] : u \in Talkers})

Next == Change \/ Tick \/ SendMixes

Spec == Init /\ [][Next]_vars

-----------------------------------------------------------------------------
(* Properties. *)

Heard(l) == {h.frame : h \in heard[l]}
DuckedBy(l, r) == {h.frame : h \in {x \in heard[l] : r \in x.ducks}}

(* Every variable keeps its type; nobody hears himself. *)
TypeOK ==
  /\ ifb \in [program : SUBSET Channels, interrupt : SUBSET Channels]
  /\ tx \in [Talkers -> Talking] /\ priority \subseteq Privileged /\ calls \subseteq Users \X Users
  /\ Cardinality(emergency) <= 1
  /\ \A l \in Users : \A h \in heard[l] : h.frame.user # l /\ h.ducks \subseteq Reasons

(* "their normal audio is either ducked by `duck_gain` or muted completely when
   `mute_others` is true" (README.md:1206): who is reached by such an emergency
   hears its source alone, announcements and calls included, until it ends. *)
EmergencyAlone ==
  \A e \in emergency : e.mute =>
    \A l \in e.to : \A f \in Heard(l) : f.user = e.source /\ f.target = Mixed

(* "When interrupt audio is active for that listener, only the configured program
   channels are ducked, while the interrupt audio remains at normal channel volume"
   (README.md:117): what ducks the program is heard, and is not ducked by itself,
   whatever was configured and whoever has let go of a key since. *)
InterruptHeard ==
  \A l \in Users : \A f \in DuckedBy(l, "ifb") :
    /\ f.target \in Ifb(l).program
    /\ \E g \in Heard(l) \ DuckedBy(l, "ifb") : g.target \in Ifb(l).interrupt

(* "non-priority sources on that same channel are ducked ... for affected listeners"
   (README.md:66): a channel on which somebody is ducked has a talker who is not,
   and a talker with priority is heard over those without. *)
PriorityHeard ==
  \A l \in Users :
    /\ \A f \in DuckedBy(l, "priority") :
         \E g \in Heard(l) \ DuckedBy(l, "priority") : g.target = f.target
    /\ \A f, g \in Heard(l) :
         f.target = g.target /\ f.target \in Channels /\ g.user \in priority /\ f.user \in Talkers \ priority
           => f \in DuckedBy(l, "priority")
=============================================================================
