-------------------------- MODULE EmergencyOverride --------------------------
(***************************************************************************)
(* The emergency override: one slot for the whole server, set by a client's  *)
(* Emergency message or by the admin API, cleared by its source, by the       *)
(* server, or when a connection of its source ends.  A handler collects the   *)
(* users to tell before it takes the slot's lock and tells them one by one     *)
(* after it has let go, while clients connect, disconnect and start or stop    *)
(* emergencies of their own.                                                  *)
(*                                                                         *)
(* A push is one step here; what happens inside a push is module ConfigPush.  *)
(* The target of an emergency is the set of users it stands for.              *)
(***************************************************************************)
EXTENDS FiniteSets

CONSTANTS
  Users,      \* clients
  Server,     \* SERVER_USER_ID
  Conns,      \* control connections ever accepted
  Requests,   \* bound: admin requests ever made
  Staged,     \* users that have a session from the start: staged by the admin
  Targets,    \* what an emergency may be aimed at: sets of users
  NoConn, None

Actors == Conns \cup Requests

EmergencyAssumption ==
  /\ Server \notin Users \cup Conns /\ None \notin Users \cup {Server} \cup Conns
  /\ NoConn \notin Conns
  /\ Conns \cap Requests = {}
  /\ Targets \subseteq SUBSET Users /\ Staged \subseteq Users

VARIABLES
  emergency,  \* the RuntimeEmergency and who set it, or NoEmergency
  conn,       \* conn[c]: phase and user of a connection
  live,       \* users with a session; sessions are never removed
  control,    \* control[u]: connection that receives u's events
  task,       \* task[a]: what actor a is in the middle of
  shown,      \* shown[c]: source of the emergency that the client on c displays
  missed      \* connections that were registered without a greeting, or that an event left
              \* out, and have been sent nothing since, for the properties

vars == <<emergency, conn, live, control, task, shown, missed>>

NoEmergency == [source |-> None, target |-> {}, by |-> None]
Task(step, source, active, target, users, present) ==
  [step |-> step, source |-> source, active |-> active, target |-> target, left |-> users,
   present |-> present]
IdleTask == Task("idle", None, FALSE, {}, {}, {})
Telling(users) == Task("tell", None, FALSE, {}, users, {})

Init ==
  /\ emergency = NoEmergency
  /\ conn = [c \in Conns |-> [phase |-> "new", user |-> None]]
  /\ live = Staged
  /\ control = [u \in Users |-> NoConn]
  /\ task = [a \in Actors |-> IdleTask]
  /\ shown = [c \in Conns |-> None]
  /\ missed = {}

-----------------------------------------------------------------------------
(* emergency_recipients_for_sessions, emergency_status_for_user *)

Recipients(e) == (e.target \cap live) \ {e.source}
Concerns(e, u) == u = e.source \/ u \in Recipients(e)
Status(u) == IF Concerns(emergency, u) THEN emergency.source ELSE None

Push(u) ==
  IF u \in Users /\ control[u] # NoConn
  THEN /\ shown' = [shown EXCEPT ![control[u]] = Status(u)]
       /\ missed' = missed \ {control[u]}
  ELSE UNCHANGED <<shown, missed>>

-----------------------------------------------------------------------------
Known(source) == source \in live

\* fault: only the recipients of the new emergency are told
AffectedRecipients(source, target) == (live \cap target) \cup {source}
Affected(source, target) == live \cup {source}

(* apply_emergency_event: the users to tell are collected; present is who had a session
   then, whoever of them is told. *)
Event(a, source, active, target) ==
  /\ task[a].step = "idle"
  /\ active => Known(source)
  /\ task' = [task EXCEPT ![a] =
       Task("slot", source, active, target, Affected(source, target), live)]
  /\ UNCHANGED <<emergency, conn, live, control, shown, missed>>

(* The slot is set or cleared, or the clear is refused: who came after the users were
   collected misses it, *)
Late(users) == {c \in Conns : conn[c].phase = "open" /\ conn[c].user \notin users}

MayClear(source) ==
  emergency # NoEmergency /\ (emergency.source = source \/ source = Server)

Slot(a) ==
  /\ task[a].step = "slot"
  /\ LET t == task[a]
         by == IF a \in Conns THEN a ELSE Server
         refused == ~t.active /\ emergency # NoEmergency /\ ~MayClear(t.source)
     IN /\ emergency' = IF t.active THEN [source |-> t.source, target |-> t.target, by |-> by]
                        ELSE IF MayClear(t.source) THEN NoEmergency ELSE emergency
        /\ task' = [task EXCEPT ![a] =
                      IF refused THEN IdleTask ELSE Telling(t.left)]
        /\ missed' = missed \cup Late(t.present)
  /\ UNCHANGED <<conn, live, control, shown>>

(* and the collected users are told. *)
Tell(a) ==
  /\ task[a].step = "tell"
  /\ \E u \in task[a].left :
       /\ Push(u)
       /\ LET t == task[a]
          IN task' = [task EXCEPT ![a] = IF t.left = {u} THEN IdleTask
                                         ELSE [t EXCEPT !.left = t.left \ {u}]]
  /\ UNCHANGED <<emergency, conn, live, control>>

-----------------------------------------------------------------------------
(* A control connection. *)

Phase(c, phase) == conn' = [conn EXCEPT ![c].phase = phase]

Hello(c, u) ==
  /\ conn[c].phase = "new"
  /\ conn' = [conn EXCEPT ![c] = [phase |-> "hello", user |-> u]]
  /\ live' = live \cup {u}
  /\ UNCHANGED <<emergency, control, task, shown, missed>>

(* Only the client that has a desired client is sent its configuration, and the
   emergency with it.  Another one learns of the emergency from the next push to its
   user: the one that answers its own configuration, if it sends one. *)
Register(c, preconfigured) ==
  /\ conn[c].phase = "hello"
  /\ control' = [control EXCEPT ![conn[c].user] = c]
  /\ Phase(c, IF preconfigured THEN "registered" ELSE "open")
  /\ missed' = IF preconfigured THEN missed ELSE missed \cup {c}
  /\ UNCHANGED <<emergency, live, task, shown>>

Greet(c) ==
  /\ conn[c].phase = "registered"
  /\ shown' = [shown EXCEPT ![c] = Status(conn[c].user)]
  /\ missed' = missed \ {c}
  /\ Phase(c, "open")
  /\ UNCHANGED <<emergency, live, control, task>>

OwnEvent(c, active, target) ==
  /\ conn[c].phase = "open"
  /\ Event(c, conn[c].user, active, target)

SocketEnds(c) ==
  /\ conn[c].phase = "open" /\ task[c].step = "idle"
  /\ control' = [control EXCEPT ![conn[c].user] = IF @ = c THEN NoConn ELSE @]
  /\ Phase(c, "closing")
  /\ missed' = missed \ {c}
  /\ UNCHANGED <<emergency, live, task, shown>>

(* clear_emergency_for_source *)
\* fault: the clean-up is left to the connection that has taken over
EndsUnlessReplaced(e, u) == e.source = u /\ control[u] = NoConn
Ends(e, u) == e.source = u

ClearForSource(c) ==
  /\ conn[c].phase = "closing"
  /\ IF Ends(emergency, conn[c].user)
     THEN /\ emergency' = NoEmergency
          /\ Phase(c, "cleared")
     ELSE /\ UNCHANGED emergency
          /\ Phase(c, "gone")
  /\ UNCHANGED <<live, control, task, shown, missed>>

(* Here the users to tell are collected after the slot was cleared. *)
TellCleared(c) ==
  /\ conn[c].phase = "cleared"
  /\ task' = [task EXCEPT ![c] = Telling(live)]
  /\ Phase(c, "gone")
  /\ UNCHANGED <<emergency, live, control, shown, missed>>

-----------------------------------------------------------------------------
(* Every other handler that changes u's session pushes to u as well. *)
OtherPush(u) ==
  /\ Push(u)
  /\ UNCHANGED <<emergency, conn, live, control, task>>

(* An admin request sends one event on behalf of a client or the server. *)
Admin(r, source, active, target) ==
  Event(r, source, active, target)

Continue(a) == Slot(a) \/ Tell(a)
CleanUp(c) == ClearForSource(c) \/ TellCleared(c)

Next ==
  \/ \E a \in Actors : Continue(a)
  \/ \E c \in Conns :
       \/ \E u \in Users : Hello(c, u)
       \/ \E preconfigured \in BOOLEAN : Register(c, preconfigured)
       \/ Greet(c) \/ SocketEnds(c) \/ CleanUp(c)
       \/ \E active \in BOOLEAN, target \in Targets : OwnEvent(c, active, target)
  \/ \E r \in Requests, s \in Users \cup {Server}, active \in BOOLEAN, target \in Targets :
       Admin(r, s, active, target)
  \/ \E u \in Users : OtherPush(u)

Spec == Init /\ [][Next]_vars

-----------------------------------------------------------------------------
(* Properties. *)

Phases == {"new", "hello", "registered", "open", "closing", "cleared", "gone"}
Sources == Users \cup {Server, None}

(* Every variable keeps its type; the slot is empty or set by an actor for a
   client with a session, since the check of the source cannot go stale. *)
TypeOK ==
  /\ emergency = NoEmergency
     \/ emergency \in [source : live, target : Targets, by : Conns \cup {Server}]
  /\ conn \in [Conns -> [phase : Phases, user : Users \cup {None}]]
  /\ live \subseteq Users
  /\ control \in [Users -> Conns \cup {NoConn}]
  /\ task \in [Actors -> [step : {"idle", "slot", "tell"}, source : Sources, active : BOOLEAN,
                          target : {{}} \cup Targets, left : SUBSET (Users \cup {Server}),
                          present : SUBSET live]]
  /\ shown \in [Conns -> Sources]
  /\ missed \subseteq Conns

(* An emergency that a client started does not outlive its connections: the
   connection it was started on is open or has yet to clear it, whoever
   replaced it in the registry. *)
NoOrphanEmergency ==
  emergency.by \in Conns => conn[emergency.by].phase \in {"open", "closing"}

Quiet ==
  /\ \A a \in Actors : task[a].step = "idle"
  /\ \A c \in Conns : conn[c].phase \in {"new", "open", "gone"}

(* With nothing under way, every registered client displays the emergency that its
   listener hears, or none, unless it was registered without a greeting, or got its
   session between the collecting of users and the slot of an event, and has been sent
   nothing since: events that overlap, connections that replace each other and clears by
   closing connections leave nobody else behind. *)
EmergencyReachesPresent ==
  Quiet => \A u \in Users :
    control[u] # NoConn => shown[control[u]] = Status(u) \/ control[u] \in missed

(* "Show source identity and active emergency state on all clients"
   (docs/ifb-talent-workflows.md:268): the same without exceptions. *)
EmergencyShownToAll ==
  Quiet => \A u \in Users : control[u] # NoConn => shown[control[u]] = Status(u)
=============================================================================
