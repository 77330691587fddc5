--------------------------- MODULE ServerPartsProofs ---------------------------
(***************************************************************************)
(* Proofs about the parts of the server that ServerParts puts side by side,    *)
(* for any values of their constants.  The locks have LockOrderProofs.         *)
(***************************************************************************)
EXTENDS ServerParts, TLAPS, FiniteSetTheorems

-----------------------------------------------------------------------------
(* A step of the composition is a step of its part, or leaves its variables alone. *)
LEMMA PartsStep ==
  ASSUME [PartsNext]_partVars
  PROVE  /\ part' = part
         /\ part = "alerts" => [A!Next]_alertVars
         /\ part = "recording" => [R!Next]_recordingVars
         /\ part = "workflow" => [W!Next]_workflowVars
         /\ part = "calls" => [C!Next]_callVars
         /\ part = "emergency" => [E!Next]_emergencyVars
         /\ part = "enrollment" => [N!Next]_enrollmentVars
BY DEF PartsNext, partVars

-----------------------------------------------------------------------------
(* EMERGENCIES. *)
(* The invariant. *)

(* An event is an open connection's own, or a request's, until it reaches the
   slot, and what a connection put there is its user's. *)
EventsRight ==
  \A a \in E!Actors : task[a].step = "slot" =>
    /\ task[a].target \in EmergencyTargets
    /\ task[a].active => task[a].source \in live
    /\ a \in EmergencyConns => conn[a].phase = "open" /\ task[a].source = conn[a].user
SlotRight == emergency.by \in EmergencyConns => emergency.source = conn[emergency.by].user

(* A connection has a user with a session from its hello on; who is registered is a connection
   of that user that has not ended. *)
OwnRegistered ==
  \A u \in EmergencyUsers : control[u] # NoConn =>
    conn[control[u]].user = u /\ conn[control[u]].phase \in {"registered", "open"}
HelloNamesUser == \A c \in EmergencyConns : conn[c].phase # "new" => conn[c].user \in live

EmergencyInv ==
  E!TypeOK /\ EventsRight /\ SlotRight /\ E!NoOrphanEmergency /\ OwnRegistered /\ HelloNamesUser

(* A client that does not display the emergency has yet to be greeted, or is
   among those that somebody has yet to tell, or will be, or has missed an event. *)
Told(u, c) ==
  \/ shown[c] = E!Status(u)
  \/ conn[c].phase = "registered"
  \/ c \in missed
  \/ \E a \in E!Actors : task[a].step = "tell" /\ u \in task[a].left
  \/ \E d \in EmergencyConns : conn[d].phase = "cleared"
ToldToAll == \A u \in EmergencyUsers : control[u] # NoConn => Told(u, control[u])

(* An event will tell everybody who had a session when it collected the users. *)
PresentTold == \A a \in E!Actors : task[a].step = "slot" => task[a].present \subseteq task[a].left
ShownInv == EmergencyInv /\ PresentTold /\ ToldToAll

-----------------------------------------------------------------------------
(* The safety half, one lemma per action. *)

LEMMA EmergencyInit == ASSUME E!EmergencyAssumption, E!Init PROVE EmergencyInv
<1> USE E!EmergencyAssumption, E!Init DEF E!EmergencyAssumption, E!Init, E!NoEmergency, E!IdleTask, E!Task, E!Actors
<1>1. E!TypeOK
  BY DEF E!TypeOK, E!Phases, E!Sources
<1>2. EventsRight
  BY DEF EventsRight
<1>3. SlotRight
  BY DEF SlotRight
<1>4. E!NoOrphanEmergency
  BY DEF E!NoOrphanEmergency
<1>5. OwnRegistered
  BY DEF OwnRegistered
<1>6. HelloNamesUser
  BY DEF HelloNamesUser
<1> QED  BY <1>1, <1>2, <1>3, <1>4, <1>5, <1>6 DEF EmergencyInv

LEMMA EventSafe ==
  ASSUME E!EmergencyAssumption, EmergencyInv,
         NEW a \in E!Actors,
         NEW source \in EmergencyUsers \cup {Server},
         NEW isOn \in BOOLEAN,
         NEW target \in EmergencyTargets,
         a \in EmergencyConns => conn[a].phase = "open" /\ source = conn[a].user,
         E!Event(a, source, isOn, target)
  PROVE  EmergencyInv'
<1> USE DEF E!EmergencyAssumption, EmergencyInv, E!Actors, E!Event, E!Known, E!Affected
<1>1. E!TypeOK'
  BY DEF E!TypeOK, E!Phases, E!Sources, E!NoEmergency, E!IdleTask, E!Telling, E!Task, SlotRight, EventsRight, HelloNamesUser, OwnRegistered, E!NoOrphanEmergency
<1>2. EventsRight'
  BY DEF E!TypeOK, E!Phases, E!Sources, EventsRight, E!NoEmergency, E!IdleTask, E!Telling, E!Task, SlotRight, EventsRight, HelloNamesUser, OwnRegistered, E!NoOrphanEmergency
<1>3. SlotRight'
  BY DEF E!TypeOK, E!Phases, E!Sources, SlotRight, E!NoEmergency, E!IdleTask, E!Telling, E!Task, SlotRight, EventsRight, HelloNamesUser, OwnRegistered, E!NoOrphanEmergency
<1>4. E!NoOrphanEmergency'
  BY DEF E!TypeOK, E!Phases, E!Sources, E!NoOrphanEmergency, E!NoEmergency, E!IdleTask, E!Telling, E!Task, SlotRight, EventsRight, HelloNamesUser, OwnRegistered, E!NoOrphanEmergency
<1>5. OwnRegistered'
  BY DEF E!TypeOK, E!Phases, E!Sources, OwnRegistered, E!NoEmergency, E!IdleTask, E!Telling, E!Task, SlotRight, EventsRight, HelloNamesUser, OwnRegistered, E!NoOrphanEmergency
<1>6. HelloNamesUser'
  BY DEF E!TypeOK, E!Phases, E!Sources, HelloNamesUser, E!NoEmergency, E!IdleTask, E!Telling, E!Task, SlotRight, EventsRight, HelloNamesUser, OwnRegistered, E!NoOrphanEmergency
<1> QED  BY <1>1, <1>2, <1>3, <1>4, <1>5, <1>6

LEMMA SlotSafe ==
  ASSUME E!EmergencyAssumption, EmergencyInv,
         NEW a \in E!Actors,
         E!Slot(a)
  PROVE  EmergencyInv'
<1> USE DEF E!EmergencyAssumption, EmergencyInv, E!Actors, E!Slot, E!MayClear, E!Late
<1>t. task' \in [E!Actors -> [step : {"idle", "slot", "tell"}, source : E!Sources, active : BOOLEAN,
                   target : {{}} \cup EmergencyTargets, left : SUBSET (EmergencyUsers \cup {Server}),
                     present : SUBSET live]]
  BY DEF E!TypeOK, E!Phases, E!Sources, E!NoEmergency, E!IdleTask, E!Telling, E!Task
<1>f. task[a].active => emergency' \in [source : live, target : EmergencyTargets, by : EmergencyConns \cup {Server}]
  BY DEF E!TypeOK, EventsRight
<1>e. \/ emergency' = E!NoEmergency
      \/ emergency' \in [source : live, target : EmergencyTargets, by : EmergencyConns \cup {Server}]
  BY <1>f DEF E!TypeOK
<1>1. E!TypeOK'
  BY <1>t, <1>e DEF E!TypeOK, E!Phases, E!NoEmergency
<1>2. EventsRight'
  BY DEF E!TypeOK, E!Phases, E!Sources, EventsRight, E!NoEmergency, E!IdleTask, E!Telling, E!Task, SlotRight, EventsRight, HelloNamesUser, OwnRegistered, E!NoOrphanEmergency
<1>3. SlotRight'
  BY DEF E!TypeOK, E!Phases, E!Sources, SlotRight, E!NoEmergency, E!IdleTask, E!Telling, E!Task, SlotRight, EventsRight, HelloNamesUser, OwnRegistered, E!NoOrphanEmergency
<1>4. E!NoOrphanEmergency'
  BY DEF E!TypeOK, E!Phases, E!Sources, E!NoOrphanEmergency, E!NoEmergency, E!IdleTask, E!Telling, E!Task, SlotRight, EventsRight, HelloNamesUser, OwnRegistered, E!NoOrphanEmergency
<1>5. OwnRegistered'
  BY DEF E!TypeOK, E!Phases, E!Sources, OwnRegistered, E!NoEmergency, E!IdleTask, E!Telling, E!Task, SlotRight, EventsRight, HelloNamesUser, OwnRegistered, E!NoOrphanEmergency
<1>6. HelloNamesUser'
  BY DEF E!TypeOK, E!Phases, E!Sources, HelloNamesUser, E!NoEmergency, E!IdleTask, E!Telling, E!Task, SlotRight, EventsRight, HelloNamesUser, OwnRegistered, E!NoOrphanEmergency
<1> QED  BY <1>1, <1>2, <1>3, <1>4, <1>5, <1>6

LEMMA TellSafe ==
  ASSUME E!EmergencyAssumption, EmergencyInv,
         NEW a \in E!Actors,
         E!Tell(a)
  PROVE  EmergencyInv'
<1> USE DEF E!EmergencyAssumption, EmergencyInv, E!Actors, E!Tell, E!Push, E!Status, E!Concerns, E!Recipients
<1>1. PICK u \in task[a].left :
         /\ E!Push(u)
         /\ task' = [task EXCEPT ![a] = IF task[a].left = {u} THEN E!IdleTask
                                        ELSE [task[a] EXCEPT !.left = task[a].left \ {u}]]
  OBVIOUS
<1>a. E!Status(u) \in E!Sources
  BY DEF E!TypeOK, E!Phases, E!Sources, E!NoEmergency, E!IdleTask, E!Telling, E!Task
<1>b. shown' \in [EmergencyConns -> E!Sources]
  BY <1>a, <1>1 DEF E!TypeOK, E!Phases
<1> DEFINE TaskTypes == [step : {"idle", "slot", "tell"}, source : E!Sources, active : BOOLEAN,
                     target : {{}} \cup EmergencyTargets, left : SUBSET (EmergencyUsers \cup {Server}),
                     present : SUBSET live]
<1>c. task \in [E!Actors -> TaskTypes] /\ E!IdleTask \in TaskTypes
  BY DEF E!TypeOK, E!IdleTask, E!Task, E!Sources
<1>d. [task[a] EXCEPT !.left = task[a].left \ {u}] \in TaskTypes
  BY <1>c
<1>t. task' \in [E!Actors -> TaskTypes]
  <2>1. CASE task[a].left = {u}
    <3>1. task' = [task EXCEPT ![a] = E!IdleTask]
      BY <1>1, <2>1
    <3> HIDE DEF TaskTypes
    <3> QED  BY <3>1, <1>c
  <2>2. CASE task[a].left # {u}
    <3>1. task' = [task EXCEPT ![a] = [task[a] EXCEPT !.left = task[a].left \ {u}]]
      BY <1>1, <2>2
    <3> HIDE DEF TaskTypes
    <3> QED  BY <3>1, <1>c, <1>d
  <2> QED  BY <2>1, <2>2
<1>u. E!TypeOK'
  BY <1>b, <1>t DEF E!TypeOK, E!Phases, E!NoEmergency
<1>2. EventsRight'
  BY DEF E!TypeOK, E!Phases, E!Sources, EventsRight, E!NoEmergency, E!IdleTask, E!Telling, E!Task, SlotRight, EventsRight, HelloNamesUser, OwnRegistered, E!NoOrphanEmergency
<1>3. SlotRight'
  BY DEF E!TypeOK, E!Phases, E!Sources, SlotRight, E!NoEmergency, E!IdleTask, E!Telling, E!Task, SlotRight, EventsRight, HelloNamesUser, OwnRegistered, E!NoOrphanEmergency
<1>4. E!NoOrphanEmergency'
  BY DEF E!TypeOK, E!Phases, E!Sources, E!NoOrphanEmergency, E!NoEmergency, E!IdleTask, E!Telling, E!Task, SlotRight, EventsRight, HelloNamesUser, OwnRegistered, E!NoOrphanEmergency
<1>5. OwnRegistered'
  BY DEF E!TypeOK, E!Phases, E!Sources, OwnRegistered, E!NoEmergency, E!IdleTask, E!Telling, E!Task, SlotRight, EventsRight, HelloNamesUser, OwnRegistered, E!NoOrphanEmergency
<1>6. HelloNamesUser'
  BY DEF E!TypeOK, E!Phases, E!Sources, HelloNamesUser, E!NoEmergency, E!IdleTask, E!Telling, E!Task, SlotRight, EventsRight, HelloNamesUser, OwnRegistered, E!NoOrphanEmergency
<1> QED  BY <1>u, <1>2, <1>3, <1>4, <1>5, <1>6

LEMMA HelloSafe ==
  ASSUME E!EmergencyAssumption, EmergencyInv,
         NEW c \in EmergencyConns,
         NEW u \in EmergencyUsers,
         E!Hello(c, u)
  PROVE  EmergencyInv'
<1> USE DEF E!EmergencyAssumption, EmergencyInv, E!Actors, E!Hello
<1>1. E!TypeOK'
  BY DEF E!TypeOK, E!Phases, E!Sources, E!NoEmergency, E!IdleTask, E!Telling, E!Task, SlotRight, EventsRight, HelloNamesUser, OwnRegistered, E!NoOrphanEmergency
<1>2. EventsRight'
  BY DEF E!TypeOK, E!Phases, E!Sources, EventsRight, E!NoEmergency, E!IdleTask, E!Telling, E!Task, SlotRight, EventsRight, HelloNamesUser, OwnRegistered, E!NoOrphanEmergency
<1>3. SlotRight'
  BY DEF E!TypeOK, E!Phases, E!Sources, SlotRight, E!NoEmergency, E!IdleTask, E!Telling, E!Task, SlotRight, EventsRight, HelloNamesUser, OwnRegistered, E!NoOrphanEmergency
<1>4. E!NoOrphanEmergency'
  BY DEF E!TypeOK, E!Phases, E!Sources, E!NoOrphanEmergency, E!NoEmergency, E!IdleTask, E!Telling, E!Task, SlotRight, EventsRight, HelloNamesUser, OwnRegistered, E!NoOrphanEmergency
<1>5. OwnRegistered'
  BY DEF E!TypeOK, E!Phases, E!Sources, OwnRegistered, E!NoEmergency, E!IdleTask, E!Telling, E!Task, SlotRight, EventsRight, HelloNamesUser, OwnRegistered, E!NoOrphanEmergency
<1>6. HelloNamesUser'
  BY DEF E!TypeOK, E!Phases, E!Sources, HelloNamesUser, E!NoEmergency, E!IdleTask, E!Telling, E!Task, SlotRight, EventsRight, HelloNamesUser, OwnRegistered, E!NoOrphanEmergency
<1> QED  BY <1>1, <1>2, <1>3, <1>4, <1>5, <1>6

LEMMA RegisterSafe ==
  ASSUME E!EmergencyAssumption, EmergencyInv,
         NEW c \in EmergencyConns,
         NEW preconfigured \in BOOLEAN,
         E!Register(c, preconfigured)
  PROVE  EmergencyInv'
<1> USE DEF E!EmergencyAssumption, EmergencyInv, E!Actors, E!Register, E!Phase
<1>1. E!TypeOK'
  BY DEF E!TypeOK, E!Phases, E!Sources, E!NoEmergency, E!IdleTask, E!Telling, E!Task, SlotRight, EventsRight, HelloNamesUser, OwnRegistered, E!NoOrphanEmergency
<1>2. EventsRight'
  BY DEF E!TypeOK, E!Phases, E!Sources, EventsRight, E!NoEmergency, E!IdleTask, E!Telling, E!Task, SlotRight, EventsRight, HelloNamesUser, OwnRegistered, E!NoOrphanEmergency
<1>3. SlotRight'
  BY DEF E!TypeOK, E!Phases, E!Sources, SlotRight, E!NoEmergency, E!IdleTask, E!Telling, E!Task, SlotRight, EventsRight, HelloNamesUser, OwnRegistered, E!NoOrphanEmergency
<1>4. E!NoOrphanEmergency'
  BY DEF E!TypeOK, E!Phases, E!Sources, E!NoOrphanEmergency, E!NoEmergency, E!IdleTask, E!Telling, E!Task, SlotRight, EventsRight, HelloNamesUser, OwnRegistered, E!NoOrphanEmergency
<1>5. OwnRegistered'
  BY DEF E!TypeOK, E!Phases, E!Sources, OwnRegistered, E!NoEmergency, E!IdleTask, E!Telling, E!Task, SlotRight, EventsRight, HelloNamesUser, OwnRegistered, E!NoOrphanEmergency
<1>6. HelloNamesUser'
  BY DEF E!TypeOK, E!Phases, E!Sources, HelloNamesUser, E!NoEmergency, E!IdleTask, E!Telling, E!Task, SlotRight, EventsRight, HelloNamesUser, OwnRegistered, E!NoOrphanEmergency
<1> QED  BY <1>1, <1>2, <1>3, <1>4, <1>5, <1>6

LEMMA GreetSafe ==
  ASSUME E!EmergencyAssumption, EmergencyInv,
         NEW c \in EmergencyConns,
         E!Greet(c)
  PROVE  EmergencyInv'
<1> USE DEF E!EmergencyAssumption, EmergencyInv, E!Actors, E!Greet, E!Phase, E!Status, E!Concerns, E!Recipients
<1>1. E!TypeOK'
  BY DEF E!TypeOK, E!Phases, E!Sources, E!NoEmergency, E!IdleTask, E!Telling, E!Task, SlotRight, EventsRight, HelloNamesUser, OwnRegistered, E!NoOrphanEmergency
<1>2. EventsRight'
  BY DEF E!TypeOK, E!Phases, E!Sources, EventsRight, E!NoEmergency, E!IdleTask, E!Telling, E!Task, SlotRight, EventsRight, HelloNamesUser, OwnRegistered, E!NoOrphanEmergency
<1>3. SlotRight'
  BY DEF E!TypeOK, E!Phases, E!Sources, SlotRight, E!NoEmergency, E!IdleTask, E!Telling, E!Task, SlotRight, EventsRight, HelloNamesUser, OwnRegistered, E!NoOrphanEmergency
<1>4. E!NoOrphanEmergency'
  BY DEF E!TypeOK, E!Phases, E!Sources, E!NoOrphanEmergency, E!NoEmergency, E!IdleTask, E!Telling, E!Task, SlotRight, EventsRight, HelloNamesUser, OwnRegistered, E!NoOrphanEmergency
<1>5. OwnRegistered'
  BY DEF E!TypeOK, E!Phases, E!Sources, OwnRegistered, E!NoEmergency, E!IdleTask, E!Telling, E!Task, SlotRight, EventsRight, HelloNamesUser, OwnRegistered, E!NoOrphanEmergency
<1>6. HelloNamesUser'
  BY DEF E!TypeOK, E!Phases, E!Sources, HelloNamesUser, E!NoEmergency, E!IdleTask, E!Telling, E!Task, SlotRight, EventsRight, HelloNamesUser, OwnRegistered, E!NoOrphanEmergency
<1> QED  BY <1>1, <1>2, <1>3, <1>4, <1>5, <1>6

LEMMA SocketEndsSafe ==
  ASSUME E!EmergencyAssumption, EmergencyInv,
         NEW c \in EmergencyConns,
         E!SocketEnds(c)
  PROVE  EmergencyInv'
<1> USE DEF E!EmergencyAssumption, EmergencyInv, E!Actors, E!SocketEnds, E!Phase
<1>1. E!TypeOK'
  BY DEF E!TypeOK, E!Phases, E!Sources, E!NoEmergency, E!IdleTask, E!Telling, E!Task, SlotRight, EventsRight, HelloNamesUser, OwnRegistered, E!NoOrphanEmergency
<1>2. EventsRight'
  BY DEF E!TypeOK, E!Phases, E!Sources, EventsRight, E!NoEmergency, E!IdleTask, E!Telling, E!Task, SlotRight, EventsRight, HelloNamesUser, OwnRegistered, E!NoOrphanEmergency
<1>3. SlotRight'
  BY DEF E!TypeOK, E!Phases, E!Sources, SlotRight, E!NoEmergency, E!IdleTask, E!Telling, E!Task, SlotRight, EventsRight, HelloNamesUser, OwnRegistered, E!NoOrphanEmergency
<1>4. E!NoOrphanEmergency'
  BY DEF E!TypeOK, E!Phases, E!Sources, E!NoOrphanEmergency, E!NoEmergency, E!IdleTask, E!Telling, E!Task, SlotRight, EventsRight, HelloNamesUser, OwnRegistered, E!NoOrphanEmergency
<1>5. OwnRegistered'
  BY DEF E!TypeOK, E!Phases, E!Sources, OwnRegistered, E!NoEmergency, E!IdleTask, E!Telling, E!Task, SlotRight, EventsRight, HelloNamesUser, OwnRegistered, E!NoOrphanEmergency
<1>6. HelloNamesUser'
  BY DEF E!TypeOK, E!Phases, E!Sources, HelloNamesUser, E!NoEmergency, E!IdleTask, E!Telling, E!Task, SlotRight, EventsRight, HelloNamesUser, OwnRegistered, E!NoOrphanEmergency
<1> QED  BY <1>1, <1>2, <1>3, <1>4, <1>5, <1>6

LEMMA ClearSafe ==
  ASSUME E!EmergencyAssumption, EmergencyInv,
         NEW c \in EmergencyConns,
         E!ClearForSource(c)
  PROVE  EmergencyInv'
<1> USE DEF E!EmergencyAssumption, EmergencyInv, E!Actors
<1>e. \/ /\ emergency' = E!NoEmergency /\ emergency.source = conn[c].user
         /\ conn' = [conn EXCEPT ![c].phase = "cleared"]
      \/ /\ emergency' = emergency /\ emergency.source # conn[c].user
         /\ conn' = [conn EXCEPT ![c].phase = "gone"]
  BY DEF E!ClearForSource, E!Phase, E!Ends
<1>u. UNCHANGED <<live, control, task, shown, missed>> /\ conn[c].phase = "closing"
  BY DEF E!ClearForSource
<1> DEFINE ConnIs(phase) == conn' = [conn EXCEPT ![c].phase = phase]
<1>c. /\ conn' \in [EmergencyConns -> [phase : E!Phases, user : EmergencyUsers \cup {None}]]
      /\ \A d \in EmergencyConns : conn'[d].user = conn[d].user
      /\ \A d \in EmergencyConns : d # c => conn'[d].phase = conn[d].phase
      /\ conn'[c].phase \in {"cleared", "gone"}
  <2>1. CASE ConnIs("cleared")
    BY <2>1 DEF E!TypeOK, E!Phases
  <2>2. CASE ConnIs("gone")
    BY <2>2 DEF E!TypeOK, E!Phases
  <2> QED  BY <2>1, <2>2, <1>e
<1>1. E!TypeOK'
  BY <1>c, <1>e, <1>u DEF E!TypeOK
<1>2. EventsRight'
  BY <1>c, <1>u, ZenonT(60) DEF E!TypeOK, EventsRight
<1>3. SlotRight'
  BY <1>c, <1>e DEF E!TypeOK, SlotRight, E!NoEmergency
<1>4. E!NoOrphanEmergency'
  <2>1. CASE emergency' = E!NoEmergency
    BY <2>1 DEF E!NoOrphanEmergency, E!NoEmergency
  <2>2. CASE emergency' = emergency /\ emergency.source # conn[c].user
    BY <2>2, <1>c DEF E!NoOrphanEmergency, SlotRight
  <2> QED  BY <2>1, <2>2, <1>e
<1>5. OwnRegistered'
  BY <1>c, <1>u DEF E!TypeOK, OwnRegistered
<1>6. HelloNamesUser'
  BY <1>c, <1>u DEF E!TypeOK, HelloNamesUser
<1> QED  BY <1>1, <1>2, <1>3, <1>4, <1>5, <1>6

LEMMA TellClearedSafe ==
  ASSUME E!EmergencyAssumption, EmergencyInv,
         NEW c \in EmergencyConns,
         E!TellCleared(c)
  PROVE  EmergencyInv'
<1> USE DEF E!EmergencyAssumption, EmergencyInv, E!Actors, E!TellCleared, E!Phase
<1>1. E!TypeOK'
  BY DEF E!TypeOK, E!Phases, E!Sources, E!NoEmergency, E!IdleTask, E!Telling, E!Task, SlotRight, EventsRight, HelloNamesUser, OwnRegistered, E!NoOrphanEmergency
<1>2. EventsRight'
  BY DEF E!TypeOK, E!Phases, E!Sources, EventsRight, E!NoEmergency, E!IdleTask, E!Telling, E!Task, SlotRight, EventsRight, HelloNamesUser, OwnRegistered, E!NoOrphanEmergency
<1>3. SlotRight'
  BY DEF E!TypeOK, E!Phases, E!Sources, SlotRight, E!NoEmergency, E!IdleTask, E!Telling, E!Task, SlotRight, EventsRight, HelloNamesUser, OwnRegistered, E!NoOrphanEmergency
<1>4. E!NoOrphanEmergency'
  BY DEF E!TypeOK, E!Phases, E!Sources, E!NoOrphanEmergency, E!NoEmergency, E!IdleTask, E!Telling, E!Task, SlotRight, EventsRight, HelloNamesUser, OwnRegistered, E!NoOrphanEmergency
<1>5. OwnRegistered'
  BY DEF E!TypeOK, E!Phases, E!Sources, OwnRegistered, E!NoEmergency, E!IdleTask, E!Telling, E!Task, SlotRight, EventsRight, HelloNamesUser, OwnRegistered, E!NoOrphanEmergency
<1>6. HelloNamesUser'
  BY DEF E!TypeOK, E!Phases, E!Sources, HelloNamesUser, E!NoEmergency, E!IdleTask, E!Telling, E!Task, SlotRight, EventsRight, HelloNamesUser, OwnRegistered, E!NoOrphanEmergency
<1> QED  BY <1>1, <1>2, <1>3, <1>4, <1>5, <1>6

LEMMA OtherPushSafe ==
  ASSUME E!EmergencyAssumption, EmergencyInv,
         NEW u \in EmergencyUsers,
         E!OtherPush(u)
  PROVE  EmergencyInv'
<1> USE DEF E!EmergencyAssumption, EmergencyInv, E!Actors, E!OtherPush, E!Push, E!Status, E!Concerns, E!Recipients
<1>1. E!TypeOK'
  BY DEF E!TypeOK, E!Phases, E!Sources, E!NoEmergency, E!IdleTask, E!Telling, E!Task, SlotRight, EventsRight, HelloNamesUser, OwnRegistered, E!NoOrphanEmergency
<1>2. EventsRight'
  BY DEF E!TypeOK, E!Phases, E!Sources, EventsRight, E!NoEmergency, E!IdleTask, E!Telling, E!Task, SlotRight, EventsRight, HelloNamesUser, OwnRegistered, E!NoOrphanEmergency
<1>3. SlotRight'
  BY DEF E!TypeOK, E!Phases, E!Sources, SlotRight, E!NoEmergency, E!IdleTask, E!Telling, E!Task, SlotRight, EventsRight, HelloNamesUser, OwnRegistered, E!NoOrphanEmergency
<1>4. E!NoOrphanEmergency'
  BY DEF E!TypeOK, E!Phases, E!Sources, E!NoOrphanEmergency, E!NoEmergency, E!IdleTask, E!Telling, E!Task, SlotRight, EventsRight, HelloNamesUser, OwnRegistered, E!NoOrphanEmergency
<1>5. OwnRegistered'
  BY DEF E!TypeOK, E!Phases, E!Sources, OwnRegistered, E!NoEmergency, E!IdleTask, E!Telling, E!Task, SlotRight, EventsRight, HelloNamesUser, OwnRegistered, E!NoOrphanEmergency
<1>6. HelloNamesUser'
  BY DEF E!TypeOK, E!Phases, E!Sources, HelloNamesUser, E!NoEmergency, E!IdleTask, E!Telling, E!Task, SlotRight, EventsRight, HelloNamesUser, OwnRegistered, E!NoOrphanEmergency
<1> QED  BY <1>1, <1>2, <1>3, <1>4, <1>5, <1>6

LEMMA EmergencyStep == ASSUME E!EmergencyAssumption, EmergencyInv, [E!Next]_emergencyVars PROVE EmergencyInv'
<1>1. CASE UNCHANGED emergencyVars
  BY <1>1 DEF emergencyVars, EmergencyInv, E!TypeOK, EventsRight, SlotRight, E!NoOrphanEmergency, OwnRegistered,
              HelloNamesUser
<1>2. ASSUME NEW a \in E!Actors, E!Continue(a) PROVE EmergencyInv'
  BY <1>2, SlotSafe, TellSafe DEF E!Continue
<1>3. ASSUME NEW c \in EmergencyConns, NEW u \in EmergencyUsers, E!Hello(c, u) PROVE EmergencyInv'
  BY <1>3, HelloSafe
<1>4. ASSUME NEW c \in EmergencyConns,
             (\E preconfigured \in BOOLEAN : E!Register(c, preconfigured)) \/ E!Greet(c) \/ E!SocketEnds(c) \/ E!CleanUp(c) PROVE EmergencyInv'
  BY <1>4, RegisterSafe, GreetSafe, SocketEndsSafe, ClearSafe, TellClearedSafe DEF E!CleanUp
<1>5. ASSUME NEW c \in EmergencyConns, NEW isOn \in BOOLEAN, NEW target \in EmergencyTargets,
             E!OwnEvent(c, isOn, target)
      PROVE  EmergencyInv'
  <2>1. c \in E!Actors /\ conn[c].user \in EmergencyUsers \cup {Server}
    BY <1>5 DEF E!Actors, E!OwnEvent, EmergencyInv, HelloNamesUser, E!TypeOK
  <2> QED  BY <1>5, <2>1, EventSafe DEF E!OwnEvent
<1>6. ASSUME NEW r \in Requests, NEW source \in EmergencyUsers \cup {Server}, NEW isOn \in BOOLEAN,
             NEW target \in EmergencyTargets, E!Admin(r, source, isOn, target)
      PROVE  EmergencyInv'
  <2>1. r \in E!Actors /\ r \notin EmergencyConns
    BY DEF E!Actors, E!EmergencyAssumption
  <2> QED  BY <1>6, <2>1, EventSafe DEF E!Admin
<1>7. ASSUME NEW u \in EmergencyUsers, E!OtherPush(u) PROVE EmergencyInv'
  BY <1>7, OtherPushSafe
<1> QED  BY <1>1, <1>2, <1>3, <1>4, <1>5, <1>6, <1>7 DEF E!Next

(* An emergency that a client started has a connection that can still clear it:
   whatever connections replace each other in the registry, the one that put it
   there is open or has yet to pass clear_emergency_for_source. *)
THEOREM EmergencyEnds == ASSUME E!EmergencyAssumption PROVE Parts => []NoOrphanEmergency
<1>1. PartsInit => (part = "emergency" => EmergencyInv)
  BY EmergencyInit DEF PartsInit
<1>2. (part = "emergency" => EmergencyInv) /\ [PartsNext]_partVars => (part = "emergency" => EmergencyInv)'
  BY EmergencyStep, PartsStep
<1>3. (part = "emergency" => EmergencyInv) => NoOrphanEmergency
  BY DEF EmergencyInv, NoOrphanEmergency
<1> QED BY <1>1, <1>2, <1>3, PTL DEF Parts

-----------------------------------------------------------------------------
(* Who displays what, one lemma per action. *)

LEMMA EventShown ==
  ASSUME E!EmergencyAssumption, ShownInv,
         NEW a \in E!Actors,
         NEW source \in EmergencyUsers \cup {Server},
         NEW isOn \in BOOLEAN,
         NEW target \in EmergencyTargets,
         E!Event(a, source, isOn, target)
  PROVE  PresentTold' /\ ToldToAll'
<1> USE DEF E!EmergencyAssumption, ShownInv, EmergencyInv, E!Actors, E!Event, E!Affected
<1>1. PresentTold'
  BY DEF E!TypeOK, PresentTold, E!IdleTask, E!Telling, E!Task
<1>2. ToldToAll'
  BY DEF E!TypeOK, E!Phases, OwnRegistered, HelloNamesUser, PresentTold, ToldToAll, Told, E!Status, E!Concerns, E!Recipients, E!IdleTask, E!Telling, E!Task
<1> QED  BY <1>1, <1>2

LEMMA SlotShown ==
  ASSUME E!EmergencyAssumption, ShownInv,
         NEW a \in E!Actors,
         E!Slot(a)
  PROVE  PresentTold' /\ ToldToAll'
<1> USE DEF E!EmergencyAssumption, ShownInv, EmergencyInv, E!Actors, E!Slot, E!MayClear, E!Late
<1>1. PresentTold'
  BY DEF E!TypeOK, PresentTold, E!IdleTask, E!Telling, E!Task
<1>2. ToldToAll'
  BY DEF E!TypeOK, E!Phases, OwnRegistered, HelloNamesUser, PresentTold, ToldToAll, Told, E!Status, E!Concerns, E!Recipients, E!IdleTask, E!Telling, E!Task
<1> QED  BY <1>1, <1>2

LEMMA TellShown ==
  ASSUME E!EmergencyAssumption, ShownInv,
         NEW a \in E!Actors,
         E!Tell(a)
  PROVE  PresentTold' /\ ToldToAll'
<1> USE DEF E!EmergencyAssumption, ShownInv, EmergencyInv, E!Actors, E!Tell, E!Push
<1>1. PresentTold'
  BY DEF E!TypeOK, PresentTold, E!IdleTask, E!Telling, E!Task
<1>2. ToldToAll'
  BY SMTT(30) DEF E!TypeOK, E!Phases, OwnRegistered, HelloNamesUser, PresentTold, ToldToAll, Told, E!Status, E!Concerns, E!Recipients, E!IdleTask, E!Telling, E!Task
<1> QED  BY <1>1, <1>2

LEMMA HelloShown ==
  ASSUME E!EmergencyAssumption, ShownInv,
         NEW c \in EmergencyConns,
         NEW u \in EmergencyUsers,
         E!Hello(c, u)
  PROVE  PresentTold' /\ ToldToAll'
<1> USE DEF E!EmergencyAssumption, ShownInv, EmergencyInv, E!Actors
<1>u. /\ UNCHANGED <<emergency, control, task, shown, missed>> /\ conn[c].phase = "new" /\ live' = live \cup {u}
      /\ \A d \in EmergencyConns : d # c => conn'[d] = conn[d]
  BY DEF E!Hello
<1>1. PresentTold'
  BY <1>u DEF PresentTold
<1>2. ASSUME NEW v \in EmergencyUsers, control[v] # NoConn PROVE Told(v, control[v])'
  <2>1. control[v] \in EmergencyConns /\ control[v] # c /\ v \in live
    BY <1>2, <1>u DEF OwnRegistered, HelloNamesUser, E!TypeOK
  <2>2. conn'[control[v]] = conn[control[v]]
    BY <2>1, <1>u
  <2>3. E!Status(v)' = E!Status(v)
    BY <2>1, <1>u DEF E!Status, E!Concerns, E!Recipients
  <2>4. \A d \in EmergencyConns : conn[d].phase = "cleared" => conn'[d].phase = "cleared"
    BY <1>u
  <2>5. Told(v, control[v])
    BY <1>2 DEF ToldToAll
  <2> QED  BY <1>u, <2>2, <2>3, <2>4, <2>5, Zenon DEF Told
<1>3. ToldToAll'
  BY <1>2, <1>u DEF ToldToAll
<1> QED  BY <1>1, <1>3

LEMMA RegisterShown ==
  ASSUME E!EmergencyAssumption, ShownInv,
         NEW c \in EmergencyConns,
         NEW preconfigured \in BOOLEAN,
         E!Register(c, preconfigured)
  PROVE  PresentTold' /\ ToldToAll'
<1> USE DEF E!EmergencyAssumption, ShownInv, EmergencyInv, E!Actors, E!Register, E!Phase
<1>1. PresentTold'
  BY DEF E!TypeOK, PresentTold, E!IdleTask, E!Telling, E!Task
<1>2. ToldToAll'
  BY DEF E!TypeOK, E!Phases, OwnRegistered, HelloNamesUser, PresentTold, ToldToAll, Told, E!Status, E!Concerns, E!Recipients, E!IdleTask, E!Telling, E!Task
<1> QED  BY <1>1, <1>2

LEMMA GreetShown ==
  ASSUME E!EmergencyAssumption, ShownInv,
         NEW c \in EmergencyConns,
         E!Greet(c)
  PROVE  PresentTold' /\ ToldToAll'
<1> USE DEF E!EmergencyAssumption, ShownInv, EmergencyInv, E!Actors, E!Greet, E!Phase
<1>1. PresentTold'
  BY DEF E!TypeOK, PresentTold, E!IdleTask, E!Telling, E!Task
<1>2. ToldToAll'
  BY DEF E!TypeOK, E!Phases, OwnRegistered, HelloNamesUser, PresentTold, ToldToAll, Told, E!Status, E!Concerns, E!Recipients, E!IdleTask, E!Telling, E!Task
<1> QED  BY <1>1, <1>2

LEMMA SocketEndsShown ==
  ASSUME E!EmergencyAssumption, ShownInv,
         NEW c \in EmergencyConns,
         E!SocketEnds(c)
  PROVE  PresentTold' /\ ToldToAll'
<1> USE DEF E!EmergencyAssumption, ShownInv, EmergencyInv, E!Actors, E!SocketEnds, E!Phase
<1>1. PresentTold'
  BY DEF E!TypeOK, PresentTold, E!IdleTask, E!Telling, E!Task
<1>2. ToldToAll'
  BY DEF E!TypeOK, E!Phases, OwnRegistered, HelloNamesUser, PresentTold, ToldToAll, Told, E!Status, E!Concerns, E!Recipients, E!IdleTask, E!Telling, E!Task
<1> QED  BY <1>1, <1>2

LEMMA ClearShown ==
  ASSUME E!EmergencyAssumption, ShownInv,
         NEW c \in EmergencyConns,
         E!ClearForSource(c)
  PROVE  PresentTold' /\ ToldToAll'
<1> USE DEF E!EmergencyAssumption, ShownInv, EmergencyInv, E!Actors, E!ClearForSource, E!Phase, E!Ends
<1>1. PresentTold'
  BY DEF E!TypeOK, PresentTold, E!IdleTask, E!Telling, E!Task
<1>e. \/ conn' = [conn EXCEPT ![c].phase = "cleared"]
      \/ emergency' = emergency /\ conn' = [conn EXCEPT ![c].phase = "gone"]
  OBVIOUS
<1>u. UNCHANGED <<live, control, task, shown, missed>> /\ conn[c].phase = "closing"
  OBVIOUS
<1>2. ToldToAll'
  <2>1. CASE conn' = [conn EXCEPT ![c].phase = "cleared"]
    <3>1. conn'[c].phase = "cleared"
      BY <2>1 DEF E!TypeOK
    <3> QED  BY <3>1 DEF ToldToAll, Told
  <2>2. CASE emergency' = emergency /\ conn' = [conn EXCEPT ![c].phase = "gone"]
    <3>1. \A d \in EmergencyConns : d # c => conn'[d].phase = conn[d].phase
      BY <2>2 DEF E!TypeOK
    <3>2. \A u \in EmergencyUsers : control[u] # NoConn => Told(u, control[u])'
      BY <3>1, <2>2, <1>u DEF ToldToAll, Told, E!Status, E!Concerns, E!Recipients, E!TypeOK
    <3> QED  BY <3>2, <1>u DEF ToldToAll
  <2> QED  BY <1>e, <2>1, <2>2
<1> QED  BY <1>1, <1>2

LEMMA TellClearedShown ==
  ASSUME E!EmergencyAssumption, ShownInv,
         NEW c \in EmergencyConns,
         E!TellCleared(c)
  PROVE  PresentTold' /\ ToldToAll'
<1> USE DEF E!EmergencyAssumption, ShownInv, EmergencyInv, E!Actors
<1>u. /\ UNCHANGED <<emergency, live, control, shown>> /\ task' = [task EXCEPT ![c] = E!Telling(live)]
  BY DEF E!TellCleared
<1>t. task'[c].step = "tell" /\ task'[c].left = live
  BY <1>u DEF E!TypeOK, E!Telling, E!Task
<1>1. PresentTold'
  BY <1>u, <1>t DEF E!TypeOK, PresentTold
<1>2. ASSUME NEW v \in EmergencyUsers, control[v] # NoConn PROVE v \in live
  BY <1>2 DEF OwnRegistered, HelloNamesUser, E!TypeOK
<1>3. ToldToAll'
  BY <1>u, <1>t, <1>2 DEF ToldToAll, Told
<1> QED  BY <1>1, <1>3

LEMMA OtherPushShown ==
  ASSUME E!EmergencyAssumption, ShownInv,
         NEW u \in EmergencyUsers,
         E!OtherPush(u)
  PROVE  PresentTold' /\ ToldToAll'
<1> USE DEF E!EmergencyAssumption, ShownInv, EmergencyInv, E!Actors, E!OtherPush, E!Push
<1>1. PresentTold'
  BY DEF E!TypeOK, PresentTold, E!IdleTask, E!Telling, E!Task
<1>2. ToldToAll'
  BY DEF E!TypeOK, E!Phases, OwnRegistered, HelloNamesUser, PresentTold, ToldToAll, Told, E!Status, E!Concerns, E!Recipients, E!IdleTask, E!Telling, E!Task
<1> QED  BY <1>1, <1>2

LEMMA ShownStep == ASSUME E!EmergencyAssumption, ShownInv, [E!Next]_emergencyVars PROVE ShownInv'
<1> SUFFICES PresentTold' /\ ToldToAll'
  BY EmergencyStep DEF ShownInv
<1>1. CASE UNCHANGED emergencyVars
  BY <1>1 DEF emergencyVars, ShownInv, PresentTold, ToldToAll, Told, E!Status, E!Concerns, E!Recipients
<1>2. ASSUME NEW a \in E!Actors, E!Continue(a) PROVE PresentTold' /\ ToldToAll'
  BY <1>2, SlotShown, TellShown DEF E!Continue
<1>3. ASSUME NEW c \in EmergencyConns, NEW u \in EmergencyUsers, E!Hello(c, u) PROVE PresentTold' /\ ToldToAll'
  BY <1>3, HelloShown
<1>4. ASSUME NEW c \in EmergencyConns,
             (\E preconfigured \in BOOLEAN : E!Register(c, preconfigured)) \/ E!Greet(c) \/ E!SocketEnds(c) \/ E!CleanUp(c)
      PROVE  PresentTold' /\ ToldToAll'
  BY <1>4, RegisterShown, GreetShown, SocketEndsShown, ClearShown, TellClearedShown DEF E!CleanUp
<1>5. ASSUME NEW c \in EmergencyConns, NEW isOn \in BOOLEAN, NEW target \in EmergencyTargets,
             E!OwnEvent(c, isOn, target)
      PROVE  PresentTold' /\ ToldToAll'
  <2>1. c \in E!Actors /\ conn[c].user \in EmergencyUsers \cup {Server}
    BY <1>5 DEF E!Actors, E!OwnEvent, ShownInv, EmergencyInv, HelloNamesUser, E!TypeOK
  <2> QED  BY <1>5, <2>1, EventShown DEF E!OwnEvent
<1>6. ASSUME NEW r \in Requests, NEW source \in EmergencyUsers \cup {Server}, NEW isOn \in BOOLEAN,
             NEW target \in EmergencyTargets, E!Admin(r, source, isOn, target)
      PROVE  PresentTold' /\ ToldToAll'
  <2>1. r \in E!Actors
    BY DEF E!Actors
  <2> QED  BY <1>6, <2>1, EventShown DEF E!Admin
<1>7. ASSUME NEW u \in EmergencyUsers, E!OtherPush(u) PROVE PresentTold' /\ ToldToAll'
  BY <1>7, OtherPushShown
<1> QED  BY <1>1, <1>2, <1>3, <1>4, <1>5, <1>6, <1>7 DEF E!Next

(* For any clients, connections and requests: with nothing under way, whoever is
   registered shows the emergency that is in force for it, or none, unless it was
   registered without a greeting or came between the collecting and the slot of an event,
   and was sent nothing since.  An event collects everybody before it reaches the slot
   (apply_emergency_event), and an ended connection after (clear_emergency_for_source). *)
THEOREM PresentClientsShowEmergency ==
  ASSUME E!EmergencyAssumption PROVE Parts => []EmergencyReachesPresent
<1>1. PartsInit => (part = "emergency" => ShownInv)
  <2> SUFFICES ASSUME E!Init PROVE ShownInv
    BY DEF PartsInit
  <2>1. EmergencyInv
    BY EmergencyInit
  <2>2. PresentTold /\ ToldToAll
    BY DEF E!Init, PresentTold, ToldToAll, E!IdleTask, E!Task
  <2> QED BY <2>1, <2>2 DEF ShownInv
<1>2. (part = "emergency" => ShownInv) /\ [PartsNext]_partVars => (part = "emergency" => ShownInv)'
  BY ShownStep, PartsStep
<1>3. (part = "emergency" => ShownInv) => EmergencyReachesPresent
  <2> SUFFICES ASSUME ShownInv, E!Quiet, NEW u \in EmergencyUsers, control[u] # NoConn
               PROVE  shown[control[u]] = E!Status(u) \/ control[u] \in missed
    BY DEF EmergencyReachesPresent, E!EmergencyReachesPresent
  <2>1. Told(u, control[u]) /\ control[u] \in EmergencyConns
    BY DEF ShownInv, EmergencyInv, ToldToAll, E!TypeOK
  <2> QED BY <2>1 DEF Told, E!Quiet
<1> QED BY <1>1, <1>2, <1>3, PTL DEF Parts

-----------------------------------------------------------------------------
(* Enrollment. *)
(* The free alias that is chosen exists: naturals have a smallest. *)
LEMMA SmallestExists ==
  ASSUME NEW T \in SUBSET Nat, T # {}
  PROVE  \E x \in T : \A y \in T : x <= y
<1>1. PICK x \in T : \A y \in T : ~ (<<y, x>> \in OpToRel(<, Nat))
  BY WFMin, NatLessThanWellFounded, Zenon
<1>2. \A y \in T : ~ (y < x)
  BY <1>1 DEF OpToRel
<1> QED BY <1>2

DeviceState == [user : N!Users, status : {"enrolled", "pending", "rejected"}] \cup {N!Unknown}
Connection ==
  [phase : {"new", "resolved", "refused", "open"}, uid : Uids \cup {N!NoUid}, user : N!Users \cup {0},
   writes : N!Users \cup {0}, binding : Uids \cup {N!NoUid}]

(* Every variable has its type, all of it: who has said hello has a uid while it
   is decided, and who was let in an alias. *)
EnrollmentTypes ==
  /\ devices \in [Uids -> DeviceState]
  /\ desired \in [N!Users -> Uids \cup {N!NoUid, N!Absent}]
  /\ sessionUid \in [N!Users -> Uids \cup {N!NoUid, N!Absent}]
  /\ enrolling \in [EnrollConns -> Connection]
  /\ \A c \in EnrollConns :
       /\ IF enrolling[c].phase = "resolved" THEN enrolling[c].uid \in Uids ELSE enrolling[c].uid = N!NoUid
       /\ enrolling[c].phase \in {"resolved", "open"} => enrolling[c].user \in N!Users
  /\ admitted \in SUBSET Uids /\ offered \in SUBSET N!Users

(* Wherever a uid can be taken from when a device is enrolled, it is one that was
   admitted: a desired client, a session, a baseline that was read, a hello. *)
OnlyAdmitted ==
  Policy # "auto" =>
    /\ \A d \in Uids : devices[d].status = "enrolled" => d \in admitted
    /\ \A u \in N!Users : desired[u] \in Uids => desired[u] \in admitted
    /\ \A u \in N!Users : sessionUid[u] \in Uids => sessionUid[u] \in admitted
    /\ \A c \in EnrollConns :
         /\ enrolling[c].binding \in Uids => enrolling[c].binding \in admitted
         /\ enrolling[c].phase = "resolved" => enrolling[c].uid \in admitted

(* A client without a uid was left so by the admin or by a connection that is not enrolled:
   an enrolled connection's session has a uid, and so has the baseline it writes, unless
   such a client was there when it was read. *)
OnlyOffered ==
  /\ \A u \in N!Users : desired[u] = N!NoUid => u \in offered
  /\ \A c \in EnrollConns : enrolling[c].phase = "open" =>
       /\ sessionUid[enrolling[c].user] \in Uids
       /\ enrolling[c].writes # 0 /\ enrolling[c].binding = N!NoUid => enrolling[c].writes \in offered
  /\ \A c \in EnrollConns : enrolling[c].phase = "resolved" => enrolling[c].writes = 0

EnrollmentInv == EnrollmentTypes /\ N!BindingHasDevice /\ OnlyAdmitted /\ OnlyOffered

LEMMA NextAvailableFree ==
  ASSUME NEW requested, N!Free # {}
  PROVE  N!NextAvailable(requested) \in N!Users
<1>1. N!Free \in SUBSET Nat
  BY DEF N!Free, N!Users
<1>2. \E u \in N!Free : \A v \in N!Free : u <= v
  BY <1>1, SmallestExists
<1> QED BY <1>2 DEF N!NextAvailable, N!Free

LEMMA EnrollmentInit == ASSUME N!EnrollmentAssumption, N!Init PROVE EnrollmentInv
<1> USE DEF N!Init, N!EnrollmentAssumption, N!Unknown, N!Connection, N!Gone
<1>1. EnrollmentTypes
  BY DEF EnrollmentTypes, DeviceState, Connection
<1>2. N!BindingHasDevice
  BY DEF N!BindingHasDevice
<1>3. OnlyAdmitted
  BY DEF OnlyAdmitted
<1>4. OnlyOffered
  BY DEF OnlyOffered, N!NoUid, N!Absent
<1> QED BY <1>1, <1>2, <1>3, <1>4 DEF EnrollmentInv

LEMMA ResolveKeepsOffers ==
  ASSUME N!EnrollmentAssumption, EnrollmentInv, NEW c \in EnrollConns, NEW d \in Uids,
         NEW requested \in N!Users \cup {0}, N!Resolve(c, d, requested)
  PROVE  OnlyOffered'
<1>1. /\ UNCHANGED <<sessionUid, offered>>
      /\ enrolling'[c].phase # "open" /\ enrolling'[c].writes = 0
      /\ \A b \in EnrollConns : b # c => enrolling'[b] = enrolling[b]
  BY DEF EnrollmentInv, EnrollmentTypes, N!Resolve, N!KnownDevice, N!BoundClient, N!StagedClient, N!NewDevice, N!Decided,
         N!Connection
<1>2. \A u \in N!Users : desired'[u] = N!NoUid => desired[u] = N!NoUid
  BY DEF N!EnrollmentAssumption, EnrollmentInv, EnrollmentTypes, N!Resolve, N!KnownDevice, N!BoundClient, N!StagedClient,
         N!NewDevice
<1> QED BY <1>1, <1>2 DEF EnrollmentInv, OnlyOffered

LEMMA ResolveKeepsEnrollment ==
  ASSUME N!EnrollmentAssumption, EnrollmentInv, NEW c \in EnrollConns, NEW d \in Uids,
         NEW requested \in N!Users \cup {0}, N!Resolve(c, d, requested)
  PROVE  EnrollmentInv'
<1> USE DEF N!EnrollmentAssumption
<1> SUFFICES EnrollmentTypes' /\ N!BindingHasDevice' /\ OnlyAdmitted'
  BY ResolveKeepsOffers DEF EnrollmentInv
<1>1. CASE N!KnownDevice(c, d, requested)
  <2> USE <1>1 DEF N!Resolve, N!KnownDevice, N!Decided, N!Connection, N!Known
  <2>1. EnrollmentTypes'
    BY DEF EnrollmentInv, EnrollmentTypes, DeviceState, Connection, N!Unknown
  <2>2. N!BindingHasDevice'
    BY DEF EnrollmentInv, N!BindingHasDevice
  <2>3. OnlyAdmitted'
    BY DEF EnrollmentInv, EnrollmentTypes, Connection, OnlyAdmitted
  <2> QED BY <2>1, <2>2, <2>3
<1>2. CASE N!BoundClient(c, d, requested)
  BY <1>2 DEF N!BoundClient, N!Bound, EnrollmentInv, N!BindingHasDevice
<1>3. CASE N!StagedClient(c, d, requested)
  <2> USE <1>3 DEF N!Resolve, N!StagedClient, N!Decided, N!Connection, N!Device
  <2>0. admitted' = admitted \cup {d}
    BY DEF EnrollmentInv, OnlyOffered, N!Takeable, N!Named
  <2>1. EnrollmentTypes'
    BY <2>0 DEF EnrollmentInv, EnrollmentTypes, DeviceState, Connection
  <2>2. N!BindingHasDevice'
    BY DEF EnrollmentInv, EnrollmentTypes, N!BindingHasDevice, N!Known
  <2>3. OnlyAdmitted'
    BY <2>0 DEF EnrollmentInv, EnrollmentTypes, Connection, OnlyAdmitted
  <2> QED BY <2>1, <2>2, <2>3
<1>4. CASE N!NewDevice(c, d, requested)
  <2> USE <1>4 DEF N!Resolve, N!NewDevice, N!Decided, N!Connection, N!Device, N!NewStatus
  <2>0. N!NextAvailable(requested) \in N!Users
    BY NextAvailableFree
  <2>1. EnrollmentTypes'
    BY <2>0 DEF EnrollmentInv, EnrollmentTypes, DeviceState, Connection
  <2>2. N!BindingHasDevice'
    BY DEF EnrollmentInv, EnrollmentTypes, N!BindingHasDevice, N!Known
  <2>3. OnlyAdmitted'
    BY <2>0 DEF EnrollmentInv, EnrollmentTypes, Connection, OnlyAdmitted
  <2> QED BY <2>1, <2>2, <2>3
<1> QED BY <1>1, <1>2, <1>3, <1>4 DEF N!Resolve

LEMMA HelloSessionKeepsEnrollment ==
  ASSUME N!EnrollmentAssumption, EnrollmentInv, NEW c \in EnrollConns, N!HelloSession(c)
  PROVE  EnrollmentInv'
<1> USE DEF N!EnrollmentAssumption, EnrollmentInv
<1>1. EnrollmentTypes'
  BY DEF N!HelloSession, EnrollmentTypes, Connection
<1>2. N!BindingHasDevice'
  BY DEF N!HelloSession, N!BindingHasDevice, N!Known
<1>3. OnlyAdmitted'
  BY DEF N!HelloSession, EnrollmentTypes, Connection, OnlyAdmitted
<1>4. OnlyOffered'
  <2> DEFINE u == enrolling[c].user
  <2>1. /\ u \in N!Users /\ enrolling[c].phase = "resolved" /\ enrolling[c].uid \in Uids
        /\ sessionUid' = [sessionUid EXCEPT ![u] = IF desired[u] \in Uids THEN desired[u] ELSE enrolling[c].uid]
        /\ UNCHANGED <<desired, offered>>
    BY DEF N!HelloSession, EnrollmentTypes
  <2>2. sessionUid'[u] \in Uids /\ \A v \in N!Users : sessionUid[v] \in Uids => sessionUid'[v] \in Uids
    BY <2>1 DEF EnrollmentTypes
  <2>3. /\ enrolling'[c].user = u /\ enrolling'[c].writes = enrolling[c].writes
        /\ \A b \in EnrollConns : b # c => enrolling'[b] = enrolling[b]
    BY DEF N!HelloSession, EnrollmentTypes, Connection
  <2>4. enrolling[c].writes = 0
    BY <2>1 DEF OnlyOffered
  <2> HIDE DEF u
  <2> QED BY <2>1, <2>2, <2>3, <2>4 DEF EnrollmentTypes, OnlyOffered
<1> QED BY <1>1, <1>2, <1>3, <1>4

(* apply_desired_client with a uid that was admitted, whoever calls it. *)
LEMMA ApplyDesiredKeeps ==
  ASSUME N!EnrollmentAssumption, EnrollmentInv, NEW u \in N!Users, NEW d \in Uids \cup {N!NoUid},
         N!ApplyDesired(u, d), admitted \subseteq admitted',
         Policy # "auto" /\ d \in Uids => d \in admitted'
  PROVE  /\ devices' \in [Uids -> DeviceState]
         /\ desired' \in [N!Users -> Uids \cup {N!NoUid, N!Absent}]
         /\ sessionUid' \in [N!Users -> Uids \cup {N!NoUid, N!Absent}]
         /\ N!BindingHasDevice'
         /\ Policy # "auto" =>
              /\ \A e \in Uids : devices'[e].status = "enrolled" => e \in admitted'
              /\ \A v \in N!Users : desired'[v] \in Uids => desired'[v] \in admitted'
              /\ \A v \in N!Users : sessionUid'[v] \in Uids => sessionUid'[v] \in admitted'
         /\ \A v \in N!Users : sessionUid[v] \in Uids => sessionUid'[v] \in Uids
         /\ \A v \in N!Users : desired'[v] = N!NoUid => desired[v] = N!NoUid \/ (v = u /\ d = N!NoUid)
<1> USE DEF N!EnrollmentAssumption, EnrollmentInv, N!ApplyDesired, N!Enroll, N!Device
<1>1. /\ devices' \in [Uids -> DeviceState]
      /\ desired' \in [N!Users -> Uids \cup {N!NoUid, N!Absent}]
      /\ sessionUid' \in [N!Users -> Uids \cup {N!NoUid, N!Absent}]
  BY DEF EnrollmentTypes, DeviceState
<1>2. N!BindingHasDevice'
  BY DEF EnrollmentTypes, N!BindingHasDevice, N!Known
<1>3. ASSUME Policy # "auto", NEW e \in Uids, devices'[e].status = "enrolled" PROVE e \in admitted'
  BY <1>3 DEF EnrollmentTypes, OnlyAdmitted
<1>4. ASSUME Policy # "auto", NEW v \in N!Users, desired'[v] \in Uids PROVE desired'[v] \in admitted'
  BY <1>4 DEF EnrollmentTypes, OnlyAdmitted
<1>5. ASSUME Policy # "auto", NEW v \in N!Users, sessionUid'[v] \in Uids PROVE sessionUid'[v] \in admitted'
  BY <1>5 DEF EnrollmentTypes, OnlyAdmitted
<1>6. ASSUME NEW v \in N!Users, sessionUid[v] \in Uids PROVE sessionUid'[v] \in Uids
  BY <1>6 DEF EnrollmentTypes
<1>7. ASSUME NEW v \in N!Users, desired'[v] = N!NoUid PROVE desired[v] = N!NoUid \/ (v = u /\ d = N!NoUid)
  BY <1>7 DEF EnrollmentTypes
<1> QED BY <1>1, <1>2, <1>3, <1>4, <1>5, <1>6, <1>7

LEMMA BaselineAdmitted ==
  ASSUME N!EnrollmentAssumption, EnrollmentInv, NEW u \in N!Users
  PROVE  /\ N!BaselineUid(u) \in Uids \cup {N!NoUid}
         /\ Policy # "auto" /\ N!BaselineUid(u) \in Uids => N!BaselineUid(u) \in admitted
BY DEF N!EnrollmentAssumption, N!NoUid, N!Absent, EnrollmentInv, EnrollmentTypes, OnlyAdmitted, N!BaselineUid

(* An enrolled connection reads a baseline without a uid only where a client for any device is. *)
LEMMA ReadBaselineKeepsEnrollment ==
  ASSUME N!EnrollmentAssumption, EnrollmentInv, NEW c \in EnrollConns, NEW u \in N!Users, N!ReadBaseline(c, u)
  PROVE  EnrollmentInv'
<1> DEFINE binding == N!BaselineUid(u)
<1>1. /\ enrolling[c].phase \in {"new", "refused", "open"} /\ (enrolling[c].phase = "open" => enrolling[c].user = u)
      /\ enrolling[c] \in Connection /\ UNCHANGED <<devices, desired, sessionUid, admitted, offered>>
  BY DEF EnrollmentInv, EnrollmentTypes, N!ReadBaseline, N!Sends
<1>2. binding \in Uids \cup {N!NoUid} /\ (Policy # "auto" /\ binding \in Uids => binding \in admitted)
  BY BaselineAdmitted
<1>3. enrolling[c].phase = "open" /\ binding = N!NoUid => u \in offered
  BY <1>1 DEF N!EnrollmentAssumption, N!NoUid, N!Absent, N!BaselineUid, EnrollmentInv, EnrollmentTypes, OnlyOffered
<1>4. enrolling' = [enrolling EXCEPT ![c] = [@ EXCEPT !.writes = u, !.binding = binding]]
  BY DEF N!ReadBaseline, EnrollmentInv, EnrollmentTypes
<1> HIDE DEF binding
<1>5. /\ [enrolling[c] EXCEPT !.writes = u, !.binding = binding] \in Connection
      /\ enrolling' \in [EnrollConns -> Connection]
  BY <1>1, <1>2, <1>4 DEF Connection, EnrollmentInv, EnrollmentTypes
<1>6. /\ enrolling'[c].phase = enrolling[c].phase /\ enrolling'[c].uid = enrolling[c].uid
      /\ enrolling'[c].user = enrolling[c].user /\ enrolling'[c].writes = u /\ enrolling'[c].binding = binding
      /\ \A b \in EnrollConns : b # c => enrolling'[b] = enrolling[b]
  BY <1>1, <1>4 DEF Connection, EnrollmentInv, EnrollmentTypes
<1>7. EnrollmentTypes'
  BY <1>1, <1>5, <1>6 DEF EnrollmentInv, EnrollmentTypes
<1>8. N!BindingHasDevice'
  BY <1>1 DEF EnrollmentInv, N!BindingHasDevice, N!Known
<1>9. OnlyAdmitted'
  BY <1>1, <1>2, <1>6 DEF EnrollmentInv, OnlyAdmitted
<1>10. OnlyOffered'
  BY <1>1, <1>3, <1>6 DEF EnrollmentInv, OnlyOffered
<1> QED BY <1>7, <1>8, <1>9, <1>10 DEF EnrollmentInv

LEMMA ConfigureKeepsEnrollment ==
  ASSUME N!EnrollmentAssumption, EnrollmentInv, NEW c \in EnrollConns, N!Configure(c)
  PROVE  EnrollmentInv'
<1> DEFINE u == enrolling[c].writes
           d == enrolling[c].binding
<1>1. /\ u \in N!Users /\ d \in Uids \cup {N!NoUid} /\ enrolling[c] \in Connection
      /\ Policy # "auto" /\ d \in Uids => d \in admitted
  BY DEF N!Configure, EnrollmentInv, EnrollmentTypes, Connection, OnlyAdmitted
<1>2. /\ UNCHANGED admitted /\ N!ApplyDesired(u, d) /\ enrolling[c].phase # "resolved"
      /\ offered' = IF N!LeftOpen(c) THEN offered \cup {u} ELSE offered
  BY DEF N!Configure, EnrollmentInv, OnlyOffered
<1>3. /\ devices' \in [Uids -> DeviceState]
      /\ desired' \in [N!Users -> Uids \cup {N!NoUid, N!Absent}]
      /\ sessionUid' \in [N!Users -> Uids \cup {N!NoUid, N!Absent}]
      /\ N!BindingHasDevice'
      /\ Policy # "auto" =>
           /\ \A e \in Uids : devices'[e].status = "enrolled" => e \in admitted'
           /\ \A v \in N!Users : desired'[v] \in Uids => desired'[v] \in admitted'
           /\ \A v \in N!Users : sessionUid'[v] \in Uids => sessionUid'[v] \in admitted'
      /\ \A v \in N!Users : sessionUid[v] \in Uids => sessionUid'[v] \in Uids
      /\ \A v \in N!Users : desired'[v] = N!NoUid => desired[v] = N!NoUid \/ (v = u /\ d = N!NoUid)
  BY <1>1, <1>2, ApplyDesiredKeeps
<1>4. enrolling' = [enrolling EXCEPT ![c] = [@ EXCEPT !.writes = 0, !.binding = N!NoUid]]
  BY DEF N!Configure, EnrollmentInv, EnrollmentTypes
<1>5. /\ [enrolling[c] EXCEPT !.writes = 0, !.binding = N!NoUid] \in Connection
      /\ enrolling' \in [EnrollConns -> Connection]
  BY <1>1, <1>4 DEF Connection, EnrollmentInv, EnrollmentTypes
<1>6. /\ enrolling'[c].phase = enrolling[c].phase /\ enrolling'[c].uid = enrolling[c].uid
      /\ enrolling'[c].user = enrolling[c].user /\ enrolling'[c].writes = 0 /\ enrolling'[c].binding = N!NoUid
      /\ \A b \in EnrollConns : b # c => enrolling'[b] = enrolling[b]
  BY <1>1, <1>4 DEF Connection, EnrollmentInv, EnrollmentTypes
<1>7. EnrollmentTypes'
  BY <1>1, <1>2, <1>3, <1>5, <1>6 DEF EnrollmentInv, EnrollmentTypes
<1>8. OnlyAdmitted'
  BY <1>2, <1>3, <1>6 DEF N!EnrollmentAssumption, EnrollmentInv, OnlyAdmitted
<1>9. d = N!NoUid => u \in offered'
  BY <1>1, <1>2 DEF N!Configure, N!LeftOpen, EnrollmentInv, OnlyOffered
<1>10. offered \subseteq offered'
  BY <1>2
<1> HIDE DEF u, d
<1>11. OnlyOffered'
  BY <1>2, <1>3, <1>6, <1>9, <1>10 DEF EnrollmentInv, EnrollmentTypes, OnlyOffered
<1> QED BY <1>3, <1>7, <1>8, <1>11 DEF EnrollmentInv

LEMMA HealthKeepsEnrollment ==
  ASSUME N!EnrollmentAssumption, EnrollmentInv, NEW c \in EnrollConns,
         N!SocketEnds(c) \/ \E u \in N!Users : N!Health(c, u)
  PROVE  EnrollmentInv'
<1> USE DEF N!EnrollmentAssumption, N!Health, N!SocketEnds, N!Connection, N!Gone
<1>1. EnrollmentTypes'
  BY DEF EnrollmentInv, EnrollmentTypes, Connection
<1>2. N!BindingHasDevice'
  BY DEF EnrollmentInv, N!BindingHasDevice, N!Known
<1>3. OnlyAdmitted'
  BY DEF EnrollmentInv, EnrollmentTypes, Connection, OnlyAdmitted
<1>4. OnlyOffered'
  BY DEF EnrollmentInv, EnrollmentTypes, Connection, OnlyOffered
<1> QED BY <1>1, <1>2, <1>3, <1>4 DEF EnrollmentInv

-----------------------------------------------------------------------------
LEMMA AudioKeepsEnrollment ==
  ASSUME N!EnrollmentAssumption, EnrollmentInv, NEW u \in N!Users, N!AudioPacket(u)
  PROVE  EnrollmentInv'
<1> USE DEF N!EnrollmentAssumption, EnrollmentInv, N!AudioPacket
<1>1. EnrollmentTypes'
  BY DEF EnrollmentTypes
<1>2. N!BindingHasDevice'
  BY DEF N!BindingHasDevice, N!Known
<1>3. OnlyAdmitted'
  BY DEF EnrollmentTypes, OnlyAdmitted
<1>4. OnlyOffered'
  BY DEF EnrollmentTypes, OnlyOffered
<1> QED BY <1>1, <1>2, <1>3, <1>4

LEMMA PatchDeviceKeepsEnrollment ==
  ASSUME N!EnrollmentAssumption, EnrollmentInv, NEW d \in Uids, N!PatchDevice(d)
  PROVE  EnrollmentInv'
<1> USE DEF N!EnrollmentAssumption, EnrollmentInv
<1>1. PICK alias \in N!AliasAsked, status \in {"same", "enrolled", "pending", "rejected"} :
        N!UpdateDevice(d, alias, status)
  BY DEF N!PatchDevice
<1> DEFINE u == N!AliasFor(d, alias)
           s == IF status # "same" THEN status ELSE IF N!Known(d) THEN devices[d].status ELSE "enrolled"
<1>2. u \in N!Users
  BY <1>1, NextAvailableFree DEF N!AliasAsked, N!UpdateDevice, N!AliasFor, EnrollmentTypes, DeviceState, N!Known, N!Unknown
<1>3. s \in {"enrolled", "pending", "rejected"}
  BY DEF EnrollmentTypes, DeviceState, N!Known, N!Unknown
<1>4. /\ devices' = [devices EXCEPT ![d] = N!Device(u, s)] /\ UNCHANGED enrolling
      /\ IF s = "enrolled" /\ desired[u] # N!Absent
         THEN desired' = [desired EXCEPT ![u] = d] /\ sessionUid' = [sessionUid EXCEPT ![u] = d]
         ELSE UNCHANGED <<desired, sessionUid>>
      /\ IF s = "enrolled" THEN N!Named(d) ELSE UNCHANGED admitted
      /\ UNCHANGED offered
  BY <1>1 DEF N!UpdateDevice
<1> HIDE DEF u, s
<1>5. admitted' \in SUBSET Uids /\ admitted \subseteq admitted'
      /\ (s = "enrolled" => d \in admitted')
  BY <1>4 DEF N!Named, EnrollmentTypes
<1>6. EnrollmentTypes'
  BY <1>2, <1>3, <1>4, <1>5 DEF EnrollmentTypes, DeviceState, N!Device
<1>7. N!BindingHasDevice'
  BY <1>2, <1>3, <1>4 DEF EnrollmentTypes, N!BindingHasDevice, N!Known, N!Device
<1>8. OnlyAdmitted'
  BY <1>2, <1>3, <1>4, <1>5 DEF EnrollmentTypes, OnlyAdmitted, N!Device
<1>9. OnlyOffered'
  BY <1>2, <1>4 DEF EnrollmentTypes, Connection, OnlyOffered
<1> QED BY <1>6, <1>7, <1>8, <1>9

LEMMA ClientsKeepEnrollment ==
  ASSUME N!EnrollmentAssumption, EnrollmentInv, NEW u \in N!Users, NEW d \in Uids \cup {N!NoUid},
         N!PutClient(u, d) \/ N!PatchClient(u)
  PROVE  EnrollmentInv'
<1>1. PICK e \in Uids \cup {N!NoUid} : N!ApplyDesired(u, e) /\ N!Assigned(u, e) /\ UNCHANGED enrolling
  BY BaselineAdmitted DEF N!PutClient, N!PatchClient
<1>2. /\ admitted' \in SUBSET Uids /\ admitted \subseteq admitted' /\ (e \in Uids => e \in admitted')
      /\ offered' \in SUBSET N!Users /\ offered \subseteq offered' /\ (e = N!NoUid => u \in offered')
  BY <1>1 DEF N!EnrollmentAssumption, N!Assigned, N!Named, EnrollmentInv, EnrollmentTypes
<1>3. /\ devices' \in [Uids -> DeviceState]
      /\ desired' \in [N!Users -> Uids \cup {N!NoUid, N!Absent}]
      /\ sessionUid' \in [N!Users -> Uids \cup {N!NoUid, N!Absent}]
      /\ N!BindingHasDevice'
      /\ Policy # "auto" =>
           /\ \A f \in Uids : devices'[f].status = "enrolled" => f \in admitted'
           /\ \A v \in N!Users : desired'[v] \in Uids => desired'[v] \in admitted'
           /\ \A v \in N!Users : sessionUid'[v] \in Uids => sessionUid'[v] \in admitted'
      /\ \A v \in N!Users : sessionUid[v] \in Uids => sessionUid'[v] \in Uids
      /\ \A v \in N!Users : desired'[v] = N!NoUid => desired[v] = N!NoUid \/ (v = u /\ e = N!NoUid)
  BY <1>1, <1>2, ApplyDesiredKeeps
<1>4. EnrollmentTypes' /\ OnlyAdmitted'
  BY <1>1, <1>2, <1>3 DEF EnrollmentInv, EnrollmentTypes, OnlyAdmitted
<1>5. OnlyOffered'
  BY <1>1, <1>2, <1>3 DEF EnrollmentInv, EnrollmentTypes, Connection, OnlyOffered
<1> QED BY <1>3, <1>4, <1>5 DEF EnrollmentInv

LEMMA ForgetDeviceKeepsEnrollment ==
  ASSUME N!EnrollmentAssumption, EnrollmentInv, NEW d \in Uids, N!ForgetDevice(d)
  PROVE  EnrollmentInv'
<1> USE DEF N!EnrollmentAssumption, EnrollmentInv, N!NoUid, N!Absent, N!ForgetDevice, N!Bound, N!Unknown
<1>1. EnrollmentTypes'
  BY DEF EnrollmentTypes, DeviceState
<1>2. N!BindingHasDevice'
  BY DEF EnrollmentTypes, N!BindingHasDevice, N!Known
<1>3. OnlyAdmitted'
  BY DEF EnrollmentTypes, OnlyAdmitted
<1>4. OnlyOffered'
  BY DEF EnrollmentTypes, OnlyOffered
<1> QED BY <1>1, <1>2, <1>3, <1>4

LEMMA RemovalsKeepEnrollment ==
  ASSUME N!EnrollmentAssumption, EnrollmentInv, NEW u \in N!Users, N!ApplyPreset(u) \/ N!DeleteClient(u)
  PROVE  EnrollmentInv'
<1> USE DEF N!EnrollmentAssumption, EnrollmentInv, N!NoUid, N!Absent, N!ApplyPreset, N!DeleteClient
<1>1. EnrollmentTypes'
  BY DEF EnrollmentTypes
<1>2. N!BindingHasDevice'
  BY DEF EnrollmentTypes, N!BindingHasDevice, N!Known
<1>3. OnlyAdmitted'
  BY ZenonT(60) DEF EnrollmentTypes, OnlyAdmitted
<1>4. OnlyOffered'
  <2>1. UNCHANGED enrolling /\ offered \subseteq offered'
    OBVIOUS
  <2>2. \A v \in N!Users : desired'[v] = N!NoUid => v \in offered'
    BY DEF EnrollmentTypes, OnlyOffered
  <2>3. \A v \in N!Users : sessionUid[v] \in Uids => sessionUid'[v] \in Uids
    BY DEF EnrollmentTypes
  <2> QED BY <2>1, <2>2, <2>3 DEF EnrollmentTypes, OnlyOffered
<1> QED BY <1>1, <1>2, <1>3, <1>4

LEMMA RestartKeepsEnrollment ==
  ASSUME N!EnrollmentAssumption, EnrollmentInv, N!Restart
  PROVE  EnrollmentInv'
<1> USE DEF N!EnrollmentAssumption, EnrollmentInv, N!NoUid, N!Absent, N!Restart, N!Connection, N!Gone
<1>1. EnrollmentTypes'
  BY DEF EnrollmentTypes, Connection
<1>2. N!BindingHasDevice'
  BY DEF EnrollmentTypes, N!BindingHasDevice, N!Known
<1>3. OnlyAdmitted'
  BY DEF EnrollmentTypes, OnlyAdmitted
<1>4. OnlyOffered'
  BY DEF EnrollmentTypes, OnlyOffered
<1> QED BY <1>1, <1>2, <1>3, <1>4

LEMMA EnrollmentStep ==
  ASSUME N!EnrollmentAssumption, EnrollmentInv, [N!Next]_enrollmentVars
  PROVE  EnrollmentInv'
<1>1. CASE UNCHANGED enrollmentVars
  BY <1>1 DEF enrollmentVars, EnrollmentInv, EnrollmentTypes, N!BindingHasDevice, N!Known, OnlyAdmitted, OnlyOffered
<1>2. ASSUME NEW c \in EnrollConns, NEW d \in Uids, NEW requested \in N!Users \cup {0}, N!Resolve(c, d, requested)
      PROVE  EnrollmentInv'
  BY <1>2, ResolveKeepsEnrollment
<1>3. ASSUME NEW c \in EnrollConns, N!HelloSession(c) \/ N!Configure(c) \/ N!SocketEnds(c)
      PROVE  EnrollmentInv'
  BY <1>3, HelloSessionKeepsEnrollment, ConfigureKeepsEnrollment, HealthKeepsEnrollment
<1>9. ASSUME NEW c \in EnrollConns, NEW u \in N!Users, N!ReadBaseline(c, u) \/ N!Health(c, u)
      PROVE  EnrollmentInv'
  BY <1>9, ReadBaselineKeepsEnrollment, HealthKeepsEnrollment
<1>4. ASSUME NEW u \in N!Users, N!AudioPacket(u) PROVE EnrollmentInv'
  BY <1>4, AudioKeepsEnrollment
<1>5. ASSUME NEW d \in Uids, N!ForgetDevice(d) \/ N!PatchDevice(d) PROVE EnrollmentInv'
  BY <1>5, ForgetDeviceKeepsEnrollment, PatchDeviceKeepsEnrollment
<1>6. ASSUME NEW u \in N!Users, NEW d \in Uids \cup {N!NoUid}, N!PutClient(u, d) \/ N!PatchClient(u)
      PROVE  EnrollmentInv'
  BY <1>6, ClientsKeepEnrollment
<1>7. ASSUME NEW u \in N!Users, N!ApplyPreset(u) \/ N!DeleteClient(u) PROVE EnrollmentInv'
  BY <1>7, RemovalsKeepEnrollment
<1>8. CASE N!Restart
  BY <1>8, RestartKeepsEnrollment
<1> QED BY <1>1, <1>2, <1>3, <1>4, <1>5, <1>6, <1>7, <1>8, <1>9 DEF N!Next, N!Admin

LEMMA EnrollmentInvRight ==
  ASSUME N!EnrollmentAssumption, EnrollmentInv
  PROVE  N!TypeOK /\ N!BindingHasDevice /\ N!EnrolledByOffer
<1>1. N!TypeOK
  BY DEF EnrollmentInv, EnrollmentTypes, DeviceState, Connection, N!TypeOK
<1>2. N!EnrolledByOffer
  BY DEF EnrollmentInv, OnlyAdmitted, N!EnrolledByOffer
<1> QED BY <1>1, <1>2 DEF EnrollmentInv

LEMMA StepKeepsAlias ==
  ASSUME N!EnrollmentAssumption, EnrollmentInv, N!Next
  PROVE  N!HelloKeepsAlias
<1> SUFFICES ASSUME NEW e \in Uids, NEW b \in EnrollConns, N!Known(e), enrolling[b].phase = "new", enrolling'[b].phase # "new"
             PROVE  devices'[e].user = devices[e].user
  BY DEF N!HelloKeepsAlias
<1> USE DEF EnrollmentInv, EnrollmentTypes
<1>1. ASSUME NEW c \in EnrollConns, NEW d \in Uids, NEW requested \in N!Users \cup {0}, N!Resolve(c, d, requested)
      PROVE  devices'[e].user = devices[e].user
  BY <1>1 DEF N!Resolve, N!KnownDevice, N!BoundClient, N!StagedClient, N!NewDevice, N!Known
<1>2. ASSUME NEW c \in EnrollConns, NEW u \in N!Users,
             N!HelloSession(c) \/ N!ReadBaseline(c, u) \/ N!Health(c, u) \/ N!SocketEnds(c)
      PROVE  devices'[e].user = devices[e].user
  BY <1>2 DEF N!HelloSession, N!ReadBaseline, N!Health, N!SocketEnds
<1>3. ASSUME NEW c \in EnrollConns, N!Configure(c) PROVE FALSE
  <2>1. enrolling'[b].phase = enrolling[b].phase
    BY <1>3 DEF N!Configure, Connection
  <2> QED BY <2>1
<1>6. ASSUME NEW c \in EnrollConns, N!HelloSession(c) \/ N!SocketEnds(c) PROVE devices'[e].user = devices[e].user
  BY <1>6 DEF N!HelloSession, N!SocketEnds
<1>4. CASE N!Restart
  BY <1>4 DEF N!Restart
<1>5. CASE N!Admin \/ \E u \in N!Users : N!AudioPacket(u)
  <2>1. enrolling' = enrolling
    BY <1>5, ZenonT(60) DEF N!Admin, N!AudioPacket, N!ForgetDevice, N!PatchDevice, N!UpdateDevice, N!PutClient, N!PatchClient,
       N!ApplyPreset, N!DeleteClient
  <2> QED BY <2>1
<1> QED BY <1>1, <1>2, <1>3, <1>4, <1>5, <1>6 DEF N!Next

(* For any policy, any requests of the admin and any messages of connections that are
   enrolled, refused or have not said hello: a desired client is bound to a device that the
   server knows (apply_desired_client, forget_device), and with a policy other than auto no
   device is enrolled that the admin did not name and that took no client left for any
   device (resolve_client_enrollment).  Who left such a client may be a connection that is
   not enrolled. *)
THEOREM OnlyAdmittedEnroll == ASSUME N!EnrollmentAssumption PROVE Parts => []EnrollmentRight
<1>1. PartsInit => (part = "enrollment" => EnrollmentInv)
  BY EnrollmentInit DEF PartsInit
<1>2. (part = "enrollment" => EnrollmentInv) /\ [PartsNext]_partVars => (part = "enrollment" => EnrollmentInv)'
  BY EnrollmentStep, PartsStep
<1>3. (part = "enrollment" => EnrollmentInv) => EnrollmentRight
  BY EnrollmentInvRight DEF EnrollmentRight
<1> QED BY <1>1, <1>2, <1>3, PTL DEF Parts

(* No hello changes the alias of a device that is known, whatever alias it asks for
   (resolve_client_enrollment). *)
THEOREM AliasesAreKept == ASSUME N!EnrollmentAssumption PROVE Parts => KnownUidKeepsAlias
<1>1. PartsInit => (part = "enrollment" => EnrollmentInv)
  BY EnrollmentInit DEF PartsInit
<1>2. (part = "enrollment" => EnrollmentInv) /\ [PartsNext]_partVars => (part = "enrollment" => EnrollmentInv)'
  BY EnrollmentStep, PartsStep
<1>3. (part = "enrollment" => EnrollmentInv) /\ [PartsNext]_partVars
        => [part = "enrollment" => N!HelloKeepsAlias]_partVars
  <2> SUFFICES ASSUME part = "enrollment", EnrollmentInv, PartsNext PROVE N!HelloKeepsAlias
    OBVIOUS
  <2> QED BY StepKeepsAlias DEF PartsNext
<1> QED BY <1>1, <1>2, <1>3, PTL DEF Parts, KnownUidKeepsAlias

-----------------------------------------------------------------------------
(* Recordings. *)
(* A session of which nothing has been recorded yet, and its directory. *)
SessionType ==
  [ms : R!Stamps, transcribe : BOOLEAN, users : SUBSET RecordedUsers, writers : SUBSET RecordedUsers,
   contexts : SUBSET RecordedUsers, frames : 0..MaxFrames]
Unrecorded(s) == s.writers = {} /\ s.contexts = {} /\ s.frames = 0
Clean(ms) == disk[ms].lines = <<>> /\ \A u \in RecordedUsers : disk[ms].wav[u] = 0

Directory == [starts : Nat, lines : Seq(RecordedUsers), wav : [RecordedUsers -> Nat], segments : SUBSET Nat]
Entry == [ms : R!Stamps, transcribe : BOOLEAN, users : SUBSET RecordedUsers, frames : 0..MaxFrames]

RecordingTypes ==
  /\ clock \in R!Stamps /\ nextSegment \in 1..(MaxSegments + 1) /\ engineError \in BOOLEAN
  /\ disk \in [R!Stamps -> Directory]
  /\ active \in SUBSET SessionType /\ starting \in [Admins -> SUBSET SessionType]
  /\ \A s, t \in active : s = t
  /\ recent \in Seq(Entry)
  /\ Len(recent) <= KeepRecent
  /\ jobs \in SUBSET [ms : R!Stamps, users : SUBSET RecordedUsers]

Sources == {"manual", "recording"}
SegmentsRight ==
  /\ segments \in Seq([id : Nat, user : RecordedUsers, source : Sources, of : Nat])
  /\ Len(segments) <= KeepSegments
  /\ \A i \in DOMAIN segments : segments[i].id < nextSegment
  /\ \A i, j \in DOMAIN segments : i < j => segments[i].id < segments[j].id

(* A directory that one start made has one session at most, wherever that is. *)
OneSession ==
  /\ \A ms \in R!Stamps : disk[ms].starts = 0 => Clean(ms)
  /\ \A a \in Admins : \A s \in starting[a] :
       /\ disk[s.ms].starts > 0 /\ Unrecorded(s) /\ starting[a] = {s}
       /\ disk[s.ms].starts = 1 =>
            /\ Clean(s.ms)
            /\ \A t \in active : t.ms # s.ms
            /\ \A i \in DOMAIN recent : recent[i].ms # s.ms
            /\ \A b \in Admins : \A t \in starting[b] : t.ms = s.ms => a = b
  /\ \A s \in active :
       /\ disk[s.ms].starts > 0
       /\ disk[s.ms].starts = 1 => \A i \in DOMAIN recent : recent[i].ms # s.ms
  /\ \A i \in DOMAIN recent :
       /\ disk[recent[i].ms].starts > 0
       /\ disk[recent[i].ms].starts = 1 =>
            \A j \in DOMAIN recent : recent[j].ms = recent[i].ms => i = j

AgreesAt(ms, frames, users) ==
  /\ \A u \in RecordedUsers : disk[ms].wav[u] = R!Lines(ms, u)
  /\ frames = Len(disk[ms].lines)
  /\ \A u \in RecordedUsers : disk[ms].wav[u] > 0 <=> u \in users

SessionsAgree ==
  ~engineError =>
    /\ \A s \in active :
         disk[s.ms].starts = 1 => AgreesAt(s.ms, s.frames, s.contexts) /\ s.writers = s.contexts
    /\ \A i \in DOMAIN recent :
         disk[recent[i].ms].starts = 1 => AgreesAt(recent[i].ms, recent[i].frames, recent[i].users)

RecordingInv == RecordingTypes /\ SegmentsRight /\ OneSession /\ SessionsAgree

LEMMA LastRight ==
  ASSUME NEW S, NEW seq \in Seq(S), NEW n \in Nat
  PROVE  /\ R!Last(seq, n) \in Seq(S) /\ Len(R!Last(seq, n)) <= n
         /\ \E d \in Nat : \A i \in DOMAIN R!Last(seq, n) :
              i + d \in DOMAIN seq /\ R!Last(seq, n)[i] = seq[i + d]
<1>1. CASE Len(seq) <= n
  <2>1. R!Last(seq, n) = seq
    BY <1>1 DEF R!Last
  <2>2. \A i \in DOMAIN seq : i + 0 \in DOMAIN seq /\ seq[i] = seq[i + 0]
    OBVIOUS
  <2> QED BY <1>1, <2>1, <2>2
<1>2. CASE Len(seq) > n
  <2> DEFINE d == Len(seq) - n
  <2>1. /\ d \in Nat /\ d + n = Len(seq) /\ d + 1 \in 1..(Len(seq) + 1)
        /\ R!Last(seq, n) = SubSeq(seq, d + 1, Len(seq))
    BY <1>2 DEF R!Last
  <2> HIDE DEF d
  <2>2. /\ R!Last(seq, n) \in Seq(S) /\ Len(R!Last(seq, n)) = n
        /\ \A i \in 1..n : i + d \in 1..Len(seq) /\ R!Last(seq, n)[i] = seq[i + d]
    <3>1. PICK tail : tail = SubSeq(seq, d + 1, Len(seq))
      OBVIOUS
    <3>2. tail \in Seq(S) /\ Len(tail) = n
      BY <2>1, <3>1
    <3>3. \A i \in 1..n : i + d \in 1..Len(seq) /\ tail[i] = seq[i + d]
      BY <2>1, <3>1
    <3> QED BY <2>1, <3>1, <3>2, <3>3
  <2>3. DOMAIN R!Last(seq, n) = 1..n
    BY <2>2
  <2>4. \A i \in DOMAIN R!Last(seq, n) : i + d \in DOMAIN seq /\ R!Last(seq, n)[i] = seq[i + d]
    BY <2>2, <2>3
  <2> QED BY <2>1, <2>2, <2>4
<1> QED BY <1>1, <1>2

(* How often a user is in the metadata. *)
Where(lines, u) == {i \in DOMAIN lines : lines[i] = u}

LEMMA WhereCounts ==
  ASSUME NEW lines \in Seq(RecordedUsers), NEW u \in RecordedUsers, NEW v \in RecordedUsers
  PROVE  /\ Cardinality(Where(lines, v)) \in Nat
         /\ Cardinality(Where(Append(lines, u), v)) =
              Cardinality(Where(lines, v)) + (IF u = v THEN 1 ELSE 0)
         /\ Cardinality(Where(<<>>, v)) = 0
<1>1. IsFiniteSet(Where(lines, v)) /\ Cardinality(Where(lines, v)) \in Nat
  <2>1. IsFiniteSet(1..Len(lines))
    BY FS_Interval
  <2>2. Where(lines, v) \in SUBSET (1..Len(lines))
    BY DEF Where
  <2> QED BY <2>1, <2>2, FS_Subset, FS_CardinalityType
<1>0. Cardinality(Where(<<>>, v)) = 0
  <2>1. Where(<<>>, v) = {}
    BY DEF Where
  <2> QED BY <2>1, FS_EmptySet
<1>2. CASE u = v
  <2>1. Where(Append(lines, u), v) = Where(lines, v) \cup {Len(lines) + 1}
    BY <1>2 DEF Where
  <2>2. Len(lines) + 1 \notin Where(lines, v)
    BY DEF Where
  <2>3. Cardinality(Where(lines, v) \cup {Len(lines) + 1}) = Cardinality(Where(lines, v)) + 1
    BY <1>1, <2>2, FS_AddElement
  <2> QED BY <1>0, <1>1, <1>2, <2>1, <2>3
<1>3. CASE u # v
  <2>1. Where(Append(lines, u), v) = Where(lines, v)
    BY <1>3 DEF Where
  <2> QED BY <1>0, <1>1, <1>3, <2>1
<1> QED BY <1>2, <1>3

(* The module counts with the operator of the module that it extends. *)
LEMMA SameCount == ASSUME NEW S PROVE R!Cardinality(S) = Cardinality(S)
BY DEF R!Cardinality, Cardinality

LEMMA LinesAreWhere == ASSUME NEW ms, NEW u PROVE R!Lines(ms, u) = Cardinality(Where(disk[ms].lines, u))
BY SameCount DEF R!Lines, Where

LEMMA RecordingFields ==
  ASSUME RecordingTypes
  PROVE  /\ clock \in R!Stamps
         /\ \A ms \in R!Stamps :
              /\ disk[ms].starts \in Nat /\ disk[ms].lines \in Seq(RecordedUsers)
              /\ disk[ms].wav \in [RecordedUsers -> Nat] /\ disk[ms] \in Directory
         /\ \A b \in Admins : \A s \in starting[b] : s \in SessionType /\ s.ms \in R!Stamps
         /\ \A s \in active : s \in SessionType /\ s.ms \in R!Stamps
         /\ \A i \in DOMAIN recent : recent[i] \in Entry /\ recent[i].ms \in R!Stamps
<1>1. \A ms \in R!Stamps : disk[ms] \in Directory
  BY DEF RecordingTypes
<1>2. \A i \in DOMAIN recent : recent[i] \in Entry
  BY DEF RecordingTypes
<1>3. \A b \in Admins : starting[b] \subseteq SessionType
  BY DEF RecordingTypes
<1>4. clock \in R!Stamps /\ active \subseteq SessionType
  BY DEF RecordingTypes
<1> QED BY <1>1, <1>2, <1>3, <1>4 DEF Directory, Entry, SessionType

LEMMA RecordingInit == ASSUME R!RecordingAssumption, R!Init PROVE RecordingInv
<1> USE DEF R!Init, R!RecordingAssumption
<1>1. RecordingTypes
  <2>1. disk \in [R!Stamps -> Directory]
    <3>1. [starts |-> 0, lines |-> <<>>, wav |-> [u \in RecordedUsers |-> 0], segments |-> {}] \in Directory
      BY DEF Directory
    <3> QED BY <3>1
  <2>2. clock \in R!Stamps /\ nextSegment \in 1..(MaxSegments + 1) /\ engineError \in BOOLEAN
    BY 1 \in 1..MaxClock, 1 \in 1..(MaxSegments + 1) DEF R!Stamps
  <2>3. recent \in Seq(Entry)
    OBVIOUS
  <2>4. starting \in [Admins -> SUBSET SessionType] /\ active = {} /\ jobs = {}
    OBVIOUS
  <2>5. Len(recent) <= KeepRecent
    OBVIOUS
  <2> QED BY <2>1, <2>2, <2>3, <2>4, <2>5 DEF RecordingTypes
<1>2. SegmentsRight
  BY DEF SegmentsRight
<1>3. OneSession
  BY DEF OneSession, Clean
<1>4. SessionsAgree
  BY DEF SessionsAgree
<1> QED BY <1>1, <1>2, <1>3, <1>4 DEF RecordingInv

(* Only what the directories say of frames matters, and who is at them. *)
LEMMA RecordingStays ==
  ASSUME RecordingInv, UNCHANGED <<starting, active, recent>>, engineError => engineError',
         \A ms \in R!Stamps : /\ disk'[ms].starts = disk[ms].starts
                              /\ disk'[ms].lines = disk[ms].lines /\ disk'[ms].wav = disk[ms].wav
  PROVE  OneSession' /\ SessionsAgree'
<1>0. RecordingTypes /\ OneSession /\ SessionsAgree
  BY DEF RecordingInv
<1>1. /\ \A b \in Admins : \A s \in starting[b] : s.ms \in R!Stamps
      /\ \A s \in active : s.ms \in R!Stamps
      /\ \A i \in DOMAIN recent : recent[i].ms \in R!Stamps
  BY <1>0, RecordingFields
<1>2. \A ms \in R!Stamps : Clean(ms)' <=> Clean(ms)
  BY DEF Clean
<1>3. \A ms \in R!Stamps : \A k, us : AgreesAt(ms, k, us)' <=> AgreesAt(ms, k, us)
  BY DEF AgreesAt, R!Lines
<1>4. OneSession'
  <2>1. \A ms \in R!Stamps : disk'[ms].starts = 0 => Clean(ms)'
    BY <1>0, <1>2 DEF OneSession
  <2>2. ASSUME NEW b \in Admins, NEW r \in starting'[b]
        PROVE  /\ disk'[r.ms].starts > 0 /\ Unrecorded(r) /\ starting'[b] = {r}
               /\ disk'[r.ms].starts = 1 =>
                    /\ Clean(r.ms)'
                    /\ \A t \in active' : t.ms # r.ms
                    /\ \A i \in DOMAIN recent' : recent'[i].ms # r.ms
                    /\ \A c \in Admins : \A t \in starting'[c] : t.ms = r.ms => b = c
    BY <1>0, <1>1, <1>2 DEF OneSession
  <2>3. ASSUME NEW r \in active'
        PROVE  /\ disk'[r.ms].starts > 0
               /\ disk'[r.ms].starts = 1 => \A i \in DOMAIN recent' : recent'[i].ms # r.ms
    BY <1>0, <1>1 DEF OneSession
  <2>4. ASSUME NEW i \in DOMAIN recent'
        PROVE  /\ disk'[recent'[i].ms].starts > 0
               /\ disk'[recent'[i].ms].starts = 1 =>
                    \A j \in DOMAIN recent' : recent'[j].ms = recent'[i].ms => i = j
    BY <1>0, <1>1 DEF OneSession
  <2> QED BY <2>1, <2>2, <2>3, <2>4 DEF OneSession
<1>5. SessionsAgree'
  BY <1>0, <1>1, <1>3 DEF SessionsAgree
<1> QED BY <1>4, <1>5

LEMMA MakeFilesKeeps ==
  ASSUME R!RecordingAssumption, RecordingInv, NEW a \in Admins, NEW transcribe \in BOOLEAN,
         NEW users \in SUBSET RecordedUsers, R!MakeFiles(a, transcribe, users)
  PROVE  RecordingInv'
<1> DEFINE new == R!Session(clock, transcribe, users)
<1>0. RecordingTypes /\ SegmentsRight /\ OneSession /\ SessionsAgree
  BY DEF RecordingInv
<1>1. /\ starting' = [starting EXCEPT ![a] = {new}] /\ starting[a] = {}
      /\ UNCHANGED <<clock, active, recent, jobs, segments, nextSegment, engineError>>
  BY DEF R!MakeFiles
<1>2. /\ new \in SessionType /\ new.ms = clock /\ Unrecorded(new)
  BY <1>0 DEF RecordingTypes, SessionType, R!Session, Unrecorded, R!RecordingAssumption
<1> HIDE DEF new
<1>3. /\ disk' \in [R!Stamps -> Directory]
      /\ disk'[clock].starts = disk[clock].starts + 1 /\ disk'[clock].lines = <<>>
      /\ disk'[clock].wav = disk[clock].wav
      /\ \A ms \in R!Stamps : ms # clock => disk'[ms] = disk[ms]
  <2>1. /\ disk' = [disk EXCEPT ![clock].starts = @ + 1, ![clock].lines = <<>>]
        /\ clock \in R!Stamps
    BY <1>0 DEF R!MakeFiles, RecordingTypes
  <2>2. disk \in [R!Stamps -> Directory]
    BY <1>0 DEF RecordingTypes
  <2>3. disk'[clock] = [disk[clock] EXCEPT !.starts = @ + 1, !.lines = <<>>]
    BY <2>1, <2>2
  <2>4. disk[clock] \in Directory
    BY <2>1, <2>2
  <2>5. /\ disk'[clock].starts = disk[clock].starts + 1 /\ disk'[clock].lines = <<>>
        /\ disk'[clock].wav = disk[clock].wav /\ disk'[clock] \in Directory
    <3>1. disk'[clock] = [starts |-> disk[clock].starts + 1, lines |-> <<>>,
                          wav |-> disk[clock].wav, segments |-> disk[clock].segments]
      BY <2>3, <2>4 DEF Directory
    <3> QED BY <2>4, <3>1 DEF Directory
  <2>6. \A ms \in R!Stamps : ms # clock => disk'[ms] = disk[ms]
    BY <2>1, <2>2
  <2>7. disk' \in [R!Stamps -> Directory]
    <3>1. disk' = [ms \in R!Stamps |-> disk'[ms]]
      BY <2>1, <2>2
    <3> QED BY <2>2, <2>5, <2>6, <3>1
  <2> QED BY <2>5, <2>6, <2>7
<1>4. clock \in R!Stamps /\ \A ms \in R!Stamps : disk[ms].starts \in Nat
  BY <1>0, RecordingFields
<1>5. RecordingTypes'
  BY <1>0, <1>1, <1>2, <1>3 DEF RecordingTypes
<1>6. SegmentsRight'
  BY <1>0, <1>1 DEF SegmentsRight
<1>7. /\ \A b \in Admins : \A s \in starting[b] : s.ms \in R!Stamps
      /\ \A s \in active : s.ms \in R!Stamps
      /\ \A i \in DOMAIN recent : recent[i].ms \in R!Stamps
  BY <1>0, RecordingFields
<1>8. \A ms \in R!Stamps : disk'[ms].starts = 1 => ms # clock \/ (disk[clock].starts = 0 /\ Clean(clock))
  BY <1>0, <1>3, <1>4 DEF OneSession
<1>9. \A ms \in R!Stamps : ms # clock =>
        /\ disk'[ms].starts = disk[ms].starts
        /\ Clean(ms) <=> Clean(ms)'
  BY <1>1, <1>3 DEF Clean
<1>10. \A ms \in R!Stamps : ms = clock /\ disk[clock].starts = 0 => Clean(ms)'
  BY <1>0, <1>1, <1>3 DEF Clean, OneSession, RecordingTypes
<1>11. /\ starting'[a] = {new} /\ \A b \in Admins \ {a} : starting'[b] = starting[b]
       /\ \A b \in Admins : \A s \in starting'[b] : (b = a /\ s = new) \/ (b # a /\ s \in starting[b])
  BY <1>0, <1>1 DEF RecordingTypes
<1>12. OneSession'
  <2>1. \A ms \in R!Stamps : disk'[ms].starts = 0 => Clean(ms)'
    BY <1>0, <1>3, <1>4, <1>9 DEF OneSession
  <2>2. ASSUME NEW b \in Admins, NEW s \in starting'[b]
        PROVE  /\ disk'[s.ms].starts > 0 /\ Unrecorded(s) /\ starting'[b] = {s}
               /\ disk'[s.ms].starts = 1 =>
                    /\ Clean(s.ms)'
                    /\ \A t \in active' : t.ms # s.ms
                    /\ \A i \in DOMAIN recent' : recent'[i].ms # s.ms
                    /\ \A c \in Admins : \A t \in starting'[c] : t.ms = s.ms => b = c
    <3>1. CASE b = a
      <4>1. s = new
        BY <1>11, <2>2, <3>1
      <4>2. s.ms = clock /\ Unrecorded(s) /\ starting'[b] = {s}
        BY <1>2, <1>11, <3>1, <4>1
      <4>3. disk'[s.ms].starts > 0
        BY <1>3, <1>4, <4>2
      <4>4. ASSUME disk'[s.ms].starts = 1
            PROVE  /\ Clean(s.ms)'
                   /\ \A t \in active' : t.ms # s.ms
                   /\ \A i \in DOMAIN recent' : recent'[i].ms # s.ms
                   /\ \A c \in Admins : \A t \in starting'[c] : t.ms = s.ms => b = c
        <5>1. disk[clock].starts = 0
          BY <1>3, <1>4, <4>2, <4>4
        <5>2. /\ \A t \in active : t.ms # clock
              /\ \A i \in DOMAIN recent : recent[i].ms # clock
              /\ \A c \in Admins : \A t \in starting[c] : t.ms # clock
          BY <1>0, <5>1 DEF OneSession
        <5>3. Clean(s.ms)'
          BY <1>4, <1>10, <4>2, <5>1
        <5> QED BY <1>1, <1>11, <3>1, <4>2, <5>2, <5>3
      <4> QED BY <4>2, <4>3, <4>4
    <3>2. CASE b # a
      <4>1. s \in starting[b] /\ s.ms \in R!Stamps
        BY <1>7, <1>11, <2>2, <3>2
      <4>2. CASE s.ms = clock
        <5>1. disk[clock].starts > 0 /\ Unrecorded(s) /\ starting[b] = {s}
          BY <1>0, <4>1, <4>2 DEF OneSession
        <5>2. disk'[clock].starts # 1 /\ disk'[clock].starts > 0
          BY <1>3, <1>4, <5>1
        <5> QED BY <1>11, <3>2, <4>2, <5>1, <5>2
      <4>3. CASE s.ms # clock
        BY <1>0, <1>1, <1>2, <1>9, <1>11, <3>2, <4>1, <4>3 DEF OneSession
      <4> QED BY <4>2, <4>3
    <3> QED BY <3>1, <3>2
  <2>3. ASSUME NEW s \in active'
        PROVE  /\ disk'[s.ms].starts > 0
               /\ disk'[s.ms].starts = 1 => \A i \in DOMAIN recent' : recent'[i].ms # s.ms
    BY <1>0, <1>1, <1>3, <1>4, <1>7, <1>9 DEF OneSession, RecordingTypes
  <2>4. ASSUME NEW i \in DOMAIN recent'
        PROVE  /\ disk'[recent'[i].ms].starts > 0
               /\ disk'[recent'[i].ms].starts = 1 =>
                    \A j \in DOMAIN recent' : recent'[j].ms = recent'[i].ms => i = j
    <3>1. /\ i \in DOMAIN recent /\ recent' = recent /\ recent[i].ms \in R!Stamps
          /\ disk[recent[i].ms].starts > 0
          /\ disk[recent[i].ms].starts = 1 =>
               \A j \in DOMAIN recent : recent[j].ms = recent[i].ms => i = j
      BY <1>0, <1>1, <1>7, <2>4 DEF OneSession
    <3>2. CASE recent[i].ms = clock
      <4>1. disk'[clock].starts # 1 /\ disk'[clock].starts > 0
        BY <1>3, <1>4, <3>1, <3>2
      <4> QED BY <3>1, <3>2, <4>1
    <3>3. CASE recent[i].ms # clock
      BY <1>9, <3>1, <3>3
    <3> QED BY <3>2, <3>3
  <2> QED BY <2>1, <2>2, <2>3, <2>4 DEF OneSession
<1>13. SessionsAgree'
  <2>1. ASSUME NEW ms \in R!Stamps, disk[ms].starts > 0, disk'[ms].starts = 1
        PROVE  disk'[ms] = disk[ms]
    BY <1>0, <1>3, <1>4, <2>1 DEF RecordingTypes
  <2>2. \A s \in active : disk[s.ms].starts > 0
    BY <1>0 DEF OneSession
  <2>3. \A i \in DOMAIN recent : disk[recent[i].ms].starts > 0
    BY <1>0 DEF OneSession
  <2> QED BY <1>0, <1>1, <1>7, <2>1, <2>2, <2>3 DEF SessionsAgree, AgreesAt, R!Lines
<1> QED BY <1>5, <1>6, <1>12, <1>13 DEF RecordingInv

LEMMA ActivateKeeps ==
  ASSUME R!RecordingAssumption, RecordingInv, NEW a \in Admins, R!Activate(a)
  PROVE  RecordingInv'
<1>0. RecordingTypes /\ SegmentsRight /\ OneSession /\ SessionsAgree
  BY DEF RecordingInv
<1>1. /\ active' = IF active = {} THEN starting[a] ELSE active
      /\ starting' = [starting EXCEPT ![a] = {}]
      /\ UNCHANGED <<clock, disk, recent, jobs, segments, nextSegment, engineError>>
  BY DEF R!Activate
<1>2. /\ starting'[a] = {} /\ \A b \in Admins \ {a} : starting'[b] = starting[b]
      /\ \A b \in Admins : \A s \in starting'[b] : b # a /\ s \in starting[b]
  BY <1>0, <1>1 DEF RecordingTypes
<1>3. \A s, t \in starting[a] : s = t
  BY <1>0 DEF OneSession
<1>4. RecordingTypes'
  BY <1>0, <1>1, <1>3 DEF RecordingTypes
<1>5. SegmentsRight'
  BY <1>0, <1>1 DEF SegmentsRight
<1>6. OneSession'
  BY <1>0, <1>1, <1>2 DEF OneSession, Clean
<1>7. SessionsAgree'
  <2>1. ASSUME ~engineError, NEW s \in active', disk[s.ms].starts = 1
        PROVE  AgreesAt(s.ms, s.frames, s.contexts) /\ s.writers = s.contexts
    <3>1. CASE s \in active
      BY <1>0, <2>1, <3>1 DEF SessionsAgree
    <3>2. CASE s \in starting[a]
      <4>1. Unrecorded(s) /\ Clean(s.ms)
        BY <1>0, <2>1, <3>2 DEF OneSession
      <4>2. s.ms \in R!Stamps
        BY <1>0, <3>2, RecordingFields
      <4>3. \A u \in RecordedUsers : disk[s.ms].wav[u] = 0 /\ R!Lines(s.ms, u) = 0
        <5>1. \A u \in RecordedUsers : Where(<<>>, u) = {}
          BY DEF Where
        <5> QED BY <4>1, <5>1, LinesAreWhere, FS_EmptySet DEF Clean
      <4>4. Len(disk[s.ms].lines) = 0
        BY <4>1 DEF Clean
      <4> QED BY <4>1, <4>3, <4>4 DEF Unrecorded, AgreesAt
    <3> QED BY <1>1, <2>1, <3>1, <3>2
  <2> QED BY <1>0, <1>1, <2>1 DEF SessionsAgree, AgreesAt, R!Lines
<1> QED BY <1>4, <1>5, <1>6, <1>7 DEF RecordingInv

(* What one frame does to its directory. *)
LEMMA RecordedDisk ==
  ASSUME RecordingTypes, NEW u \in RecordedUsers, NEW s \in SessionType, NEW lines \in Seq(RecordedUsers),
         disk' = [disk EXCEPT ![s.ms].wav[u] = (IF u \in s.writers THEN @ ELSE 0) + 1, ![s.ms].lines = lines]
  PROVE  /\ disk' \in [R!Stamps -> Directory]
         /\ \A ms \in R!Stamps : disk'[ms].starts = disk[ms].starts /\ (ms # s.ms => disk'[ms] = disk[ms])
         /\ disk'[s.ms].lines = lines
         /\ \A v \in RecordedUsers : disk'[s.ms].wav[v] =
              IF v = u THEN (IF u \in s.writers THEN disk[s.ms].wav[u] ELSE 0) + 1 ELSE disk[s.ms].wav[v]
<1> DEFINE m == s.ms
           count == (IF u \in s.writers THEN disk[m].wav[u] ELSE 0) + 1
           dir == [disk[m] EXCEPT !.wav[u] = count, !.lines = lines]
<1>1. m \in R!Stamps
  BY DEF SessionType
<1>2. disk \in [R!Stamps -> Directory] /\ disk[m] \in Directory /\ disk[m].wav \in [RecordedUsers -> Nat]
  BY <1>1 DEF RecordingTypes, Directory
<1>3. disk' = [disk EXCEPT ![m] = dir]
  BY <1>2
<1>4. count \in Nat
  BY <1>2
<1> HIDE DEF m, count
<1>5. dir = [disk[m] EXCEPT !.wav = [disk[m].wav EXCEPT ![u] = count], !.lines = lines]
  BY <1>2 DEF Directory
<1> HIDE DEF dir
<1>6. [disk[m].wav EXCEPT ![u] = count] \in [RecordedUsers -> Nat]
  BY <1>2, <1>4
<1>7. dir \in Directory
  BY <1>2, <1>5, <1>6 DEF Directory
<1>8. disk'[m] = dir /\ \A ms \in R!Stamps : ms # m => disk'[ms] = disk[ms]
  BY <1>1, <1>2, <1>3
<1>9. disk' \in [R!Stamps -> Directory]
  BY <1>2, <1>3, <1>7
<1>10. dir.starts = disk[m].starts /\ dir.lines = lines /\ dir.wav = [disk[m].wav EXCEPT ![u] = count]
  BY <1>2, <1>5, <1>6 DEF Directory
<1>11. \A v \in RecordedUsers : dir.wav[v] = IF v = u THEN count ELSE disk[m].wav[v]
  BY <1>2, <1>10
<1> QED BY <1>1, <1>8, <1>9, <1>10, <1>11 DEF m, count

(* A step of the active session that leaves it at its directory, and that of the others
   alone. *)
LEMMA RecordingGoesOn ==
  ASSUME RecordingInv, NEW s \in SessionType, NEW n \in SessionType, s \in active, active' = {n}, n.ms = s.ms,
         UNCHANGED <<starting, recent>>,
         \A ms \in R!Stamps : disk'[ms].starts = disk[ms].starts /\ (ms # s.ms => disk'[ms] = disk[ms])
  PROVE  /\ OneSession'
         /\ \A i \in DOMAIN recent : disk[recent[i].ms].starts = 1 => recent[i].ms # s.ms
<1>0. OneSession /\ RecordingTypes /\ s.ms \in R!Stamps
  BY DEF RecordingInv, SessionType
<1>1. disk[s.ms].starts > 0 /\ (disk[s.ms].starts = 1 => \A i \in DOMAIN recent : recent[i].ms # s.ms)
  BY <1>0 DEF OneSession
<1>2. \A i \in DOMAIN recent : recent[i].ms \in R!Stamps
  BY <1>0, RecordingFields
<1>3. \A b \in Admins : \A t \in starting[b] : t.ms \in R!Stamps
  BY <1>0, RecordingFields
<1>4. \A ms \in R!Stamps : ms # s.ms => (Clean(ms) <=> Clean(ms)')
  BY <1>0 DEF Clean
<1>5. ASSUME NEW ms \in R!Stamps, disk'[ms].starts = 0 PROVE Clean(ms)'
  <2>1. disk[ms].starts = 0 /\ ms # s.ms
    BY <1>1, <1>5
  <2> QED BY <1>0, <1>4, <2>1 DEF OneSession
<1>6. ASSUME NEW b \in Admins, NEW r \in starting'[b]
      PROVE  /\ disk'[r.ms].starts > 0 /\ Unrecorded(r) /\ starting'[b] = {r}
             /\ disk'[r.ms].starts = 1 =>
                  /\ Clean(r.ms)'
                  /\ \A t \in active' : t.ms # r.ms
                  /\ \A i \in DOMAIN recent' : recent'[i].ms # r.ms
                  /\ \A c \in Admins : \A t \in starting'[c] : t.ms = r.ms => b = c
  <2>1. /\ r \in starting[b] /\ r.ms \in R!Stamps /\ disk'[r.ms].starts = disk[r.ms].starts
        /\ starting' = starting /\ recent' = recent
    BY <1>3, <1>6
  <2>2. /\ disk[r.ms].starts > 0 /\ Unrecorded(r) /\ starting[b] = {r}
        /\ disk[r.ms].starts = 1 =>
             /\ Clean(r.ms)
             /\ \A t \in active : t.ms # r.ms
             /\ \A i \in DOMAIN recent : recent[i].ms # r.ms
             /\ \A c \in Admins : \A t \in starting[c] : t.ms = r.ms => b = c
    BY <1>0, <2>1 DEF OneSession
  <2>3. disk[r.ms].starts = 1 => r.ms # s.ms
    BY <2>2
  <2> QED BY <1>4, <2>1, <2>2, <2>3
<1>7. ASSUME NEW r \in active'
      PROVE  /\ disk'[r.ms].starts > 0
             /\ disk'[r.ms].starts = 1 => \A i \in DOMAIN recent' : recent'[i].ms # r.ms
  BY <1>0, <1>1, <1>7
<1>8. ASSUME NEW i \in DOMAIN recent'
      PROVE  /\ disk'[recent'[i].ms].starts > 0
             /\ disk'[recent'[i].ms].starts = 1 =>
                  \A j \in DOMAIN recent' : recent'[j].ms = recent'[i].ms => i = j
  <2>1. /\ i \in DOMAIN recent /\ recent' = recent /\ recent[i].ms \in R!Stamps
        /\ disk'[recent[i].ms].starts = disk[recent[i].ms].starts
    BY <1>2, <1>8
  <2> QED BY <1>0, <2>1 DEF OneSession
<1>9. OneSession'
  BY <1>5, <1>6, <1>7, <1>8 DEF OneSession
<1> QED BY <1>1, <1>9

LEMMA FrameKeeps ==
  ASSUME R!RecordingAssumption, RecordingInv, NEW u \in RecordedUsers, R!Frame(u)
  PROVE  RecordingInv'
<1>0. RecordingTypes /\ SegmentsRight /\ OneSession /\ SessionsAgree
  BY DEF RecordingInv
<1>1. UNCHANGED <<clock, starting, recent, jobs, segments, nextSegment>>
  BY DEF R!Frame
<1>2. PICK now \in active :
        /\ u \in now.users /\ now.frames < MaxFrames
        /\ LET s == R!Opened(now, u) IN
             \/ R!Recorded(u, s, Append(disk[s.ms].lines, u), FALSE)
             \/ R!Recorded(u, s, disk[s.ms].lines, TRUE)
             \/ /\ active' = {s} /\ engineError' = TRUE
                /\ UNCHANGED disk
  BY DEF R!Frame
<1> DEFINE s == R!Opened(now, u)
           n == [s EXCEPT !.writers = @ \cup {u}, !.frames = @ + 1]
<1>3. now \in SessionType /\ now.ms \in R!Stamps /\ now.frames \in Nat /\ active = {now}
  BY <1>0, RecordingFields DEF RecordingTypes, SessionType
<1>4. s = [ms |-> now.ms, transcribe |-> now.transcribe, users |-> now.users,
           writers |-> now.writers, contexts |-> now.contexts \cup {u}, frames |-> now.frames]
  BY <1>3 DEF R!Opened, SessionType
<1> HIDE DEF s
<1>5. s \in SessionType /\ s.ms = now.ms /\ s.writers = now.writers
  BY <1>3, <1>4 DEF SessionType
<1>6. /\ n.ms = now.ms /\ n.writers = now.writers \cup {u} /\ n.contexts = now.contexts \cup {u}
      /\ n.frames = now.frames + 1
  <2>1. s.contexts = now.contexts \cup {u} /\ s.frames = now.frames
    BY <1>4
  <2> QED BY <1>5, <2>1 DEF SessionType
<1>7. n \in SessionType
  <2>1. now.frames + 1 \in 0..MaxFrames /\ s.frames = now.frames
    BY <1>2, <1>3, <1>4 DEF R!RecordingAssumption
  <2> QED BY <1>5, <2>1 DEF SessionType
<1> HIDE DEF n
<1>8. disk[s.ms].lines \in Seq(RecordedUsers) /\ Append(disk[s.ms].lines, u) \in Seq(RecordedUsers)
  BY <1>0, <1>3, <1>5, RecordingFields
<1>9. SegmentsRight'
  BY <1>0, <1>1 DEF SegmentsRight
<1>10. ASSUME NEW lines \in Seq(RecordedUsers), NEW fails \in BOOLEAN, R!Recorded(u, s, lines, fails),
              fails \/ lines = Append(disk[s.ms].lines, u)
       PROVE  RecordingInv'
  <2>1. /\ disk' = [disk EXCEPT ![s.ms].wav[u] = (IF u \in s.writers THEN @ ELSE 0) + 1, ![s.ms].lines = lines]
        /\ active' = {n} /\ engineError' = (engineError \/ fails)
    BY <1>10 DEF R!Recorded, n
  <2>2. /\ disk' \in [R!Stamps -> Directory]
        /\ \A ms \in R!Stamps : disk'[ms].starts = disk[ms].starts /\ (ms # s.ms => disk'[ms] = disk[ms])
        /\ disk'[s.ms].lines = lines
        /\ \A v \in RecordedUsers : disk'[s.ms].wav[v] =
             IF v = u THEN (IF u \in s.writers THEN disk[s.ms].wav[u] ELSE 0) + 1 ELSE disk[s.ms].wav[v]
    BY ZenonT(60), <1>0, <1>5, <2>1, RecordedDisk
  <2>3. RecordingTypes'
    BY <1>0, <1>1, <1>7, <2>1, <2>2 DEF RecordingTypes
  <2>4. OneSession' /\ \A i \in DOMAIN recent : disk[recent[i].ms].starts = 1 => recent[i].ms # now.ms
    BY <1>1, <1>3, <1>5, <1>6, <1>7, <2>1, <2>2, RecordingGoesOn
  <2>5. ASSUME ~engineError', disk'[n.ms].starts = 1
        PROVE  AgreesAt(n.ms, n.frames, n.contexts)' /\ n.writers = n.contexts
    <3>1. /\ ~engineError /\ disk[now.ms].starts = 1 /\ lines = Append(disk[now.ms].lines, u)
      BY <1>3, <1>5, <1>6, <1>10, <2>1, <2>2, <2>5
    <3>2. AgreesAt(now.ms, now.frames, now.contexts) /\ now.writers = now.contexts
      BY <1>0, <1>3, <3>1 DEF SessionsAgree
    <3>3. n.frames = Len(disk'[now.ms].lines)
      BY <1>5, <1>6, <1>8, <2>2, <3>1, <3>2 DEF AgreesAt
    <3>4. ASSUME NEW v \in RecordedUsers PROVE disk'[now.ms].wav[v] = R!Lines(now.ms, v)'
      <4>1. disk[now.ms].wav[v] = Cardinality(Where(disk[now.ms].lines, v)) /\ disk[now.ms].wav[v] \in Nat
        BY <1>0, <1>3, <3>2, LinesAreWhere, RecordingFields DEF AgreesAt
      <4>2. Cardinality(Where(lines, v)) = disk[now.ms].wav[v] + (IF u = v THEN 1 ELSE 0)
        BY <1>5, <1>8, <3>1, <4>1, WhereCounts
      <4>3. R!Lines(now.ms, v)' = Cardinality(Where(lines, v))
        BY <1>5, <2>2, SameCount DEF R!Lines, Where
      <4>4. u \notin now.writers => disk[now.ms].wav[u] = 0
        BY <1>0, <1>3, <3>2, RecordingFields DEF AgreesAt
      <4> QED BY <1>5, <2>2, <4>1, <4>2, <4>3, <4>4
    <3>5. ASSUME NEW v \in RecordedUsers PROVE disk'[now.ms].wav[v] > 0 <=> v \in now.contexts \cup {u}
      <4>1. disk[now.ms].wav \in [RecordedUsers -> Nat]
        BY <1>0, <1>3, RecordingFields
      <4>2. CASE v = u
        <5>1. /\ disk[now.ms].wav[u] \in Nat
              /\ disk'[now.ms].wav[u] = (IF u \in s.writers THEN disk[now.ms].wav[u] ELSE 0) + 1
          BY <1>5, <2>2, <4>1
        <5> QED BY <4>2, <5>1
      <4>3. CASE v # u
        BY <1>5, <2>2, <3>2, <4>1, <4>3 DEF AgreesAt
      <4> QED BY <4>2, <4>3
    <3>6. n.contexts = now.contexts \cup {u} /\ n.writers = now.writers \cup {u} /\ n.ms = now.ms
      BY <1>6
    <3> QED BY <3>2, <3>3, <3>4, <3>5, <3>6 DEF AgreesAt
  <2>6. ASSUME ~engineError', NEW i \in DOMAIN recent', disk'[recent'[i].ms].starts = 1
        PROVE  AgreesAt(recent[i].ms, recent[i].frames, recent[i].users)'
    <3>1. /\ ~engineError /\ recent' = recent /\ i \in DOMAIN recent /\ recent[i].ms \in R!Stamps
          /\ disk[recent[i].ms].starts = 1
      BY <1>0, <1>1, <2>1, <2>2, <2>6, RecordingFields
    <3>2. disk'[recent[i].ms] = disk[recent[i].ms]
      BY <1>5, <2>2, <2>4, <3>1
    <3>3. AgreesAt(recent[i].ms, recent[i].frames, recent[i].users)
      BY <1>0, <3>1 DEF SessionsAgree
    <3> QED BY <3>1, <3>2, <3>3, SMTT(30) DEF AgreesAt, R!Lines
  <2>7. SessionsAgree'
    BY <2>1, <2>5, <2>6 DEF SessionsAgree
  <2> QED BY <1>9, <2>3, <2>4, <2>7 DEF RecordingInv
<1>11. ASSUME active' = {s}, engineError' = TRUE, UNCHANGED disk
       PROVE  RecordingInv'
  <2>1. RecordingTypes'
    BY <1>0, <1>1, <1>5, <1>11 DEF RecordingTypes
  <2>2. OneSession'
    BY <1>1, <1>3, <1>5, <1>11, RecordingGoesOn
  <2>3. SessionsAgree'
    BY <1>11 DEF SessionsAgree
  <2> QED BY <1>9, <2>1, <2>2, <2>3 DEF RecordingInv
<1> QED BY <1>2, <1>8, <1>10, <1>11 DEF s

(* The list of a stop: what was there, and the session that ended. *)
LEMMA StopKeeps == ASSUME R!RecordingAssumption, RecordingInv, R!Stop PROVE RecordingInv'
<1>0. RecordingTypes /\ SegmentsRight /\ OneSession /\ SessionsAgree /\ KeepRecent \in Nat
  BY DEF RecordingInv, R!RecordingAssumption
<1>1. /\ UNCHANGED <<clock, disk, starting, segments, nextSegment>> /\ active' = {}
      /\ engineError' = engineError \/ engineError' = TRUE
  BY DEF R!Stop
<1>2. PICK s \in active :
        /\ recent' = R!Last(Append(recent, [ms |-> s.ms, transcribe |-> s.transcribe,
                                          users |-> s.contexts, frames |-> s.frames]), KeepRecent)
        /\ jobs' = IF s.transcribe THEN jobs \cup {[ms |-> s.ms, users |-> s.contexts]} ELSE jobs
  BY DEF R!Stop
<1> DEFINE e == [ms |-> s.ms, transcribe |-> s.transcribe, users |-> s.contexts, frames |-> s.frames]
<1>3. s \in SessionType /\ s.ms \in R!Stamps
  BY <1>0, RecordingFields
<1>4. e \in Entry /\ e.ms = s.ms /\ e.users = s.contexts /\ e.frames = s.frames
  BY <1>3 DEF SessionType, Entry
<1>5. recent' = R!Last(Append(recent, e), KeepRecent)
  BY <1>2
<1>6. jobs' \in SUBSET [ms : R!Stamps, users : SUBSET RecordedUsers]
  BY <1>0, <1>2, <1>3 DEF RecordingTypes, SessionType
<1> HIDE DEF e
<1>7. recent \in Seq(Entry) /\ Append(recent, e) \in Seq(Entry)
  BY <1>0, <1>4 DEF RecordingTypes
<1>8. recent' \in Seq(Entry) /\ Len(recent') <= KeepRecent
  BY <1>0, <1>5, <1>7, LastRight
<1>9. PICK d \in Nat : \A i \in DOMAIN recent' :
        i + d \in DOMAIN Append(recent, e) /\ recent'[i] = Append(recent, e)[i + d]
  <2>1. \E d \in Nat : \A i \in DOMAIN R!Last(Append(recent, e), KeepRecent) :
           i + d \in DOMAIN Append(recent, e) /\ R!Last(Append(recent, e), KeepRecent)[i] = Append(recent, e)[i + d]
    BY <1>0, <1>7, LastRight
  <2> QED BY <1>5, <2>1
<1>10. \A i \in DOMAIN recent' : \/ i + d \in DOMAIN recent /\ recent'[i] = recent[i + d]
                                 \/ i + d = Len(recent) + 1 /\ recent'[i] = e
  BY <1>7, <1>9
<1>11. \A i \in DOMAIN recent' : i \in Nat /\ recent'[i].ms \in R!Stamps
  <2>1. \A i \in DOMAIN recent' : i \in Nat /\ recent'[i] \in Entry
    BY <1>8
  <2> QED BY <2>1 DEF Entry
<1>12. RecordingTypes'
  BY <1>0, <1>1, <1>6, <1>8 DEF RecordingTypes
<1>13. SegmentsRight'
  BY <1>0, <1>1 DEF SegmentsRight
<1>14. OneSession'
  <2>1. \A ms \in R!Stamps : disk'[ms].starts = 0 => Clean(ms)'
    BY <1>0, <1>1 DEF OneSession, Clean
  <2>2. ASSUME NEW b \in Admins, NEW r \in starting'[b]
        PROVE  /\ disk'[r.ms].starts > 0 /\ Unrecorded(r) /\ starting'[b] = {r}
               /\ disk'[r.ms].starts = 1 =>
                    /\ Clean(r.ms)'
                    /\ \A t \in active' : t.ms # r.ms
                    /\ \A i \in DOMAIN recent' : recent'[i].ms # r.ms
                    /\ \A c \in Admins : \A t \in starting'[c] : t.ms = r.ms => b = c
    <3>1. /\ disk[r.ms].starts > 0 /\ Unrecorded(r) /\ starting[b] = {r}
          /\ disk[r.ms].starts = 1 =>
               /\ Clean(r.ms)
               /\ s.ms # r.ms
               /\ \A i \in DOMAIN recent : recent[i].ms # r.ms
               /\ \A c \in Admins : \A t \in starting[c] : t.ms = r.ms => b = c
      BY <1>0, <1>1, <2>2 DEF OneSession
    <3>2. Clean(r.ms)' <=> Clean(r.ms)
      BY <1>1 DEF Clean
    <3> QED BY <1>1, <1>4, <1>10, <3>1, <3>2
  <2>3. ASSUME NEW i \in DOMAIN recent'
        PROVE  /\ disk'[recent'[i].ms].starts > 0
               /\ disk'[recent'[i].ms].starts = 1 =>
                    \A j \in DOMAIN recent' : recent'[j].ms = recent'[i].ms => i = j
    <3>1. disk[s.ms].starts > 0 /\ (disk[s.ms].starts = 1 => \A j \in DOMAIN recent : recent[j].ms # s.ms)
      BY <1>0 DEF OneSession
    <3>2. \A k \in DOMAIN recent :
            /\ disk[recent[k].ms].starts > 0
            /\ disk[recent[k].ms].starts = 1 =>
                 \A j \in DOMAIN recent : recent[j].ms = recent[k].ms => k = j
      BY <1>0 DEF OneSession
    <3>3. disk'[recent'[i].ms].starts > 0
      BY <1>1, <1>4, <1>10, <3>1, <3>2
    <3>4. ASSUME disk'[recent'[i].ms].starts = 1, NEW j \in DOMAIN recent', recent'[j].ms = recent'[i].ms
          PROVE  i = j
      <4>1. i + d = j + d
        BY <1>1, <1>4, <1>10, <3>1, <3>2, <3>4
      <4> QED BY <1>11, <4>1
    <3> QED BY <3>3, <3>4
  <2> QED BY <1>1, <2>1, <2>2, <2>3 DEF OneSession
<1>15. SessionsAgree'
  <2>1. ASSUME ~engineError', NEW i \in DOMAIN recent', disk'[recent'[i].ms].starts = 1
        PROVE  AgreesAt(recent[i].ms, recent[i].frames, recent[i].users)'
    <3>1. AgreesAt(recent'[i].ms, recent'[i].frames, recent'[i].users)
      <4>1. CASE i + d \in DOMAIN recent /\ recent'[i] = recent[i + d]
        BY <1>0, <1>1, <2>1, <4>1 DEF SessionsAgree
      <4>2. CASE recent'[i] = e
        BY <1>0, <1>1, <1>4, <2>1, <4>2 DEF SessionsAgree
      <4> QED BY <1>10, <4>1, <4>2
    <3> QED BY <1>1, <3>1 DEF AgreesAt, R!Lines
  <2> QED BY <1>1, <2>1 DEF SessionsAgree
<1> QED BY <1>12, <1>13, <1>14, <1>15 DEF RecordingInv

(* A segment: its number is new, and it goes to one directory and the end of the list. *)
LEMMA AppendKeeps ==
  ASSUME R!RecordingAssumption, RecordingInv, NEW u \in RecordedUsers, NEW source \in Sources, NEW of \in Nat,
         NEW written \in BOOLEAN, R!AppendSegment(u, source, of, written)
  PROVE  /\ nextSegment' \in 1..(MaxSegments + 1) /\ SegmentsRight' /\ disk' \in [R!Stamps -> Directory]
         /\ \A ms \in R!Stamps : /\ disk'[ms].starts = disk[ms].starts
                                 /\ disk'[ms].lines = disk[ms].lines /\ disk'[ms].wav = disk[ms].wav
<1>0. RecordingTypes /\ SegmentsRight /\ KeepSegments \in Nat /\ MaxSegments \in Nat
  BY DEF RecordingInv, R!RecordingAssumption
<1>1. nextSegment \in Nat /\ nextSegment' = nextSegment + 1 /\ nextSegment' \in 1..(MaxSegments + 1)
  BY <1>0 DEF RecordingTypes, R!AppendSegment
<1>2. SegmentsRight'
  <2> DEFINE Segment == [id : Nat, user : RecordedUsers, source : Sources, of : Nat]
             e == [id |-> nextSegment, user |-> u, source |-> source, of |-> of]
  <2>1. segments \in Seq(Segment) /\ e \in Segment /\ e.id = nextSegment
    BY <1>0, <1>1 DEF SegmentsRight
  <2>2. segments' = IF written THEN R!Last(Append(segments, e), KeepSegments) ELSE segments
    BY DEF R!AppendSegment
  <2> HIDE DEF e
  <2>3. \A i \in DOMAIN segments : segments[i].id \in Nat
    <3> HIDE DEF Segment
    <3>1. \A i \in DOMAIN segments : segments[i] \in Segment
      BY <2>1
    <3> USE DEF Segment
    <3> QED BY <3>1
  <2> HIDE DEF Segment
  <2>4. CASE ~written
    BY <1>0, <1>1, <2>1, <2>2, <2>3, <2>4 DEF SegmentsRight
  <2>5. CASE written
    <3>1. Append(segments, e) \in Seq(Segment)
      BY <2>1
    <3>2. segments' \in Seq(Segment) /\ Len(segments') <= KeepSegments
      BY <1>0, <2>2, <2>5, <3>1, LastRight
    <3>3. PICK d \in Nat : \A i \in DOMAIN segments' :
            i + d \in DOMAIN Append(segments, e) /\ segments'[i] = Append(segments, e)[i + d]
      <4>1. \E d \in Nat : \A i \in DOMAIN R!Last(Append(segments, e), KeepSegments) :
               /\ i + d \in DOMAIN Append(segments, e)
               /\ R!Last(Append(segments, e), KeepSegments)[i] = Append(segments, e)[i + d]
        BY <1>0, <3>1, LastRight
      <4> QED BY <2>2, <2>5, <4>1
    <3>4. \A i \in DOMAIN segments' : i \in Nat /\ (\/ i + d \in DOMAIN segments /\ segments'[i] = segments[i + d]
                                                    \/ i + d = Len(segments) + 1 /\ segments'[i] = e)
      BY <2>1, <3>2, <3>3
    <3>5. \A i \in DOMAIN segments' : segments'[i].id < nextSegment'
      BY <1>0, <1>1, <2>1, <2>3, <3>4 DEF SegmentsRight
    <3>6. ASSUME NEW i \in DOMAIN segments', NEW j \in DOMAIN segments', i < j
          PROVE  segments'[i].id < segments'[j].id
      <4>1. i + d < j + d /\ i + d \in Nat /\ j + d \in Nat
        BY <3>4, <3>6
      <4>2. i + d \in DOMAIN segments /\ segments'[i] = segments[i + d]
        BY <2>1, <3>3, <3>4, <4>1
      <4>3. CASE j + d \in DOMAIN segments /\ segments'[j] = segments[j + d]
        BY <1>0, <4>1, <4>2, <4>3 DEF SegmentsRight
      <4>4. CASE segments'[j] = e
        BY <1>0, <2>1, <4>2, <4>4 DEF SegmentsRight
      <4> QED BY <3>4, <4>3, <4>4
    <3> QED BY <3>2, <3>5, <3>6 DEF SegmentsRight, Segment
  <2> QED BY <2>4, <2>5
<1>3. ASSUME NEW ms \in R!Stamps
      PROVE  /\ disk'[ms] \in Directory /\ disk'[ms].starts = disk[ms].starts
             /\ disk'[ms].lines = disk[ms].lines /\ disk'[ms].wav = disk[ms].wav
  <2>1. disk[ms] \in Directory
    BY <1>0, RecordingFields
  <2>2. disk'[ms] = disk[ms] \/ disk'[ms] = [disk[ms] EXCEPT !.segments = @ \cup {nextSegment}]
    BY DEF R!AppendSegment
  <2> QED BY <1>1, <2>1, <2>2 DEF Directory
<1>4. disk' \in [R!Stamps -> Directory]
  <2>1. disk \in [R!Stamps -> Directory]
    BY <1>0 DEF RecordingTypes
  <2>2. disk' = [ms \in R!Stamps |-> disk'[ms]]
    BY <2>1 DEF R!AppendSegment
  <2> QED BY <1>3, <2>2
<1> QED BY <1>1, <1>2, <1>3, <1>4

(* What is only said about segments. *)
LEMMA SegmentKeeps ==
  ASSUME R!RecordingAssumption, RecordingInv, NEW u \in RecordedUsers, NEW source \in Sources, NEW of \in Nat,
         NEW written \in BOOLEAN, R!AppendSegment(u, source, of, written),
         UNCHANGED <<clock, starting, active, recent, engineError>>,
         jobs' \in SUBSET [ms : R!Stamps, users : SUBSET RecordedUsers]
  PROVE  RecordingInv'
<1>1. RecordingTypes' /\ SegmentsRight'
  BY AppendKeeps DEF RecordingInv, RecordingTypes
<1>2. OneSession' /\ SessionsAgree'
  BY AppendKeeps, RecordingStays
<1> QED BY <1>1, <1>2 DEF RecordingInv

LEMMA TranscribeKeeps ==
  ASSUME R!RecordingAssumption, RecordingInv, NEW job \in jobs, R!Transcribe(job)
  PROVE  RecordingInv'
<1> DEFINE u == CHOOSE v \in job.users : \A w \in job.users : TRUE
           rest == IF job.users = {} THEN {} ELSE {[job EXCEPT !.users = @ \ {u}]}
           Jobs == [ms : R!Stamps, users : SUBSET RecordedUsers]
<1>1. job \in Jobs /\ jobs \in SUBSET Jobs /\ RecordingTypes
  BY DEF RecordingInv, RecordingTypes
<1>2. job.users # {} => u \in RecordedUsers
  BY <1>1
<1>3. job.ms \in Nat
  BY <1>1 DEF R!Stamps
<1> HIDE DEF u
<1>4. rest \in SUBSET Jobs
  BY <1>1
<1> HIDE DEF rest
<1>5. \A on : (jobs \ {job}) \cup (IF on THEN rest ELSE {}) \in SUBSET Jobs
  BY <1>1, <1>4
<1> HIDE DEF Jobs
<1>6. UNCHANGED <<clock, starting, active, recent>>
  BY DEF R!Transcribe
<1>7. \/ /\ UNCHANGED <<disk, segments, nextSegment>> /\ (engineError => engineError') /\ engineError' \in BOOLEAN
         /\ jobs' \in SUBSET Jobs
      \/ /\ job.users # {} /\ UNCHANGED engineError /\ jobs' \in SUBSET Jobs
         /\ \E written \in BOOLEAN : R!AppendSegment(u, "recording", job.ms, written)
  <2> DEFINE Going(on) == jobs' = (jobs \ {job}) \cup (IF on THEN rest ELSE {})
  <2>1. \A on : Going(on) => jobs' \in SUBSET Jobs
    BY <1>5
  <2>2. \/ /\ job.users = {} \/ Engine = "disabled"
           /\ Going(FALSE) /\ engineError' = (engineError \/ Engine = "disabled")
           /\ UNCHANGED <<disk, segments, nextSegment>>
        \/ /\ job.users # {} /\ Engine # "disabled"
           /\ \/ /\ Going(TRUE)
                 /\ UNCHANGED <<disk, segments, nextSegment, engineError>>
              \/ /\ \E written \in BOOLEAN :
                      R!AppendSegment(u, "recording", job.ms, written) /\ Going(written)
                 /\ UNCHANGED engineError
              \/ /\ Going(FALSE)
                 /\ \E status \in BOOLEAN : engineError' = (engineError \/ (status /\ Engine = "external"))
                 /\ UNCHANGED <<disk, segments, nextSegment>>
    BY DEF R!Transcribe, u, rest
  <2> HIDE DEF Going
  <2>3. engineError \in BOOLEAN
    BY <1>1 DEF RecordingTypes
  <2>4. CASE /\ Going(FALSE) /\ engineError' = (engineError \/ Engine = "disabled")
             /\ UNCHANGED <<disk, segments, nextSegment>>
    BY <2>1, <2>3, <2>4
  <2>5. CASE Going(TRUE) /\ UNCHANGED <<disk, segments, nextSegment, engineError>>
    BY <2>1, <2>3, <2>5
  <2>6. CASE /\ job.users # {} /\ UNCHANGED engineError
             /\ \E written \in BOOLEAN : R!AppendSegment(u, "recording", job.ms, written) /\ Going(written)
    BY <2>1, <2>6
  <2>7. CASE /\ Going(FALSE) /\ UNCHANGED <<disk, segments, nextSegment>>
             /\ \E status \in BOOLEAN : engineError' = (engineError \/ (status /\ Engine = "external"))
    BY <2>1, <2>3, <2>7
  <2> QED BY <2>2, <2>4, <2>5, <2>6, <2>7
<1>8. CASE /\ UNCHANGED <<disk, segments, nextSegment>> /\ (engineError => engineError') /\ engineError' \in BOOLEAN
           /\ jobs' \in SUBSET Jobs
  <2>1. RecordingTypes' /\ SegmentsRight'
    BY <1>1, <1>6, <1>8 DEF RecordingInv, RecordingTypes, SegmentsRight, Jobs
  <2>2. OneSession' /\ SessionsAgree'
    BY <1>6, <1>8, RecordingStays
  <2> QED BY <2>1, <2>2 DEF RecordingInv
<1>9. CASE /\ job.users # {} /\ UNCHANGED engineError /\ jobs' \in SUBSET Jobs
           /\ \E written \in BOOLEAN : R!AppendSegment(u, "recording", job.ms, written)
  <2>1. "recording" \in Sources
    BY DEF Sources
  <2>2. PICK written \in BOOLEAN : R!AppendSegment(u, "recording", job.ms, written)
    BY <1>9
  <2> QED BY <1>2, <1>3, <1>6, <1>9, <2>1, <2>2, SegmentKeeps DEF Jobs
<1> QED BY <1>7, <1>8, <1>9

LEMMA RecordingStep == ASSUME R!RecordingAssumption, RecordingInv, [R!Next]_recordingVars PROVE RecordingInv'
<1>1. ASSUME NEW a \in Admins, NEW transcribe \in BOOLEAN, NEW users \in {{u} : u \in RecordedUsers} \cup {RecordedUsers},
             R!MakeFiles(a, transcribe, users)
      PROVE  RecordingInv'
  <2>1. users \in SUBSET RecordedUsers
    OBVIOUS
  <2> QED BY <1>1, <2>1, MakeFilesKeeps
<1>2. ASSUME NEW a \in Admins, R!Activate(a) PROVE RecordingInv'
  BY <1>2, ActivateKeeps
<1>3. ASSUME NEW u \in RecordedUsers, R!Frame(u) PROVE RecordingInv'
  BY <1>3, FrameKeeps
<1>4. ASSUME NEW u \in RecordedUsers, R!AddTranscript(u, "manual") PROVE RecordingInv'
  <2>1. PICK written \in BOOLEAN : R!AppendSegment(u, "manual", 0, written)
    BY <1>4 DEF R!AddTranscript
  <2>2. jobs' \in SUBSET [ms : R!Stamps, users : SUBSET RecordedUsers] /\ UNCHANGED <<clock, starting, active, recent, engineError>>
    BY <1>4 DEF R!AddTranscript, RecordingInv, RecordingTypes
  <2>3. "manual" \in Sources /\ 0 \in Nat
    BY DEF Sources
  <2> QED BY <2>1, <2>2, <2>3, SegmentKeeps
<1>5. CASE R!Stop
  BY <1>5, StopKeeps
<1>6. CASE R!Tick \/ UNCHANGED recordingVars
  <2>1. /\ UNCHANGED <<disk, starting, active, recent, jobs, segments, nextSegment, engineError>>
        /\ clock' \in R!Stamps
    BY <1>6 DEF R!Tick, recordingVars, RecordingInv, RecordingTypes, R!Stamps, R!RecordingAssumption
  <2>2. RecordingTypes' /\ SegmentsRight'
    BY <2>1 DEF RecordingInv, RecordingTypes, SegmentsRight
  <2>3. OneSession' /\ SessionsAgree'
    BY <2>1, RecordingStays
  <2> QED BY <2>2, <2>3 DEF RecordingInv
<1>7. ASSUME NEW job \in jobs, R!Transcribe(job) PROVE RecordingInv'
  BY <1>7, TranscribeKeeps
<1> QED BY <1>1, <1>2, <1>3, <1>4, <1>5, <1>6, <1>7 DEF R!Next

LEMMA RecordingInvRight == ASSUME R!RecordingAssumption, RecordingInv PROVE R!TypeOK /\ R!RecordingAgrees
<1>0. RecordingTypes /\ SegmentsRight /\ SessionsAgree
  BY DEF RecordingInv
<1>1. Cardinality(active) <= 1
  <2>1. CASE active = {}
    BY <2>1, FS_EmptySet
  <2>2. CASE active # {}
    <3>1. PICK s \in active : active = {s}
      BY <1>0, <2>2 DEF RecordingTypes
    <3> QED BY <3>1, FS_Singleton
  <2> QED BY <2>1, <2>2
<1>2. \A s \in active \cup UNION {starting[a] : a \in Admins} : s \in SessionType
  BY <1>0 DEF RecordingTypes
<1>3. R!TypeOK
  BY <1>0, <1>1, <1>2, SameCount DEF R!TypeOK, RecordingTypes, SegmentsRight, SessionType
<1>4. R!RecordingAgrees
  <2>1. ASSUME ~engineError, NEW s \in active, disk[s.ms].starts = 1
        PROVE  AgreesAt(s.ms, s.frames, s.contexts) /\ {u \in RecordedUsers : disk[s.ms].wav[u] > 0} = s.contexts
    <3>1. AgreesAt(s.ms, s.frames, s.contexts) /\ s \in SessionType
      BY <1>0, <2>1, RecordingFields DEF SessionsAgree
    <3> QED BY <3>1 DEF AgreesAt, SessionType
  <2>2. ASSUME ~engineError, NEW i \in DOMAIN recent, disk[recent[i].ms].starts = 1
        PROVE  /\ AgreesAt(recent[i].ms, recent[i].frames, recent[i].users)
               /\ {u \in RecordedUsers : disk[recent[i].ms].wav[u] > 0} = recent[i].users
    <3>1. AgreesAt(recent[i].ms, recent[i].frames, recent[i].users) /\ recent[i] \in Entry
      BY <1>0, <2>2, RecordingFields DEF SessionsAgree
    <3> QED BY <3>1 DEF AgreesAt, Entry
  <2>3. ASSUME ~engineError, NEW i \in DOMAIN recent, disk[recent[i].ms].starts = 1, recent[i] \in active
        PROVE  FALSE
    BY <2>3 DEF RecordingInv, OneSession
  <2> QED BY <2>1, <2>2, <2>3 DEF R!RecordingAgrees, AgreesAt
<1> QED BY <1>3, <1>4

(* For any users, limits and engine: unless an error was reported or two starts shared a
   directory, every recorded frame has its line of metadata and a session lists the users
   that have a file (record_ingest_frame, stop_recording_session). *)
THEOREM SessionsKeepTheirFrames == ASSUME R!RecordingAssumption PROVE Parts => []RecordingAgrees
<1>1. PartsInit => (part = "recording" => RecordingInv)
  BY RecordingInit DEF PartsInit
<1>2. (part = "recording" => RecordingInv) /\ [PartsNext]_partVars => (part = "recording" => RecordingInv)'
  BY RecordingStep, PartsStep
<1>3. (part = "recording" => RecordingInv) => RecordingAgrees
  BY RecordingInvRight DEF RecordingAgrees
<1> QED BY <1>1, <1>2, <1>3, PTL DEF Parts

-----------------------------------------------------------------------------
(* Alerts. *)
AlertType ==
  [id : 1..MaxAlerts, sender : AlertClients \cup {Server}, rcpts : SUBSET AlertClients, acked : SUBSET AlertClients,
   cancelled : BOOLEAN]
Shown == [id : 1..MaxAlerts, acked : SUBSET AlertClients, cancelled : BOOLEAN, active : BOOLEAN]

Complete(k) ==
  k = [step |-> k.step, sender |-> k.sender, targets |-> k.targets, found |-> k.found, id |-> k.id,
       made |-> k.made, voice |-> k.voice, text |-> k.text, speak |-> k.speak, tell |-> k.tell]

(* A handler has made alerts when it is past its targets only, and it will tell at least
   those whom the alerts concern that it has yet to make. *)
HandlerRight(k) ==
  /\ Complete(k)
  /\ k.made \subseteq 1..MaxAlerts /\ k.found \in Seq(SUBSET AlertClients)
  /\ k.step \in {"idle", "resolve"} => k.made = {}
  /\ k.step \in {"number", "create"} => k.found # <<>>
  /\ k.step = "create" => k.id \in 1..MaxAlerts
  /\ k.step \in {"resolve", "number", "create"} =>
       /\ k.sender \in AlertClients \cup {Server}
       /\ \A i \in DOMAIN k.found : k.found[i] \cup {k.sender} \subseteq k.tell

Old(list) == {i \in DOMAIN list : A!Inactive(list[i])}
AlertTypes ==
  /\ alerts \in Seq(AlertType) /\ Cardinality(Old(alerts)) <= KeepInactive
  /\ listening \subseteq AlertClients
  /\ alertsShown \in [AlertClients -> SUBSET Shown]
  /\ nextId \in 1..(MaxAlerts + 1) /\ nextVoice \in Nat
HandlersRight == DOMAIN alertTask = AlertTasks /\ alertTask = [t \in AlertTasks |-> alertTask[t]] /\ \A t \in AlertTasks : HandlerRight(alertTask[t])

(* What u displays of alert id may be old: a handler will tell u, or will keep silent of
   this alert because it cannot speak. *)
Owes(k, u, id) == u \in k.tell /\ (k.step = "tell" \/ id \in k.made)
Due(u, id) == id \in mute \/ \E t \in AlertTasks : Owes(alertTask[t], u, id)

ShowsActive(u, id) == \E d \in alertsShown[u] : d.id = id /\ d.active
Waits(list, u, id) == \E i \in DOMAIN list : list[i].id = id /\ u \in A!Open(list[i])
ShowsState(u, a) == \E d \in alertsShown[u] : d.id = a.id /\ d.acked = a.acked /\ d.cancelled = a.cancelled

ActiveShown ==
  \A u \in listening, id \in 1..MaxAlerts : ~Due(u, id) => (ShowsActive(u, id) <=> Waits(alerts, u, id))
StateShown ==
  \A i \in DOMAIN alerts :
    alerts[i].sender \in listening /\ ~Due(alerts[i].sender, alerts[i].id)
      => ShowsState(alerts[i].sender, alerts[i])

AlertsInv == AlertTypes /\ HandlersRight /\ ActiveShown /\ StateShown

LEMMA AlertCount == ASSUME NEW S PROVE A!Cardinality(S) = Cardinality(S)
BY DEF A!Cardinality, Cardinality

(* The elements of a finite set of numbers, counted from below or from above, have
   different ranks, and every rank below the set's size is taken. *)
LEMMA FewerInSubset ==
  ASSUME NEW big, IsFiniteSet(big), NEW small \in SUBSET big, NEW x \in big, x \notin small
  PROVE  IsFiniteSet(small) /\ Cardinality(small) \in Nat /\ Cardinality(big) \in Nat /\ Cardinality(small) < Cardinality(big)
<1>1. IsFiniteSet(small) /\ Cardinality(small) <= Cardinality(big) /\ (Cardinality(small) = Cardinality(big) => small = big)
  BY FS_Subset
<1>2. small # big
  OBVIOUS
<1>3. Cardinality(small) \in Nat /\ Cardinality(big) \in Nat
  BY <1>1, FS_CardinalityType
<1> QED BY <1>1, <1>2, <1>3

Below(S, i) == {j \in S : j < i}
Above(S, i) == {j \in S : j > i}

LEMMA RanksDiffer ==
  ASSUME NEW S \in SUBSET Nat, IsFiniteSet(S), NEW i \in S, NEW j \in S
  PROVE  /\ Cardinality(Below(S, i)) \in Nat /\ Cardinality(Below(S, i)) < Cardinality(S)
         /\ Cardinality(Above(S, i)) \in Nat
         /\ Cardinality(Below(S, i)) = Cardinality(Below(S, j)) => i = j
         /\ Cardinality(Above(S, i)) = Cardinality(Above(S, j)) => i = j
<1>1. /\ Cardinality(Below(S, i)) \in Nat /\ Cardinality(Below(S, i)) < Cardinality(S)
      /\ Cardinality(Above(S, i)) \in Nat
  <2>1. i \notin Below(S, i) /\ Below(S, i) \subseteq S /\ i \notin Above(S, i) /\ Above(S, i) \subseteq S
    BY DEF Below, Above
  <2> QED BY <2>1, FewerInSubset
<1>2. ASSUME NEW a \in S, NEW b \in S, a < b
      PROVE  Cardinality(Below(S, a)) # Cardinality(Below(S, b)) /\ Cardinality(Above(S, a)) # Cardinality(Above(S, b))
  <2>1. Below(S, a) \subseteq Below(S, b) /\ a \in Below(S, b) /\ a \notin Below(S, a) /\ Below(S, b) \subseteq S
    <3>1. ASSUME NEW c \in Below(S, a) PROVE c \in S /\ c < b
      BY <1>2 DEF Below
    <3>2. Below(S, a) \subseteq Below(S, b)
      BY <3>1 DEF Below
    <3>3. a \in Below(S, b) /\ a \notin Below(S, a) /\ Below(S, b) \subseteq S
      BY <1>2 DEF Below
    <3> QED BY <3>2, <3>3
  <2>2. Above(S, b) \subseteq Above(S, a) /\ b \in Above(S, a) /\ b \notin Above(S, b) /\ Above(S, a) \subseteq S
    <3>1. ASSUME NEW c \in Above(S, b) PROVE c \in S /\ c > a
      BY <1>2 DEF Above
    <3>2. Above(S, b) \subseteq Above(S, a)
      BY <3>1 DEF Above
    <3>3. b \in Above(S, a) /\ b \notin Above(S, b) /\ Above(S, a) \subseteq S
      BY <1>2 DEF Above
    <3> QED BY <3>2, <3>3
  <2>3. IsFiniteSet(Below(S, b)) /\ IsFiniteSet(Above(S, a))
    BY <2>1, <2>2, FS_Subset
  <2>4. Cardinality(Below(S, a)) < Cardinality(Below(S, b)) /\ Cardinality(Below(S, a)) \in Nat
    BY <2>1, <2>3, FewerInSubset
  <2>5. Cardinality(Above(S, b)) < Cardinality(Above(S, a)) /\ Cardinality(Above(S, b)) \in Nat
    BY <2>2, <2>3, FewerInSubset
  <2> QED BY <2>4, <2>5
<1>3. i < j \/ j < i \/ i = j
  OBVIOUS
<1> QED BY <1>1, <1>2, <1>3

LEMMA RankTaken ==
  ASSUME NEW S \in SUBSET Nat, IsFiniteSet(S), NEW k \in 1..Cardinality(S)
  PROVE  \E i \in S : Cardinality(Below(S, i)) = k - 1
<1>1. SUFFICES ASSUME \A i \in S : Cardinality(Below(S, i)) # k - 1 PROVE FALSE
  OBVIOUS
<1>2. PICK n \in Nat : n = Cardinality(S)
  BY FS_CardinalityType
<1> DEFINE rank == [i \in S |-> Cardinality(Below(S, i))]
           free == (0 .. n - 1) \ {k - 1}
<1>3. IsFiniteSet(0 .. n - 1) /\ Cardinality(0 .. n - 1) = n
  <2>1. 0 <= n - 1 \/ n = 0
    BY <1>2
  <2>2. n # 0
    BY <1>2
  <2> QED BY <1>2, <2>1, <2>2, FS_Interval
<1>4. IsFiniteSet(free) /\ Cardinality(free) = n - 1
  <2>1. k - 1 \in 0 .. n - 1
    BY <1>2
  <2>2. IsFiniteSet(free) /\ Cardinality(free) = Cardinality(0 .. n - 1) - 1
    <3>1. IsFiniteSet(free) /\ Cardinality(free) = IF k - 1 \in 0 .. n - 1 THEN Cardinality(0 .. n - 1) - 1
                                                   ELSE Cardinality(0 .. n - 1)
      BY <1>3, FS_RemoveElement, Zenon
    <3> QED BY <2>1, <3>1, Zenon
  <2> QED BY <1>3, <2>2
<1>5. rank \in [S -> free]
  <2>1. \A i \in S : Cardinality(Below(S, i)) \in free
    BY <1>1, <1>2, RanksDiffer
  <2> QED BY <2>1
<1>6. Cardinality(free) < Cardinality(S)
  BY <1>2, <1>4
<1>7. \E i, j \in S : i # j /\ rank[i] = rank[j]
  <2> HIDE DEF free, rank
  <2> QED BY <1>4, <1>5, <1>6, FS_PigeonHole
<1> QED BY <1>7, RanksDiffer

(* trim_alert_history: what is left comes from the list, of those that wait for nobody
   at most KeepInactive, and of the others all. *)
Kept(list) == {i \in DOMAIN list : i \in Old(list) => A!Cardinality(Above(Old(list), i)) < KeepInactive}
From(list, k) == CHOOSE i \in Kept(list) : A!Cardinality(Below(Kept(list), i)) = k - 1

LEMMA TrimmedIs ==
  ASSUME NEW list
  PROVE  A!Trimmed(list) = [k \in 1..Cardinality(Kept(list)) |-> list[From(list, k)]]
<1>1. A!Trimmed(list) = [k \in 1..A!Cardinality(Kept(list)) |-> list[From(list, k)]]
  BY Zenon DEF A!Trimmed, Kept, Old, From, Below, Above
<1> QED BY <1>1, AlertCount, Zenon

LEMMA KeptFinite ==
  ASSUME NEW list \in Seq(AlertType)
  PROVE  /\ Kept(list) \in SUBSET Nat /\ IsFiniteSet(Kept(list)) /\ Cardinality(Kept(list)) \in Nat
         /\ Old(list) \in SUBSET Nat /\ IsFiniteSet(Old(list)) /\ Cardinality(Old(list)) \in Nat
<1>1. DOMAIN list = 1..Len(list) /\ Len(list) \in Nat
  OBVIOUS
<1>2. IsFiniteSet(1..Len(list))
  BY <1>1, FS_Interval
<1>3. Kept(list) \subseteq 1..Len(list) /\ Old(list) \subseteq 1..Len(list)
  BY <1>1 DEF Kept, Old
<1> QED BY <1>2, <1>3, FS_Subset, FS_CardinalityType

LEMMA FromRight ==
  ASSUME NEW list \in Seq(AlertType), NEW k \in 1..Cardinality(Kept(list))
  PROVE  From(list, k) \in Kept(list) /\ Cardinality(Below(Kept(list), From(list, k))) = k - 1
<1>1. \E i \in Kept(list) : Cardinality(Below(Kept(list), i)) = k - 1
  BY KeptFinite, RankTaken
<1>2. \E i \in Kept(list) : A!Cardinality(Below(Kept(list), i)) = k - 1
  BY <1>1, AlertCount, Zenon
<1>3. From(list, k) \in Kept(list) /\ A!Cardinality(Below(Kept(list), From(list, k))) = k - 1
  BY <1>2, Zenon DEF From
<1> QED BY <1>3, AlertCount, Zenon

LEMMA TrimmedFrom ==
  ASSUME NEW list \in Seq(AlertType)
  PROVE  /\ A!Trimmed(list) \in Seq(AlertType)
         /\ \A k \in DOMAIN A!Trimmed(list) : \E i \in DOMAIN list : A!Trimmed(list)[k] = list[i]
<1> DEFINE n == Cardinality(Kept(list))
<1>1. n \in Nat
  BY KeptFinite
<1>2. A!Trimmed(list) = [k \in 1..n |-> list[From(list, k)]]
  BY TrimmedIs
<1>3. \A k \in 1..n : From(list, k) \in DOMAIN list
  BY FromRight DEF Kept
<1> HIDE DEF n
<1> QED BY <1>1, <1>2, <1>3

LEMMA TrimmedWaits ==
  ASSUME NEW list \in Seq(AlertType), NEW u, NEW id
  PROVE  Waits(A!Trimmed(list), u, id) <=> Waits(list, u, id)
<1> DEFINE n == Cardinality(Kept(list))
<1>1. n \in Nat
  BY KeptFinite
<1>2. A!Trimmed(list) = [k \in 1..n |-> list[From(list, k)]]
  BY TrimmedIs
<1>3. ASSUME NEW i \in DOMAIN list, u \in A!Open(list[i])
      PROVE  \E k \in 1..n : list[From(list, k)] = list[i]
  <2>1. i \in Kept(list)
    BY <1>3 DEF Kept, Old, A!Inactive
  <2>2. PICK r \in Nat : r = Cardinality(Below(Kept(list), i)) /\ r < n
    BY <2>1, KeptFinite, RanksDiffer
  <2>3. r + 1 \in 1..n
    BY <1>1, <2>2
  <2>4. From(list, r + 1) \in Kept(list) /\ Cardinality(Below(Kept(list), From(list, r + 1))) = r
    BY <2>2, <2>3, FromRight
  <2>5. From(list, r + 1) = i
    BY <2>1, <2>2, <2>4, KeptFinite, RanksDiffer
  <2> QED BY <2>3, <2>5
<1>4. \A k \in 1..n : From(list, k) \in DOMAIN list
  BY FromRight DEF Kept
<1> HIDE DEF n
<1>5. ASSUME Waits(A!Trimmed(list), u, id) PROVE Waits(list, u, id)
  <2>1. PICK k \in 1..n : list[From(list, k)].id = id /\ u \in A!Open(list[From(list, k)])
    BY <1>2, <1>5 DEF Waits
  <2> QED BY <1>4, <2>1 DEF Waits
<1>6. ASSUME Waits(list, u, id) PROVE Waits(A!Trimmed(list), u, id)
  <2>1. PICK i \in DOMAIN list : list[i].id = id /\ u \in A!Open(list[i])
    BY <1>6 DEF Waits
  <2>2. PICK k \in 1..n : list[From(list, k)] = list[i]
    BY <1>3, <2>1
  <2>3. k \in DOMAIN A!Trimmed(list) /\ A!Trimmed(list)[k] = list[i]
    BY <1>2, <2>2
  <2> QED BY <2>1, <2>3 DEF Waits
<1> QED BY <1>5, <1>6

LEMMA TrimmedBound ==
  ASSUME A!AlertAssumption, NEW list \in Seq(AlertType)
  PROVE  Cardinality(Old(A!Trimmed(list))) <= KeepInactive
<1> DEFINE n == Cardinality(Kept(list))
           rest == Old(A!Trimmed(list))
           slots == 0 .. KeepInactive - 1
           rank == [k \in rest |-> Cardinality(Above(Old(list), From(list, k)))]
<1>1. n \in Nat /\ KeepInactive \in Nat
  BY KeptFinite DEF A!AlertAssumption
<1>2. A!Trimmed(list) = [k \in 1..n |-> list[From(list, k)]]
  BY TrimmedIs
<1>3. rest = {k \in 1..n : A!Inactive(list[From(list, k)])}
  BY <1>2 DEF Old
<1>4. IsFiniteSet(rest) /\ Cardinality(rest) \in Nat
  <2>1. A!Trimmed(list) \in Seq(AlertType)
    BY TrimmedFrom
  <2> QED BY <2>1, KeptFinite
<1>5. ASSUME NEW k \in rest
      PROVE  k \in 1..n /\ From(list, k) \in Old(list) /\ Cardinality(Above(Old(list), From(list, k))) \in slots
  <2>1. k \in 1..n /\ A!Inactive(list[From(list, k)])
    BY <1>3
  <2>2. From(list, k) \in Kept(list)
    BY <2>1, FromRight
  <2>3. From(list, k) \in Old(list) /\ Cardinality(Above(Old(list), From(list, k))) < KeepInactive
    BY <2>1, <2>2, AlertCount DEF Kept, Old
  <2>4. Cardinality(Above(Old(list), From(list, k))) \in Nat
    BY <2>3, KeptFinite, RanksDiffer
  <2> QED BY <1>1, <2>1, <2>3, <2>4
<1>6. rank \in [rest -> slots]
  BY <1>5
<1>7. IsFiniteSet(slots) /\ Cardinality(slots) = KeepInactive
  <2>1. CASE KeepInactive = 0
    <3>1. slots = {}
      BY <2>1
    <3> QED BY <2>1, <3>1, FS_EmptySet
  <2>2. CASE KeepInactive # 0
    <3>1. KeepInactive - 1 \in Int /\ ~ (0 > KeepInactive - 1) /\ KeepInactive - 1 - 0 + 1 = KeepInactive
      BY <1>1, <2>2
    <3>2. IsFiniteSet(slots) /\ Cardinality(slots) = IF 0 > KeepInactive - 1 THEN 0 ELSE KeepInactive - 1 - 0 + 1
      BY <3>1, 0 \in Int, FS_Interval, Zenon
    <3> QED BY <3>1, <3>2, Zenon
  <2> QED BY <2>1, <2>2
<1>8. SUFFICES ASSUME KeepInactive < Cardinality(rest) PROVE FALSE
  BY <1>1, <1>4
<1>9. PICK i, j \in rest : i # j /\ rank[i] = rank[j]
  <2> HIDE DEF rest, slots, rank
  <2> QED BY <1>4, <1>6, <1>7, <1>8, FS_PigeonHole
<1>10. From(list, i) = From(list, j)
  BY <1>5, <1>9, KeptFinite, RanksDiffer
<1>11. i - 1 = j - 1 /\ i \in Nat /\ j \in Nat
  BY <1>1, <1>5, <1>10, FromRight
<1> QED BY <1>9, <1>11

(* A client that is told displays the list as it is. *)
LEMMA DisplayRight ==
  ASSUME alerts \in Seq(AlertType), NEW u \in AlertClients
  PROVE  /\ A!Display(alerts, u) \in SUBSET Shown
         /\ \A id : (\E d \in A!Display(alerts, u) : d.id = id /\ d.active) <=> Waits(alerts, u, id)
         /\ \A i \in DOMAIN alerts : alerts[i].sender = u =>
              \E d \in A!Display(alerts, u) :
                d.id = alerts[i].id /\ d.acked = alerts[i].acked /\ d.cancelled = alerts[i].cancelled
<1>1. \A i \in DOMAIN alerts : alerts[i] \in AlertType
  OBVIOUS
<1> DEFINE entry == [i \in DOMAIN alerts |->
                      [id |-> alerts[i].id, acked |-> alerts[i].acked, cancelled |-> alerts[i].cancelled,
                       active |-> u \in A!Open(alerts[i])]]
           concerned == {i \in DOMAIN alerts : u \in {alerts[i].sender} \cup alerts[i].rcpts}
<1>2. \A d : d \in A!Display(alerts, u) <=> \E i \in concerned : d = entry[i]
  BY DEF A!Display
<1>3. \A i \in DOMAIN alerts : entry[i] \in Shown
  BY <1>1 DEF AlertType, Shown
<1>0. \A i \in DOMAIN alerts :
        /\ entry[i].id = alerts[i].id /\ entry[i].acked = alerts[i].acked
        /\ entry[i].cancelled = alerts[i].cancelled /\ entry[i].active = (u \in A!Open(alerts[i]))
  OBVIOUS
<1>4. \A i \in DOMAIN alerts : u \in A!Open(alerts[i]) => i \in concerned
  BY <1>1 DEF AlertType, A!Open
<1>5. \A i \in concerned : i \in DOMAIN alerts
  OBVIOUS
<1>6. \A i \in DOMAIN alerts : alerts[i].sender = u => i \in concerned
  OBVIOUS
<1> HIDE DEF entry, concerned
<1>7. \A i \in concerned : entry[i] \in A!Display(alerts, u)
  BY <1>2
<1>8. ASSUME NEW d \in A!Display(alerts, u)
      PROVE  \E i \in DOMAIN alerts : d = entry[i]
  BY <1>2, <1>5
<1>9. A!Display(alerts, u) \in SUBSET Shown
  BY <1>3, <1>8
<1>10. ASSUME NEW id
       PROVE  (\E d \in A!Display(alerts, u) : d.id = id /\ d.active) <=> Waits(alerts, u, id)
  <2>1. ASSUME NEW d \in A!Display(alerts, u), d.id = id, d.active PROVE Waits(alerts, u, id)
    <3>1. PICK i \in DOMAIN alerts : d = entry[i]
      BY <1>8
    <3>2. alerts[i].id = id /\ u \in A!Open(alerts[i])
      BY <1>0, <2>1, <3>1
    <3> QED BY <3>2 DEF Waits
  <2>2. ASSUME NEW i \in DOMAIN alerts, alerts[i].id = id, u \in A!Open(alerts[i])
        PROVE  \E d \in A!Display(alerts, u) : d.id = id /\ d.active
    BY <1>0, <1>4, <1>7, <2>2
  <2> QED BY <2>1, <2>2 DEF Waits
<1>11. ASSUME NEW i \in DOMAIN alerts, alerts[i].sender = u
       PROVE  \E d \in A!Display(alerts, u) :
                d.id = alerts[i].id /\ d.acked = alerts[i].acked /\ d.cancelled = alerts[i].cancelled
  BY <1>0, <1>6, <1>7, <1>11
<1> QED BY <1>9, <1>10, <1>11

LEMMA IdleRight == HandlerRight(A!IdleTask) /\ ~ \E u, id : Owes(A!IdleTask, u, id)
<1>1. <<>> \in Seq(SUBSET AlertClients)
  OBVIOUS
<1> QED BY <1>1 DEF HandlerRight, Complete, A!IdleTask, Owes

LEMMA AlertsTyped ==
  ASSUME AlertTypes, NEW i \in DOMAIN alerts
  PROVE  alerts[i] \in AlertType /\ alerts[i].id \in 1..MaxAlerts
<1>1. alerts[i] \in AlertType
  BY DEF AlertTypes
<1> QED BY <1>1 DEF AlertType

LEMMA AlertsInit == ASSUME A!AlertAssumption, A!Init PROVE AlertsInv
<1> USE DEF A!Init, A!AlertAssumption
<1>1. AlertTypes
  <2>1. Old(alerts) = {}
    BY DEF Old
  <2>2. Cardinality(Old(alerts)) <= KeepInactive
    <3>1. Cardinality(Old(alerts)) = 0
      BY <2>1, FS_EmptySet, Zenon
    <3> QED BY <3>1
  <2>3. alerts \in Seq(AlertType) /\ alertsShown \in [AlertClients -> SUBSET Shown]
    OBVIOUS
  <2>4. nextId \in 1..(MaxAlerts + 1) /\ nextVoice \in Nat /\ listening \subseteq AlertClients
    OBVIOUS
  <2> QED BY <2>2, <2>3, <2>4 DEF AlertTypes
<1>2. HandlersRight
  <2>1. HandlerRight(A!IdleTask)
    BY IdleRight
  <2> QED BY <2>1 DEF HandlersRight
<1> QED BY <1>1, <1>2 DEF AlertsInv, ActiveShown, StateShown

LEMMA AlertsInvRight ==
  ASSUME A!AlertAssumption, AlertsInv PROVE A!TypeOK /\ A!AlertShown /\ A!SenderInformed
<1> USE DEF AlertsInv
<1>1. A!TypeOK
  <2>1. A!Cardinality({i \in DOMAIN alerts : A!Inactive(alerts[i])}) <= KeepInactive
    <3>1. A!Cardinality(Old(alerts)) <= KeepInactive
      BY AlertCount DEF AlertTypes
    <3> QED BY <3>1, Zenon DEF Old
  <2>2. \A i \in DOMAIN alerts : alerts[i] \in AlertType
    BY DEF AlertTypes
  <2>3. \A u \in AlertClients : alertsShown[u] \subseteq Shown
    BY DEF AlertTypes
  <2> QED BY <2>1, <2>2, <2>3 DEF A!TypeOK, AlertTypes, AlertType, Shown
<1>2. \A u, id : ~A!Telling(u) => (Due(u, id) <=> id \in mute)
  BY Zenon DEF A!Telling, Due, Owes
<1>3. \A i \in DOMAIN alerts : alerts[i].id \in 1..MaxAlerts
  BY AlertsTyped
<1>4. A!AlertShown
  <2> SUFFICES ASSUME NEW u \in listening, ~A!Telling(u)
               PROVE  {d.id : d \in {e \in alertsShown[u] : e.active}} \ mute = A!ActiveFor(alerts, u) \ mute
    BY DEF A!AlertShown
  <2>1. alertsShown[u] \subseteq Shown
    BY DEF AlertTypes
  <2>2. \A id : id \in {d.id : d \in {e \in alertsShown[u] : e.active}} <=> ShowsActive(u, id)
    BY DEF ShowsActive
  <2>3. \A id : id \in A!ActiveFor(alerts, u) <=> Waits(alerts, u, id)
    BY DEF A!ActiveFor, Waits
  <2>4. \A id : ShowsActive(u, id) \/ Waits(alerts, u, id) => id \in 1..MaxAlerts
    BY <1>3, <2>1 DEF ShowsActive, Waits, Shown
  <2>5. \A id : id \in mute \/ (ShowsActive(u, id) <=> Waits(alerts, u, id))
    BY <1>2, <2>4 DEF ActiveShown
  <2> QED BY <2>2, <2>3, <2>5
<1>5. A!SenderInformed
  BY <1>2 DEF A!SenderInformed, StateShown, ShowsState
<1> QED BY <1>1, <1>4, <1>5

(* What one handler's step does to the others, and to what is due: nothing is lost that
   it owed to somebody. *)
LEMMA HandlerTurn ==
  ASSUME HandlersRight, NEW t \in AlertTasks, alertTask' = [alertTask EXCEPT ![t] = alertTask'[t]], HandlerRight(alertTask'[t])
  PROVE  HandlersRight'
BY DEF HandlersRight

LEMMA DueTurn ==
  ASSUME HandlersRight, NEW t \in AlertTasks, alertTask' = [alertTask EXCEPT ![t] = alertTask'[t]], mute \subseteq mute',
         NEW u, NEW id, Owes(alertTask[t], u, id) => id \in mute' \/ Owes(alertTask'[t], u, id), Due(u, id)
  PROVE  Due(u, id)'
<1>1. \A s \in AlertTasks : s # t => alertTask'[s] = alertTask[s]
  BY DEF HandlersRight
<1>2. \A s \in AlertTasks : s # t /\ Owes(alertTask[s], u, id) => Owes(alertTask'[s], u, id)
  BY <1>1 DEF Owes
<1>3. CASE id \in mute
  BY <1>3 DEF Due
<1>4. CASE \E s \in AlertTasks : Owes(alertTask[s], u, id)
  <2>1. PICK s \in AlertTasks : Owes(alertTask[s], u, id)
    BY <1>4
  <2> QED BY <1>2, <2>1 DEF Due, Owes
<1> QED BY <1>3, <1>4 DEF Due

(* A step that changes neither the list nor what anybody displays. *)
LEMMA QuietTurn ==
  ASSUME A!AlertAssumption, AlertsInv, NEW t \in AlertTasks,
         alertTask' = [alertTask EXCEPT ![t] = alertTask'[t]], HandlerRight(alertTask'[t]), mute \subseteq mute',
         \A u \in AlertClients, id \in 1..MaxAlerts : Owes(alertTask[t], u, id) => id \in mute' \/ Owes(alertTask'[t], u, id),
         UNCHANGED <<alerts, listening, alertsShown>>, nextId' \in 1..(MaxAlerts + 1), nextVoice' \in Nat
  PROVE  AlertsInv'
<1> USE DEF AlertsInv
<1>1. AlertTypes'
  BY DEF AlertTypes, Old
<1>2. HandlersRight'
  BY HandlerTurn
<1>3. \A u \in AlertClients, id \in 1..MaxAlerts : Due(u, id) => Due(u, id)'
  BY DueTurn
<1>4. listening \subseteq AlertClients /\ \A i \in DOMAIN alerts : alerts[i].id \in 1..MaxAlerts
  BY AlertsTyped DEF AlertTypes
<1>5. ActiveShown'
  BY <1>3, <1>4 DEF ActiveShown, ShowsActive, Waits
<1>6. StateShown'
  BY <1>3, <1>4 DEF StateShown, ShowsState
<1> QED BY <1>1, <1>2, <1>5, <1>6

(* A step that changes the list, and trims it: whoever is concerned will be told. *)
LEMMA ListTurn ==
  ASSUME A!AlertAssumption, AlertsInv, NEW t \in AlertTasks, NEW list \in Seq(AlertType), alerts' = A!Trimmed(list),
         alertTask' = [alertTask EXCEPT ![t] = alertTask'[t]], HandlerRight(alertTask'[t]), UNCHANGED <<listening, alertsShown, mute, nextId, nextVoice>>,
         \A u \in AlertClients, id \in 1..MaxAlerts : Owes(alertTask[t], u, id) => Owes(alertTask'[t], u, id),
         \A u \in AlertClients, id \in 1..MaxAlerts :
           Owes(alertTask'[t], u, id) \/ (Waits(list, u, id) <=> Waits(alerts, u, id)),
         \A i \in DOMAIN list :
           \/ list[i].sender \in AlertClients => Owes(alertTask'[t], list[i].sender, list[i].id)
           \/ \E j \in DOMAIN alerts : list[i] = alerts[j]
  PROVE  AlertsInv'
<1> USE DEF AlertsInv
<1>1. AlertTypes'
  <2>1. alerts' \in Seq(AlertType) /\ Cardinality(Old(alerts')) <= KeepInactive
    BY TrimmedFrom, TrimmedBound
  <2> QED BY <2>1 DEF AlertTypes, Old
<1>2. HandlersRight'
  BY HandlerTurn
<1>3. \A u \in AlertClients, id \in 1..MaxAlerts : Due(u, id) => Due(u, id)'
  BY DueTurn
<1>4. \A u, id : Owes(alertTask'[t], u, id) => Due(u, id)'
  BY DEF Due
<1>5. listening \subseteq AlertClients
  BY DEF AlertTypes
<1>6. ActiveShown'
  <2> SUFFICES ASSUME NEW u \in listening, NEW id \in 1..MaxAlerts, ~Due(u, id)'
               PROVE  ShowsActive(u, id)' <=> Waits(alerts', u, id)
    BY DEF ActiveShown, Waits
  <2>1. Waits(alerts', u, id) <=> Waits(list, u, id)
    BY TrimmedWaits
  <2>2. Waits(list, u, id) <=> Waits(alerts, u, id)
    BY <1>4, <1>5
  <2>3. ShowsActive(u, id) <=> Waits(alerts, u, id)
    BY <1>3, <1>5 DEF ActiveShown
  <2>4. ShowsActive(u, id)' <=> ShowsActive(u, id)
    BY DEF ShowsActive
  <2> QED BY <2>1, <2>2, <2>3, <2>4
<1>7. StateShown'
  <2> SUFFICES ASSUME NEW k \in DOMAIN alerts', (alerts[k].sender \in listening)',
                      ~Due(alerts[k].sender, alerts[k].id)'
               PROVE  ShowsState(alerts[k].sender, alerts[k])'
    BY DEF StateShown
  <2>1. PICK i \in DOMAIN list : alerts'[k] = list[i]
    BY TrimmedFrom
  <2>2. list[i].sender \in AlertClients
    BY <1>5, <2>1
  <2>7. ~Owes(alertTask'[t], list[i].sender, list[i].id)
    BY <2>1 DEF Due
  <2>3. PICK j \in DOMAIN alerts : list[i] = alerts[j]
    BY <2>2, <2>7
  <2>4. alerts[j].id \in 1..MaxAlerts
    BY AlertsTyped
  <2>5. ~Due(alerts[j].sender, alerts[j].id)
    BY <2>1, <2>2, <2>3, <2>4, <1>3 DEF Due
  <2>6. ShowsState(alerts[j].sender, alerts[j])
    BY <2>1, <2>3, <2>5 DEF StateShown
  <2> QED BY <2>1, <2>3, <2>6 DEF ShowsState
<1> QED BY <1>1, <1>2, <1>6, <1>7

LEMMA BeginKeeps ==
  ASSUME A!AlertAssumption, AlertsInv, NEW t \in AlertTasks, NEW sender \in AlertClients \cup {Server}, NEW targets,
         NEW text, NEW speak, A!Begin(t, sender, targets, text, speak)
  PROVE  AlertsInv'
<1>1. /\ alertTask[t].step = "idle" /\ UNCHANGED <<alerts, nextId, nextVoice, listening, alertsShown, mute>>
      /\ alertTask' = [alertTask EXCEPT ![t] = [A!IdleTask EXCEPT !.step = "resolve", !.sender = sender, !.targets = targets,
                                                    !.text = text, !.speak = speak]]
  BY DEF A!Begin
<1>2. /\ alertTask'[t] = [A!IdleTask EXCEPT !.step = "resolve", !.sender = sender, !.targets = targets, !.text = text,
                                    !.speak = speak]
      /\ alertTask' = [alertTask EXCEPT ![t] = alertTask'[t]]
  BY <1>1 DEF AlertsInv, HandlersRight
<1>3. HandlerRight(alertTask'[t])
  <2>1. <<>> \in Seq(SUBSET AlertClients)
    OBVIOUS
  <2>2. /\ Complete(alertTask'[t]) /\ alertTask'[t].step = "resolve" /\ alertTask'[t].sender = sender
        /\ alertTask'[t].found = <<>> /\ alertTask'[t].made = {}
    BY <1>2 DEF Complete, A!IdleTask
  <2> QED BY <2>1, <2>2 DEF HandlerRight
<1>4. alertTask[t].made = {}
  BY <1>1 DEF AlertsInv, HandlersRight, HandlerRight
<1>5. \A u, id : ~Owes(alertTask[t], u, id)
  BY <1>1, <1>4 DEF Owes
<1>6. nextId' \in 1..(MaxAlerts + 1) /\ nextVoice' \in Nat
  BY <1>1 DEF AlertsInv, AlertTypes
<1> QED BY <1>1, <1>2, <1>3, <1>5, <1>6, QuietTurn

LEMMA ResolveKeeps ==
  ASSUME A!AlertAssumption, AlertsInv, NEW t \in AlertTasks, A!Resolve(t) PROVE AlertsInv'
<1> DEFINE k == alertTask[t]
           reached == A!Recipients(k.sender, k.targets[Len(k.found) + 1])
           all == Append(k.found, reached)
           last == Len(all) = Len(k.targets)
           next == [k EXCEPT !.found = all, !.tell = @ \cup reached \cup {k.sender},
                      !.voice = IF last /\ k.speak THEN nextVoice ELSE 0,
                      !.step = IF ~last THEN "resolve" ELSE IF k.text THEN "number" ELSE "speak"]
<1>1. /\ k.step = "resolve" /\ UNCHANGED <<alerts, nextId, listening, alertsShown, mute>>
      /\ alertTask' = [alertTask EXCEPT ![t] = A!IdleTask] \/ alertTask' = [alertTask EXCEPT ![t] = next]
      /\ nextVoice' \in {nextVoice, nextVoice + 1}
  BY DEF A!Resolve
<1>2. HandlerRight(k)
  BY DEF AlertsInv, HandlersRight
<1> HIDE DEF k, next
<1>3. ASSUME NEW n, n = next PROVE HandlerRight(n)
  <2>1. reached \subseteq AlertClients
    BY DEF A!Recipients
  <2> HIDE DEF reached
  <2>2. all \in Seq(SUBSET AlertClients) /\ all # <<>>
    BY <1>2, <2>1 DEF HandlerRight
  <2>3. \A i \in DOMAIN all : (i \in DOMAIN k.found /\ all[i] = k.found[i]) \/ all[i] = reached
    BY <1>2 DEF HandlerRight
  <2>4. k.sender \in AlertClients \cup {Server} /\ \A i \in DOMAIN k.found : k.found[i] \subseteq k.tell
    BY <1>1, <1>2 DEF HandlerRight
  <2> HIDE DEF all, last
  <2>5. /\ Complete(n) /\ n.sender = k.sender /\ n.found = all /\ n.made = k.made
        /\ n.tell = k.tell \cup reached \cup {k.sender} /\ n.step \in {"resolve", "number", "speak"}
    BY <1>2, <1>3 DEF HandlerRight, Complete, next
  <2>6. n.made = {}
    BY <1>1, <1>2, <2>5 DEF HandlerRight
  <2>7. \A i \in DOMAIN all : all[i] \cup {k.sender} \subseteq k.tell \cup reached \cup {k.sender}
    BY <2>3, <2>4
  <2> QED BY <2>2, <2>4, <2>5, <2>6, <2>7 DEF HandlerRight
<1>4. k.made = {}
  BY <1>1, <1>2 DEF HandlerRight
<1>6. HandlerRight(alertTask'[t]) /\ alertTask' = [alertTask EXCEPT ![t] = alertTask'[t]]
  <2>1. DOMAIN alertTask = AlertTasks
    BY DEF AlertsInv, HandlersRight
  <2> QED BY <1>1, <1>3, <2>1, IdleRight
<1>7. nextId' \in 1..(MaxAlerts + 1) /\ nextVoice' \in Nat
  BY <1>1 DEF AlertsInv, AlertTypes
<1>8. \A u, id : ~Owes(alertTask[t], u, id)
  BY <1>1, <1>4 DEF Owes, k
<1> QED BY <1>1, <1>6, <1>7, <1>8, QuietTurn

LEMMA NumberKeeps ==
  ASSUME A!AlertAssumption, AlertsInv, NEW t \in AlertTasks, A!Number(t) PROVE AlertsInv'
<1>1. /\ alertTask[t].step = "number" /\ nextId <= MaxAlerts /\ nextId' = nextId + 1
      /\ UNCHANGED <<alerts, nextVoice, listening, alertsShown, mute>>
      /\ alertTask' = [alertTask EXCEPT ![t] = [alertTask[t] EXCEPT !.step = "create", !.id = nextId]]
  BY DEF A!Number
<1>2. HandlerRight(alertTask[t]) /\ DOMAIN alertTask = AlertTasks
  BY DEF AlertsInv, HandlersRight
<1>3. nextId \in 1..MaxAlerts /\ nextId' \in 1..(MaxAlerts + 1) /\ nextVoice' \in Nat
  BY <1>1 DEF AlertsInv, AlertTypes, A!AlertAssumption
<1>5. alertTask'[t] = [alertTask[t] EXCEPT !.step = "create", !.id = nextId] /\ alertTask' = [alertTask EXCEPT ![t] = alertTask'[t]]
  BY <1>1, <1>2
<1>4. /\ Complete(alertTask'[t]) /\ alertTask'[t].step = "create" /\ alertTask'[t].id = nextId /\ alertTask'[t].sender = alertTask[t].sender
      /\ alertTask'[t].found = alertTask[t].found /\ alertTask'[t].made = alertTask[t].made /\ alertTask'[t].tell = alertTask[t].tell
  BY <1>2, <1>5 DEF HandlerRight, Complete
<1>6. HandlerRight(alertTask'[t])
  BY <1>1, <1>2, <1>3, <1>4 DEF HandlerRight
<1>7. \A u, id : Owes(alertTask[t], u, id) => Owes(alertTask'[t], u, id)
  BY <1>1, <1>4 DEF Owes
<1> QED BY <1>1, <1>3, <1>5, <1>6, <1>7, QuietTurn

LEMMA SpeakKeeps ==
  ASSUME A!AlertAssumption, AlertsInv, NEW t \in AlertTasks, A!Speak(t) PROVE AlertsInv'
<1>1. /\ alertTask[t].step = "speak" /\ UNCHANGED <<alerts, nextId, nextVoice, listening, alertsShown, mute>>
      /\ alertTask' = [alertTask EXCEPT ![t] = [alertTask[t] EXCEPT !.step = "tell"]]
  BY DEF A!Speak
<1>2. HandlerRight(alertTask[t]) /\ DOMAIN alertTask = AlertTasks
  BY DEF AlertsInv, HandlersRight
<1>3. nextId' \in 1..(MaxAlerts + 1) /\ nextVoice' \in Nat
  BY <1>1 DEF AlertsInv, AlertTypes
<1>5. alertTask'[t] = [alertTask[t] EXCEPT !.step = "tell"] /\ alertTask' = [alertTask EXCEPT ![t] = alertTask'[t]]
  BY <1>1, <1>2
<1>4. /\ Complete(alertTask'[t]) /\ alertTask'[t].step = "tell" /\ alertTask'[t].found = alertTask[t].found
      /\ alertTask'[t].made = alertTask[t].made /\ alertTask'[t].tell = alertTask[t].tell
  BY <1>2, <1>5 DEF HandlerRight, Complete
<1>6. HandlerRight(alertTask'[t])
  BY <1>2, <1>4 DEF HandlerRight
<1>7. \A u, id : Owes(alertTask[t], u, id) => Owes(alertTask'[t], u, id)
  BY <1>4 DEF Owes
<1> QED BY <1>1, <1>3, <1>5, <1>6, <1>7, QuietTurn

LEMMA SpeechFailsKeeps ==
  ASSUME A!AlertAssumption, AlertsInv, NEW t \in AlertTasks, A!SpeechFails(t) PROVE AlertsInv'
<1>1. /\ alertTask[t].step = "speak" /\ UNCHANGED <<alerts, nextId, nextVoice, listening, alertsShown>>
      /\ mute' = mute \cup alertTask[t].made /\ alertTask' = [alertTask EXCEPT ![t] = A!IdleTask]
  BY DEF A!SpeechFails
<1>2. alertTask'[t] = A!IdleTask /\ alertTask' = [alertTask EXCEPT ![t] = alertTask'[t]]
  BY <1>1 DEF AlertsInv, HandlersRight
<1>3. \A u, id : Owes(alertTask[t], u, id) => id \in mute'
  BY <1>1 DEF Owes
<1>4. nextId' \in 1..(MaxAlerts + 1) /\ nextVoice' \in Nat
  BY <1>1 DEF AlertsInv, AlertTypes
<1>5. HandlerRight(alertTask'[t])
  BY <1>2, IdleRight
<1> QED BY <1>1, <1>2, <1>3, <1>4, <1>5, QuietTurn

LEMMA CreateKeeps ==
  ASSUME A!AlertAssumption, AlertsInv, NEW t \in AlertTasks, A!Create(t) PROVE AlertsInv'
<1> DEFINE k == alertTask[t]
           alert == [id |-> k.id, sender |-> k.sender, rcpts |-> Head(k.found), acked |-> {}, cancelled |-> FALSE]
           rest == Tail(k.found)
           step == IF rest # <<>> THEN "number" ELSE IF k.speak THEN "speak" ELSE "tell"
           next == [k EXCEPT !.found = rest, !.made = @ \cup {k.id}, !.step = step]
           list == Append(alerts, alert)
<1>1. /\ k.step = "create" /\ alerts' = A!Trimmed(list) /\ UNCHANGED <<listening, alertsShown, mute, nextId, nextVoice>>
      /\ alertTask' = [alertTask EXCEPT ![t] = next]
  BY DEF A!Create
<1>2. HandlerRight(k) /\ DOMAIN alertTask = AlertTasks
  BY DEF AlertsInv, HandlersRight
<1> HIDE DEF k
<1>3. /\ k.found \in Seq(SUBSET AlertClients) /\ k.found # <<>> /\ k.id \in 1..MaxAlerts /\ k.sender \in AlertClients \cup {Server}
      /\ \A i \in DOMAIN k.found : k.found[i] \cup {k.sender} \subseteq k.tell
  BY <1>1, <1>2 DEF HandlerRight
<1>4. /\ Head(k.found) \in SUBSET AlertClients /\ Head(k.found) \cup {k.sender} \subseteq k.tell
      /\ rest \in Seq(SUBSET AlertClients) /\ \A i \in DOMAIN rest : rest[i] \cup {k.sender} \subseteq k.tell
  <2>1. Head(k.found) = k.found[1] /\ 1 \in DOMAIN k.found
    BY <1>3
  <2>2. rest \in Seq(SUBSET AlertClients) /\ \A i \in DOMAIN rest : i + 1 \in DOMAIN k.found /\ rest[i] = k.found[i + 1]
    BY <1>3
  <2> HIDE DEF rest
  <2> QED BY <1>3, <2>1, <2>2
<1>6. step \in {"number", "speak", "tell"} /\ (step = "number" => rest # <<>>)
  OBVIOUS
<1>7. alert \in AlertType
  BY <1>3, <1>4 DEF AlertType
<1>8. list \in Seq(AlertType) /\ \A i \in DOMAIN list : (i \in DOMAIN alerts /\ list[i] = alerts[i]) \/ list[i] = alert
  <2> HIDE DEF alert
  <2> QED BY <1>7 DEF AlertsInv, AlertTypes
<1>9. \A i \in DOMAIN alerts : i \in DOMAIN list /\ list[i] = alerts[i]
  <2> HIDE DEF alert
  <2> QED BY DEF AlertsInv, AlertTypes
<1> HIDE DEF next, step, rest, list
<1>10. alertTask'[t] = next /\ alertTask' = [alertTask EXCEPT ![t] = alertTask'[t]]
  BY <1>1, <1>2
<1>5. /\ Complete(alertTask'[t]) /\ alertTask'[t].step = step /\ alertTask'[t].sender = k.sender /\ alertTask'[t].found = rest
      /\ alertTask'[t].made = k.made \cup {k.id} /\ alertTask'[t].tell = k.tell
  BY <1>2, <1>10 DEF HandlerRight, Complete, next
<1>11. HandlerRight(alertTask'[t])
  BY <1>2, <1>3, <1>4, <1>5, <1>6 DEF HandlerRight
<1>12. \A u, id : Owes(k, u, id) => Owes(alertTask'[t], u, id)
  BY <1>1, <1>5 DEF Owes
<1>13. \A u : u \in k.tell => Owes(alertTask'[t], u, k.id)
  BY <1>1, <1>5 DEF Owes
<1>14. alert.id = k.id /\ alert.sender = k.sender /\ A!Open(alert) \subseteq k.tell
  BY <1>4 DEF A!Open
<1> HIDE DEF alert
<1>15. \A u \in AlertClients, id \in 1..MaxAlerts : Owes(alertTask'[t], u, id) \/ (Waits(list, u, id) <=> Waits(alerts, u, id))
  BY <1>8, <1>9, <1>13, <1>14 DEF Waits
<1>16. \A i \in DOMAIN list : \/ list[i].sender \in AlertClients => Owes(alertTask'[t], list[i].sender, list[i].id)
                             \/ \E j \in DOMAIN alerts : list[i] = alerts[j]
  BY <1>4, <1>8, <1>13, <1>14
<1>17. \A u \in AlertClients, id \in 1..MaxAlerts : Owes(alertTask[t], u, id) => Owes(alertTask'[t], u, id)
  BY <1>12 DEF k
<1> QED BY <1>1, <1>8, <1>10, <1>11, <1>15, <1>16, <1>17, ListTurn

LEMMA TellKeeps ==
  ASSUME A!AlertAssumption, AlertsInv, NEW t \in AlertTasks, A!Tell(t) PROVE AlertsInv'
<1>1. PICK w : /\ alertsShown' = (IF w \in AlertClients THEN A!Pushed(w) ELSE alertsShown)
               /\ alertTask' = [alertTask EXCEPT ![t] = IF @.tell = {w} THEN A!IdleTask ELSE [alertTask[t] EXCEPT !.tell = @ \ {w}]]
  <2> DEFINE first == CHOOSE v \in alertTask[t].tell : TRUE
  <2>1. /\ alertsShown' = (IF first \in AlertClients THEN A!Pushed(first) ELSE alertsShown)
        /\ alertTask' = [alertTask EXCEPT ![t] = IF @.tell = {first} THEN A!IdleTask ELSE [alertTask[t] EXCEPT !.tell = @ \ {first}]]
    BY Zenon DEF A!Tell
  <2> HIDE DEF first
  <2> QED BY <2>1, Zenon
<1>2. alertTask[t].step = "tell" /\ UNCHANGED <<alerts, nextId, nextVoice, listening, mute>>
  BY DEF A!Tell
<1> USE DEF AlertsInv
<1>3. HandlerRight(alertTask[t]) /\ DOMAIN alertTask = AlertTasks
  BY DEF HandlersRight
<1>4. /\ alertTask'[t] = IF alertTask[t].tell = {w} THEN A!IdleTask ELSE [alertTask[t] EXCEPT !.tell = @ \ {w}]
      /\ alertTask' = [alertTask EXCEPT ![t] = alertTask'[t]]
  <2> DEFINE value == IF alertTask[t].tell = {w} THEN A!IdleTask ELSE [alertTask[t] EXCEPT !.tell = @ \ {w}]
  <2>1. alertTask' = [alertTask EXCEPT ![t] = value]
    BY <1>1
  <2> HIDE DEF value
  <2>2. alertTask'[t] = value /\ alertTask' = [alertTask EXCEPT ![t] = alertTask'[t]]
    BY <1>3, <2>1
  <2> QED BY <2>2 DEF value
<1>5. HandlerRight(alertTask'[t]) /\ \A u, id : u # w /\ Owes(alertTask[t], u, id) => Owes(alertTask'[t], u, id)
  <2>1. CASE alertTask[t].tell = {w}
    BY <1>4, <2>1, IdleRight DEF Owes
  <2>2. CASE alertTask[t].tell # {w}
    <3>1. alertTask'[t] = [alertTask[t] EXCEPT !.tell = @ \ {w}]
      BY <1>4, <2>2
    <3>2. /\ Complete(alertTask'[t]) /\ alertTask'[t].step = "tell" /\ alertTask'[t].found = alertTask[t].found
          /\ alertTask'[t].made = alertTask[t].made /\ alertTask'[t].tell = alertTask[t].tell \ {w}
      BY <1>2, <1>3, <3>1 DEF HandlerRight, Complete
    <3>3. HandlerRight(alertTask'[t])
      BY <1>3, <3>2 DEF HandlerRight
    <3> QED BY <1>2, <3>2, <3>3 DEF Owes
  <2> QED BY <2>1, <2>2
<1>6. HandlersRight'
  BY <1>4, <1>5, HandlerTurn
<1>7. \A u, id : u # w /\ Due(u, id) => Due(u, id)'
  BY <1>2, <1>4, <1>5, DueTurn
<1>8. alerts \in Seq(AlertType) /\ alertsShown \in [AlertClients -> SUBSET Shown] /\ listening \subseteq AlertClients
  BY DEF AlertTypes
<1>9. /\ alertsShown' \in [AlertClients -> SUBSET Shown]
      /\ \A u \in listening : alertsShown'[u] = IF u = w THEN A!Display(alerts, u) ELSE alertsShown[u]
  <2>1. CASE w \in listening
    <3>1. alertsShown' = [alertsShown EXCEPT ![w] = A!Display(alerts, w)]
      BY <1>1, <1>8, <2>1 DEF A!Pushed
    <3>2. A!Display(alerts, w) \in SUBSET Shown
      BY <1>8, <2>1, DisplayRight
    <3> QED BY <1>8, <3>1, <3>2
  <2>2. CASE w \notin listening
    <3>1. alertsShown' = alertsShown
      BY <1>1, <2>2 DEF A!Pushed
    <3> QED BY <1>8, <2>2, <3>1
  <2> QED BY <2>1, <2>2
<1>10. AlertTypes'
  BY <1>2, <1>9 DEF AlertTypes, Old
<1>11. ActiveShown'
  <2> SUFFICES ASSUME NEW u \in listening, NEW id \in 1..MaxAlerts, ~Due(u, id)'
               PROVE  ShowsActive(u, id)' <=> Waits(alerts, u, id)
    BY <1>2 DEF ActiveShown, Waits
  <2>1. CASE u = w
    BY <1>8, <1>9, <2>1, DisplayRight DEF ShowsActive
  <2>2. CASE u # w
    BY <1>7, <1>9, <2>2 DEF ActiveShown, ShowsActive
  <2> QED BY <2>1, <2>2
<1>12. StateShown'
  <2> SUFFICES ASSUME NEW i \in DOMAIN alerts, alerts[i].sender \in listening, ~Due(alerts[i].sender, alerts[i].id)'
               PROVE  ShowsState(alerts[i].sender, alerts[i])'
    BY <1>2 DEF StateShown
  <2>1. CASE alerts[i].sender = w
    BY <1>2, <1>8, <1>9, <2>1, DisplayRight DEF ShowsState
  <2>2. CASE alerts[i].sender # w
    <3>1. ~Due(alerts[i].sender, alerts[i].id)
      BY <1>2, <1>7, <2>2 DEF Due
    <3>2. ShowsState(alerts[i].sender, alerts[i])
      BY <3>1 DEF StateShown
    <3> QED BY <1>2, <1>9, <2>2, <3>2 DEF ShowsState
  <2> QED BY <2>1, <2>2
<1> QED BY <1>6, <1>10, <1>11, <1>12

(* Who answers or cancels an alert has those told whom it concerns. *)
LEMMA AnswerTask ==
  ASSUME AlertsInv, NEW t \in AlertTasks, alertTask[t].step = "idle", NEW told,
         alertTask' = [alertTask EXCEPT ![t] = [A!IdleTask EXCEPT !.step = "tell", !.tell = told]]
  PROVE  /\ HandlerRight(alertTask'[t]) /\ alertTask' = [alertTask EXCEPT ![t] = alertTask'[t]]
         /\ \A u, id : ~Owes(alertTask[t], u, id)
         /\ \A u \in told : \A id : Owes(alertTask'[t], u, id)
<1>1. HandlerRight(alertTask[t]) /\ DOMAIN alertTask = AlertTasks
  BY DEF AlertsInv, HandlersRight
<1>2. alertTask'[t] = [A!IdleTask EXCEPT !.step = "tell", !.tell = told]
  BY <1>1
<1>7. alertTask' = [alertTask EXCEPT ![t] = alertTask'[t]]
  BY <1>1
<1>3. /\ Complete(alertTask'[t]) /\ alertTask'[t].step = "tell" /\ alertTask'[t].found = <<>> /\ alertTask'[t].made = {}
      /\ alertTask'[t].tell = told
  <2>1. ASSUME NEW n, n = [A!IdleTask EXCEPT !.step = "tell", !.tell = told]
        PROVE  n.step = "tell" /\ n.found = <<>> /\ n.made = {} /\ n.tell = told
    BY <2>1 DEF A!IdleTask
  <2>2. ASSUME NEW n, n = [A!IdleTask EXCEPT !.step = "tell", !.tell = told] PROVE Complete(n)
    BY <2>2 DEF Complete, A!IdleTask
  <2> QED BY <1>2, <2>1, <2>2, Zenon
<1>4. <<>> \in Seq(SUBSET AlertClients)
  OBVIOUS
<1>5. HandlerRight(alertTask'[t])
  BY <1>3, <1>4 DEF HandlerRight
<1>6. alertTask[t].made = {}
  BY <1>1 DEF HandlerRight
<1> QED BY <1>3, <1>5, <1>6, <1>7 DEF Owes

LEMMA AnswerKeeps ==
  ASSUME A!AlertAssumption, AlertsInv, NEW t \in AlertTasks, alertTask[t].step = "idle", NEW told, NEW i \in DOMAIN alerts,
         alertTask' = [alertTask EXCEPT ![t] = [A!IdleTask EXCEPT !.step = "tell", !.tell = told]],
         NEW a \in AlertType, a.id = alerts[i].id, a.sender = alerts[i].sender, alerts[i].sender \in told,
         \A u \in AlertClients : u \in told \/ (u \in A!Open(a) <=> u \in A!Open(alerts[i])),
         alerts' = A!Trimmed([alerts EXCEPT ![i] = a]), UNCHANGED <<listening, alertsShown, mute, nextId, nextVoice>>
  PROVE  AlertsInv'
<1> DEFINE list == [alerts EXCEPT ![i] = a]
<1>1. alerts \in Seq(AlertType)
  BY DEF AlertsInv, AlertTypes
<1>2. /\ list \in Seq(AlertType) /\ DOMAIN list = DOMAIN alerts /\ list[i] = a
      /\ \A j \in DOMAIN alerts : j # i => list[j] = alerts[j]
  BY <1>1
<1> HIDE DEF list
<1>3. /\ HandlerRight(alertTask'[t]) /\ alertTask' = [alertTask EXCEPT ![t] = alertTask'[t]]
      /\ \A u, id : ~Owes(alertTask[t], u, id)
      /\ \A u \in told : \A id : Owes(alertTask'[t], u, id)
  BY AnswerTask
<1>4. \A u \in AlertClients, id \in 1..MaxAlerts : Owes(alertTask'[t], u, id) \/ (Waits(list, u, id) <=> Waits(alerts, u, id))
  <2> SUFFICES ASSUME NEW u \in AlertClients, NEW id \in 1..MaxAlerts, u \notin told
               PROVE  Waits(list, u, id) <=> Waits(alerts, u, id)
    BY <1>3
  <2>1. \A j \in DOMAIN alerts : list[j].id = alerts[j].id /\ (u \in A!Open(list[j]) <=> u \in A!Open(alerts[j]))
    BY <1>2
  <2> QED BY <1>2, <2>1 DEF Waits
<1>5. \A j \in DOMAIN list : \/ list[j].sender \in AlertClients => Owes(alertTask'[t], list[j].sender, list[j].id)
                            \/ \E k \in DOMAIN alerts : list[j] = alerts[k]
  BY <1>2, <1>3
<1>6. alerts' = A!Trimmed(list)
  BY DEF list
<1> QED BY <1>2, <1>3, <1>4, <1>5, <1>6, ListTurn

LEMMA AckKeeps ==
  ASSUME A!AlertAssumption, AlertsInv, NEW t \in AlertTasks, NEW i \in DOMAIN alerts, NEW u \in AlertClients, A!Ack(t, u, i)
  PROVE  AlertsInv'
<1> DEFINE a == [alerts[i] EXCEPT !.acked = @ \cup {u}]
<1>1. alerts[i] \in AlertType
  BY AlertsTyped DEF AlertsInv
<1>2. /\ a \in AlertType /\ a.id = alerts[i].id /\ a.sender = alerts[i].sender
      /\ \A v \in AlertClients : v = u \/ (v \in A!Open(a) <=> v \in A!Open(alerts[i]))
  BY <1>1 DEF AlertType, A!Open
<1>3. /\ alertTask[t].step = "idle" /\ alerts' = A!Trimmed([alerts EXCEPT ![i] = a])
      /\ alertTask' = [alertTask EXCEPT ![t] = [A!IdleTask EXCEPT !.step = "tell", !.tell = {u, alerts[i].sender}]]
      /\ UNCHANGED <<listening, alertsShown, mute, nextId, nextVoice>>
  BY DEF A!Ack, A!ToldOf
<1> DEFINE told == {u, alerts[i].sender}
<1>4. alerts[i].sender \in told /\ u \in told
  OBVIOUS
<1> HIDE DEF a
<1> QED
  <2>1. alertTask' = [alertTask EXCEPT ![t] = [A!IdleTask EXCEPT !.step = "tell", !.tell = told]]
    BY <1>3
  <2> HIDE DEF told
  <2>2. \A v \in AlertClients : v \in told \/ (v \in A!Open(a) <=> v \in A!Open(alerts[i]))
    BY <1>2, <1>4
  <2> QED BY <1>2, <1>3, <1>4, <2>1, <2>2, AnswerKeeps, ZenonT(60)

LEMMA CancelKeeps ==
  ASSUME A!AlertAssumption, AlertsInv, NEW t \in AlertTasks, NEW i \in DOMAIN alerts, NEW u, A!Cancel(t, u, i)
  PROVE  AlertsInv'
<1> DEFINE a == [alerts[i] EXCEPT !.cancelled = TRUE]
<1>1. alerts[i] \in AlertType
  BY AlertsTyped DEF AlertsInv
<1>2. /\ a \in AlertType /\ a.id = alerts[i].id /\ a.sender = alerts[i].sender
      /\ \A v \in AlertClients : v \in A!Concerned(alerts[i]) \/ (v \in A!Open(a) <=> v \in A!Open(alerts[i]))
  BY <1>1 DEF AlertType, A!Open, A!Concerned
<1>3. /\ alertTask[t].step = "idle" /\ alerts' = A!Trimmed([alerts EXCEPT ![i] = a])
      /\ alertTask' = [alertTask EXCEPT ![t] = [A!IdleTask EXCEPT !.step = "tell", !.tell = A!Concerned(alerts[i])]]
      /\ UNCHANGED <<listening, alertsShown, mute, nextId, nextVoice>>
  BY DEF A!Cancel
<1>4. alerts[i].sender \in A!Concerned(alerts[i])
  BY DEF A!Concerned
<1> HIDE DEF a
<1>5. \E told : /\ alerts[i].sender \in told
                /\ alertTask' = [alertTask EXCEPT ![t] = [A!IdleTask EXCEPT !.step = "tell", !.tell = told]]
                /\ \A v \in AlertClients : v \in told \/ (v \in A!Open(a) <=> v \in A!Open(alerts[i]))
  BY <1>2, <1>3, <1>4, Zenon
<1> QED BY <1>2, <1>3, <1>5, AnswerKeeps, ZenonT(60)

LEMMA ConnectKeeps ==
  ASSUME AlertsInv, NEW u \in AlertClients, A!Connect(u) PROVE AlertsInv'
<1> USE DEF AlertsInv
<1>1. /\ listening' = listening \cup {u} /\ alertsShown' = [alertsShown EXCEPT ![u] = A!Display(alerts, u)]
      /\ UNCHANGED <<alerts, nextId, nextVoice, alertTask, mute>>
  BY DEF A!Connect
<1>2. alerts \in Seq(AlertType) /\ alertsShown \in [AlertClients -> SUBSET Shown] /\ listening \subseteq AlertClients
  BY DEF AlertTypes
<1>3. /\ alertsShown' \in [AlertClients -> SUBSET Shown] /\ alertsShown'[u] = A!Display(alerts, u)
      /\ \A v \in AlertClients : v # u => alertsShown'[v] = alertsShown[v]
  <2>1. A!Display(alerts, u) \in SUBSET Shown
    BY <1>2, DisplayRight
  <2> QED BY <1>1, <1>2, <2>1
<1>4. AlertTypes'
  BY <1>1, <1>3 DEF AlertTypes, Old
<1>5. HandlersRight'
  BY <1>1 DEF HandlersRight
<1>6. ActiveShown'
  <2> SUFFICES ASSUME NEW v \in listening', NEW id \in 1..MaxAlerts, ~Due(v, id)'
               PROVE  ShowsActive(v, id)' <=> Waits(alerts, v, id)
    BY <1>1 DEF ActiveShown, Waits
  <2>1. CASE v = u
    BY <1>2, <1>3, <2>1, DisplayRight DEF ShowsActive
  <2>2. CASE v # u
    BY <1>1, <1>2, <1>3, <2>2 DEF ActiveShown, ShowsActive, Due
  <2> QED BY <2>1, <2>2
<1>7. StateShown'
  <2> SUFFICES ASSUME NEW i \in DOMAIN alerts, alerts[i].sender \in listening', ~Due(alerts[i].sender, alerts[i].id)
               PROVE  ShowsState(alerts[i].sender, alerts[i])'
    BY <1>1 DEF StateShown, Due
  <2>1. CASE alerts[i].sender = u
    BY <1>1, <1>2, <1>3, <2>1, DisplayRight DEF ShowsState
  <2>2. CASE alerts[i].sender # u
    BY <1>1, <1>2, <1>3, <2>2 DEF StateShown, ShowsState
  <2> QED BY <2>1, <2>2
<1> QED BY <1>4, <1>5, <1>6, <1>7

LEMMA LeaveKeeps ==
  ASSUME AlertsInv, NEW u \in AlertClients, A!Leave(u) PROVE AlertsInv'
<1> USE DEF AlertsInv
<1>1. /\ listening' = listening \ {u} /\ alertsShown' = [alertsShown EXCEPT ![u] = {}]
      /\ UNCHANGED <<alerts, nextId, nextVoice, alertTask, mute>>
  BY DEF A!Leave
<1>2. alerts \in Seq(AlertType) /\ alertsShown \in [AlertClients -> SUBSET Shown] /\ listening \subseteq AlertClients
  BY DEF AlertTypes
<1>3. alertsShown' \in [AlertClients -> SUBSET Shown] /\ \A v \in listening' : v \in listening /\ alertsShown'[v] = alertsShown[v]
  BY <1>1, <1>2
<1>4. AlertTypes'
  BY <1>1, <1>3 DEF AlertTypes, Old
<1>5. HandlersRight'
  BY <1>1 DEF HandlersRight
<1>6. ActiveShown'
  BY <1>1, <1>3 DEF ActiveShown, ShowsActive, Waits, Due
<1>7. StateShown'
  BY <1>1, <1>3 DEF StateShown, ShowsState, Due
<1> QED BY <1>4, <1>5, <1>6, <1>7

LEMMA AlertsStay ==
  ASSUME AlertsInv, UNCHANGED <<alerts, nextId, nextVoice, listening, alertsShown, alertTask, mute>> PROVE AlertsInv'
<1>1. AlertTypes' /\ HandlersRight'
  BY DEF AlertsInv, AlertTypes, Old, HandlersRight
<1>2. ActiveShown' /\ StateShown'
  BY DEF AlertsInv, ActiveShown, StateShown, ShowsActive, ShowsState, Waits, Due
<1> QED BY <1>1, <1>2 DEF AlertsInv

LEMMA AlertsStep == ASSUME A!AlertAssumption, AlertsInv, [A!Next]_alertVars PROVE AlertsInv'
<1>1. ASSUME NEW t \in AlertTasks, A!Continue(t) PROVE AlertsInv'
  BY <1>1, ResolveKeeps, NumberKeeps, CreateKeeps, SpeechFailsKeeps, SpeakKeeps, TellKeeps DEF A!Continue
<1>2. ASSUME NEW t \in AlertTasks, NEW sender \in AlertSenders, NEW target \in A!Targets, A!SendAlert(t, sender, target)
      PROVE  AlertsInv'
  <2>1. sender \in AlertClients \cup {Server}
    BY DEF A!AlertAssumption
  <2> QED BY <1>2, <2>1, BeginKeeps DEF A!SendAlert
<1>3. ASSUME NEW t \in AlertTasks, NEW targets \in Announcements, NEW text \in BOOLEAN, NEW speak \in BOOLEAN,
             A!Announce(t, targets, text, speak)
      PROVE  AlertsInv'
  BY <1>3, BeginKeeps DEF A!Announce
<1>4. ASSUME NEW t \in AlertTasks, NEW i \in DOMAIN alerts, NEW u \in AlertClients, A!Ack(t, u, i) PROVE AlertsInv'
  BY <1>4, AckKeeps
<1>5. ASSUME NEW t \in AlertTasks, NEW i \in DOMAIN alerts, NEW u \in AlertClients \cup {Server}, A!Cancel(t, u, i) PROVE AlertsInv'
  BY <1>5, CancelKeeps
<1>6. ASSUME NEW u \in AlertClients, A!Connect(u) \/ A!Leave(u) PROVE AlertsInv'
  BY <1>6, ConnectKeeps, LeaveKeeps
<1>7. CASE A!PlayVoices
  BY <1>7, AlertsStay DEF A!PlayVoices
<1>8. CASE UNCHANGED alertVars
  BY <1>8, AlertsStay DEF alertVars
<1> QED BY <1>1, <1>2, <1>3, <1>4, <1>5, <1>6, <1>7, <1>8 DEF A!Next

(* For any users, handlers and announcements: a client to whom no push is due displays
   exactly the alerts that wait for it, but for those of an announcement that could not
   speak; so does who sent one; and the list keeps a bounded number of alerts that wait for
   nobody (create_runtime_alert, push_config_update, trim_alert_history). *)
THEOREM AlertsReachTheirUsers == ASSUME A!AlertAssumption PROVE Parts => []AlertsRight
<1>1. PartsInit => (part = "alerts" => AlertsInv)
  BY AlertsInit DEF PartsInit
<1>2. (part = "alerts" => AlertsInv) /\ [PartsNext]_partVars => (part = "alerts" => AlertsInv)'
  BY AlertsStep, PartsStep
<1>3. (part = "alerts" => AlertsInv) => AlertsRight
  BY AlertsInvRight DEF AlertsRight
<1> QED BY <1>1, <1>2, <1>3, PTL DEF Parts

-----------------------------------------------------------------------------
(* What the admin configures. *)
(* A client as every way in leaves it: its buttons are about users, and its programme is
   nothing that interrupts it. *)
CleanActions ==
  [kind : {"transmit", "alert"}] \cup [kind : {"preset"}, preset : STRING]
    \cup [kind : {"mode"}, users : SUBSET W!Staff, mode : W!TalkModes]
    \cup [kind : {"edit"}, users : SUBSET W!Staff, listen : W!RouteChange, tx : W!RouteChange]
AnyButton == [id : Nat, actions : Seq(W!ActionType)]
CleanButton == [id : Nat, actions : Seq(CleanActions)]
CleanClients == {c \in W!ClientType : c.program \cap c.interrupt = {} /\ c.buttons \in Seq(CleanButton)}
AnyShow == [W!Staff -> W!ClientType \cup {None}]
CleanShow == [W!Staff -> CleanClients \cup {None}]

(* What has been read for the action under way is about a user, and clean. *)
ButtonRight ==
  /\ pressed = [user |-> pressed.user, left |-> pressed.left, at |-> pressed.at]
  /\ pressed.left \in Seq(CleanActions)
  /\ pressed.left # <<>> => pressed.user \in W!Staff
  /\ pressed.at # None =>
       /\ pressed.left # <<>> /\ Head(pressed.left).kind \in {"mode", "edit"}
       /\ pressed.at.todo \in (SUBSET W!Staff) \ {{}} /\ pressed.at.was \in CleanClients

(* What is configured and runs is clean, and runs as it is configured. *)
ShowRight == clients \in CleanShow /\ running \in CleanShow /\ W!SessionRunsDesired
PresetsRight ==
  \A p \in DOMAIN presets : presets[p] \in CleanShow /\ W!NormalizedShow(presets[p]) = presets[p]
TemplatesRight == \A t \in DOMAIN templates : templates[t] \in W!ClientType
ChannelsRight == DOMAIN channels \subseteq W!Channels

WorkflowInv == ShowRight /\ PresetsRight /\ TemplatesRight /\ ChannelsRight /\ ButtonRight

LEMMA SameSize == ASSUME NEW set PROVE W!Cardinality(set) = Cardinality(set)
BY DEF W!Cardinality, Cardinality

LEMMA SubsetsCount ==
  ASSUME NEW set, IsFiniteSet(set)
  PROVE  /\ W!Cardinality(set) \in Nat
         /\ W!Cardinality(set) = 0 <=> set = {}
         /\ \A some \in SUBSET set :
              /\ IsFiniteSet(some) /\ W!Cardinality(some) \in Nat /\ W!Cardinality(some) <= W!Cardinality(set)
              /\ W!Cardinality(some) = W!Cardinality(set) => some = set
<1>1. W!Cardinality(set) \in Nat /\ (W!Cardinality(set) = 0 <=> set = {})
  BY SameSize, FS_CardinalityType, FS_EmptySet
<1>2. ASSUME NEW some \in SUBSET set
      PROVE  /\ IsFiniteSet(some) /\ W!Cardinality(some) \in Nat /\ W!Cardinality(some) <= W!Cardinality(set)
             /\ W!Cardinality(some) = W!Cardinality(set) => some = set
  <2>1. IsFiniteSet(some) /\ W!Cardinality(some) <= W!Cardinality(set)
        /\ (W!Cardinality(set) = W!Cardinality(some) => set = some)
    BY SameSize, FS_Subset
  <2> QED BY <2>1, SameSize, FS_CardinalityType
<1> QED BY <1>1, <1>2

(* How many of a set of numbers are no greater than one of them numbers them from 1 on. *)
Place(ids, id) == W!Cardinality({i \in ids : i <= id})

LEMMA PlacesNumber ==
  ASSUME NEW ids \in SUBSET Nat, IsFiniteSet(ids)
  PROVE  /\ W!Cardinality(ids) \in Nat
         /\ \A id \in ids : Place(ids, id) \in 1..W!Cardinality(ids)
         /\ \A id, other \in ids : Place(ids, id) = Place(ids, other) => id = other
         /\ \A k \in 1..W!Cardinality(ids) : \E id \in ids : Place(ids, id) = k
<1> DEFINE n == W!Cardinality(ids)
<1>1. n \in Nat
  BY SubsetsCount
<1>2. ASSUME NEW id \in ids PROVE Place(ids, id) \in 1..n
  <2> DEFINE upTo == {i \in ids : i <= id}
  <2>1. upTo \in SUBSET ids /\ id \in upTo
    OBVIOUS
  <2>2. IsFiniteSet(upTo) /\ W!Cardinality(upTo) \in Nat /\ W!Cardinality(upTo) <= n
    BY <2>1, SubsetsCount
  <2>3. W!Cardinality(upTo) # 0
    BY <2>1, <2>2, SubsetsCount
  <2>4. Place(ids, id) = W!Cardinality(upTo)
    BY DEF Place
  <2> HIDE DEF upTo, n
  <2> QED BY <1>1, <2>2, <2>3, <2>4
<1>3. ASSUME NEW id \in ids, NEW other \in ids, id < other PROVE Place(ids, id) # Place(ids, other)
  <2> DEFINE fewer == {i \in ids : i <= id}
             more == {i \in ids : i <= other}
  <2>0. \A i \in ids : i \in Nat
    OBVIOUS
  <2>1. fewer \in SUBSET more /\ other \in more /\ other \notin fewer /\ more \in SUBSET ids
    <3>1. \A i \in ids : i <= id => i <= other
      BY <2>0, <1>3
    <3>2. other <= other /\ ~(other <= id)
      BY <2>0, <1>3
    <3> QED BY <3>1, <3>2
  <2>2. IsFiniteSet(more)
    BY <2>1, SubsetsCount
  <2>3. W!Cardinality(fewer) # W!Cardinality(more)
    BY <2>1, <2>2, SubsetsCount
  <2> QED BY <2>3 DEF Place
<1>4. \A id, other \in ids : Place(ids, id) = Place(ids, other) => id = other
  <2> SUFFICES ASSUME NEW id \in ids, NEW other \in ids, id # other PROVE Place(ids, id) # Place(ids, other)
    OBVIOUS
  <2>1. id < other \/ other < id
    OBVIOUS
  <2> QED BY <2>1, <1>3
<1>5. \A k \in 1..n : \E id \in ids : Place(ids, id) = k
  <2> DEFINE number == [id \in ids |-> Place(ids, id)]
  <2>1. number \in Injection(ids, 1..n)
    <3>1. number \in [ids -> 1..n]
      BY <1>2
    <3>2. \A id, other \in ids : number[id] = number[other] => id = other
      BY <1>4
    <3> HIDE DEF number
    <3> QED BY <3>1, <3>2 DEF Injection, IsInjective
  <2>2. IsFiniteSet(1..n) /\ W!Cardinality(1..n) = n
    BY <1>1, SameSize, FS_Interval
  <2>3. number \in Surjection(ids, 1..n)
    <3>1. \A set : W!Cardinality(set) = W!Cardinality(set)
      BY SameSize
    <3> HIDE DEF number
    <3> QED BY <2>1, <2>2, <3>1, SameSize, FS_Injection DEF n
  <2>4. \A k \in 1..n : \E id \in ids : number[id] = k
    BY <2>3 DEF Surjection
  <2> QED BY <2>4
<1> QED BY <1>1, <1>2, <1>4, <1>5

LEMMA KthNumbers ==
  ASSUME NEW ids \in SUBSET Nat, IsFiniteSet(ids)
  PROVE  /\ \A k \in 1..W!Cardinality(ids) : W!Kth(ids, k) \in ids
         /\ \A k, l \in 1..W!Cardinality(ids) : W!Kth(ids, k) = W!Kth(ids, l) => k = l
         /\ \A id \in ids : \E k \in 1..W!Cardinality(ids) : W!Kth(ids, k) = id
<1>1. ASSUME NEW k \in 1..W!Cardinality(ids) PROVE W!Kth(ids, k) \in ids /\ Place(ids, W!Kth(ids, k)) = k
  <2>1. \E id \in ids : W!Cardinality({i \in ids : i <= id}) = k
    BY PlacesNumber DEF Place
  <2> QED BY <2>1 DEF W!Kth, Place
<1>2. ASSUME NEW id \in ids PROVE \E k \in 1..W!Cardinality(ids) : W!Kth(ids, k) = id
  <2>1. Place(ids, id) \in 1..W!Cardinality(ids)
    BY PlacesNumber
  <2>2. W!Kth(ids, Place(ids, id)) = id
    <3> DEFINE same == W!Kth(ids, Place(ids, id))
    <3>1. same \in ids /\ Place(ids, same) = Place(ids, id)
      BY <1>1, <2>1
    <3> HIDE DEF same
    <3>2. same = id
      BY <3>1, PlacesNumber
    <3> QED BY <3>2 DEF same
  <2> QED BY <2>1, <2>2
<1> QED BY <1>1, <1>2

LEMMA LeastOf ==
  ASSUME NEW ids \in SUBSET Nat, IsFiniteSet(ids), ids # {}
  PROVE  W!Min(ids) \in ids /\ \A i \in ids : W!Min(ids) <= i
<1>1. W!Cardinality(ids) \in Nat /\ W!Cardinality(ids) # 0
  BY SubsetsCount
<1>2. PICK least \in ids : Place(ids, least) = 1
  BY <1>1, PlacesNumber
<1>3. ASSUME NEW i \in ids PROVE least <= i
  <2> SUFFICES ASSUME i < least PROVE FALSE
    OBVIOUS
  <2> DEFINE upTo == {j \in ids : j <= least}
             below == {j \in ids : j <= i}
  <2>0. \A j \in ids : j \in Nat
    OBVIOUS
  <2>1. below \in SUBSET upTo /\ upTo \in SUBSET ids /\ i \in below /\ least \in upTo /\ least \notin below
    <3>1. \A j \in ids : j <= i => j <= least
      BY <2>0
    <3>2. i <= i /\ least <= least /\ ~(least <= i)
      BY <2>0
    <3> QED BY <3>1, <3>2
  <2>2. IsFiniteSet(upTo) /\ W!Cardinality(upTo) = 1
    BY <1>2, <2>1, SubsetsCount DEF Place
  <2>3. IsFiniteSet(below) /\ W!Cardinality(below) \in Nat /\ W!Cardinality(below) <= 1 /\ W!Cardinality(below) # 1
    BY <2>1, <2>2, SubsetsCount
  <2>4. W!Cardinality(below) = 0
    BY <2>3
  <2>5. below = {}
    BY <2>3, <2>4, SubsetsCount
  <2> QED BY <2>1, <2>5
<1> QED BY <1>3 DEF W!Min

LEMMA LowerOf == ASSUME NEW level \in Nat, MaxLevel \in Nat PROVE W!Lower(level) \in Nat /\ W!Lower(W!Lower(level)) = W!Lower(level)
<1>1. ASSUME NEW n \in Nat PROVE W!Lower(n) = IF n <= MaxLevel THEN n ELSE MaxLevel
  <2> DEFINE two == {n, MaxLevel}
  <2>1. \E m \in two : \A i \in two : m <= i
    OBVIOUS
  <2>2. W!Min(two) \in two /\ \A i \in two : W!Min(two) <= i
    BY <2>1 DEF W!Min
  <2>3. W!Lower(n) = W!Min(two)
    BY DEF W!Lower
  <2>4. W!Lower(n) \in two /\ W!Lower(n) <= n /\ W!Lower(n) <= MaxLevel
    BY <2>2, <2>3
  <2> QED BY <2>4
<1> QED BY <1>1

LEMMA SequenceFrom ==
  ASSUME NEW elements, NEW n \in Nat, NEW f \in [1..n -> elements]
  PROVE  f \in Seq(elements) /\ Len(f) = n
OBVIOUS

LEMMA ElementsOf ==
  ASSUME NEW elements, NEW s \in Seq(elements)
  PROVE  Len(s) \in Nat /\ DOMAIN s = 1..Len(s) /\ s \in [1..Len(s) -> elements] /\ \A i \in DOMAIN s : s[i] \in elements
OBVIOUS

CleanAction(a) == IF a.kind \in {"mode", "edit"} THEN [a EXCEPT !.users = @ \ {0}] ELSE a

LEMMA ActionCleaned ==
  /\ \A a \in W!ActionType : CleanAction(a) \in CleanActions
  /\ \A a \in CleanActions : a \in W!ActionType /\ CleanAction(a) = a
<1>1. ASSUME NEW a \in W!ActionType PROVE CleanAction(a) \in CleanActions
  <2>1. CASE a \in [kind : {"transmit", "alert"}]
    <3>1. CleanAction(a) = a
      BY <2>1 DEF CleanAction
    <3> QED BY <2>1, <3>1 DEF CleanActions
  <2>2. CASE a \in [kind : {"preset"}, preset : STRING]
    <3>1. CleanAction(a) = a
      BY <2>2 DEF CleanAction
    <3> QED BY <2>2, <3>1 DEF CleanActions
  <2>3. CASE a \in [kind : {"mode"}, users : SUBSET (W!Staff \cup {0}), mode : W!TalkModes]
    <3>1. CleanAction(a) = [a EXCEPT !.users = @ \ {0}]
      BY <2>3 DEF CleanAction
    <3>2. [a EXCEPT !.users = @ \ {0}] \in [kind : {"mode"}, users : SUBSET W!Staff, mode : W!TalkModes]
      BY <2>3
    <3> QED BY <3>1, <3>2 DEF CleanActions
  <2>4. CASE a \in [kind : {"edit"}, users : SUBSET (W!Staff \cup {0}), listen : W!RouteChange, tx : W!RouteChange]
    <3>1. CleanAction(a) = [a EXCEPT !.users = @ \ {0}]
      BY <2>4 DEF CleanAction
    <3>2. [a EXCEPT !.users = @ \ {0}] \in [kind : {"edit"}, users : SUBSET W!Staff, listen : W!RouteChange, tx : W!RouteChange]
      BY <2>4
    <3> QED BY <3>1, <3>2 DEF CleanActions
  <2> QED BY <2>1, <2>2, <2>3, <2>4 DEF W!ActionType
<1>2. ASSUME NEW a \in CleanActions PROVE a \in W!ActionType /\ CleanAction(a) = a
  <2>0. 0 \notin W!Staff
    BY DEF W!Staff
  <2>1. CASE a \in [kind : {"transmit", "alert"}]
    BY <2>1 DEF CleanAction, W!ActionType
  <2>2. CASE a \in [kind : {"preset"}, preset : STRING]
    BY <2>2 DEF CleanAction, W!ActionType
  <2>3. CASE a \in [kind : {"mode"}, users : SUBSET W!Staff, mode : W!TalkModes]
    <3>1. a.users \ {0} = a.users
      BY <2>0, <2>3
    <3>2. [a EXCEPT !.users = a.users] = a
      BY <2>3
    <3>3. CleanAction(a) = [a EXCEPT !.users = @ \ {0}]
      BY <2>3 DEF CleanAction
    <3>4. a \in [kind : {"mode"}, users : SUBSET (W!Staff \cup {0}), mode : W!TalkModes]
      BY <2>3
    <3>5. CleanAction(a) = a
      BY <3>1, <3>2, <3>3
    <3> QED BY <3>4, <3>5 DEF W!ActionType
  <2>4. CASE a \in [kind : {"edit"}, users : SUBSET W!Staff, listen : W!RouteChange, tx : W!RouteChange]
    <3>1. a.users \ {0} = a.users
      BY <2>0, <2>4
    <3>2. [a EXCEPT !.users = a.users] = a
      BY <2>4
    <3>3. CleanAction(a) = [a EXCEPT !.users = @ \ {0}]
      BY <2>4 DEF CleanAction
    <3>4. a \in [kind : {"edit"}, users : SUBSET (W!Staff \cup {0}), listen : W!RouteChange, tx : W!RouteChange]
      BY <2>4
    <3>5. CleanAction(a) = a
      BY <3>1, <3>2, <3>3
    <3> QED BY <3>4, <3>5 DEF W!ActionType
  <2> QED BY <2>1, <2>2, <2>3, <2>4 DEF CleanActions
<1> QED BY <1>1, <1>2

LEMMA ActionsCleaned ==
  /\ \A s \in Seq(W!ActionType) : W!NormalizedActions(s) \in Seq(CleanActions)
  /\ \A s \in Seq(CleanActions) : s \in Seq(W!ActionType) /\ W!NormalizedActions(s) = s
<1>1. \A s : W!NormalizedActions(s) = [i \in DOMAIN s |-> CleanAction(s[i])]
  BY DEF W!NormalizedActions, CleanAction
<1>2. ASSUME NEW s \in Seq(W!ActionType) PROVE W!NormalizedActions(s) \in Seq(CleanActions)
  <2>1. Len(s) \in Nat /\ DOMAIN s = 1..Len(s) /\ \A i \in DOMAIN s : s[i] \in W!ActionType
    BY ElementsOf
  <2>2. [i \in DOMAIN s |-> CleanAction(s[i])] \in [1..Len(s) -> CleanActions]
    BY <2>1, ActionCleaned
  <2> QED BY <1>1, <2>1, <2>2, SequenceFrom
<1>3. ASSUME NEW s \in Seq(CleanActions) PROVE s \in Seq(W!ActionType) /\ W!NormalizedActions(s) = s
  <2>1. Len(s) \in Nat /\ DOMAIN s = 1..Len(s) /\ s \in [1..Len(s) -> CleanActions]
    BY ElementsOf
  <2>2. s \in [1..Len(s) -> W!ActionType]
    BY <2>1, ActionCleaned
  <2>3. [i \in DOMAIN s |-> CleanAction(s[i])] = s
    BY <2>1, ActionCleaned
  <2> QED BY <1>1, <2>1, <2>2, <2>3, SequenceFrom
<1> QED BY <1>2, <1>3
LEMMA IdsFinite ==
  ASSUME NEW b \in Seq(AnyButton)
  PROVE  W!Ids(b) \in SUBSET Nat /\ IsFiniteSet(W!Ids(b)) /\ 0 \notin W!Ids(b)
<1>1. Len(b) \in Nat /\ DOMAIN b = 1..Len(b) /\ \A i \in DOMAIN b : b[i] \in AnyButton
  BY ElementsOf
<1> DEFINE all == {b[i].id : i \in DOMAIN b}
           idOf == [i \in 1..Len(b) |-> b[i].id]
<1>2. IsFiniteSet(1..Len(b))
  BY <1>1, FS_Interval
<1>3. idOf \in Surjection(1..Len(b), all)
  BY <1>1 DEF Surjection
<1>4. IsFiniteSet(all)
  <2> HIDE DEF idOf, all
  <2> QED BY <1>2, <1>3, FS_Surjection
<1>5. W!Ids(b) = all \ {0}
  BY DEF W!Ids
<1>6. \A i \in DOMAIN b : b[i].id \in Nat
  BY <1>1 DEF AnyButton
<1>7. all \subseteq Nat
  BY <1>6
<1> HIDE DEF all
<1>8. IsFiniteSet(all \ {0})
  BY <1>4, FS_Subset
<1> QED BY <1>5, <1>7, <1>8

LEMMA FirstButton ==
  ASSUME NEW b \in Seq(AnyButton), NEW id \in W!Ids(b)
  PROVE  \E k \in DOMAIN b : /\ b[k].id = id /\ W!First(b, id) = b[k]
                             /\ k = W!Min({i \in DOMAIN b : b[i].id = id})
<1> DEFINE same == {i \in DOMAIN b : b[i].id = id}
<1>1. Len(b) \in Nat /\ DOMAIN b = 1..Len(b)
  BY ElementsOf
<1>2. IsFiniteSet(DOMAIN b) /\ DOMAIN b \subseteq Nat
  BY <1>1, FS_Interval
<1>3. same \subseteq DOMAIN b /\ same # {}
  BY DEF W!Ids
<1>4. IsFiniteSet(same) /\ same \in SUBSET Nat
  BY <1>2, <1>3, FS_Subset
<1>5. W!Min(same) \in same
  <2> HIDE DEF same
  <2> QED BY <1>3, <1>4, LeastOf
<1>6. W!First(b, id) = b[W!Min(same)]
  BY DEF W!First
<1> QED BY <1>5, <1>6

LEMMA ButtonsCleaned ==
  ASSUME NEW b \in Seq(AnyButton)
  PROVE  /\ W!NormalizedButtons(b) \in Seq(CleanButton)
         /\ W!Ids(W!NormalizedButtons(b)) = W!Ids(b)
         /\ W!NormalizedButtons(W!NormalizedButtons(b)) = W!NormalizedButtons(b)
<1> DEFINE ids == W!Ids(b)
           n == W!Cardinality(ids)
           clean == W!NormalizedButtons(b)
           actions(id) == W!NormalizedActions(W!First(b, id).actions)
<1>1. ids \in SUBSET Nat /\ IsFiniteSet(ids) /\ 0 \notin ids
  BY IdsFinite
<1>2. n \in Nat /\ (\A k \in 1..n : W!Kth(ids, k) \in ids)
      /\ (\A k, l \in 1..n : W!Kth(ids, k) = W!Kth(ids, l) => k = l)
      /\ (\A id \in ids : \E k \in 1..n : W!Kth(ids, k) = id)
  <2> HIDE DEF ids
  <2> QED BY <1>1, KthNumbers, PlacesNumber
<1>3. ASSUME NEW id \in ids PROVE actions(id) \in Seq(CleanActions)
  <2>1. PICK k \in DOMAIN b : W!First(b, id) = b[k]
    BY FirstButton
  <2>2. b[k] \in AnyButton
    BY ElementsOf
  <2>3. b[k].actions \in Seq(W!ActionType)
    BY <2>2 DEF AnyButton
  <2> QED BY <2>1, <2>3, ActionsCleaned
<1>4. clean = [k \in 1..n |-> W!Button(W!Kth(ids, k), actions(W!Kth(ids, k)))]
  BY DEF W!NormalizedButtons
<1> HIDE DEF ids, n, clean, actions
<1>5. DOMAIN clean = 1..n /\ \A k \in 1..n : clean[k] = W!Button(W!Kth(ids, k), actions(W!Kth(ids, k)))
  BY <1>4
<1>6. \A k \in 1..n : /\ clean[k].id = W!Kth(ids, k) /\ clean[k].actions = actions(W!Kth(ids, k))
                      /\ clean[k] = W!Button(clean[k].id, clean[k].actions)
  BY <1>5 DEF W!Button
<1>7. \A k \in 1..n : clean[k] \in CleanButton
  <2> TAKE k \in 1..n
  <2>1. W!Kth(ids, k) \in Nat /\ actions(W!Kth(ids, k)) \in Seq(CleanActions)
    BY <1>1, <1>2, <1>3
  <2> QED BY <1>5, <2>1 DEF W!Button, CleanButton
<1>8. clean \in Seq(CleanButton) /\ Len(clean) = n
  <2>1. clean \in [1..n -> CleanButton]
    BY <1>4, <1>5, <1>7
  <2> QED BY <1>2, <2>1, SequenceFrom
<1>9. W!Ids(clean) = ids
  <2>1. {clean[k].id : k \in DOMAIN clean} = ids
    BY <1>2, <1>5, <1>6
  <2> QED BY <1>1, <2>1 DEF W!Ids
<1>10. ASSUME NEW k \in 1..n PROVE W!First(clean, W!Kth(ids, k)) = clean[k]
  <2> DEFINE same == {i \in DOMAIN clean : clean[i].id = W!Kth(ids, k)}
  <2>1. same = {k}
    BY <1>2, <1>5, <1>6
  <2>2. k \in Nat
    BY <1>2
  <2>3. \A m : (m \in {k} /\ \A i \in {k} : m <= i) <=> m = k
    BY <2>2
  <2>4. W!Min({k}) = k
    BY <2>3 DEF W!Min
  <2>5. W!First(clean, W!Kth(ids, k)) = clean[W!Min(same)]
    BY DEF W!First
  <2> QED BY <2>1, <2>4, <2>5
<1>11. ASSUME NEW k \in 1..n
       PROVE W!Button(W!Kth(ids, k), W!NormalizedActions(W!First(clean, W!Kth(ids, k)).actions)) = clean[k]
  <2>1. W!NormalizedActions(clean[k].actions) = clean[k].actions
    BY <1>2, <1>3, <1>6, ActionsCleaned
  <2> QED BY <1>6, <1>10, <2>1
<1>12. W!NormalizedButtons(clean)
         = [k \in 1..n |-> W!Button(W!Kth(ids, k), W!NormalizedActions(W!First(clean, W!Kth(ids, k)).actions))]
  BY <1>9 DEF W!NormalizedButtons, n
<1>13. W!NormalizedButtons(clean) = clean
  BY <1>4, <1>5, <1>11, <1>12
<1> QED BY <1>8, <1>9, <1>13 DEF clean, ids

LEMMA CleanButtons == Seq(CleanButton) \subseteq Seq(AnyButton)
<1>1. CleanButton \subseteq AnyButton
  BY ActionsCleaned DEF CleanButton, AnyButton
<1> QED BY <1>1

(* The fields of a client, one by one. *)
Remade(c, buttons, program, level, talkers) ==
  [role |-> c.role, name |-> c.name, listen |-> c.listen, tx |-> c.tx, mode |-> c.mode,
   buttons |-> buttons, ifb |-> c.ifb, program |-> program, interrupt |-> c.interrupt,
   talkers |-> talkers, level |-> level, locked |-> c.locked]

LEMMA FieldsOf ==
  ASSUME NEW c \in W!ClientType
  PROVE  /\ c = Remade(c, c.buttons, c.program, c.level, c.talkers)
         /\ c.buttons \in Seq(AnyButton) /\ c.program \in W!Routes /\ c.interrupt \in W!Routes
         /\ c.level \in Nat /\ c.talkers \in SUBSET (Nat \X Nat)
         /\ c.listen \in W!Routes /\ c.tx \in W!Routes /\ c.mode \in W!TalkModes
BY DEF W!ClientType, Remade, AnyButton

LEMMA RemadeType ==
  ASSUME NEW c \in W!ClientType, NEW buttons \in Seq(AnyButton), NEW program \in W!Routes, NEW level \in Nat,
         NEW talkers \in SUBSET (Nat \X Nat)
  PROVE  Remade(c, buttons, program, level, talkers) \in W!ClientType
BY DEF W!ClientType, Remade, AnyButton

LEMMA FieldsOfRemade ==
  ASSUME NEW c, NEW buttons, NEW program, NEW level, NEW talkers
  PROVE  LET r == Remade(c, buttons, program, level, talkers)
         IN /\ r.role = c.role /\ r.name = c.name /\ r.listen = c.listen /\ r.tx = c.tx /\ r.mode = c.mode
            /\ r.buttons = buttons /\ r.ifb = c.ifb /\ r.program = program /\ r.interrupt = c.interrupt
            /\ r.talkers = talkers /\ r.level = level /\ r.locked = c.locked
BY DEF Remade

LEMMA Remakes ==
  ASSUME NEW c \in W!ClientType
  PROVE  /\ W!Normalized(c) = Remade(c, W!NormalizedButtons(c.buttons), c.program \ c.interrupt, W!Lower(c.level), c.talkers)
         /\ \A u : W!NormalizedClient(c, u)
                     = Remade(c, W!NormalizedButtons(c.buttons), c.program \ c.interrupt, W!Lower(c.level),
                              W!NormalizedTalkers(c.talkers, u))
         /\ W!NormalizedTemplate(c)
              = Remade(c, W!NormalizedButtons(c.buttons), c.program \ c.interrupt, W!Lower(c.level),
                       {<<t[1], W!Lower(t[2])>> : t \in c.talkers})
<1>0. ASSUME NEW buttons, NEW program, NEW level, NEW talkers
      PROVE [Remade(c, buttons, program, level, c.talkers) EXCEPT !.talkers = talkers]
              = Remade(c, buttons, program, level, talkers)
  BY DEF Remade
<1>1. ASSUME NEW buttons, NEW program, NEW level
      PROVE [c EXCEPT !.buttons = buttons, !.program = program, !.level = level]
              = Remade(c, buttons, program, level, c.talkers)
  <2> DEFINE fields == {"role", "name", "listen", "tx", "mode", "buttons", "ifb", "program", "interrupt",
                        "talkers", "level", "locked"}
             old == [c EXCEPT !.buttons = buttons, !.program = program, !.level = level]
             new == Remade(c, buttons, program, level, c.talkers)
  <2>1. DOMAIN c = fields
    BY DEF W!ClientType
  <2>2. DOMAIN old = fields /\ DOMAIN new = fields
    <3>1. DOMAIN old = DOMAIN c
      OBVIOUS
    <3>2. DOMAIN new = fields
      BY DEF Remade
    <3> QED BY <2>1, <3>1, <3>2
  <2>3. \A f \in fields : old[f] = new[f]
    <3>1. /\ old.role = c.role /\ old.name = c.name /\ old.listen = c.listen /\ old.tx = c.tx
          /\ old.mode = c.mode /\ old.buttons = buttons /\ old.ifb = c.ifb /\ old.program = program
          /\ old.interrupt = c.interrupt /\ old.talkers = c.talkers /\ old.level = level /\ old.locked = c.locked
      BY <2>1
    <3>2. /\ new.role = c.role /\ new.name = c.name /\ new.listen = c.listen /\ new.tx = c.tx
          /\ new.mode = c.mode /\ new.buttons = buttons /\ new.ifb = c.ifb /\ new.program = program
          /\ new.interrupt = c.interrupt /\ new.talkers = c.talkers /\ new.level = level /\ new.locked = c.locked
      BY FieldsOfRemade
    <3>3. /\ old.role = new.role /\ old.name = new.name /\ old.listen = new.listen /\ old.tx = new.tx
          /\ old.mode = new.mode /\ old.buttons = new.buttons /\ old.ifb = new.ifb /\ old.program = new.program
          /\ old.interrupt = new.interrupt /\ old.talkers = new.talkers /\ old.level = new.level /\ old.locked = new.locked
      BY <3>1, <3>2
    <3> HIDE DEF old, new
    <3> QED BY <3>3
  <2>4. old = [f \in DOMAIN old |-> old[f]] /\ new = [f \in DOMAIN new |-> new[f]]
    BY DEF Remade
  <2> HIDE DEF old, new, fields
  <2>5. old = new
    BY <2>2, <2>3, <2>4
  <2> QED BY <2>5 DEF old, new
<1> DEFINE buttons == W!NormalizedButtons(c.buttons)
           program == c.program \ c.interrupt
           level == W!Lower(c.level)
<1>2. W!Normalized(c) = [c EXCEPT !.buttons = buttons, !.program = program, !.level = level]
  BY DEF W!Normalized
<1>3. \A u : W!NormalizedClient(c, u) = [W!Normalized(c) EXCEPT !.talkers = W!NormalizedTalkers(W!Normalized(c).talkers, u)]
  BY DEF W!NormalizedClient
<1>4. W!NormalizedTemplate(c) = [W!Normalized(c) EXCEPT !.talkers = {<<t[1], W!Lower(t[2])>> : t \in W!Normalized(c).talkers}]
  BY DEF W!NormalizedTemplate
<1> HIDE DEF buttons, program, level
<1>5. W!Normalized(c) = Remade(c, buttons, program, level, c.talkers)
  BY <1>1, <1>2
<1>6. W!Normalized(c).talkers = c.talkers
  BY <1>5, FieldsOfRemade
<1>7. ASSUME NEW u PROVE W!NormalizedClient(c, u) = Remade(c, buttons, program, level, W!NormalizedTalkers(c.talkers, u))
  <2> DEFINE talkers == W!NormalizedTalkers(c.talkers, u)
  <2>1. W!NormalizedClient(c, u) = [Remade(c, buttons, program, level, c.talkers) EXCEPT !.talkers = talkers]
    BY <1>3, <1>5, <1>6
  <2> HIDE DEF talkers
  <2>2. W!NormalizedClient(c, u) = Remade(c, buttons, program, level, talkers)
    BY <1>0, <2>1
  <2> QED BY <2>2 DEF talkers
<1>8. W!NormalizedTemplate(c) = Remade(c, buttons, program, level, {<<t[1], W!Lower(t[2])>> : t \in c.talkers})
  <2> DEFINE talkers == {<<t[1], W!Lower(t[2])>> : t \in c.talkers}
  <2>1. W!NormalizedTemplate(c) = [Remade(c, buttons, program, level, c.talkers) EXCEPT !.talkers = talkers]
    BY <1>4, <1>5, <1>6
  <2> HIDE DEF talkers
  <2>2. W!NormalizedTemplate(c) = Remade(c, buttons, program, level, talkers)
    BY <1>0, <2>1
  <2> QED BY <2>2 DEF talkers
<1> QED BY <1>5, <1>7, <1>8 DEF buttons, program, level

LEMMA TalkersLowered ==
  ASSUME NEW talkers \in SUBSET (Nat \X Nat), NEW u, MaxLevel \in Nat
  PROVE  /\ W!NormalizedTalkers(talkers, u) \in SUBSET (Nat \X Nat)
         /\ {<<t[1], W!Lower(t[2])>> : t \in talkers} \in SUBSET (Nat \X Nat)
         /\ W!NormalizedTalkers(W!NormalizedTalkers(talkers, u), u) = W!NormalizedTalkers(talkers, u)
         /\ W!NormalizedTalkers({<<t[1], W!Lower(t[2])>> : t \in talkers}, u) = W!NormalizedTalkers(talkers, u)
<1> DEFINE lowered(t) == <<t[1], W!Lower(t[2])>>
           all == {lowered(t) : t \in talkers}
           others == {lowered(t) : t \in {g \in talkers : g[1] # u}}
<1>1. ASSUME NEW t \in Nat \X Nat
      PROVE lowered(t) \in Nat \X Nat /\ lowered(t)[1] = t[1] /\ lowered(lowered(t)) = lowered(t)
  BY LowerOf
<1>2. \A set : W!NormalizedTalkers(set, u) = {lowered(t) : t \in {g \in set : g[1] # u}}
  BY DEF W!NormalizedTalkers
<1> HIDE DEF lowered
<1>3. all \in SUBSET (Nat \X Nat) /\ others \in SUBSET (Nat \X Nat)
  BY <1>1
<1>4. {lowered(t) : t \in {g \in all : g[1] # u}} = others
  BY <1>1
<1>5. {lowered(t) : t \in {g \in others : g[1] # u}} = others
  BY <1>1
<1>6. W!NormalizedTalkers(talkers, u) = others /\ W!NormalizedTalkers(others, u) = others /\ W!NormalizedTalkers(all, u) = others
  BY <1>2, <1>4, <1>5
<1> HIDE DEF all, others
<1> QED BY <1>3, <1>6 DEF all, lowered

LEMMA ClientsCleaned ==
  ASSUME MaxLevel \in Nat, NEW c \in W!ClientType, NEW u
  PROVE  /\ W!Normalized(c) \in CleanClients
         /\ W!NormalizedClient(c, u) \in CleanClients
         /\ W!NormalizedTemplate(c) \in W!ClientType
         /\ W!NormalizedClient(W!NormalizedClient(c, u), u) = W!NormalizedClient(c, u)
         /\ W!NormalizedClient(W!NormalizedTemplate(c), u) = W!NormalizedClient(c, u)
<1> DEFINE buttons == W!NormalizedButtons(c.buttons)
           program == c.program \ c.interrupt
           level == W!Lower(c.level)
           all == {<<t[1], W!Lower(t[2])>> : t \in c.talkers}
           others == W!NormalizedTalkers(c.talkers, u)
           remade(talkers) == Remade(c, buttons, program, level, talkers)
<1>1. /\ buttons \in Seq(CleanButton) /\ buttons \in Seq(AnyButton) /\ W!NormalizedButtons(buttons) = buttons
  BY FieldsOf, ButtonsCleaned, CleanButtons
<1>2. /\ program \in W!Routes /\ program \cap c.interrupt = {} /\ program \ c.interrupt = program
  BY FieldsOf DEF W!Routes
<1>3. level \in Nat /\ W!Lower(level) = level
  BY FieldsOf, LowerOf
<1>4. /\ others \in SUBSET (Nat \X Nat) /\ all \in SUBSET (Nat \X Nat) /\ c.talkers \in SUBSET (Nat \X Nat)
      /\ W!NormalizedTalkers(others, u) = others /\ W!NormalizedTalkers(all, u) = others
  BY FieldsOf, TalkersLowered
<1>5. /\ W!Normalized(c) = remade(c.talkers) /\ W!NormalizedClient(c, u) = remade(others)
      /\ W!NormalizedTemplate(c) = remade(all)
  BY Remakes
<1> HIDE DEF buttons, program, level, all, others
<1>6. ASSUME NEW talkers \in SUBSET (Nat \X Nat) PROVE remade(talkers) \in CleanClients
  <2>1. remade(talkers) \in W!ClientType
    BY <1>1, <1>2, <1>3, RemadeType
  <2>2. remade(talkers).buttons = buttons /\ remade(talkers).program = program
        /\ remade(talkers).interrupt = c.interrupt
    BY FieldsOfRemade
  <2> HIDE DEF remade
  <2> QED BY <1>1, <1>2, <2>1, <2>2 DEF CleanClients
<1>7. ASSUME NEW talkers \in SUBSET (Nat \X Nat)
      PROVE W!NormalizedClient(remade(talkers), u) = remade(W!NormalizedTalkers(talkers, u))
  <2> DEFINE r == remade(talkers)
  <2>1. r \in W!ClientType
    BY <1>6 DEF CleanClients
  <2>2. /\ r.buttons = buttons /\ r.program = program /\ r.interrupt = c.interrupt /\ r.level = level
        /\ r.talkers = talkers
    BY FieldsOfRemade
  <2>3. Remade(r, buttons, program, level, W!NormalizedTalkers(talkers, u)) = remade(W!NormalizedTalkers(talkers, u))
    BY FieldsOfRemade DEF Remade
  <2> HIDE DEF r, remade
  <2>4. W!NormalizedClient(r, u) = Remade(r, W!NormalizedButtons(r.buttons), r.program \ r.interrupt, W!Lower(r.level),
                                          W!NormalizedTalkers(r.talkers, u))
    BY <2>1, Remakes
  <2>5. W!NormalizedClient(r, u) = Remade(r, buttons, program, level, W!NormalizedTalkers(talkers, u))
    BY <1>1, <1>2, <1>3, <2>2, <2>4
  <2> QED BY <2>3, <2>5 DEF r
<1> HIDE DEF remade
<1>8. W!Normalized(c) \in CleanClients /\ W!NormalizedClient(c, u) \in CleanClients
      /\ W!NormalizedTemplate(c) \in W!ClientType
  BY <1>4, <1>5, <1>6 DEF CleanClients
<1>9. W!NormalizedClient(W!NormalizedClient(c, u), u) = W!NormalizedClient(c, u)
  BY <1>4, <1>5, <1>7
<1>10. W!NormalizedClient(W!NormalizedTemplate(c), u) = W!NormalizedClient(c, u)
  BY <1>4, <1>5, <1>7
<1> QED BY <1>8, <1>9, <1>10

LEMMA ClientMade ==
  ASSUME NEW role \in {"client", "bridge"}, NEW listen \in W!Routes, NEW tx \in W!Routes, NEW mode \in W!TalkModes,
         NEW buttons \in Seq(AnyButton)
  PROVE  W!Client(role, listen, tx, mode, buttons) \in W!ClientType
BY DEF W!Client, W!ClientType, AnyButton, W!Routes

LEMMA DefaultButtons ==
  /\ <<W!Button(5, <<W!Transmit>>), W!Button(4, <<W!Transmit>>), W!Button(3, <<W!Transmit>>)>> \in Seq(AnyButton)
  /\ <<W!Button(2, <<W!Transmit>>), W!Button(3, <<W!Transmit>>), W!Button(1, <<W!Alert>>)>> \in Seq(AnyButton)
  /\ <<>> \in Seq(AnyButton) /\ <<>> \in Seq(CleanButton)
<1>1. W!Transmit \in W!ActionType /\ W!Alert \in W!ActionType
  BY DEF W!Transmit, W!Alert, W!ActionType
<1>2. <<W!Transmit>> \in Seq(W!ActionType) /\ <<W!Alert>> \in Seq(W!ActionType)
  BY <1>1
<1>3. \A id \in Nat : W!Button(id, <<W!Transmit>>) \in AnyButton /\ W!Button(id, <<W!Alert>>) \in AnyButton
  BY <1>2 DEF W!Button, AnyButton
<1> QED BY <1>3

LEMMA DefaultClients ==
  /\ W!DirectorTemplate \in W!ClientType /\ W!ProducerTemplate \in W!ClientType /\ W!TalentTemplate \in W!ClientType
  /\ W!RefereeTemplate \in W!ClientType /\ W!ProgramBridgeTemplate \in W!ClientType /\ W!PaBridgeTemplate \in W!ClientType
  /\ W!NewClient \in CleanClients
<1>1. W!Open \in W!Channels /\ W!Program \in W!Channels /\ W!Production \in W!Channels /\ W!Referee \in W!Channels
      /\ W!Director \in W!Channels /\ W!Cue \in W!Channels /\ W!PA \in W!Channels
  BY DEF W!Open, W!Program, W!Production, W!Referee, W!Director, W!Cue, W!PA, W!Channels
<1>2. {"ptt", "open", "muted"} = W!TalkModes
  BY DEF W!TalkModes
<1>3. W!DirectorTemplate \in W!ClientType
  <2>1. {W!Program, W!Production, W!Referee, W!Cue} \in W!Routes /\ {W!Production} \in W!Routes
    BY <1>1 DEF W!Routes
  <2> QED BY <1>2, <2>1, ClientMade, DefaultButtons DEF W!DirectorTemplate
<1>4. W!ProducerTemplate \in W!ClientType
  <2>1. {W!Program, W!Production, W!Cue} \in W!Routes /\ {W!Production} \in W!Routes
    BY <1>1 DEF W!Routes
  <2> QED BY <1>2, <2>1, ClientMade, DefaultButtons DEF W!ProducerTemplate
<1>5. W!RefereeTemplate \in W!ClientType
  <2>1. {W!Referee, W!Director} \in W!Routes /\ {W!Referee} \in W!Routes
    BY <1>1 DEF W!Routes
  <2> QED BY <1>2, <2>1, ClientMade, DefaultButtons DEF W!RefereeTemplate
<1>6. W!TalentTemplate \in W!ClientType
  <2> DEFINE c == W!Client("client", {W!Program, W!Director, W!Cue}, {}, "muted", <<>>)
  <2>1. {W!Program, W!Director, W!Cue} \in W!Routes /\ {} \in W!Routes /\ {W!Program} \in W!Routes /\ {W!Director, W!Cue} \in W!Routes
    BY <1>1 DEF W!Routes
  <2>2. c \in W!ClientType
    BY <1>2, <2>1, ClientMade, DefaultButtons
  <2>3. W!TalentTemplate = [c EXCEPT !.ifb = TRUE, !.program = {W!Program}, !.interrupt = {W!Director, W!Cue}, !.level = 1]
    BY DEF W!TalentTemplate
  <2> HIDE DEF c
  <2> QED BY <2>1, <2>2, <2>3 DEF W!ClientType
<1>7. W!ProgramBridgeTemplate \in W!ClientType
  <2> DEFINE c == W!Client("bridge", {}, {W!Program}, "open", <<>>)
  <2>1. {W!Program} \in W!Routes /\ {} \in W!Routes
    BY <1>1 DEF W!Routes
  <2>2. c \in W!ClientType
    BY <1>2, <2>1, ClientMade, DefaultButtons
  <2>3. W!ProgramBridgeTemplate = [c EXCEPT !.name = {"program"}]
    BY DEF W!ProgramBridgeTemplate
  <2> HIDE DEF c
  <2> QED BY <2>2, <2>3 DEF W!ClientType
<1>8. W!PaBridgeTemplate \in W!ClientType
  <2> DEFINE c == W!Client("bridge", {W!PA}, {}, "muted", <<>>)
  <2>1. {W!PA} \in W!Routes /\ {} \in W!Routes
    BY <1>1 DEF W!Routes
  <2>2. c \in W!ClientType
    BY <1>2, <2>1, ClientMade, DefaultButtons
  <2>3. W!PaBridgeTemplate = [c EXCEPT !.name = {"pa"}]
    BY DEF W!PaBridgeTemplate
  <2> HIDE DEF c
  <2> QED BY <2>2, <2>3 DEF W!ClientType
<1>9. W!NewClient \in CleanClients
  <2> DEFINE c == W!Client("client", {W!Open}, {W!Open}, "ptt", <<>>)
  <2>1. {W!Open} \in W!Routes
    BY <1>1 DEF W!Routes
  <2>2. c \in W!ClientType
    BY <1>2, <2>1, ClientMade, DefaultButtons
  <2>3. c.program = {} /\ c.buttons = <<>>
    BY DEF W!Client
  <2>4. W!NewClient = [c EXCEPT !.locked = FALSE]
    BY DEF W!NewClient
  <2> HIDE DEF c
  <2>5. W!NewClient \in W!ClientType
    BY <2>2, <2>4 DEF W!ClientType
  <2>6. W!NewClient.program = c.program /\ W!NewClient.buttons = c.buttons
    BY <2>2, <2>4 DEF W!ClientType
  <2> QED BY <2>3, <2>5, <2>6, DefaultButtons DEF CleanClients
<1> QED BY <1>3, <1>4, <1>5, <1>6, <1>7, <1>8, <1>9

LEMMA ShowsCleaned ==
  ASSUME MaxLevel \in Nat, None \notin W!ClientType, NEW show \in AnyShow
  PROVE  /\ W!NormalizedShow(show) \in CleanShow
         /\ W!NormalizedShow(W!NormalizedShow(show)) = W!NormalizedShow(show)
<1>1. \A some : W!NormalizedShow(some) = [u \in W!Staff |-> IF some[u] = None THEN None ELSE W!NormalizedClient(some[u], u)]
  BY DEF W!NormalizedShow
<1>2. \A u \in W!Staff : show[u] = None \/ show[u] \in W!ClientType
  BY DEF AnyShow
<1>3. \A u \in W!Staff : show[u] # None =>
        /\ W!NormalizedClient(show[u], u) \in CleanClients /\ W!NormalizedClient(show[u], u) # None
        /\ W!NormalizedClient(W!NormalizedClient(show[u], u), u) = W!NormalizedClient(show[u], u)
  BY <1>2, ClientsCleaned DEF CleanClients
<1> QED BY <1>1, <1>3 DEF CleanShow

LEMMA CleanIsAny == CleanShow \subseteq AnyShow /\ CleanClients \subseteq W!ClientType
BY DEF CleanShow, AnyShow, CleanClients

LEMMA DefaultsRight == W!DefaultShow \in AnyShow /\ W!NoShow \in CleanShow
<1>1. W!NoShow \in CleanShow
  BY DEF W!NoShow, CleanShow
<1>2. ASSUME NEW u \in W!Staff PROVE W!DefaultShow[u] \in W!ClientType
  <2>1. 1 \in W!Staff /\ 2 \in W!Staff /\ 10 \in W!Staff /\ 20 \in W!Staff /\ 21 \in W!Staff /\ 90 \in W!Staff /\ 91 \in W!Staff
    BY DEF W!Staff
  <2>2. W!DefaultShow[1] = W!DirectorTemplate
    BY <2>1 DEF W!DefaultShow
  <2>3. W!DefaultShow[2] = W!ProducerTemplate
    BY <2>1 DEF W!DefaultShow
  <2>4. W!DefaultShow[10] = W!TalentTemplate
    BY <2>1 DEF W!DefaultShow
  <2>5. W!DefaultShow[20] = W!RefereeTemplate /\ W!DefaultShow[21] = W!RefereeTemplate
    BY <2>1 DEF W!DefaultShow
  <2>6. W!DefaultShow[90] = W!ProgramBridgeTemplate
    BY <2>1 DEF W!DefaultShow
  <2>7. W!DefaultShow[91] = W!PaBridgeTemplate
    BY <2>1 DEF W!DefaultShow
  <2>8. u \in {1, 2, 10, 20, 21, 90, 91}
    BY DEF W!Staff
  <2> QED BY <2>2, <2>3, <2>4, <2>5, <2>6, <2>7, <2>8, DefaultClients
<1>3. W!DefaultShow = [u \in W!Staff |-> W!DefaultShow[u]]
  <2> DEFINE of(u) == CASE u = 1 -> W!DirectorTemplate [] u = 2 -> W!ProducerTemplate [] u = 10 -> W!TalentTemplate
                        [] u \in {20, 21} -> W!RefereeTemplate [] u = 90 -> W!ProgramBridgeTemplate
                        [] u = 91 -> W!PaBridgeTemplate
  <2>1. W!DefaultShow = [u \in W!Staff |-> of(u)]
    BY DEF W!DefaultShow
  <2> HIDE DEF of
  <2> QED BY <2>1
<1> QED BY <1>1, <1>2, <1>3 DEF AnyShow

LEMMA DefaultTemplatesRight ==
  /\ \A t \in DOMAIN W!DefaultTemplates : W!DefaultTemplates[t] \in W!ClientType
  /\ W!PaBridgeTemplate \in W!ClientType
<1>1. DOMAIN W!DefaultTemplates = {"director", "producer", "talent", "referee", "program_bridge", "pa_bridge"}
  BY DEF W!DefaultTemplates
<1>2. /\ W!DefaultTemplates["director"] = W!DirectorTemplate /\ W!DefaultTemplates["producer"] = W!ProducerTemplate
      /\ W!DefaultTemplates["talent"] = W!TalentTemplate /\ W!DefaultTemplates["referee"] = W!RefereeTemplate
      /\ W!DefaultTemplates["program_bridge"] = W!ProgramBridgeTemplate /\ W!DefaultTemplates["pa_bridge"] = W!PaBridgeTemplate
  BY DEF W!DefaultTemplates
<1> QED BY <1>1, <1>2, DefaultClients

LEMMA DefaultPresetsRight ==
  ASSUME MaxLevel \in Nat, None \notin W!ClientType
  PROVE  \A p \in DOMAIN W!DefaultPresets :
           W!DefaultPresets[p] \in CleanShow /\ W!NormalizedShow(W!DefaultPresets[p]) = W!DefaultPresets[p]
<1> DEFINE show == W!NormalizedShow(W!DefaultShow)
<1>1. show \in CleanShow /\ W!NormalizedShow(show) = show
  BY DefaultsRight, ShowsCleaned
<1> HIDE DEF show
<1>2. DOMAIN W!DefaultPresets = {"small_show_ifb"} /\ W!DefaultPresets["small_show_ifb"] = show
  BY DEF W!DefaultPresets, show
<1> QED BY <1>1, <1>2

LEMMA WorkflowInit == ASSUME W!WorkflowAssumption, W!Init PROVE WorkflowInv
<1>1. MaxLevel \in Nat /\ None \notin W!ClientType
  BY DEF W!WorkflowAssumption
<1>2. channels = W!DefaultChannels \/ channels = [c \in {W!Open} |-> FALSE]
  BY DEF W!Init
<1>3. DOMAIN channels \subseteq W!Channels
  BY <1>2 DEF W!DefaultChannels, W!Open, W!Channels
<1>4. clients = W!NoShow /\ running = W!NoShow /\ presets = W!DefaultPresets /\ pressed = W!NoPress
  BY DEF W!Init
<1>5. templates = W!DefaultTemplates \/ templates = [t \in {"pa_bridge"} |-> W!PaBridgeTemplate]
  BY DEF W!Init
<1>6. \A t \in DOMAIN templates : templates[t] \in W!ClientType
  BY <1>5, DefaultTemplatesRight
<1>7. W!SessionRunsDesired
  BY <1>4 DEF W!SessionRunsDesired, W!NoShow
<1>8. ButtonRight
  BY <1>4 DEF ButtonRight, W!NoPress
<1>9. \A p \in DOMAIN presets : presets[p] \in CleanShow /\ W!NormalizedShow(presets[p]) = presets[p]
  BY <1>1, <1>4, DefaultPresetsRight
<1>10. clients \in CleanShow /\ running \in CleanShow
  BY <1>4, DefaultsRight
<1> QED BY <1>3, <1>6, <1>7, <1>8, <1>9, <1>10
       DEF WorkflowInv, ShowRight, PresetsRight, TemplatesRight, ChannelsRight

(* The parts of the invariant that a step leaves alone. *)
LEMMA WorkflowFrames ==
  /\ UNCHANGED <<clients, running>> /\ ShowRight => ShowRight'
  /\ UNCHANGED presets /\ PresetsRight => PresetsRight'
  /\ UNCHANGED templates /\ TemplatesRight => TemplatesRight'
  /\ UNCHANGED channels /\ ChannelsRight => ChannelsRight'
  /\ UNCHANGED pressed /\ ButtonRight => ButtonRight'
<1>1. UNCHANGED <<clients, running>> /\ ShowRight => ShowRight'
  BY DEF ShowRight, W!SessionRunsDesired
<1>2. UNCHANGED presets /\ PresetsRight => PresetsRight'
  BY DEF PresetsRight
<1>3. UNCHANGED templates /\ TemplatesRight => TemplatesRight'
  BY DEF TemplatesRight
<1>4. UNCHANGED channels /\ ChannelsRight => ChannelsRight'
  BY DEF ChannelsRight
<1>5. UNCHANGED pressed /\ ButtonRight => ButtonRight'
  BY DEF ButtonRight
<1> QED BY <1>1, <1>2, <1>3, <1>4, <1>5

LEMMA ConstantsRight ==
  ASSUME W!WorkflowAssumption
  PROVE  MaxLevel \in Nat /\ None \notin W!ClientType /\ Editable \subseteq W!Staff /\ Requested \subseteq W!ClientType
         /\ EditableChannels \subseteq W!Channels
BY DEF W!WorkflowAssumption

(* A clean client that is applied. *)
LEMMA AppliedRight ==
  ASSUME W!WorkflowAssumption, WorkflowInv, NEW u \in W!Staff, NEW c \in CleanClients, W!Apply(u, c)
  PROVE  ShowRight' /\ PresetsRight' /\ TemplatesRight' /\ ChannelsRight'
<1>1. c \in W!ClientType /\ MaxLevel \in Nat
  BY CleanIsAny, ConstantsRight
<1> DEFINE session == W!NormalizedClient(c, u)
<1>2. session \in CleanClients
  BY <1>1, ClientsCleaned
<1>3. clients' = [clients EXCEPT ![u] = c] /\ running' = [running EXCEPT ![u] = session]
  BY DEF W!Apply, W!Applied, W!OnSession
<1>4. clients \in CleanShow /\ running \in CleanShow /\ W!SessionRunsDesired
  BY DEF WorkflowInv, ShowRight
<1> HIDE DEF session
<1>5. clients' \in CleanShow /\ running' \in CleanShow
  BY <1>2, <1>3, <1>4 DEF CleanShow
<1>6. /\ clients'[u] = c /\ running'[u] = session
      /\ \A v \in W!Staff \ {u} : clients'[v] = clients[v] /\ running'[v] = running[v]
  BY <1>3, <1>4 DEF CleanShow
<1>7. W!SessionRunsDesired'
  <2> SUFFICES ASSUME NEW v \in W!Staff, clients'[v] # None, running'[v] # None
               PROVE running'[v] = W!NormalizedClient(clients'[v], v)
    BY DEF W!SessionRunsDesired
  <2>1. CASE v = u
    BY <1>6, <2>1 DEF session
  <2>2. CASE v # u
    <3>1. clients'[v] = clients[v] /\ running'[v] = running[v]
      BY <1>6, <2>2
    <3> QED BY <1>4, <3>1 DEF W!SessionRunsDesired
  <2> QED BY <2>1, <2>2
<1>8. ShowRight'
  BY <1>5, <1>7 DEF ShowRight
<1>9. UNCHANGED <<channels, presets, templates>>
  BY DEF W!Apply
<1> QED BY <1>8, <1>9, WorkflowFrames DEF WorkflowInv

LEMMA BaselineRight ==
  ASSUME WorkflowInv, NEW u \in W!Staff
  PROVE  W!Baseline(u) \in CleanClients
<1>1. (clients[u] = None \/ clients[u] \in CleanClients) /\ (running[u] = None \/ running[u] \in CleanClients)
  BY DEF WorkflowInv, ShowRight, CleanShow
<1> QED BY <1>1, DefaultClients DEF W!Baseline

LEMMA ChangedClient ==
  ASSUME NEW c \in CleanClients, NEW listen \in W!Routes, NEW tx \in W!Routes, NEW mode \in W!TalkModes, NEW locked \in BOOLEAN
  PROVE  /\ [c EXCEPT !.listen = listen, !.tx = tx] \in CleanClients
         /\ [c EXCEPT !.mode = mode] \in CleanClients
         /\ [c EXCEPT !.locked = locked] \in CleanClients
<1>1. c \in W!ClientType /\ c.program \cap c.interrupt = {} /\ c.buttons \in Seq(CleanButton)
  BY DEF CleanClients
<1>2. ASSUME NEW d \in W!ClientType, d.program = c.program, d.interrupt = c.interrupt, d.buttons = c.buttons
      PROVE d \in CleanClients
  BY <1>1, <1>2 DEF CleanClients
<1>3. [c EXCEPT !.listen = listen, !.tx = tx] \in CleanClients
  <2> DEFINE d == [c EXCEPT !.listen = listen, !.tx = tx]
  <2>1. d \in W!ClientType
    BY <1>1 DEF W!ClientType
  <2>2. d.program = c.program /\ d.interrupt = c.interrupt /\ d.buttons = c.buttons
    BY <1>1 DEF W!ClientType
  <2> HIDE DEF d
  <2>3. d \in CleanClients
    BY <1>2, <2>1, <2>2
  <2> QED BY <2>3 DEF d
<1>4. [c EXCEPT !.mode = mode] \in CleanClients
  <2> DEFINE d == [c EXCEPT !.mode = mode]
  <2>1. d \in W!ClientType
    BY <1>1 DEF W!ClientType
  <2>2. d.program = c.program /\ d.interrupt = c.interrupt /\ d.buttons = c.buttons
    BY <1>1 DEF W!ClientType
  <2> HIDE DEF d
  <2>3. d \in CleanClients
    BY <1>2, <2>1, <2>2
  <2> QED BY <2>3 DEF d
<1>5. [c EXCEPT !.locked = locked] \in CleanClients
  <2> DEFINE d == [c EXCEPT !.locked = locked]
  <2>1. d \in W!ClientType
    BY <1>1 DEF W!ClientType
  <2>2. d.program = c.program /\ d.interrupt = c.interrupt /\ d.buttons = c.buttons
    BY <1>1 DEF W!ClientType
  <2> HIDE DEF d
  <2>3. d \in CleanClients
    BY <1>2, <2>1, <2>2
  <2> QED BY <2>3 DEF d
<1> QED BY <1>3, <1>4, <1>5

(* A client's own change, a change of its routes, and a template. *)
LEMMA ClientsChange ==
  ASSUME W!WorkflowAssumption, WorkflowInv, NEW u \in Editable,
         \/ \E c \in Requested : W!PutClient(u, c) \/ W!ClientConfig(u, c)
         \/ W!PatchRoutes(u, {W!PA}, {W!PA})
         \/ \E t \in EditableTemplates : W!ApplyTemplate(t, u)
  PROVE  WorkflowInv'
<1>1. u \in W!Staff /\ MaxLevel \in Nat /\ Requested \subseteq W!ClientType
  BY ConstantsRight
<1>2. UNCHANGED pressed /\ \E c \in CleanClients : W!Apply(u, c)
  <2>1. CASE \E c \in Requested : W!PutClient(u, c)
    <3>1. PICK c \in Requested : W!PutClient(u, c)
      BY <2>1
    <3>2. W!Normalized(c) \in CleanClients
      BY <1>1, ClientsCleaned
    <3> QED BY <3>1, <3>2 DEF W!PutClient, W!Asked
  <2>2. CASE \E c \in Requested : W!ClientConfig(u, c)
    <3>1. PICK c \in Requested : W!ClientConfig(u, c)
      BY <2>2
    <3> DEFINE d == [W!Normalized(c) EXCEPT !.locked = FALSE]
    <3>2. W!Normalized(c) \in CleanClients
      BY <1>1, ClientsCleaned
    <3>3. \A listen \in W!Routes, tx \in W!Routes, mode \in W!TalkModes : d \in CleanClients
      BY <3>2, ChangedClient
    <3>4. {} \in W!Routes /\ "ptt" \in W!TalkModes
      BY DEF W!Routes, W!TalkModes
    <3>5. W!Apply(u, d) /\ UNCHANGED pressed
      BY <3>1 DEF W!ClientConfig
    <3> HIDE DEF d
    <3> QED BY <3>3, <3>4, <3>5
  <2>3. CASE W!PatchRoutes(u, {W!PA}, {W!PA})
    <3> DEFINE d == [W!Baseline(u) EXCEPT !.listen = {W!PA}, !.tx = {W!PA}]
    <3>1. W!Baseline(u) \in CleanClients
      BY <1>1, BaselineRight
    <3>2. {W!PA} \in W!Routes /\ "ptt" \in W!TalkModes /\ FALSE \in BOOLEAN
      BY DEF W!PA, W!Routes, W!Channels, W!TalkModes
    <3>3. d \in CleanClients
      BY <3>1, <3>2, ChangedClient
    <3>4. W!Apply(u, d) /\ UNCHANGED pressed
      BY <2>3 DEF W!PatchRoutes
    <3> HIDE DEF d
    <3> QED BY <3>3, <3>4
  <2>4. CASE \E t \in EditableTemplates : W!ApplyTemplate(t, u)
    <3>1. PICK t \in EditableTemplates : W!ApplyTemplate(t, u)
      BY <2>4
    <3>2. t \in DOMAIN templates /\ W!Apply(u, W!NormalizedClient(templates[t], u)) /\ UNCHANGED pressed
      BY <3>1 DEF W!ApplyTemplate, W!ToDesired
    <3>3. templates[t] \in W!ClientType
      BY <3>2 DEF WorkflowInv, TemplatesRight
    <3>4. W!NormalizedClient(templates[t], u) \in CleanClients
      BY <1>1, <3>3, ClientsCleaned
    <3> QED BY <3>2, <3>4
  <2> QED BY <2>1, <2>2, <2>3, <2>4
<1>3. ShowRight' /\ PresetsRight' /\ TemplatesRight' /\ ChannelsRight'
  BY <1>1, <1>2, AppliedRight
<1> QED BY <1>2, <1>3, WorkflowFrames DEF WorkflowInv

LEMMA ClientDeleted ==
  ASSUME WorkflowInv, NEW u \in W!Staff, W!DeleteClient(u)
  PROVE  WorkflowInv'
<1>1. clients' = [clients EXCEPT ![u] = None] /\ UNCHANGED <<channels, presets, templates, running, pressed>>
  BY DEF W!DeleteClient
<1>2. clients \in CleanShow /\ running \in CleanShow /\ W!SessionRunsDesired
  BY DEF WorkflowInv, ShowRight
<1>3. clients' \in CleanShow /\ running' \in CleanShow
  BY <1>1, <1>2 DEF CleanShow
<1>4. clients'[u] = None /\ \A v \in W!Staff \ {u} : clients'[v] = clients[v]
  BY <1>1, <1>2 DEF CleanShow
<1>5. W!SessionRunsDesired'
  BY <1>1, <1>2, <1>4 DEF W!SessionRunsDesired
<1>6. ShowRight'
  BY <1>3, <1>5 DEF ShowRight
<1> QED BY <1>1, <1>6, WorkflowFrames DEF WorkflowInv

LEMMA HelloKeepsShow ==
  ASSUME W!WorkflowAssumption, WorkflowInv, NEW u \in W!Staff, W!Hello(u)
  PROVE  WorkflowInv'
<1>1. running' = [running EXCEPT ![u] = W!Greeted(u)] /\ UNCHANGED <<channels, presets, templates, clients, pressed>>
  BY DEF W!Hello
<1>2. clients \in CleanShow /\ running \in CleanShow /\ W!SessionRunsDesired
  BY DEF WorkflowInv, ShowRight
<1>3. CASE clients[u] # None
  <2>1. W!Greeted(u) = W!NormalizedClient(clients[u], u)
    BY <1>3 DEF W!Greeted, W!OnSession
  <2>2. clients[u] \in W!ClientType /\ MaxLevel \in Nat
    BY <1>2, <1>3, ConstantsRight, CleanIsAny DEF CleanShow
  <2>3. W!Greeted(u) \in CleanClients
    BY <2>1, <2>2, ClientsCleaned
  <2>4. running' \in CleanShow /\ running'[u] = W!Greeted(u) /\ \A v \in W!Staff \ {u} : running'[v] = running[v]
    BY <1>1, <1>2, <2>3 DEF CleanShow
  <2>5. W!SessionRunsDesired'
    BY <1>1, <1>2, <2>1, <2>4 DEF W!SessionRunsDesired
  <2>6. ShowRight'
    BY <1>1, <1>2, <2>4, <2>5 DEF ShowRight
  <2> QED BY <1>1, <2>6, WorkflowFrames DEF WorkflowInv
<1>4. CASE clients[u] = None
  <2> DEFINE c == IF running[u] # None THEN running[u] ELSE W!NewClient
             listen == IF c.listen = {} THEN {W!Open} ELSE c.listen
             tx == IF c.tx = {} THEN {W!Open} ELSE c.tx
  <2>1. c \in CleanClients
    BY <1>2, DefaultClients DEF CleanShow
  <2>2. W!Greeted(u) = [c EXCEPT !.listen = listen, !.tx = tx]
    BY <1>4 DEF W!Greeted
  <2> HIDE DEF c
  <2>3. c.listen \in W!Routes /\ c.tx \in W!Routes /\ {W!Open} \in W!Routes /\ "ptt" \in W!TalkModes /\ FALSE \in BOOLEAN
    BY <2>1, CleanIsAny, FieldsOf DEF W!Open, W!Routes, W!Channels, W!TalkModes
  <2>4. listen \in W!Routes /\ tx \in W!Routes
    BY <2>3
  <2> HIDE DEF listen, tx
  <2>5. W!Greeted(u) \in CleanClients
    <3> DEFINE d == [c EXCEPT !.listen = listen, !.tx = tx]
    <3>1. d \in CleanClients
      BY <2>1, <2>3, <2>4, ChangedClient
    <3>2. W!Greeted(u) = d
      BY <2>2
    <3> HIDE DEF d
    <3> QED BY <3>1, <3>2
  <2>6. running' \in CleanShow /\ \A v \in W!Staff \ {u} : running'[v] = running[v]
    BY <1>1, <1>2, <2>5 DEF CleanShow
  <2>7. W!SessionRunsDesired'
    BY <1>1, <1>2, <1>4, <2>6 DEF W!SessionRunsDesired
  <2>8. ShowRight'
    BY <1>1, <1>2, <2>6, <2>7 DEF ShowRight
  <2> QED BY <1>1, <2>8, WorkflowFrames DEF WorkflowInv
<1> QED BY <1>3, <1>4

LEMMA PresetsChange ==
  ASSUME W!WorkflowAssumption, WorkflowInv,
         \/ \E show \in W!Shows : W!PutPreset("new", show)
         \/ \E p \in DOMAIN presets : W!DeletePreset(p)
  PROVE  WorkflowInv'
<1>1. UNCHANGED <<channels, templates, clients, running, pressed>>
  BY DEF W!PutPreset, W!DeletePreset
<1>2. PresetsRight'
  <2>1. CASE \E show \in W!Shows : W!PutPreset("new", show)
    <3>1. PICK show \in W!Shows : W!PutPreset("new", show)
      BY <2>1
    <3>2. show \in AnyShow
      <4>1. PICK u \in Editable, c \in Requested : show = [W!NoShow EXCEPT ![u] = c]
        BY DEF W!Shows
      <4>2. c \in W!ClientType /\ W!NoShow \in AnyShow
        BY ConstantsRight, DefaultsRight, CleanIsAny
      <4> QED BY <4>1, <4>2 DEF AnyShow
    <3> DEFINE clean == W!NormalizedShow(show)
    <3>3. clean \in CleanShow /\ W!NormalizedShow(clean) = clean
      BY <3>2, ConstantsRight, ShowsCleaned
    <3>4. presets' = [q \in DOMAIN presets \cup {"new"} |-> IF q = "new" THEN clean ELSE presets[q]]
      BY <3>1 DEF W!PutPreset
    <3> HIDE DEF clean
    <3> QED BY <3>3, <3>4 DEF WorkflowInv, PresetsRight
  <2>2. CASE \E p \in DOMAIN presets : W!DeletePreset(p)
    <3>1. PICK p \in DOMAIN presets : W!DeletePreset(p)
      BY <2>2
    <3>2. presets' = [q \in DOMAIN presets \ {p} |-> presets[q]]
      BY <3>1 DEF W!DeletePreset
    <3> QED BY <3>2 DEF WorkflowInv, PresetsRight
  <2> QED BY <2>1, <2>2
<1> QED BY <1>1, <1>2, WorkflowFrames DEF WorkflowInv

LEMMA PresetRuns ==
  ASSUME W!WorkflowAssumption, WorkflowInv, NEW p \in DOMAIN presets, W!PresetApplied(p)
  PROVE  ShowRight' /\ PresetsRight' /\ TemplatesRight' /\ ChannelsRight'
<1> DEFINE show == W!NormalizedShow(presets[p])
           has == {u \in W!Staff : show[u] # None}
<1>1. show \in CleanShow
  BY DEF WorkflowInv, PresetsRight
<1>2. /\ clients' = [u \in W!Staff |-> IF u \in has THEN show[u] ELSE clients[u]]
      /\ running' = [u \in W!Staff |-> IF u \in has THEN W!OnSession(show[u], u) ELSE running[u]]
      /\ UNCHANGED <<channels, presets, templates>>
  BY DEF W!PresetApplied
<1>3. clients \in CleanShow /\ running \in CleanShow /\ W!SessionRunsDesired /\ MaxLevel \in Nat
  BY ConstantsRight DEF WorkflowInv, ShowRight
<1> HIDE DEF show
<1>4. \A u \in has : show[u] \in CleanClients
  BY <1>1 DEF CleanShow
<1>5. \A u \in has : W!OnSession(show[u], u) = W!NormalizedClient(show[u], u) /\ W!OnSession(show[u], u) \in CleanClients
  BY <1>3, <1>4, CleanIsAny, ClientsCleaned DEF W!OnSession
<1>6. /\ \A u \in has : clients'[u] = show[u] /\ running'[u] = W!NormalizedClient(show[u], u)
      /\ \A u \in W!Staff \ has : clients'[u] = clients[u] /\ running'[u] = running[u]
  BY <1>2, <1>5
<1>7. clients' \in CleanShow /\ running' \in CleanShow
  BY <1>2, <1>3, <1>4, <1>5 DEF CleanShow
<1> HIDE DEF has
<1>8. W!SessionRunsDesired'
  <2> SUFFICES ASSUME NEW u \in W!Staff, clients'[u] # None, running'[u] # None
               PROVE running'[u] = W!NormalizedClient(clients'[u], u)
    BY DEF W!SessionRunsDesired
  <2>1. CASE u \in has
    BY <1>6, <2>1
  <2>2. CASE u \notin has
    <3>1. clients'[u] = clients[u] /\ running'[u] = running[u]
      BY <1>6, <2>2
    <3> QED BY <1>3, <3>1 DEF W!SessionRunsDesired
  <2> QED BY <2>1, <2>2
<1>9. ShowRight'
  BY <1>7, <1>8 DEF ShowRight
<1> QED BY <1>2, <1>9, WorkflowFrames DEF WorkflowInv

LEMMA TemplatesChange ==
  ASSUME W!WorkflowAssumption, WorkflowInv,
         NEW t \in EditableTemplates, W!DeleteTemplate(t) \/ \E c \in Requested : W!PutTemplate(t, c)
  PROVE  WorkflowInv'
<1>1. UNCHANGED <<channels, presets, clients, running, pressed>>
  BY DEF W!DeleteTemplate, W!PutTemplate
<1>2. TemplatesRight'
  <2>1. CASE W!DeleteTemplate(t)
    <3>1. templates' = [s \in DOMAIN templates \ {t} |-> templates[s]]
      BY <2>1 DEF W!DeleteTemplate
    <3> QED BY <3>1 DEF WorkflowInv, TemplatesRight
  <2>2. CASE \E c \in Requested : W!PutTemplate(t, c)
    <3>1. PICK c \in Requested : W!PutTemplate(t, c)
      BY <2>2
    <3> DEFINE new == W!NormalizedTemplate(c)
    <3>2. new \in W!ClientType
      BY ConstantsRight, ClientsCleaned
    <3>3. templates' = [s \in DOMAIN templates \cup {t} |-> IF s = t THEN new ELSE templates[s]]
      BY <3>1 DEF W!PutTemplate
    <3> HIDE DEF new
    <3> QED BY <3>2, <3>3 DEF WorkflowInv, TemplatesRight
  <2> QED BY <2>1, <2>2
<1> QED BY <1>1, <1>2, WorkflowFrames DEF WorkflowInv

LEMMA ChannelsChange ==
  ASSUME W!WorkflowAssumption, WorkflowInv,
         NEW c \in EditableChannels, W!DeleteChannel(c) \/ \E blank \in BOOLEAN : W!PutChannel(c, blank)
  PROVE  WorkflowInv'
<1>1. UNCHANGED <<presets, templates, clients, running, pressed>>
  BY DEF W!DeleteChannel, W!PutChannel
<1>2. c \in W!Channels
  BY ConstantsRight
<1>3. DOMAIN channels' = DOMAIN channels \ {c} \/ DOMAIN channels' = DOMAIN channels \cup {c}
  BY DEF W!DeleteChannel, W!PutChannel
<1>4. ChannelsRight'
  BY <1>2, <1>3 DEF WorkflowInv, ChannelsRight
<1> QED BY <1>1, <1>4, WorkflowFrames DEF WorkflowInv

LEMMA ButtonPressed ==
  ASSUME W!WorkflowAssumption, WorkflowInv, NEW u \in Editable, W!Press(u)
  PROVE  WorkflowInv'
<1>1. u \in W!Staff /\ running[u] # None /\ UNCHANGED <<channels, presets, templates, clients, running>>
  BY ConstantsRight DEF W!Press
<1>2. PICK i \in DOMAIN running[u].buttons :
        pressed' = [user |-> u, left |-> running[u].buttons[i].actions, at |-> None]
  BY DEF W!Press
<1>3. running[u].buttons \in Seq(CleanButton)
  BY <1>1 DEF WorkflowInv, ShowRight, CleanShow, CleanClients
<1>4. running[u].buttons[i] \in CleanButton
  BY <1>3, ElementsOf
<1>5. running[u].buttons[i].actions \in Seq(CleanActions)
  BY <1>4 DEF CleanButton
<1>6. ButtonRight'
  BY <1>1, <1>2, <1>5 DEF ButtonRight
<1> QED BY <1>1, <1>6, WorkflowFrames DEF WorkflowInv

(* The next action, and none any more. *)
LEMMA NextActionRight ==
  ASSUME ButtonRight, pressed.left # <<>>, W!Next1
  PROVE  ButtonRight'
<1>1. pressed = [user |-> pressed.user, left |-> pressed.left, at |-> pressed.at]
  BY DEF ButtonRight
<1>2. pressed' = [pressed EXCEPT !.left = Tail(pressed.left), !.at = None]
  BY DEF W!Next1
<1>3. pressed' = [user |-> pressed.user, left |-> Tail(pressed.left), at |-> None]
  BY <1>1, <1>2
<1>4. Tail(pressed.left) \in Seq(CleanActions) /\ pressed.user \in W!Staff
  BY DEF ButtonRight
<1> QED BY <1>3, <1>4 DEF ButtonRight

LEMMA NoButtonRight == pressed' = W!NoPress => ButtonRight'
BY DEF W!NoPress, ButtonRight

LEMMA HeadAction ==
  ASSUME ButtonRight, pressed.left # <<>>
  PROVE  Head(pressed.left) \in CleanActions
BY DEF ButtonRight

LEMMA LeastOfStaff ==
  ASSUME NEW users \in SUBSET W!Staff, users # {}
  PROVE  W!Min(users) \in users
<1>0. W!Staff \subseteq 1..91 /\ W!Staff \subseteq Nat
  BY DEF W!Staff
<1>1. IsFiniteSet(1..91)
  BY 1 \in Int, 91 \in Int, FS_Interval, Zenon
<1>2. IsFiniteSet(W!Staff)
  BY <1>0, <1>1, FS_Subset
<1>3. IsFiniteSet(users) /\ users \in SUBSET Nat
  BY <1>0, <1>2, FS_Subset
<1> QED BY <1>3, LeastOf

LEMMA ActionUsers ==
  ASSUME ButtonRight, pressed.left # <<>>, Head(pressed.left).kind \in {"mode", "edit"}
  PROVE  W!UsersOf(Head(pressed.left)) \in (SUBSET W!Staff) \ {{}}
<1> DEFINE a == Head(pressed.left)
<1>1. a \in CleanActions /\ a.kind \in {"mode", "edit"}
  BY HeadAction
<1> HIDE DEF a
<1>2. a.users \in SUBSET W!Staff
  BY <1>1 DEF CleanActions
<1>3. pressed.user \in W!Staff
  BY DEF ButtonRight
<1>4. W!UsersOf(a) = IF a.users = {} THEN {pressed.user} ELSE a.users
  BY DEF W!UsersOf
<1>5. W!UsersOf(a) \in (SUBSET W!Staff) \ {{}}
  BY <1>2, <1>3, <1>4
<1> QED BY <1>5 DEF a

LEMMA ReadsForButton ==
  ASSUME W!WorkflowAssumption, WorkflowInv, W!ReadBaseline
  PROVE  WorkflowInv'
<1> DEFINE a == Head(pressed.left)
<1>1. pressed.left # <<>> /\ pressed.at = None /\ ButtonRight
  BY DEF W!ReadBaseline, WorkflowInv
<1>2. CASE /\ a.kind \in {"mode", "edit"}
           /\ pressed' = [pressed EXCEPT !.at = [todo |-> W!UsersOf(a), was |-> W!Baseline(W!Min(W!UsersOf(a)))]]
           /\ UNCHANGED <<channels, presets, templates, clients, running>>
  <2> DEFINE users == W!UsersOf(a)
             was == W!Baseline(W!Min(users))
             at == [todo |-> users, was |-> was]
  <2>1. users \in (SUBSET W!Staff) \ {{}}
    BY <1>1, <1>2, ActionUsers
  <2>2. was \in CleanClients
    <3> HIDE DEF users
    <3>1. W!Min(users) \in W!Staff
      BY <2>1, LeastOfStaff
    <3> QED BY <3>1, BaselineRight
  <2>3. pressed' = [pressed EXCEPT !.at = at]
    BY <1>2
  <2>4. pressed = [user |-> pressed.user, left |-> pressed.left, at |-> pressed.at]
    BY <1>1 DEF ButtonRight
  <2>5. at.todo = users /\ at.was = was
    OBVIOUS
  <2> HIDE DEF users, was, at
  <2>6. pressed' = [user |-> pressed.user, left |-> pressed.left, at |-> at]
    BY <2>3, <2>4
  <2>7. ButtonRight'
    BY <1>1, <1>2, <2>1, <2>2, <2>5, <2>6 DEF ButtonRight
  <2> QED BY <1>2, <2>7, WorkflowFrames DEF WorkflowInv
<1>3. CASE a.preset \in DOMAIN presets /\ W!PresetApplied(a.preset) /\ W!Next1
  <2>1. ButtonRight'
    BY <1>1, <1>3, NextActionRight
  <2>2. ShowRight' /\ PresetsRight' /\ TemplatesRight' /\ ChannelsRight'
    BY <1>3, PresetRuns
  <2> QED BY <2>1, <2>2 DEF WorkflowInv
<1>4. CASE W!Fails
  <2>1. ButtonRight'
    BY <1>4, NoButtonRight DEF W!Fails
  <2>2. UNCHANGED <<channels, presets, templates, clients, running>>
    BY <1>4 DEF W!Fails
  <2> QED BY <2>1, <2>2, WorkflowFrames DEF WorkflowInv
<1>5. CASE W!Next1 /\ UNCHANGED <<channels, presets, templates, clients, running>>
  <2>1. ButtonRight'
    BY <1>1, <1>5, NextActionRight
  <2> QED BY <1>5, <2>1, WorkflowFrames DEF WorkflowInv
<1> QED BY <1>2, <1>3, <1>4, <1>5 DEF W!ReadBaseline

LEMMA EditedRoutes ==
  ASSUME NEW routes \in W!Routes, NEW edit \in W!RouteChange
  PROVE  W!Edited(routes, edit) \in W!Routes
BY DEF W!Edited, W!RouteChange, W!Routes

LEMMA ButtonEdits ==
  ASSUME W!WorkflowAssumption, WorkflowInv, W!ApplyEdit
  PROVE  WorkflowInv'
<1> DEFINE a == Head(pressed.left)
           u == W!Min(pressed.at.todo)
           was == pressed.at.was
           rest == pressed.at.todo \ {u}
           new == IF a.kind = "mode" THEN [was EXCEPT !.mode = a.mode]
                  ELSE [was EXCEPT !.listen = W!Edited(was.listen, a.listen), !.tx = W!Edited(was.tx, a.tx)]
<1>1. /\ ButtonRight /\ pressed.at # None /\ pressed.left # <<>> /\ a.kind \in {"mode", "edit"}
      /\ pressed.at.todo \in (SUBSET W!Staff) \ {{}} /\ was \in CleanClients
  BY DEF W!ApplyEdit, WorkflowInv, ButtonRight
<1>2. u \in W!Staff
  <2> DEFINE todo == pressed.at.todo
  <2>1. todo \in (SUBSET W!Staff) \ {{}}
    BY <1>1
  <2> HIDE DEF todo
  <2>2. W!Min(todo) \in todo
    BY <2>1, LeastOfStaff
  <2> QED BY <2>1, <2>2 DEF todo
<1>3. W!Apply(u, new)
  BY DEF W!ApplyEdit
<1>4. \/ W!Next1
      \/ rest # {} /\ pressed' = [pressed EXCEPT !.at = [todo |-> rest, was |-> W!Baseline(W!Min(rest))]]
  BY DEF W!ApplyEdit
<1>5. a \in CleanActions
  BY <1>1, HeadAction
<1>6. rest \in SUBSET W!Staff
  BY <1>1
<1> HIDE DEF a, was, u, rest
<1>7. new \in CleanClients
  <2>1. was.listen \in W!Routes /\ was.tx \in W!Routes /\ was.mode \in W!TalkModes
    BY <1>1, CleanIsAny, FieldsOf
  <2>2. CASE a.kind = "mode"
    <3>1. a.mode \in W!TalkModes
      BY <1>5, <2>2 DEF CleanActions
    <3>2. TRUE \in BOOLEAN
      OBVIOUS
    <3>3. [was EXCEPT !.mode = a.mode] \in CleanClients
      BY <1>1, <2>1, <3>1, <3>2, ChangedClient
    <3> QED BY <2>2, <3>3
  <2>3. CASE a.kind # "mode"
    <3> DEFINE listen == W!Edited(was.listen, a.listen)
               tx == W!Edited(was.tx, a.tx)
               d == [was EXCEPT !.listen = listen, !.tx = tx]
    <3>1. a.kind = "edit"
      BY <1>1, <2>3
    <3>2. a.listen \in W!RouteChange /\ a.tx \in W!RouteChange
      BY <1>5, <3>1 DEF CleanActions
    <3>3. listen \in W!Routes /\ tx \in W!Routes
      BY <2>1, <3>2, EditedRoutes
    <3>4. TRUE \in BOOLEAN
      OBVIOUS
    <3>5. new = d
      BY <2>3
    <3> HIDE DEF listen, tx, new
    <3>6. d \in CleanClients
      BY <1>1, <2>1, <3>3, <3>4, ChangedClient
    <3> QED BY <3>5, <3>6
  <2> QED BY <2>2, <2>3
<1>8. ShowRight' /\ PresetsRight' /\ TemplatesRight' /\ ChannelsRight'
  <2> HIDE DEF new
  <2> QED BY <1>2, <1>3, <1>7, AppliedRight
<1>9. ButtonRight'
  <2>1. CASE W!Next1
    BY <1>1, <2>1, NextActionRight
  <2>2. CASE rest # {} /\ pressed' = [pressed EXCEPT !.at = [todo |-> rest, was |-> W!Baseline(W!Min(rest))]]
    <3> DEFINE next == W!Baseline(W!Min(rest))
               at == [todo |-> rest, was |-> next]
    <3>1. next \in CleanClients
      <4>1. W!Min(rest) \in W!Staff
        BY <1>6, <2>2, LeastOfStaff
      <4> QED BY <4>1, BaselineRight
    <3>2. pressed' = [pressed EXCEPT !.at = at]
      BY <2>2
    <3>3. pressed = [user |-> pressed.user, left |-> pressed.left, at |-> pressed.at]
      BY <1>1 DEF ButtonRight
    <3>4. at.todo = rest /\ at.was = next
      OBVIOUS
    <3> HIDE DEF next, at
    <3>5. pressed' = [user |-> pressed.user, left |-> pressed.left, at |-> at]
      BY <3>2, <3>3
    <3>6. Head(pressed.left).kind \in {"mode", "edit"}
      BY <1>1 DEF a
    <3> QED BY <1>1, <1>6, <2>2, <3>1, <3>4, <3>5, <3>6 DEF ButtonRight
  <2> QED BY <1>4, <2>1, <2>2
<1> QED BY <1>8, <1>9 DEF WorkflowInv

LEMMA ButtonReleased ==
  ASSUME WorkflowInv, W!Release
  PROVE  WorkflowInv'
<1>1. pressed' = W!NoPress /\ UNCHANGED <<channels, presets, templates, clients, running>>
  BY DEF W!Release
<1> QED BY <1>1, NoButtonRight, WorkflowFrames DEF WorkflowInv

LEMMA WorkflowRestarts ==
  ASSUME W!WorkflowAssumption, WorkflowInv, W!Restart
  PROVE  WorkflowInv'
<1>1. MaxLevel \in Nat /\ None \notin W!ClientType
  BY ConstantsRight
<1>2. ShowRight'
  <2>1. clients \in AnyShow
    BY CleanIsAny DEF WorkflowInv, ShowRight
  <2>2. clients' \in CleanShow
    BY <1>1, <2>1, ShowsCleaned DEF W!Restart, W!LoadedClients
  <2>3. running' = W!NoShow
    BY DEF W!Restart
  <2> QED BY <2>2, <2>3, DefaultsRight DEF ShowRight, W!SessionRunsDesired, W!NoShow
<1>3. PresetsRight'
  <2>1. CASE presets = <<>>
    <3>1. presets' = W!DefaultPresets
      BY <2>1 DEF W!Restart, W!LoadedPresets
    <3> QED BY <1>1, <3>1, DefaultPresetsRight DEF PresetsRight
  <2>2. CASE presets # <<>>
    <3>1. presets' = [p \in DOMAIN presets |-> W!NormalizedShow(presets[p])]
      BY <2>2 DEF W!Restart, W!LoadedPresets
    <3>2. \A p \in DOMAIN presets : presets[p] \in CleanShow /\ W!NormalizedShow(presets[p]) = presets[p]
      BY DEF WorkflowInv, PresetsRight
    <3> QED BY <3>1, <3>2 DEF PresetsRight
  <2> QED BY <2>1, <2>2
<1>4. TemplatesRight'
  <2>1. CASE templates = <<>>
    <3>1. templates' = [t \in DOMAIN W!DefaultTemplates |-> W!NormalizedTemplate(W!DefaultTemplates[t])]
      BY <2>1 DEF W!Restart, W!LoadedTemplates
    <3>2. \A t \in DOMAIN W!DefaultTemplates : W!NormalizedTemplate(W!DefaultTemplates[t]) \in W!ClientType
      BY <1>1, DefaultTemplatesRight, ClientsCleaned
    <3> QED BY <3>1, <3>2 DEF TemplatesRight
  <2>2. CASE templates # <<>>
    <3>1. templates' = [t \in DOMAIN templates |-> W!NormalizedTemplate(templates[t])]
      BY <2>2 DEF W!Restart, W!LoadedTemplates
    <3>2. \A t \in DOMAIN templates : W!NormalizedTemplate(templates[t]) \in W!ClientType
      BY <1>1, ClientsCleaned DEF WorkflowInv, TemplatesRight
    <3> QED BY <3>1, <3>2 DEF TemplatesRight
  <2> QED BY <2>1, <2>2
<1>5. ChannelsRight'
  <2> DEFINE some == IF channels = <<>> THEN W!DefaultChannels ELSE channels
  <2>1. DOMAIN some \subseteq W!Channels
    BY DEF WorkflowInv, ChannelsRight, W!DefaultChannels
  <2>2. DOMAIN channels' = DOMAIN some \cup {W!Open}
    BY DEF W!Restart, W!LoadedChannels
  <2>3. W!Open \in W!Channels
    BY DEF W!Open, W!Channels
  <2> HIDE DEF some
  <2> QED BY <2>1, <2>2, <2>3 DEF ChannelsRight
<1>6. ButtonRight'
  BY NoButtonRight DEF W!Restart
<1> QED BY <1>2, <1>3, <1>4, <1>5, <1>6 DEF WorkflowInv

LEMMA WorkflowStep ==
  ASSUME W!WorkflowAssumption, WorkflowInv, [W!Next]_workflowVars
  PROVE  WorkflowInv'
<1>1. CASE W!Request
  <2>1. ASSUME NEW u \in Editable,
               \/ \E c \in Requested : W!PutClient(u, c) \/ W!ClientConfig(u, c)
               \/ W!PatchRoutes(u, {W!PA}, {W!PA}) \/ \E t \in EditableTemplates : W!ApplyTemplate(t, u)
        PROVE WorkflowInv'
    BY <2>1, ClientsChange
  <2>2. ASSUME NEW u \in Editable, W!DeleteClient(u) PROVE WorkflowInv'
    BY <2>2, ConstantsRight, ClientDeleted
  <2>3. ASSUME \/ \E show \in W!Shows : W!PutPreset("new", show)
               \/ \E p \in DOMAIN presets : W!DeletePreset(p)
        PROVE WorkflowInv'
    BY <2>3, PresetsChange
  <2>4. ASSUME NEW p \in DOMAIN presets, W!ApplyPreset(p) PROVE WorkflowInv'
    <3>1. W!PresetApplied(p) /\ UNCHANGED pressed
      BY <2>4 DEF W!ApplyPreset
    <3>2. ShowRight' /\ PresetsRight' /\ TemplatesRight' /\ ChannelsRight'
      BY <3>1, PresetRuns
    <3> QED BY <3>1, <3>2, WorkflowFrames DEF WorkflowInv
  <2>5. ASSUME NEW t \in EditableTemplates, W!DeleteTemplate(t) \/ \E c \in Requested : W!PutTemplate(t, c)
        PROVE WorkflowInv'
    BY <2>5, TemplatesChange
  <2>6. ASSUME NEW c \in EditableChannels, W!DeleteChannel(c) \/ \E blank \in BOOLEAN : W!PutChannel(c, blank)
        PROVE WorkflowInv'
    BY <2>6, ChannelsChange
  <2> QED BY <1>1, <2>1, <2>2, <2>3, <2>4, <2>5, <2>6 DEF W!Request
<1>2. CASE \E u \in Editable : W!Hello(u) \/ W!Press(u)
  <2>1. PICK u \in Editable : W!Hello(u) \/ W!Press(u)
    BY <1>2
  <2>2. u \in W!Staff
    BY ConstantsRight
  <2> QED BY <2>1, <2>2, HelloKeepsShow, ButtonPressed
<1>3. CASE W!ReadBaseline \/ W!ApplyEdit \/ W!Release \/ W!Restart
  BY <1>3, ReadsForButton, ButtonEdits, ButtonReleased, WorkflowRestarts
<1>4. CASE UNCHANGED workflowVars
  BY <1>4, WorkflowFrames DEF workflowVars, WorkflowInv
<1> QED BY <1>1, <1>2, <1>3, <1>4 DEF W!Next

(* A restart loads clean what is clean, and a client of whom the page has nothing to say is sound. *)
LEMMA RestartKeeps ==
  ASSUME W!WorkflowAssumption, WorkflowInv
  PROVE  W!RestartKeepsShow
<1>1. MaxLevel \in Nat /\ None \notin W!ClientType /\ clients \in CleanShow /\ Editable \subseteq W!Staff
  BY ConstantsRight DEF WorkflowInv, ShowRight
<1>2. ASSUME NEW u \in W!Staff, clients[u] # None
      PROVE W!LoadedClients[u] # None /\ W!OnSession(W!LoadedClients[u], u) = W!OnSession(clients[u], u)
  <2>1. clients[u] \in W!ClientType
    BY <1>1, <1>2 DEF CleanShow, CleanClients
  <2>2. W!LoadedClients[u] = W!NormalizedClient(clients[u], u)
    BY <1>2 DEF W!LoadedClients, W!NormalizedShow
  <2>3. W!NormalizedClient(clients[u], u) \in W!ClientType
        /\ W!NormalizedClient(W!NormalizedClient(clients[u], u), u) = W!NormalizedClient(clients[u], u)
    BY <1>1, <2>1, ClientsCleaned, CleanIsAny
  <2> QED BY <1>1, <2>2, <2>3 DEF W!OnSession
<1>3. \A p \in DOMAIN presets : W!LoadedPresets[p] = presets[p]
  <2> SUFFICES ASSUME NEW p \in DOMAIN presets PROVE W!LoadedPresets[p] = presets[p]
    OBVIOUS
  <2>1. presets # <<>>
    OBVIOUS
  <2>2. W!LoadedPresets[p] = W!NormalizedShow(presets[p])
    BY <2>1 DEF W!LoadedPresets
  <2> QED BY <2>2 DEF WorkflowInv, PresetsRight
<1>4. ASSUME NEW t \in DOMAIN templates, NEW u \in Editable
      PROVE W!ToDesired(W!LoadedTemplates[t], u) = W!ToDesired(templates[t], u)
  <2>1. templates # <<>>
    OBVIOUS
  <2>2. W!LoadedTemplates[t] = W!NormalizedTemplate(templates[t])
    BY <2>1 DEF W!LoadedTemplates
  <2>3. templates[t] \in W!ClientType
    BY DEF WorkflowInv, TemplatesRight
  <2> QED BY <1>1, <2>2, <2>3, ClientsCleaned DEF W!ToDesired
<1> QED BY <1>2, <1>3, <1>4 DEF W!RestartKeepsShow

LEMMA QuietIsSound ==
  ASSUME W!WorkflowAssumption, WorkflowInv
  PROVE  W!QuietMeansSound
<1> SUFFICES ASSUME NEW u \in W!Staff, clients[u] # None, running[u] # None, W!Warnings(clients[u]) = {}
             PROVE  /\ running[u].role = "bridge" => running[u].tx \cap running[u].listen = {}
                    /\ running[u].ifb => running[u].program # {} /\ running[u].interrupt # {}
                                         /\ running[u].interrupt \subseteq running[u].listen
  BY DEF W!QuietMeansSound
<1> DEFINE c == clients[u]
<1>1. c \in W!ClientType /\ c.program \cap c.interrupt = {}
  BY DEF WorkflowInv, ShowRight, CleanShow, CleanClients
<1>2. running[u] = W!NormalizedClient(c, u)
  BY DEF WorkflowInv, ShowRight, W!SessionRunsDesired
<1>3. /\ running[u].role = c.role /\ running[u].tx = c.tx /\ running[u].listen = c.listen /\ running[u].ifb = c.ifb
      /\ running[u].program = c.program \ c.interrupt /\ running[u].interrupt = c.interrupt
  <2>1. running[u] = Remade(c, W!NormalizedButtons(c.buttons), c.program \ c.interrupt, W!Lower(c.level),
                            W!NormalizedTalkers(c.talkers, u))
    BY <1>1, <1>2, Remakes
  <2> HIDE DEF c
  <2> QED BY <2>1, FieldsOfRemade
<1>4. /\ "feedback" \notin W!Warnings(c) /\ "no program" \notin W!Warnings(c)
      /\ "no interrupt" \notin W!Warnings(c) /\ "interrupt not heard" \notin W!Warnings(c)
  OBVIOUS
<1> HIDE DEF c
<1>5. W!IsBridge(c) => c.tx \cap c.listen = {}
  BY <1>4 DEF W!Warnings
<1>6. c.ifb => c.program # {} /\ c.interrupt # {} /\ c.interrupt \subseteq c.listen
  BY <1>4 DEF W!Warnings
<1>7. c.program \ c.interrupt = c.program
  BY <1>1
<1> QED BY <1>3, <1>5, <1>6, <1>7 DEF W!IsBridge

LEMMA WorkflowTypes ==
  ASSUME W!WorkflowAssumption, WorkflowInv
  PROVE  W!TypeOK
<1>1. \A u \in W!Staff : (clients[u] = None \/ clients[u] \in CleanClients) /\ (running[u] = None \/ running[u] \in CleanClients)
  BY DEF WorkflowInv, ShowRight, CleanShow
<1>2. \A c \in CleanClients : c.listen \in SUBSET W!Channels /\ c.tx \in SUBSET W!Channels /\ c.program \cap c.interrupt = {}
  BY CleanIsAny, FieldsOf DEF W!Routes, CleanClients
<1> QED BY <1>1, <1>2 DEF W!TypeOK, WorkflowInv, ChannelsRight

LEMMA WorkflowInvRight ==
  ASSUME W!WorkflowAssumption, WorkflowInv
  PROVE  W!TypeOK /\ W!SessionRunsDesired /\ W!RestartKeepsShow /\ W!QuietMeansSound
BY WorkflowTypes, RestartKeeps, QuietIsSound DEF WorkflowInv, ShowRight

(* For any clients, templates and requests: a session runs on what is configured, a restart
   loads the show that was running, and a client that the page does not warn of has no route
   that feeds back and interrupts that it hears (apply_desired_to_session_fields,
   normalize_admin_state, workflow_validation_warnings). *)
THEOREM ShowsKeep == ASSUME W!WorkflowAssumption PROVE Parts => []WorkflowRight
<1>1. PartsInit => (part = "workflow" => WorkflowInv)
  BY WorkflowInit DEF PartsInit
<1>2. (part = "workflow" => WorkflowInv) /\ [PartsNext]_partVars => (part = "workflow" => WorkflowInv)'
  BY WorkflowStep, PartsStep
<1>3. (part = "workflow" => WorkflowInv) => WorkflowRight
  BY WorkflowInvRight DEF WorkflowRight
<1> QED BY <1>1, <1>2, <1>3, PTL DEF Parts

-----------------------------------------------------------------------------
(* DIRECT CALLS. *)
(* ControlSessionProofs has the invariant.  What is left is that the talk state here is
   the one that it is about: its definitions are made of the same library operators, and a
   fold over the same changes is the same fold. *)
CP == INSTANCE ControlSessionProofs WITH
  Users <- Callers, Conns <- CallConns, conn <- talkConn, session <- talk

LEMMA SameOpened == \A L, u, t, b : C!Opened(L, u, t, b) = CP!Opened(L, u, t, b)
BY DEF C!Opened, CP!Opened, C!Trimmed, CP!Trimmed, C!Entry, CP!Entry

LEMMA SameClosed == \A L, u, t, sources : C!Closed(L, u, t, sources) = CP!Closed(L, u, t, sources)
<1>1. \A h, u, t, sources : C!CloseNewest(h, u, t, sources) = CP!CloseNewest(h, u, t, sources)
  BY DEF C!CloseNewest, CP!CloseNewest, C!OpenPositions, CP!OpenPositions
<1>2. \A L, v, u, t, sources : C!ClosedAt(L, v, u, t, sources) = CP!ClosedAt(L, v, u, t, sources)
  BY <1>1 DEF C!ClosedAt, CP!ClosedAt
<1> QED BY <1>2 DEF C!Closed, CP!Closed

LEMMA SameChange == \A L, x : C!Changed(L, x) = CP!Changed(L, x)
BY SameOpened, SameClosed, Zenon DEF C!Changed, CP!Changed

LEMMA SameMax == \A s : C!Max(s) = CP!Max(s)
BY Zenon DEF C!Max, CP!Max

LEMMA SameChanges ==
  ASSUME CP!ControlAssumption, NEW L, NEW n \in Nat, NEW changes, DOMAIN changes = 1..n
  PROVE  C!AllChanged(L, changes) = CP!AllChanged(L, changes)
<1> DEFINE Fold(f) == f = [s \in SUBSET (1..n) |->
                             IF s = {} THEN L ELSE C!Changed(f[s \ {C!Max(s)}], changes[C!Max(s)])]
           after == CHOOSE f : Fold(f)
<1>1. C!AllChanged(L, changes) = after[1..n]
  BY DEF C!AllChanged, C!FoldLeft, C!MapThenFoldSet
<1>2. ASSUME NEW f PROVE Fold(f) <=> CP!IsFold(f, L, changes, n)
  BY SameChange, SameMax DEF CP!IsFold
<1>3. \E f : Fold(f)
  <2>1. PICK f : CP!IsFold(f, L, changes, n)
    BY CP!FoldExists
  <2> QED BY <1>2, <2>1, ZenonT(60)
<1>4. Fold(after)
  BY <1>3
<1> HIDE DEF after, Fold
<1>5. CP!AllChanged(L, changes) = after[1..n]
  BY <1>2, <1>4, CP!FoldIs
<1> QED BY <1>1, <1>5

LEMMA SameCallCount == ASSUME NEW S PROVE C!Cardinality(S) = CP!Cardinality(S)
BY DEF C!Cardinality, CP!Cardinality

LEMMA SameSides == \A h, u, t, k : C!Newer(h, u, t, k) = CP!Newer(h, u, t, k) /\ C!OfPair(h, u, t) = CP!OfPair(h, u, t)
BY SameCallCount DEF C!Newer, CP!Newer, C!OfPair, CP!OfPair

LEMMA SameCallInit == C!Init <=> CP!Init
BY DEF C!Init, CP!Init, C!NoSession, CP!NoSession

LEMMA SameDirectCall ==
  \A u, t, on : C!DirectCallResult(u, t, on) => CP!DirectCallResult(u, t, on)
BY SameOpened, SameClosed DEF C!DirectCallResult, CP!DirectCallResult, C!AnySource, CP!AnySource

LEMMA SameHandler ==
  ASSUME NEW c \in CallConns
  PROVE  /\ C!Handler(c) => CP!Handler(c)
         /\ C!FinishReply(c) => CP!FinishReply(c)
         /\ C!SocketEnds(c) => CP!SocketEnds(c)
         /\ \A u : C!Hello(c, u) => CP!Hello(c, u)
<1>1. C!Ready(c) = CP!Ready(c) /\ C!User(c) = CP!User(c)
  BY DEF C!Ready, CP!Ready, C!User, CP!User
<1>2. (\A step : C!Then(c, step) => CP!Then(c, step)) /\ (C!Done(c) => CP!Done(c))
  BY DEF C!Then, CP!Then, C!Done, CP!Done
<1>3. \A on : C!Talk(c, on) => CP!Talk(c, on)
  BY <1>1 DEF C!Talk, CP!Talk
<1>4. \A on : C!ReplyCall(c, on) => CP!ReplyCall(c, on)
  BY <1>1, <1>2 DEF C!ReplyCall, CP!ReplyCall
<1>5. \A b, down : C!Button(c, b, down) => CP!Button(c, b, down)
  BY <1>1, <1>2 DEF C!Button, CP!Button, C!NowActive, CP!NowActive
<1>6. \A t, on : C!DirectCall(c, t, on) => CP!DirectCall(c, t, on)
  BY <1>1, SameDirectCall DEF C!DirectCall, CP!DirectCall
<1>7. C!Handler(c) => CP!Handler(c)
  BY <1>1, <1>3, <1>4, <1>5, <1>6 DEF C!Handler, CP!Handler
<1>8. C!FinishReply(c) => CP!FinishReply(c)
  BY <1>1, <1>2, SameDirectCall DEF C!FinishReply, CP!FinishReply
<1>9. C!SocketEnds(c) => CP!SocketEnds(c)
  BY <1>1 DEF C!SocketEnds, CP!SocketEnds
<1>10. \A u : C!Hello(c, u) => CP!Hello(c, u)
  BY DEF C!Hello, CP!Hello
<1> QED BY <1>7, <1>8, <1>9, <1>10

LEMMA SameAdmin == C!Admin => CP!Admin
<1>1. \A u, B : C!Reconfigure(u, B) => CP!Reconfigure(u, B)
  BY DEF C!Reconfigure, CP!Reconfigure, C!Reconfigured, CP!Reconfigured, C!Ids, CP!Ids
<1>2. \A u, t, on : C!AdminDirectCall(u, t, on) => CP!AdminDirectCall(u, t, on)
  BY SameDirectCall DEF C!AdminDirectCall, CP!AdminDirectCall
<1> QED BY <1>1, <1>2 DEF C!Admin, CP!Admin

LEMMA SameRoutes ==
  ASSUME CP!ControlAssumption, CP!LogInv, NEW c \in CallConns
  PROVE  (C!StartRoutes(c) => CP!StartRoutes(c)) /\ (C!StopRoutes(c) => CP!StopRoutes(c))
<1> DEFINE step == talkConn[c].todo[1]
           b == step.button
           n == Len(b.users)
<1>1. ASSUME talkConn[c].todo # <<>>, step.op \in {"start", "stop"}
      PROVE  n \in Nat /\ DOMAIN b.users = 1..n
  <2>1. talkConn[c].todo \in Seq(CP!Step)
    BY DEF CP!LogInv, CP!Inv, CP!Shapes, CP!Connection
  <2>2. step \in CP!Step
    BY <1>1, <2>1
  <2>3. b.users \in Seq(Callers)
    BY <1>1, <2>2 DEF CP!Step, CP!ButtonConfig
  <2> HIDE DEF b
  <2> QED BY <2>3
<1>2. C!User(c) = CP!User(c) /\ (C!Done(c) => CP!Done(c))
  BY SMTT(30) DEF C!User, CP!User, C!Done, CP!Done
<1>3. ASSUME C!StartRoutes(c) PROVE CP!StartRoutes(c)
  <2> DEFINE Reached(t) == t # C!User(c) /\ talk[t].live
             changes == [k \in DOMAIN b.users |->
                           [op |-> IF Reached(b.users[k]) THEN "open" ELSE "skip",
                            caller |-> C!User(c), target |-> b.users[k], source |-> b.id]]
  <2>1. /\ talkConn[c].todo # <<>> /\ step.op = "start" /\ C!Done(c) /\ UNCHANGED talk
        /\ log' = C!AllChanged(log, changes)
    BY <1>3, ZenonT(60) DEF C!StartRoutes
  <2>2. n \in Nat /\ DOMAIN changes = 1..n
    BY <1>1, <2>1, Zenon
  <2> HIDE DEF n
  <2>3. log' = CP!AllChanged(log, changes)
    <3> HIDE DEF changes
    <3> QED BY <2>1, <2>2, SameChanges, SMTT(30)
  <2> QED BY <1>2, <2>1, <2>3, ZenonT(60) DEF CP!StartRoutes
<1>4. ASSUME C!StopRoutes(c) PROVE CP!StopRoutes(c)
  <2> DEFINE changes == [k \in DOMAIN b.users |->
                           [op |-> "close", caller |-> C!User(c), target |-> b.users[k], sources |-> {b.id}]]
  <2>1. /\ talkConn[c].todo # <<>> /\ step.op = "stop" /\ C!Done(c) /\ UNCHANGED talk
        /\ log' = C!AllChanged(log, changes)
    BY <1>4 DEF C!StopRoutes, C!ButtonSource
  <2>2. n \in Nat /\ DOMAIN changes = 1..n
    BY <1>1, <2>1
  <2> HIDE DEF n
  <2>3. log' = CP!AllChanged(log, changes)
    <3> HIDE DEF changes
    <3> QED BY <2>1, <2>2, SameChanges
  <2> QED BY <1>2, <2>1, <2>3, ZenonT(60) DEF CP!StopRoutes, CP!ButtonSource
<1> QED BY <1>3, <1>4

LEMMA SameClear ==
  ASSUME CP!ControlAssumption, CP!LogInv, NEW c \in CallConns, C!ClearActiveButtons(c)
  PROVE  CP!ClearActiveButtons(c)
<1> DEFINE u == C!User(c)
           S == C!ButtonCalls(u) \cup C!DirectCalls(u)
           n == C!Cardinality(S)
<1>1. /\ talkConn[c].phase = "closing" /\ talkConn' = [talkConn EXCEPT ![c].phase = "gone"]
      /\ talk' = [talk EXCEPT ![u] = C!Silenced(@)]
      /\ \E changes \in C!SetToSeqs(S) : log' = C!AllChanged(log, changes)
  BY DEF C!ClearActiveButtons
<1>2. u = CP!User(c) /\ C!Silenced(talk[u]) = CP!Silenced(talk[u])
  BY DEF C!User, CP!User, C!Silenced, CP!Silenced
<1>3. S = CP!ButtonCalls(u) \cup CP!DirectCalls(u) /\ n = CP!Cardinality(S)
  BY SameCallCount DEF C!ButtonCalls, CP!ButtonCalls, C!DirectCalls, CP!DirectCalls, C!ActiveButtons, CP!ActiveButtons,
         C!ButtonSource, CP!ButtonSource
<1>4. u \in Callers
  BY <1>1, <1>2 DEF CP!LogInv, CP!Inv, CP!OpenHasUser, CP!User
<1> DEFINE nobody == {}
<1>5. \A t : <<u, t>> \notin nobody
  OBVIOUS
<1> HIDE DEF nobody, u
<1>6. CP!IsFiniteSet(CP!ButtonCalls(u) \cup CP!DirectCalls(u))
  BY <1>4, <1>5, CP!ClosingsHarmless
<1> USE DEF u
<1>7. n \in Nat
  BY <1>3, <1>6, CP!FS_CardinalityType, ZenonT(60)
<1>8. PICK changes \in C!SetToSeqs(S) : log' = C!AllChanged(log, changes)
  BY <1>1
<1>9. changes \in [1..n -> S] /\ changes \in CP!SetToSeqs(S)
  BY <1>3 DEF C!SetToSeqs, CP!SetToSeqs
<1> HIDE DEF S, n
<1>10. log' = CP!AllChanged(log, changes)
  BY <1>7, <1>8, <1>9, SameChanges
<1> QED BY <1>1, <1>2, <1>3, <1>9, <1>10 DEF CP!ClearActiveButtons

LEMMA SameCallStep ==
  ASSUME CP!ControlAssumption, CP!LogInv, [C!Next]_callVars
  PROVE  [CP!Next]_CP!vars
BY SameHandler, SameAdmin, SameRoutes, SameClear DEF C!Next, CP!Next, C!Continue, CP!Continue, callVars, CP!vars

LEMMA SameCallProperties ==
  CP!TypeOK /\ CP!HistoriesAgree /\ CP!LastCallerIsNewest /\ CP!ActiveCallHasEntry
  => C!TypeOK /\ C!HistoriesAgree /\ C!LastCallerIsNewest /\ C!ActiveCallHasEntry
<1>1. CP!TypeOK => C!TypeOK
  BY DEF CP!TypeOK, C!TypeOK, CP!HistoryEntry, C!HistoryEntry, CP!AnySource, C!AnySource
<1>2. CP!HistoriesAgree => C!HistoriesAgree
  BY SameSides DEF CP!HistoriesAgree, C!HistoriesAgree
<1>3. CP!LastCallerIsNewest => C!LastCallerIsNewest
  BY DEF CP!LastCallerIsNewest, C!LastCallerIsNewest
<1>4. CP!ActiveCallHasEntry => C!ActiveCallHasEntry
  BY DEF CP!ActiveCallHasEntry, C!ActiveCallHasEntry, CP!OpenPositions, C!OpenPositions
<1> QED BY <1>1, <1>2, <1>3, <1>4

LEMMA SameCallAssumption == C!ControlAssumption => CP!ControlAssumption
BY DEF C!ControlAssumption, CP!ControlAssumption, C!ButtonConfig, CP!ButtonConfig, C!IsFiniteSet, CP!IsFiniteSet

(* Caller and target agree on their calls, for any number of users, connections and buttons
   and any length of the histories (push_direct_call_history, close_direct_call_history). *)
THEOREM CallsAgree == ASSUME C!ControlAssumption PROVE Parts => []HistoriesAgree
<1>1. PartsInit => (part = "calls" => CP!LogInv)
  BY SameCallAssumption, SameCallInit, CP!InitEstablishesLogs DEF PartsInit
<1>2. (part = "calls" => CP!LogInv) /\ [PartsNext]_partVars => (part = "calls" => CP!LogInv)'
  <2> SUFFICES ASSUME part = "calls" => CP!LogInv, [PartsNext]_partVars, part' = "calls" PROVE CP!LogInv'
    OBVIOUS
  <2>1. CP!LogInv /\ [C!Next]_callVars
    BY PartsStep
  <2> QED BY <2>1, SameCallAssumption, SameCallStep, CP!LogStep
<1>3. (part = "calls" => CP!LogInv) => HistoriesAgree
  BY SameCallAssumption, SameCallProperties, CP!LogsAreRight DEF HistoriesAgree
<1> QED BY <1>1, <1>2, <1>3, PTL DEF Parts
=============================================================================
