------------------------------ MODULE Enrollment ------------------------------
(***************************************************************************)
(* Stable device identities, the numeric aliases they hold, and the desired   *)
(* clients they are bound to.  A device is known by its uid; hello resolves    *)
(* the uid to an alias under the enrollment policy and only then creates the   *)
(* session; the admin API approves, rejects, re-aliases and forgets devices     *)
(* and stages clients with or without a uid; and every configuration message    *)
(* of a client rewrites the device it is bound to.  Each handler changes the    *)
(* admin state in one critical section, but decides on what it read before.     *)
(* Nothing but hello looks at the enrollment of who sends a message.            *)
(* How the state is saved is module AdminStore.                                *)
(***************************************************************************)
EXTENDS Naturals, FiniteSets

CONSTANTS
  Uids,
  MaxUser,    \* bound: aliases are 1..MaxUser
  Conns,      \* bound: control connections at once
  Policy,     \* EnrollmentPolicy
  AdminOps    \* the admin requests that are made

Users == 1..MaxUser
NoUid == "no uid"
Absent == "absent"      \* no desired client, no session

EnrollmentAssumption ==
  /\ MaxUser \in Nat \ {0}
  /\ NoUid \notin Uids /\ Absent \notin Uids
  /\ Policy \in {"auto", "approval", "preconfigured-only"}
  /\ AdminOps \subseteq {"device", "move", "forget", "put", "patch", "preset", "delete"}

VARIABLES
  devices,   \* devices[d]: alias and status of the device with uid d
  desired,   \* desired[u]: uid that u's desired client is bound to, NoUid, or Absent
  session,   \* session[u]: uid of u's session, NoUid, or Absent
  conn,      \* conn[c]: a control connection and its alias; the uid while hello decides; the
             \* alias that a message is to be written for, with the uid that was read
  admitted,  \* uids the admin has named and those that took a client left for any device,
  offered    \* aliases of such clients: left by the admin, or by a connection that is not
             \* enrolled, for the properties

vars == <<devices, desired, session, conn, admitted, offered>>

Unknown == [user |-> 0, status |-> "unknown"]
Connection(phase, uid, user) ==
  [phase |-> phase, uid |-> uid, user |-> user, writes |-> 0, binding |-> NoUid]
Gone == Connection("new", NoUid, 0)

Init ==
  /\ devices = [d \in Uids |-> Unknown]
  /\ desired = [u \in Users |-> Absent]
  /\ session = [u \in Users |-> Absent]
  /\ conn = [c \in Conns |-> Gone]
  /\ admitted = {}
  /\ offered = {}

Device(u, status) == [user |-> u, status |-> status]
Known(d) == devices[d].status # "unknown"
Named(d) == admitted' = admitted \cup {d}

(* The admin leaves u's client to the device with uid d, or to any device. *)
Assigned(u, d) ==
  IF d = NoUid THEN offered' = offered \cup {u} /\ UNCHANGED admitted
  ELSE Named(d) /\ UNCHANGED offered

-----------------------------------------------------------------------------
(* next_available_user_id *)

Used == {devices[d].user : d \in Uids} \cup {u \in Users : desired[u] # Absent}
Free == Users \ Used
NextAvailable(requested) ==
  IF requested \in Free THEN requested ELSE CHOOSE u \in Free : \A v \in Free : u <= v

(* resolve_client_enrollment, one disjunct per path.  The decision waits in
   the connection until the session is created; a client that is refused goes
   on by the alias it asked for. *)
Decided(c, d, requested, u, status) ==
  conn' = [conn EXCEPT ![c] =
    IF status = "enrolled" THEN Connection("resolved", d, u)
    ELSE Connection("refused", NoUid, requested)]

Bound(d) == {u \in Users : desired[u] = d}

\* fault: a known device moves to the alias it asks for
KnownDeviceMoved(c, d, requested) ==
  /\ Known(d)
  /\ LET u == IF requested \in Free THEN requested ELSE devices[d].user
     IN /\ devices' = [devices EXCEPT ![d].user = u]
        /\ Decided(c, d, requested, u, devices[d].status)
  /\ UNCHANGED <<desired, admitted>>
KnownDevice(c, d, requested) ==
  /\ Known(d)
  /\ Decided(c, d, requested, devices[d].user, devices[d].status)
  /\ UNCHANGED <<devices, desired, admitted>>

BoundClient(c, d, requested) ==
  /\ ~Known(d) /\ Bound(d) # {}
  /\ LET u == CHOOSE v \in Bound(d) : \A w \in Bound(d) : v <= w
     IN /\ devices' = [devices EXCEPT ![d] = Device(u, "enrolled")]
        /\ Decided(c, d, requested, u, "enrolled")
  /\ UNCHANGED <<desired, admitted>>

Takeable(u) == desired[u] = NoUid

StagedClient(c, d, requested) ==
  /\ ~Known(d) /\ Bound(d) = {}
  /\ requested \in Users /\ Takeable(requested)
  /\ desired' = [desired EXCEPT ![requested] = d]
  /\ devices' = [devices EXCEPT ![d] = Device(requested, "enrolled")]
  /\ IF requested \in offered THEN Named(d) ELSE UNCHANGED admitted
  /\ Decided(c, d, requested, requested, "enrolled")

\* fault: the policy is not looked at
StatusAuto == "enrolled"
NewStatus == IF Policy = "auto" THEN "enrolled" ELSE "pending"

NewDevice(c, d, requested) ==
  /\ ~Known(d) /\ Bound(d) = {}
  /\ requested \in Users => ~Takeable(requested)
  /\ Policy # "preconfigured-only" /\ Free # {}
  /\ devices' = [devices EXCEPT ![d] = Device(NextAvailable(requested), NewStatus)]
  /\ Decided(c, d, requested, NextAvailable(requested), NewStatus)
  /\ UNCHANGED <<desired, admitted>>

Resolve(c, d, requested) ==
  /\ conn[c].phase = "new" /\ conn[c].writes = 0
  /\ \/ KnownDevice(c, d, requested) \/ BoundClient(c, d, requested)
     \/ StagedClient(c, d, requested) \/ NewDevice(c, d, requested)
  /\ UNCHANGED <<session, offered>>

(* The rest of hello: the session takes the uid of the decision, or that of the
   desired client if one is bound, and the connection is registered, which
   remembers its alias and no uid. *)
HelloSession(c) ==
  /\ conn[c].phase = "resolved"
  /\ LET u == conn[c].user
     IN session' = [session EXCEPT ![u] = IF desired[u] \in Uids THEN desired[u] ELSE conn[c].uid]
  /\ conn' = [conn EXCEPT ![c].phase = "open", ![c].uid = NoUid]
  /\ UNCHANGED <<devices, desired, admitted, offered>>

-----------------------------------------------------------------------------
(* apply_desired_client: the device of the uid is enrolled under the alias. *)

Enroll(u, d) == IF d = NoUid THEN devices ELSE [devices EXCEPT ![d] = Device(u, "enrolled")]

ApplyDesired(u, d) ==
  /\ devices' = Enroll(u, d)
  /\ desired' = [desired EXCEPT ![u] = d]
  /\ session' = [session EXCEPT ![u] = IF d # NoUid THEN d ELSE IF @ = Absent THEN NoUid ELSE @]

(* desired_baseline_for_user *)
BaselineUid(u) ==
  IF desired[u] # Absent THEN desired[u] ELSE IF session[u] # Absent THEN session[u] ELSE NoUid

(* A message names the alias it is for and is taken from any connection: one that has not
   said hello, one that was refused and goes on, one that is enrolled. *)
Sends(c, u) ==
  /\ conn[c].writes = 0
  /\ conn[c].phase = "new" \/ (conn[c].phase \in {"refused", "open"} /\ conn[c].user = u)

(* Config, AudioCodec, TalkMode and Priority read the baseline and write it. *)
ReadBaseline(c, u) ==
  /\ Sends(c, u)
  /\ conn' = [conn EXCEPT ![c].writes = u, ![c].binding = BaselineUid(u)]
  /\ UNCHANGED <<devices, desired, session, admitted, offered>>

(* A connection that is not enrolled leaves a client for any device. *)
LeftOpen(c) == conn[c].phase # "open" /\ conn[c].binding = NoUid

Configure(c) ==
  /\ conn[c].writes # 0
  /\ ApplyDesired(conn[c].writes, conn[c].binding)
  /\ offered' = IF LeftOpen(c) THEN offered \cup {conn[c].writes} ELSE offered
  /\ conn' = [conn EXCEPT ![c].writes = 0, ![c].binding = NoUid]
  /\ UNCHANGED admitted

(* Ping, CaptureHealth and BridgeStatus make sure that a session exists. *)
Health(c, u) ==
  /\ Sends(c, u)
  /\ session' = [session EXCEPT ![u] = IF @ = Absent THEN NoUid ELSE @]
  /\ UNCHANGED <<devices, desired, conn, admitted, offered>>

SocketEnds(c) ==
  /\ conn[c].phase \in {"open", "refused"} /\ conn[c].writes = 0
  /\ conn' = [conn EXCEPT ![c] = Gone]
  /\ UNCHANGED <<devices, desired, session, admitted, offered>>

(* audio_user_is_enrolled: a session is enough, since Session.enrollment is
   never anything but Enrolled; an accepted packet creates the session. *)
AudioAllowed(u) ==
  \/ session[u] # Absent
  \/ Policy = "auto" /\ \A d \in Uids : devices[d].user = u => devices[d].status = "enrolled"

AudioPacket(u) ==
  /\ AudioAllowed(u)
  /\ session' = [session EXCEPT ![u] = IF @ = Absent THEN NoUid ELSE @]
  /\ UNCHANGED <<devices, desired, conn, admitted, offered>>

-----------------------------------------------------------------------------
(* The admin API. *)

(* update_device_enrollment: alias 0 keeps the alias, status "same" the status.
   Every request of the device API may name an alias ("move" in AdminOps). *)
AliasAsked == IF "move" \in AdminOps THEN Users \cup {0} ELSE {0}

AliasFor(d, alias) ==
  IF alias # 0 THEN alias ELSE IF Known(d) THEN devices[d].user ELSE NextAvailable(0)

UpdateDevice(d, alias, status) ==
  /\ alias # 0 \/ Known(d) \/ Free # {}
  /\ LET u == AliasFor(d, alias)
         s == IF status # "same" THEN status ELSE IF Known(d) THEN devices[d].status ELSE "enrolled"
     IN /\ \A e \in Uids \ {d} : devices[e].user # u
        /\ devices' = [devices EXCEPT ![d] = Device(u, s)]
        /\ IF s = "enrolled" /\ desired[u] # Absent
           THEN /\ desired' = [desired EXCEPT ![u] = d]
                /\ session' = [session EXCEPT ![u] = d]
           ELSE UNCHANGED <<desired, session>>
        /\ IF s = "enrolled" THEN Named(d) ELSE UNCHANGED admitted
  /\ UNCHANGED <<conn, offered>>

(* Approve and reject are such changes to one status. *)
PatchDevice(d) ==
  \E alias \in AliasAsked, status \in {"same", "enrolled", "pending", "rejected"} :
    UpdateDevice(d, alias, status)

ForgetDevice(d) ==
  /\ devices' = [devices EXCEPT ![d] = Unknown]
  /\ desired' = [u \in Users |-> IF desired[u] = d THEN NoUid ELSE desired[u]]
  /\ offered' = offered \cup Bound(d)
  /\ UNCHANGED <<session, conn, admitted>>

PutClient(u, d) ==
  /\ ApplyDesired(u, d)
  /\ Assigned(u, d)
  /\ UNCHANGED conn

PatchClient(u) ==
  /\ ApplyDesired(u, BaselineUid(u))
  /\ Assigned(u, BaselineUid(u))
  /\ UNCHANGED conn

(* apply_preset replaces the desired client and leaves the devices alone. *)
ApplyPreset(u) ==
  /\ desired' = [desired EXCEPT ![u] = NoUid]
  /\ session' = [session EXCEPT ![u] = IF @ = Absent THEN NoUid ELSE @]
  /\ offered' = offered \cup {u}
  /\ UNCHANGED <<devices, conn, admitted>>

DeleteClient(u) ==
  /\ desired' = [desired EXCEPT ![u] = Absent]
  /\ UNCHANGED <<devices, session, conn, admitted, offered>>

Admin ==
  \/ \E d \in Uids :
       \/ "forget" \in AdminOps /\ ForgetDevice(d)
       \/ "device" \in AdminOps /\ PatchDevice(d)
  \/ \E u \in Users :
       \/ "put" \in AdminOps /\ \E d \in Uids \cup {NoUid} : PutClient(u, d)
       \/ "patch" \in AdminOps /\ PatchClient(u)
       \/ "preset" \in AdminOps /\ ApplyPreset(u)
       \/ "delete" \in AdminOps /\ DeleteClient(u)

(* The server restarts: devices and desired clients are on disk. *)
Restart ==
  /\ session' = [u \in Users |-> Absent]
  /\ conn' = [c \in Conns |-> Gone]
  /\ UNCHANGED <<devices, desired, admitted, offered>>

Next ==
  \/ \E c \in Conns :
       \/ \E d \in Uids, requested \in Users \cup {0} : Resolve(c, d, requested)
       \/ \E u \in Users : ReadBaseline(c, u) \/ Health(c, u)
       \/ HelloSession(c) \/ Configure(c) \/ SocketEnds(c)
  \/ \E u \in Users : AudioPacket(u)
  \/ Admin \/ Restart

Spec == Init /\ [][Next]_vars

-----------------------------------------------------------------------------
(* Properties. *)

(* Every variable keeps its type, and a device has an alias while it is known. *)
TypeOK ==
  /\ \A d \in Uids :
       \/ devices[d] = Unknown
       \/ devices[d] \in [user : Users, status : {"enrolled", "pending", "rejected"}]
  /\ desired \in [Users -> Uids \cup {NoUid, Absent}]
  /\ session \in [Users -> Uids \cup {NoUid, Absent}]
  /\ \A c \in Conns :
       /\ conn[c].phase \in {"new", "resolved", "refused", "open"}
       /\ IF conn[c].phase = "resolved" THEN conn[c].uid \in Uids ELSE conn[c].uid = NoUid
       /\ conn[c].user \in IF conn[c].phase \in {"new", "refused"} THEN Users \cup {0} ELSE Users
       /\ conn[c].writes \in Users \cup {0} /\ conn[c].binding \in Uids \cup {NoUid}
  /\ admitted \subseteq Uids /\ offered \subseteq Users

(* A desired client is bound to a device the server knows, however clients
   are staged, devices forgotten and bindings taken over: a binding that
   dangles would enroll a device nobody listed. *)
BindingHasDevice ==
  \A u \in Users : desired[u] \in Uids => Known(desired[u])

(* Under a policy other than auto no device is enrolled by asking: the admin has named it,
   or it asked for the alias of a client that was left for any device, by the admin or by
   a connection that was not enrolled.  No uid that a session, a baseline or a binding has
   kept enrolls a device that did not come by one of these. *)
EnrolledByOffer ==
  Policy # "auto" =>
    \A d \in Uids : devices[d].status = "enrolled" => d \in admitted

(* "approval records it as pending and blocks client-owned audio/control until
   approved" (README.md): a message of a connection that is not enrolled leaves no
   desired client behind. *)
UnapprovedChangesNothing ==
  [][\A c \in Conns :
       conn[c].phase # "open" /\ conn[c].writes # 0 /\ conn'[c].writes = 0 => desired' = desired]_vars

(* "Assigns the requested numeric alias when free, otherwise the next free
   alias" (README.md): no two devices hold one alias. *)
AliasUnique ==
  \A d, e \in Uids : d # e /\ Known(d) => devices[d].user # devices[e].user

(* "Blocks client-owned audio/control until approved" (README.md): the audio of
   an alias is not accepted while its device is pending or rejected. *)
UnapprovedBlocked ==
  \A d \in Uids : devices[d].status \in {"pending", "rejected"} => ~AudioAllowed(devices[d].user)

(* "Preconfigured-only rejects unknown devices unless their UID is already
   present in server state" (README.md): a device that neither has an alias nor a
   client bound to it is enrolled by the admin alone. *)
UnknownUidRejected ==
  [][\A d \in Uids, c \in Conns :
       Policy = "preconfigured-only" /\ ~Known(d) /\ Bound(d) = {} /\ devices'[d].status = "enrolled"
         => conn'[c] = conn[c]]_vars

(* "Reject a stable device identity" (README.md): only the admin takes a
   rejection back. *)
RejectionSticks ==
  [][\A d \in Uids, c \in Conns :
       devices[d].status = "rejected" /\ devices'[d].status = "enrolled"
         => conn' = conn]_vars

(* "A known UID keeps its assigned alias even if the client later requests a
   different --user-id" (README.md): a hello, whatever has happened to devices
   and clients before it, does not change the alias of a device. *)
HelloKeepsAlias ==
  \A d \in Uids, c \in Conns :
    Known(d) /\ conn[c].phase = "new" /\ conn'[c].phase # "new"
      => devices'[d].user = devices[d].user
KnownUidKeepsAlias == [][HelloKeepsAlias]_vars
=============================================================================
