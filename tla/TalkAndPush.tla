----------------------------- MODULE TalkAndPush -----------------------------
(* The talk state of the users and the pushes to their connections, side by side under the
   fairness of each: a behaviour is one of ControlSession, or one of ConfigPush, while the
   variables of the other stay as they begin.  The two models share their connections. *)
EXTENDS ControlSession

CONSTANTS PushedUsers, NoConn, Requests, MaxVersion

VARIABLES
  part,   \* what this behaviour is about: "talk" or "push"
  pushConn, control, version, task, inbox, shown, newest, last

pushVars == <<pushConn, control, version, task, inbox, shown, newest, last>>
partVars == <<part, vars, pushVars>>

P == INSTANCE ConfigPush WITH Users <- PushedUsers, conn <- pushConn

NoPushes ==
  /\ pushConn = 0 /\ control = 0 /\ version = 0 /\ task = 0 /\ inbox = 0 /\ shown = 0
  /\ newest = 0 /\ last = 0

PartsInit ==
  /\ part \in {"talk", "push"}
  /\ Init
  /\ IF part = "push" THEN P!Init ELSE NoPushes

Pushing(A) == part = "push" /\ A

PartsNext ==
  /\ UNCHANGED part
  /\ \/ part = "talk" /\ Next /\ UNCHANGED pushVars
     \/ Pushing(P!Next) /\ UNCHANGED vars

PushFairness ==
  /\ \A t \in P!Tasks : WF_pushVars(Pushing(P!Push(t)))
  /\ \A c \in Conns :
       /\ WF_pushVars(Pushing(P!Connection(c))) /\ WF_pushVars(Pushing(P!Seed(c)))
       /\ WF_pushVars(Pushing(P!ClientReads(c)))

Parts == PartsInit /\ [][PartsNext]_partVars /\ Fairness /\ PushFairness

-----------------------------------------------------------------------------
(* The client that is connected has read the newest configuration once nothing is under
   way. *)
NewestReachesClient == part = "push" => P!NewestReachesClient

(* A change is read by the client that is connected, or a newer one is, or it goes away. *)
ChangeReachesClient ==
  \A c \in Conns, n \in 1..MaxVersion :
    (part = "push" /\ pushConn[c].phase = "open" /\ P!Registered(c) /\ version[pushConn[c].user] >= n)
      ~> (part = "talk" \/ newest[c] >= n \/ pushConn[c].phase # "open" \/ ~P!Registered(c))
=============================================================================
