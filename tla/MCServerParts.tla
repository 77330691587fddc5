---------------------------- MODULE MCServerParts ----------------------------
(* ServerParts for TLC.  Each part has the actors that can get in each other's way: three
   tasks that want locks, two handlers of alerts, two requests to record, an admin and the
   operators of two sessions, three users that call, two connections and an admin that
   start emergencies, two devices that ask for the same alias. *)
EXTENDS ServerParts, TLC

CONSTANTS x1, x2, x3, u1, u2, u3, c1, r1, b1

(* Alerts: one of two clients hears the channel; both can be called by name. *)
AlertListens == [u \in {u1, u2} |-> IF u = u2 THEN {c1} ELSE {}]

(* Workflow: what only an admin's request can hold.  A client with a key twice and one
   without an id, the programme also as an interrupt, a gain above the highest, one for
   itself and one for somebody unknown; and a director whose key unmutes itself, sends an
   alert and applies a preset that need not exist. *)
Edit(users, listen, tx) == [kind |-> "edit", users |-> users, listen |-> listen, tx |-> tx]
Change(add, remove, toggle) == [add |-> add, remove |-> remove, toggle |-> toggle]
Key(id, actions) == [id |-> id, actions |-> actions]
Talent == [
  role |-> "client", name |-> {}, listen |-> {0, 4}, tx |-> {0}, mode |-> "ptt", ifb |-> TRUE,
  program |-> {4}, interrupt |-> {4}, talkers |-> {<<1, 9>>, <<10, 1>>}, level |-> 9, locked |-> FALSE,
  buttons |-> <<Key(7, <<Edit({0}, Change({}, {}, {6}), Change({6}, {0}, {}))>>), Key(0, <<>>),
                Key(7, <<[kind |-> "alert"]>>)>>]
Director == [
  role |-> "client", name |-> {}, listen |-> {}, tx |-> {}, mode |-> "muted", ifb |-> FALSE,
  program |-> {}, interrupt |-> {}, talkers |-> {}, level |-> 0, locked |-> TRUE,
  buttons |-> <<Key(9, <<[kind |-> "mode", users |-> {10, 0}, mode |-> "open"], [kind |-> "alert"],
                         [kind |-> "preset", preset |-> "new"]>>)>>]
AskedClients == {Talent, Director}

(* x1 and x2 are two that are alike: tasks, requests, callers, connections, devices. *)
Symmetry == Permutations({x1, x2})

(* ControlSession: two users call a third, by a key or directly. *)
CallKey == [id |-> b1, mode |-> "momentary", users |-> <<u3>>]
CallConfigs == {{}, {CallKey}}
CalledByTwo == {<<x1, u3>>, <<x2, u3>>}

ASSUME LockAssumption
ASSUME A!AlertAssumption
ASSUME R!RecordingAssumption
ASSUME W!WorkflowAssumption
ASSUME C!ControlAssumption
ASSUME E!EmergencyAssumption
ASSUME N!EnrollmentAssumption
=============================================================================
