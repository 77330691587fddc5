------------------------------ MODULE AdminStore ------------------------------
(***************************************************************************)
(* The desired configuration of every client: the copy in memory (admin_state *)
(* behind its lock), the JSON file it is saved to, and the live sessions it    *)
(* is applied to.  A handler reads a baseline, lets go of the lock, changes    *)
(* the baseline, writes it back whole, clones the state, lets go of the lock,  *)
(* saves the clone through a temporary file that all handlers share, and only  *)
(* then applies it to the session.  Handlers run on threads of their own, one   *)
(* per admin request or control connection, and save_admin_state runs outside   *)
(* every lock.  The process may stop at any step and be started again.          *)
(*                                                                         *)
(* Histories that the properties speak of: which files more than one save had    *)
(* its hands on, whether a clone was made while older ones were still to be       *)
(* saved, and up to which change a message has seen what is locked.            *)
(*                                                                         *)
(* Of a desired client, kept are one setting its user may change and the       *)
(* lockout that forbids it; devices are module Enrollment, pushes ConfigPush.   *)
(***************************************************************************)
EXTENDS Naturals, FiniteSets

CONSTANTS
  Users,
  Handlers,      \* bound: requests handled at once
  Loads,         \* bound: who asks what of each handler, and who sends audio
  Settings,      \* values of a setting
  Default,       \* the value a new session starts with
  NoFile, Torn,
  DiskMayFail,   \* TRUE: writing the temporary file may fail half way
  MaxChanges,    \* bound: writes to the state in memory
  MaxCrashes     \* bound: times the process stops

ClientOps == {"config", "talk_mode"}
AdminOps == {"put", "patch_setting", "patch_lockout", "delete", "preset"}
AllOps == ClientOps \cup AdminOps \cup {"hello"}

ASSUME StoreAssumption ==
  /\ Default \in Settings
  /\ Loads \subseteq [asked : [Handlers -> SUBSET (AllOps \X Users)], heard : SUBSET Users]
  /\ DiskMayFail \in BOOLEAN
  /\ IsFiniteSet(Handlers)
  /\ MaxChanges \in Nat /\ MaxCrashes \in Nat

VARIABLES
  mem,       \* mem[u]: DesiredClientConfig of u in admin_state.clients
  live,      \* live[u]: the same fields of u's session
  file,      \* path and path.tmp, the contents of the files they name; history: mixed ones
  task,      \* task[h]: the request h handles and how far it is
  audio,     \* the desired config the audio receiver has read and not yet applied
  load,      \* the requests that arrive and who sends audio, for good
  run,       \* is the process up, and how often it has stopped
  history    \* numbers of changes made, and acknowledged per user (of clones with first)

vars == <<mem, live, file, task, audio, load, run, history>>

(* A desired client, if `there`; `change` numbers the write that put it there. *)
Desired == [there : BOOLEAN, setting : Settings, locked : BOOLEAN, change : 0..MaxChanges]
Nothing == [there |-> FALSE, setting |-> Default, locked |-> FALSE, change |-> 0]
NoSession == [there |-> FALSE, setting |-> Default, locked |-> FALSE]
Empty == [u \in Users |-> Nothing]

Inodes == 0..(Cardinality(Handlers) + 1)
Contents == [Users -> Desired] \cup {NoFile, Torn}

ASSUME FileAssumption ==
  /\ NoFile # Torn /\ NoFile \notin Inodes \cup Users
  /\ {NoFile, Torn} \cap [Users -> Desired] = {}

IdleTask ==
  [op |-> "none", step |-> "idle", user |-> NoFile, setting |-> Default, baseline |-> Nothing,
   snapshot |-> Empty, inode |-> NoFile, left |-> {}, number |-> 0, seen |-> 0, first |-> FALSE]

Init ==
  /\ mem = Empty
  /\ live = [u \in Users |-> NoSession]
  /\ file = [path |-> NoFile, tmp |-> NoFile, content |-> [i \in Inodes |-> NoFile], mixed |-> {}]
  /\ task = [h \in Handlers |-> IdleTask]
  /\ audio = <<>>
  /\ load \in Loads
  /\ run = [up |-> TRUE, crashes |-> 0]
  /\ history = [changes |-> 0, acked |-> [u \in Users |-> 0]]

-----------------------------------------------------------------------------
(* Requests. *)

At(h, step) == run.up /\ task[h].step = step
Goto(h, step) == task' = [task EXCEPT ![h].step = step]
Finish(h) == task' = [task EXCEPT ![h] = IdleTask]

FirstStep(op) ==
  CASE op \in {"config", "patch_setting", "patch_lockout"} -> "baseline"
    [] op = "talk_mode" -> "check"
    [] op \in {"put", "delete", "preset"} -> "write"
    [] op = "hello" -> "resolve"

Request(h, op, u, v) ==
  /\ At(h, "idle") /\ <<op, u>> \in load.asked[h]
  /\ history.changes < MaxChanges
  /\ task' = [task EXCEPT ![h] =
       [IdleTask EXCEPT !.op = op, !.step = FirstStep(op), !.user = u, !.setting = v]]
  /\ UNCHANGED <<mem, live, file, audio, load, run, history>>

(* desired_baseline_for_user: what is desired, or else what the session has. *)
Baseline(u) ==
  IF mem[u].there THEN mem[u]
  ELSE [there |-> TRUE, setting |-> live[u].setting, locked |-> live[u].locked, change |-> 0]

(* ensure_control_allowed reads a baseline of its own. *)
AllowedAlways(h) == TRUE      \* fault: the lockout is not looked at
Allowed(h) == ~Baseline(task[h].user).locked

Check(h) ==
  /\ At(h, "check")
  /\ IF Allowed(h)
     THEN task' = [task EXCEPT ![h].step = "baseline", ![h].seen = history.changes]
     ELSE Finish(h)
  /\ UNCHANGED <<mem, live, file, audio, load, run, history>>

(* Config validates against the baseline it goes on to change. *)
ReadBaseline(h) ==
  /\ At(h, "baseline")
  /\ LET t == task[h]
         baseline == Baseline(t.user)
     IN IF t.op = "config" /\ ~Allowed(h) /\ t.setting # baseline.setting
        THEN Finish(h)
        ELSE task' = [task EXCEPT ![h].step = "write", ![h].baseline = baseline,
                                  ![h].seen = IF t.op = "config" THEN history.changes ELSE @]
  /\ UNCHANGED <<mem, live, file, audio, load, run, history>>

(* What the handler leaves in memory: replaced, patched or removed. *)
Result(t, u) ==
  LET n == history.changes + 1
      new(v, locked) == [there |-> TRUE, setting |-> v, locked |-> locked, change |-> n]
  IN CASE t.op \in {"config", "talk_mode", "patch_setting"} -> {new(t.setting, t.baseline.locked)}
       [] t.op = "patch_lockout" -> {new(t.baseline.setting, ~t.baseline.locked)}
       [] t.op = "put" -> {new(t.setting, locked) : locked \in BOOLEAN}
       [] t.op = "preset" -> {new(t.setting, FALSE)}
       [] t.op = "delete" -> {[Nothing EXCEPT !.change = n]}

Written(t) == IF t.op = "preset" THEN Users ELSE {t.user}

Saving == {"create", "fill", "rename"}
Alone(h, steps) == \A g \in Handlers \ {h} : task[g].step \notin steps

\* fault: the state is cloned before the change is made
ClonedFirst(before, after) == before
Cloned(before, after) == after

(* The write section of apply_desired_client, apply_preset and
   delete_client_handler: change the state and clone it for the save. *)
Write(h) ==
  /\ At(h, "write") /\ history.changes < MaxChanges
  /\ \E d \in Result(task[h], task[h].user) :
       LET state == [u \in Users |-> IF u \in Written(task[h]) THEN d ELSE mem[u]]
       IN /\ mem' = state
          /\ task' = [task EXCEPT
               ![h].step = "create", ![h].snapshot = Cloned(mem, state), ![h].number = d.change,
               ![h].first = Alone(h, Saving),
               ![h].left = IF task[h].op = "delete" THEN {} ELSE Written(task[h])]
  /\ history' = [history EXCEPT !.changes = @ + 1]
  /\ UNCHANGED <<live, file, audio, load, run>>

-----------------------------------------------------------------------------
(* save_admin_state_to_path *)

UnusedInode(i) ==
  /\ i # file.path /\ i # file.tmp
  /\ \A h \in Handlers : task[h].inode # i

(* tokio::fs::write opens path.tmp, creating or truncating it, *)
\* fault: the state file itself is opened
TargetInPlace == file.path
Target == file.tmp

Create(h) ==
  /\ At(h, "create")
  /\ LET i == IF Target # NoFile THEN Target ELSE CHOOSE j \in Inodes : UnusedInode(j)
     IN /\ file' = [file EXCEPT !.tmp = i, !.content[i] = Torn,
                     !.mixed = IF Alone(h, {"fill", "rename"}) THEN @ \ {i} ELSE @ \cup {i}]
        /\ task' = [task EXCEPT ![h].step = "fill", ![h].inode = i]
  /\ UNCHANGED <<mem, live, audio, load, run, history>>

(* writes the text from the start of the file it opened: whoever has written
   there since leaves a tail behind if its text was longer, *)
Filled(old, new) == IF old \in {Torn, new} THEN {new} ELSE {new, Torn}

Fill(h) ==
  /\ At(h, "fill")
  /\ \E c \in Filled(file.content[task[h].inode], task[h].snapshot) :
       file' = [file EXCEPT !.content[task[h].inode] = c]
  /\ Goto(h, "rename")
  /\ UNCHANGED <<mem, live, audio, load, run, history>>

(* or fails, and the handler answers with an error, *)
FillFails(h) ==
  /\ DiskMayFail /\ At(h, "fill")
  /\ file' = [file EXCEPT !.content[task[h].inode] = Torn]
  /\ Finish(h)
  /\ UNCHANGED <<mem, live, audio, load, run, history>>

(* and renames path.tmp to path, an error if another handler did so before. *)
AfterSave(t) ==
  CASE t.op = "hello" /\ t.left # {} -> "desired"
    [] t.op = "hello" /\ t.left = {} -> "idle"
    [] t.op # "hello" /\ t.left = {} -> "reply"
    [] t.op # "hello" /\ t.left # {} -> "apply"

Rename(h) ==
  /\ At(h, "rename")
  /\ IF file.tmp = NoFile
     THEN Finish(h) /\ UNCHANGED file
     ELSE /\ file' = [file EXCEPT
               !.path = file.tmp, !.tmp = NoFile,
               !.content = [i \in Inodes |-> IF i = file.path THEN NoFile ELSE @[i]]]
          /\ IF AfterSave(task[h]) = "idle" THEN Finish(h)
             ELSE task' = [task EXCEPT ![h].step = AfterSave(task[h]), ![h].inode = NoFile]
  /\ UNCHANGED <<mem, live, audio, load, run, history>>

-----------------------------------------------------------------------------
(* apply_desired_to_live_session, one user at a time, then the answer. *)

\* fault: only sessions of users that had none are filled in
AppliedOnce(d, u) == IF live[u].there THEN live[u]
                     ELSE [there |-> TRUE, setting |-> d.setting, locked |-> d.locked]
Applied(d, u) == [there |-> TRUE, setting |-> d.setting, locked |-> d.locked]

Apply(h) ==
  /\ At(h, "apply")
  /\ \E u \in task[h].left :
       /\ live' = [live EXCEPT ![u] = Applied(task[h].snapshot[u], u)]
       /\ task' = [task EXCEPT ![h].left = @ \ {u},
                               ![h].step = IF task[h].left = {u} THEN "reply" ELSE @]
  /\ UNCHANGED <<mem, file, audio, load, run, history>>

Reply(h) ==
  /\ At(h, "reply")
  /\ history' = [history EXCEPT !.acked =
       [u \in Users |-> IF task[h].first /\ u \in Written(task[h]) /\ task[h].number > @[u]
                        THEN task[h].number ELSE @[u]]]
  /\ Finish(h)
  /\ UNCHANGED <<mem, live, file, audio, load, run>>

-----------------------------------------------------------------------------
(* Hello: the device is resolved and saved, the desired config is read, and
   only then the session is locked and filled in; what the client advertises
   is saved last (Enrollment models the device). *)

Resolve(h) ==
  /\ At(h, "resolve")
  /\ task' = [task EXCEPT ![h].step = "create", ![h].snapshot = mem, ![h].left = {task[h].user},
                           ![h].first = Alone(h, Saving)]
  /\ UNCHANGED <<mem, live, file, audio, load, run, history>>

HelloDesired(h) ==
  /\ At(h, "desired")
  /\ task' = [task EXCEPT ![h].step = "session", ![h].baseline = mem[task[h].user]]
  /\ UNCHANGED <<mem, live, file, audio, load, run, history>>

HelloSession(h) ==
  /\ At(h, "session")
  /\ LET d == task[h].baseline
         u == task[h].user
     IN live' = [live EXCEPT ![u] = IF d.there THEN Applied(d, u) ELSE [@ EXCEPT !.there = TRUE]]
  /\ Goto(h, "advertise")
  /\ UNCHANGED <<mem, file, audio, load, run, history>>

(* persist_client_advertisement *)
Advertise(h) ==
  /\ At(h, "advertise")
  /\ task' = [task EXCEPT ![h].step = "create", ![h].snapshot = mem, ![h].left = {},
                           ![h].first = Alone(h, Saving)]
  /\ UNCHANGED <<mem, live, file, audio, load, run, history>>

-----------------------------------------------------------------------------
(* register_audio_endpoint: for every audio packet the one receiver task reads
   what is desired for its user and then applies it to the session. *)

AudioDesired(u) ==
  /\ u \in load.heard /\ run.up /\ audio = <<>>
  /\ audio' = <<[user |-> u, desired |-> mem[u]]>>
  /\ UNCHANGED <<mem, live, file, task, load, run, history>>

AudioSession ==
  /\ run.up /\ audio # <<>>
  /\ LET d == audio[1].desired
         u == audio[1].user
     IN live' = [live EXCEPT ![u] = IF d.there THEN Applied(d, u) ELSE [@ EXCEPT !.there = TRUE]]
  /\ audio' = <<>>
  /\ UNCHANGED <<mem, file, task, load, run, history>>

-----------------------------------------------------------------------------
(* The process stops, and load_admin_state starts it again: a missing file is
   an empty state, one that does not parse keeps the server from starting. *)

Crash ==
  /\ run.up /\ run.crashes < MaxCrashes
  /\ run' = [up |-> FALSE, crashes |-> run.crashes + 1]
  /\ task' = [h \in Handlers |-> IdleTask]
  /\ live' = [u \in Users |-> NoSession]
  /\ mem' = Empty
  /\ audio' = <<>>
  /\ UNCHANGED <<file, load, history>>

Restart ==
  /\ ~run.up
  /\ file.path # NoFile => file.content[file.path] # Torn
  /\ mem' = IF file.path = NoFile THEN Empty ELSE file.content[file.path]
  /\ run' = [run EXCEPT !.up = TRUE]
  /\ UNCHANGED <<live, file, task, audio, load, history>>

Save(h) == Create(h) \/ Fill(h) \/ FillFails(h) \/ Rename(h)
Handle(h) ==
  Check(h) \/ ReadBaseline(h) \/ Write(h) \/ Apply(h) \/ Reply(h)
    \/ Resolve(h) \/ HelloDesired(h) \/ HelloSession(h) \/ Advertise(h)

Next ==
  \/ \E h \in Handlers :
       \/ \E op \in AllOps, u \in Users, v \in Settings : Request(h, op, u, v)
       \/ Handle(h) \/ Save(h)
  \/ (\E u \in Users : AudioDesired(u)) \/ AudioSession
  \/ Crash \/ Restart

(* Handlers run to their end, and a client's audio packets, or the registration
   packets it sends when silent, keep coming and are received in turn. *)
Fairness ==
  /\ \A h \in Handlers : WF_vars(Handle(h)) /\ WF_vars(Save(h))
  /\ \A u \in Users : SF_vars(AudioDesired(u))
  /\ WF_vars(AudioSession)

Spec == Init /\ [][Next]_vars /\ Fairness

-----------------------------------------------------------------------------
(* Properties. *)

Steps == {"idle", "check", "baseline", "write", "create", "fill", "rename", "apply",
          "reply", "resolve", "desired", "session", "advertise"}

Task ==
  [op : AllOps \cup {"none"}, step : Steps, user : Users \cup {NoFile}, setting : Settings,
   baseline : Desired, snapshot : [Users -> Desired], inode : Inodes \cup {NoFile},
   left : SUBSET Users, number : 0..MaxChanges, seen : 0..MaxChanges, first : BOOLEAN]

(* Every variable keeps its type, and no file has both names. *)
TypeOK ==
  /\ mem \in [Users -> Desired]
  /\ live \in [Users -> [there : BOOLEAN, setting : Settings, locked : BOOLEAN]]
  /\ file \in [path : Inodes \cup {NoFile}, tmp : Inodes \cup {NoFile},
              content : [Inodes -> Contents], mixed : SUBSET Inodes]
  /\ file.path = NoFile \/ file.path # file.tmp
  /\ task \in [Handlers -> Task]
  /\ audio = <<>> \/ \E u \in Users, d \in Desired : audio = <<[user |-> u, desired |-> d]>>
  /\ load \in Loads
  /\ run \in [up : BOOLEAN, crashes : 0..MaxCrashes]
  /\ history \in [changes : 0..MaxChanges, acked : [Users -> 0..MaxChanges]]

(* The state file is a state the server can start from, at every moment at
   which the process may stop.  Violated by two saves at once. *)
SavedIsLoadable == file.path # NoFile => file.content[file.path] \notin {NoFile, Torn}

(* That is all that can tear it: a state file that was opened while no other
   save was under way can be started from, whatever requests, failed saves,
   other saves, crashes and restarts come before and after. *)
TornByMixingOnly == file.path # NoFile /\ file.path \notin file.mixed => SavedIsLoadable

(* "Admin CLI updates are persisted as desired server config" (README.md): a
   change that was acknowledged is in the state file, or a later one is, also
   after other requests, failed saves, crashes and restarts - if the state was
   cloned with no older clone still to be saved, which would be saved over it,
   and if the file is not torn. *)
Saved(u) == IF file.path = NoFile THEN 0 ELSE file.content[file.path][u].change
AckedSurvives ==
  (file.path # NoFile => file.content[file.path] # Torn) =>
    \A u \in Users : Saved(u) >= history.acked[u]

(* "Staged and applied when that user ID later connects" (README.md): however
   requests, hellos and audio packets overtook each other, once the changes
   end the session of a client that keeps sending audio packets runs on what is
   desired for its user, for good. *)
Matches(u) ==
  mem[u].there /\ live[u].there =>
    live[u].setting = mem[u].setting /\ live[u].locked = mem[u].locked
StagedEventuallyLive == <>[](\A u \in load.heard : Matches(u))

(* "When a field is false, server-side client control messages for that
   setting are rejected" (README.md): while a user is locked no message of the
   client changes its setting or lifts the lockout.  Violated by a lockout that
   comes between the check of a message and its write, which puts back the whole
   of what was there before. *)
Overrides(h, u) ==
  /\ task[h].op \in ClientOps /\ task[h].step = "write" /\ task'[h].step = "create"
  /\ mem[u].locked
  /\ ~(mem'[u].locked /\ mem'[u].setting = mem[u].setting)
LockedIsRejected == [][\A h \in Handlers, u \in Users : ~Overrides(h, u)]_vars

(* That is all that gets past a lockout: one that was there when the message was
   checked holds, whatever other requests do before the write. *)
LockoutSticks ==
  [][\A h \in Handlers, u \in Users : Overrides(h, u) => mem[u].change > task[h].seen]_vars
=============================================================================
