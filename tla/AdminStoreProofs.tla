--------------------------- MODULE AdminStoreProofs ---------------------------
(***************************************************************************)
(* Proofs about AdminStore for any users, settings, requests handled at once,    *)
(* failures of the disk and crashes: what tears the state file, what keeps an      *)
(* acknowledged change in it, and what gets past a lockout.                      *)
(***************************************************************************)
EXTENDS AdminStore, FiniteSetTheorems, TLAPS

-----------------------------------------------------------------------------
(* The invariant. *)

HandsOn == {"fill", "rename"}     \* the handler has opened the temporary file
Session == [there : BOOLEAN, setting : Settings, locked : BOOLEAN]
HelloSteps == {"resolve", "desired", "session", "advertise"}
States == [Users -> Desired]

(* How far a handler can be with what. *)
TaskRight(t, up, changes) ==
  /\ t.step # "idle" => up /\ t.user \in Users /\ t.op \in AllOps
  /\ t.op = "hello" => t.number = 0 /\ t.step \notin {"check", "baseline", "write"}
  /\ t.step \in HelloSteps => t.op = "hello"
  /\ t.inode # NoFile <=> t.step \in HandsOn
  /\ t.seen <= changes /\ t.number <= changes

(* Nobody has a change that has not been made yet. *)
Within(state) == \A u \in Users : state[u].change <= history.changes
Bounded ==
  /\ Within(mem)
  /\ \A h \in Handlers : Within(task[h].snapshot)
  /\ \A i \in Inodes : file.content[i] \in States => Within(file.content[i])

(* The two names are of two files, and there is something to each. *)
FileRight(f) ==
  /\ f \in [path : Inodes \cup {NoFile}, tmp : Inodes \cup {NoFile},
           content : [Inodes -> Contents], mixed : SUBSET Inodes]
  /\ f.path # NoFile => f.path # f.tmp /\ f.content[f.path] # NoFile
  /\ f.tmp # NoFile => f.content[f.tmp] # NoFile

Types == TypeOK /\ FileRight(file) /\ \A h \in Handlers : TaskRight(task[h], run.up, history.changes)

(* Who writes a file that is not mixed writes it alone, from its creation to its
   renaming; the state file is written by nobody unless it is mixed. *)
Unmixed ==
  /\ file.path # NoFile /\ file.path \notin file.mixed => file.content[file.path] # Torn
  /\ \A h \in Handlers :
       task[h].step \in HandsOn /\ task[h].inode = file.path => file.path \in file.mixed
  /\ \A h \in Handlers :
       file.tmp # NoFile /\ file.tmp \notin file.mixed /\ task[h].step \in HandsOn =>
         /\ task[h].inode = file.tmp /\ Alone(h, HandsOn)
         /\ file.content[file.tmp] = Torn <=> task[h].step = "fill"

(* The changes that a state must have: what was acknowledged, and what is going to
   be by handlers as far as `steps`. *)
After == {"apply", "reply"}
Since == Saving \cup After
Covers(state, steps, tasks, acked) ==
  \A u \in Users :
    /\ acked[u] <= state[u].change
    /\ \A h \in Handlers :
         tasks[h].first /\ tasks[h].step \in steps /\ u \in Written(tasks[h]) =>
           tasks[h].number <= state[u].change
CoversAll(state) == Covers(state, Since, task, history.acked)

OnDisk == IF file.path = NoFile THEN Empty ELSE file.content[file.path]

(* A clone that is still to be saved has all of them, since a change is going to be
   acknowledged only if it was made with no clone to be saved; what is in the temporary
   file of such a save has them too. *)
Durable ==
  /\ run.up => CoversAll(mem)
  /\ \A h \in Handlers : task[h].step \in Saving => CoversAll(task[h].snapshot)
  /\ OnDisk # Torn => Covers(OnDisk, After, task, history.acked)
  /\ \A h \in Handlers :
       task[h].step \in HandsOn /\ file.tmp # NoFile /\ file.content[file.tmp] # Torn =>
         CoversAll(file.content[file.tmp])

(* A lockout that is on belongs to a desired client, wherever the state is kept. *)
LockedAreThere(state) == \A u \in Users : state[u].locked => state[u].there

(* What the check of a message has seen is what its write replaces, unless the user's
   desired client was written since. *)
LockoutHeeded(t) ==
  t.op \in ClientOps /\ mem[t.user].change <= t.seen /\ mem[t.user].locked =>
    /\ t.op = "talk_mode" => t.step \notin {"baseline", "write"}
    /\ t.step = "write" => t.baseline.locked /\ t.setting = mem[t.user].setting

LockInv ==
  /\ LockedAreThere(mem)
  /\ \A h \in Handlers : LockedAreThere(task[h].snapshot)
  /\ \A i \in Inodes : file.content[i] \in States => LockedAreThere(file.content[i])
  /\ \A h \in Handlers : LockoutHeeded(task[h])

Inv == Types /\ Bounded /\ Unmixed /\ Durable

(* What the parts of a task and of the memory are. *)
LEMMA NothingTypes ==
  /\ Nothing \in Desired /\ Nothing.change = 0 /\ Nothing.locked = FALSE
  /\ Empty \in States /\ \A u \in Users : Empty[u] = Nothing
  /\ IdleTask \in Task /\ IdleTask.step = "idle" /\ IdleTask.inode = NoFile /\ IdleTask.op = "none"
  /\ IdleTask.number = 0 /\ IdleTask.seen = 0 /\ IdleTask.snapshot = Empty /\ IdleTask.first = FALSE
<1>1. Nothing \in Desired /\ Nothing.change = 0 /\ Nothing.locked = FALSE
  BY StoreAssumption DEF Nothing, Desired
<1>2. Empty \in States /\ \A u \in Users : Empty[u] = Nothing
  BY <1>1 DEF Empty, States
<1>3. /\ IdleTask.step = "idle" /\ IdleTask.inode = NoFile /\ IdleTask.op = "none"
      /\ IdleTask.number = 0 /\ IdleTask.seen = 0 /\ IdleTask.snapshot = Empty /\ IdleTask.first = FALSE
  BY DEF IdleTask
<1>4. 0 \in 0..MaxChanges /\ "none" \in AllOps \cup {"none"} /\ "idle" \in Steps
  BY StoreAssumption DEF Steps
<1>5. IdleTask \in Task
  BY <1>1, <1>2, <1>4, StoreAssumption DEF IdleTask, Task, States
<1> QED BY <1>1, <1>2, <1>3, <1>5

LEMMA Typed ==
  ASSUME Types
  PROVE  /\ mem \in States /\ live \in [Users -> Session] /\ load \in Loads
         /\ task \in [Handlers -> Task]
         /\ \A h \in Handlers : task[h] \in Task /\ TaskRight(task[h], run.up, history.changes)
         /\ \A h \in Handlers : task[h].user \in Users \cup {NoFile} /\ task[h].setting \in Settings
              /\ task[h].baseline \in Desired /\ task[h].snapshot \in States
              /\ task[h].inode \in Inodes \cup {NoFile} /\ task[h].left \in SUBSET Users
              /\ task[h].number \in 0..MaxChanges /\ task[h].seen \in 0..MaxChanges
              /\ task[h].first \in BOOLEAN /\ task[h].step \in Steps
         /\ FileRight(file)
         /\ run \in [up : BOOLEAN, crashes : 0..MaxCrashes]
         /\ history \in [changes : 0..MaxChanges, acked : [Users -> 0..MaxChanges]]
         /\ history.changes \in 0..MaxChanges /\ history.acked \in [Users -> 0..MaxChanges]
<1>1. \A h \in Handlers : task[h] \in Task
  BY DEF Types, TypeOK
<1>2. \A h \in Handlers : task[h].user \in Users \cup {NoFile} /\ task[h].setting \in Settings
              /\ task[h].baseline \in Desired /\ task[h].snapshot \in States
              /\ task[h].inode \in Inodes \cup {NoFile} /\ task[h].left \in SUBSET Users
              /\ task[h].number \in 0..MaxChanges /\ task[h].seen \in 0..MaxChanges
              /\ task[h].first \in BOOLEAN /\ task[h].step \in Steps
  BY <1>1 DEF Task, States
<1> QED BY <1>1, <1>2 DEF Types, TypeOK, States, Session

LEMMA TaskType == ASSUME Types, NEW h \in Handlers PROVE task[h] \in Task
BY DEF Types, TypeOK

LEMMA IdleIsRight == ASSUME Types PROVE TaskRight(IdleTask, run.up, history.changes)
BY Typed, NothingTypes, StoreAssumption DEF TaskRight, HelloSteps, HandsOn

(* A step of one handler keeps the types if what it leaves has them. *)
LEMMA TypesStep ==
  ASSUME NEW h \in Handlers, Types, NEW k \in Task, TaskRight(k, run'.up, history'.changes),
         task' = [task EXCEPT ![h] = k], run' = run, load' = load, audio' = audio,
         mem' \in States, live' \in [Users -> Session], FileRight(file'),
         history' \in [changes : 0..MaxChanges, acked : [Users -> 0..MaxChanges]],
         history.changes <= history'.changes
  PROVE  Types' /\ task'[h] = k /\ (\A g \in Handlers \ {h} : task'[g] = task[g])
<1>1. task' \in [Handlers -> Task] /\ task'[h] = k /\ \A g \in Handlers \ {h} : task'[g] = task[g]
  BY Typed
<1>2. ASSUME NEW g \in Handlers PROVE TaskRight(task'[g], run'.up, history'.changes)
  <2>1. CASE g = h
    BY <1>1, <2>1 DEF TaskRight
  <2>2. CASE g # h
    <3>1. task'[g] = task[g] /\ TaskRight(task[g], run.up, history.changes) /\ task[g].seen \in 0..MaxChanges
          /\ task[g].number \in 0..MaxChanges /\ history.changes \in Nat /\ history'.changes \in Nat
      BY <1>1, <2>2, Typed, StoreAssumption
    <3>2. task[g].seen <= history'.changes /\ task[g].number <= history'.changes
      BY <3>1, StoreAssumption DEF TaskRight
    <3> QED BY <3>1, <3>2 DEF TaskRight
  <2> QED BY <2>1, <2>2
<1>3. TypeOK'
  BY <1>1, Typed DEF Types, TypeOK, States, Session, FileRight
<1> QED BY <1>1, <1>2, <1>3 DEF Types

-----------------------------------------------------------------------------
(* What the steps do, as far as the invariant is concerned. *)

OthersKept(h) == \A g \in Handlers \ {h} : task'[g] = task[g]

(* A step of a request that saves nothing yet, or gives up. *)
Quiet(h) ==
  /\ UNCHANGED <<mem, file, run, history>> /\ OthersKept(h)
  /\ task[h].step \notin Saving /\ task'[h].step \notin Saving
  /\ task'[h].step \in After =>
       /\ task[h].step = "apply"
       /\ task'[h].first = task[h].first /\ task'[h].number = task[h].number
       /\ Written(task'[h]) = Written(task[h])
  /\ task'[h].snapshot \in {task[h].snapshot, Empty}

LEMMA FilledSession ==
  ASSUME Types, NEW u \in Users, NEW d \in Desired,
         live' = [live EXCEPT ![u] = IF d.there THEN Applied(d, u) ELSE [@ EXCEPT !.there = TRUE]]
  PROVE  live' \in [Users -> Session]
<1> DEFINE s == IF d.there THEN Applied(d, u) ELSE [live[u] EXCEPT !.there = TRUE]
<1>1. live \in [Users -> Session] /\ live[u] \in Session
  BY Typed
<1>2. s \in Session
  BY <1>1 DEF Applied, Desired, Session
<1>3. live' = [live EXCEPT ![u] = s]
  OBVIOUS
<1> HIDE DEF s
<1> QED BY <1>1, <1>2, <1>3

LEMMA BaselineType ==
  ASSUME Types, NEW u \in Users
  PROVE  Baseline(u) \in Desired
<1>1. mem[u] \in Desired /\ live[u] \in Session /\ 0 \in 0..MaxChanges
  BY Typed, StoreAssumption DEF States
<1> QED BY <1>1 DEF Baseline, Desired, Session

(* A task that goes on to another step with no hands on a file. *)
LEMMA QuietStep ==
  ASSUME NEW h \in Handlers, Types, NEW k \in Task,
         task' = [task EXCEPT ![h] = k], UNCHANGED <<mem, file, run, history, audio, load>>,
         live' \in [Users -> Session],
         TaskRight(k, run.up, history.changes), task[h].step \notin Saving, k.step \notin Saving,
         k.step \in After =>
           task[h].step = "apply" /\ k.first = task[h].first /\ k.number = task[h].number
             /\ Written(k) = Written(task[h]),
         k.snapshot \in {task[h].snapshot, Empty}
  PROVE  Types' /\ Quiet(h)
<1>1. TaskRight(k, run'.up, history'.changes)
  BY DEF TaskRight
<1>2. /\ history' \in [changes : 0..MaxChanges, acked : [Users -> 0..MaxChanges]]
      /\ history.changes <= history'.changes /\ FileRight(file') /\ mem' \in States
  BY Typed, StoreAssumption
<1>3. Types' /\ task'[h] = k /\ (\A g \in Handlers \ {h} : task'[g] = task[g])
  BY <1>1, <1>2, TypesStep
<1> QED BY <1>3 DEF Quiet, OthersKept

LEMMA FinishIsQuiet ==
  ASSUME NEW h \in Handlers, Types, Finish(h), task[h].step \notin Saving,
         UNCHANGED <<mem, live, file, run, history, audio, load>>
  PROVE  Types' /\ Quiet(h)
<1>1. task' = [task EXCEPT ![h] = IdleTask] /\ live' \in [Users -> Session]
  BY Typed DEF Finish
<1>2. IdleTask.step \notin Saving /\ IdleTask.step \notin After
  BY NothingTypes DEF Saving, After
<1> QED BY <1>1, <1>2, IdleIsRight, NothingTypes, QuietStep

LEMMA RequestIsQuiet ==
  ASSUME NEW h \in Handlers, Types, NEW op \in AllOps, NEW u \in Users, NEW v \in Settings,
         Request(h, op, u, v)
  PROVE  Types' /\ Quiet(h)
<1> DEFINE k == [IdleTask EXCEPT !.op = op, !.step = FirstStep(op), !.user = u, !.setting = v]
<1>1. /\ run.up /\ task[h].step = "idle" /\ task' = [task EXCEPT ![h] = k]
      /\ UNCHANGED <<mem, live, file, audio, load, run, history>>
  BY DEF Request, At
<1>2. op \in {"config", "patch_setting", "patch_lockout", "talk_mode", "put", "delete", "preset", "hello"}
  BY DEF AllOps, ClientOps, AdminOps
<1>3. /\ FirstStep(op) \in {"baseline", "check", "write", "resolve"}
      /\ op = "hello" <=> FirstStep(op) = "resolve"
  BY <1>2 DEF FirstStep
<1>4. k \in Task
  BY <1>3, NothingTypes, ZenonT(60) DEF Task, Steps, IdleTask
<1>5. /\ k.op = op /\ k.step = FirstStep(op) /\ k.user = u /\ k.inode = NoFile
      /\ k.number = 0 /\ k.seen = 0 /\ k.snapshot = Empty
  BY DEF IdleTask
<1> HIDE DEF k
<1>6. TaskRight(k, run.up, history.changes)
  BY <1>1, <1>3, <1>5, Typed, StoreAssumption DEF TaskRight, HelloSteps, HandsOn
<1>7. task[h].step \notin Saving /\ k.step \notin Saving /\ k.step \notin After
  BY <1>1, <1>3, <1>5 DEF Saving, After
<1>8. live' \in [Users -> Session]
  BY <1>1, Typed
<1> QED BY <1>1, <1>4, <1>5, <1>6, <1>7, <1>8, QuietStep

LEMMA CheckIsQuiet ==
  ASSUME NEW h \in Handlers, Types, Check(h)
  PROVE  Types' /\ Quiet(h)
<1> DEFINE n == history.changes
           k == [task[h] EXCEPT !.step = "baseline", !.seen = n]
<1>1. task[h].step = "check" /\ UNCHANGED <<mem, live, file, audio, load, run, history>>
  BY DEF Check, At
<1>2. task[h].step \notin Saving
  BY <1>1 DEF Saving
<1>3. CASE Finish(h)
  BY <1>1, <1>2, <1>3, FinishIsQuiet
<1>4. CASE task' = [task EXCEPT ![h].step = "baseline", ![h].seen = n]
  <2>1. task' = [task EXCEPT ![h] = k]
    BY <1>4, Typed DEF Task
  <2>2. n \in 0..MaxChanges /\ "baseline" \in Steps
    BY Typed DEF Steps
  <2> HIDE DEF n
  <2>3. /\ k \in Task /\ k.step = "baseline" /\ k.op = task[h].op /\ k.user = task[h].user
        /\ k.inode = task[h].inode /\ k.number = task[h].number /\ k.seen = n
        /\ k.snapshot = task[h].snapshot
    BY <2>2, TaskType, ZenonT(60) DEF Task
  <2> HIDE DEF k
  <2>4. n <= history.changes
    BY Typed, StoreAssumption DEF n
  <2>5. TaskRight(k, run.up, history.changes)
    BY <1>1, <2>3, <2>4, Typed DEF TaskRight, HelloSteps, HandsOn
  <2>6. k.step \notin Saving /\ k.step \notin After
    BY <2>3 DEF Saving, After
  <2>7. live' \in [Users -> Session]
    BY <1>1, Typed
  <2> QED BY <1>1, <1>2, <2>1, <2>3, <2>5, <2>6, <2>7, QuietStep
<1> QED BY <1>3, <1>4 DEF Check

LEMMA ReadBaselineIsQuiet ==
  ASSUME NEW h \in Handlers, Types, ReadBaseline(h)
  PROVE  Types' /\ Quiet(h)
<1> DEFINE b == Baseline(task[h].user)
           n == IF task[h].op = "config" THEN history.changes ELSE task[h].seen
           k == [task[h] EXCEPT !.step = "write", !.baseline = b, !.seen = n]
<1>1. task[h].step = "baseline" /\ UNCHANGED <<mem, live, file, audio, load, run, history>>
  BY DEF ReadBaseline, At
<1>2. task[h].step \notin Saving
  BY <1>1 DEF Saving
<1>3. CASE Finish(h)
  BY <1>1, <1>2, <1>3, FinishIsQuiet
<1>4. CASE task' = [task EXCEPT ![h].step = "write", ![h].baseline = b, ![h].seen = n]
  <2>1. task' = [task EXCEPT ![h] = k]
    <3> HIDE DEF b, n
    <3> QED BY <1>4, Typed DEF Task
  <2>2. b \in Desired /\ n \in 0..MaxChanges /\ n <= history.changes /\ "write" \in Steps
    <3>1. task[h].user \in Users
      BY <1>1, Typed DEF TaskRight
    <3> QED BY <3>1, BaselineType, Typed, StoreAssumption DEF Steps, TaskRight
  <2> HIDE DEF b, n
  <2>3. /\ k \in Task /\ k.step = "write" /\ k.op = task[h].op /\ k.user = task[h].user
        /\ k.inode = task[h].inode /\ k.number = task[h].number /\ k.seen = n
        /\ k.snapshot = task[h].snapshot
    BY <2>2, TaskType, ZenonT(60) DEF Task
  <2> HIDE DEF k
  <2>4. TaskRight(k, run.up, history.changes)
    BY <1>1, <2>2, <2>3, Typed DEF TaskRight, HelloSteps, HandsOn
  <2>5. k.step \notin Saving /\ k.step \notin After
    BY <2>3 DEF Saving, After
  <2>6. live' \in [Users -> Session]
    BY <1>1, Typed
  <2> QED BY <1>1, <1>2, <2>1, <2>3, <2>4, <2>5, <2>6, QuietStep
<1> QED BY <1>3, <1>4 DEF ReadBaseline

LEMMA ApplyIsQuiet ==
  ASSUME NEW h \in Handlers, Types, Apply(h)
  PROVE  Types' /\ Quiet(h)
<1>1. PICK u \in task[h].left :
         /\ live' = [live EXCEPT ![u] = Applied(task[h].snapshot[u], u)]
         /\ task' = [task EXCEPT ![h].left = @ \ {u},
                                 ![h].step = IF task[h].left = {u} THEN "reply" ELSE @]
  BY DEF Apply
<1>2. task[h].step = "apply" /\ UNCHANGED <<mem, file, audio, load, run, history>>
  BY DEF Apply, At
<1>3. u \in Users /\ task[h].snapshot[u] \in Desired
  BY Typed DEF States
<1>4. live' \in [Users -> Session]
  <2>1. Applied(task[h].snapshot[u], u) \in Session
    BY <1>3 DEF Applied, Desired, Session
  <2> QED BY <1>1, <2>1, Typed
<1> DEFINE step == IF task[h].left = {u} THEN "reply" ELSE task[h].step
           k == [task[h] EXCEPT !.left = @ \ {u}, !.step = step]
<1>5. step \in {"apply", "reply"} /\ step \in Steps
  BY <1>2 DEF Steps
<1>6. task' = [task EXCEPT ![h] = k]
  BY <1>1, Typed DEF Task
<1> HIDE DEF step
<1>7. /\ k \in Task /\ k.step = step /\ k.op = task[h].op /\ k.user = task[h].user
      /\ k.inode = task[h].inode /\ k.number = task[h].number /\ k.seen = task[h].seen
      /\ k.snapshot = task[h].snapshot /\ k.first = task[h].first
  BY <1>5, TaskType, ZenonT(60) DEF Task
<1> HIDE DEF k
<1>8. TaskRight(k, run.up, history.changes)
  BY <1>2, <1>5, <1>7, Typed DEF TaskRight, HelloSteps, HandsOn
<1>9. task[h].step \notin Saving /\ k.step \notin Saving /\ Written(k) = Written(task[h])
  BY <1>2, <1>5, <1>7 DEF Saving, Written
<1> QED BY <1>2, <1>4, <1>6, <1>7, <1>8, <1>9, QuietStep

LEMMA HelloIsQuiet ==
  ASSUME NEW h \in Handlers, Types, HelloDesired(h) \/ HelloSession(h)
  PROVE  Types' /\ Quiet(h)
<1>1. PICK step \in {"session", "advertise"}, b \in Desired :
        task' = [task EXCEPT ![h].step = step, ![h].baseline = b]
  <2>1. CASE HelloDesired(h)
    <3>1. mem[task[h].user] \in Desired
      BY <2>1, Typed DEF HelloDesired, At, TaskRight, States
    <3> QED BY <2>1, <3>1 DEF HelloDesired
  <2>2. CASE HelloSession(h)
    <3>1. task' = [task EXCEPT ![h].step = "advertise"] /\ task[h].baseline \in Desired
      BY <2>2, Typed DEF HelloSession, Goto
    <3>2. [task EXCEPT ![h].step = "advertise", ![h].baseline = task[h].baseline] = [task EXCEPT ![h].step = "advertise"]
      BY Typed DEF Task
    <3> QED BY <3>1, <3>2
  <2> QED BY <2>1, <2>2
<1>2. task[h].step \in {"desired", "session"} /\ UNCHANGED <<mem, file, audio, load, run, history>>
  BY DEF HelloDesired, HelloSession, At
<1>3. live' \in [Users -> Session]
  <2>1. CASE HelloDesired(h)
    BY <2>1, Typed DEF HelloDesired
  <2>2. CASE HelloSession(h)
    <3>1. task[h].user \in Users /\ task[h].baseline \in Desired
      BY <1>2, Typed DEF TaskRight
    <3> QED BY <2>2, <3>1, FilledSession DEF HelloSession
  <2> QED BY <2>1, <2>2
<1> DEFINE k == [task[h] EXCEPT !.step = step, !.baseline = b]
<1>4. task' = [task EXCEPT ![h] = k]
  BY <1>1, Typed DEF Task
<1>5. step \in Steps
  BY DEF Steps
<1>6. /\ k \in Task /\ k.step = step /\ k.op = task[h].op /\ k.user = task[h].user
      /\ k.inode = task[h].inode /\ k.number = task[h].number /\ k.seen = task[h].seen
      /\ k.snapshot = task[h].snapshot
  BY <1>5, TaskType, ZenonT(60) DEF Task
<1> HIDE DEF k
<1>7. TaskRight(k, run.up, history.changes)
  BY <1>2, <1>6, Typed DEF TaskRight, HelloSteps, HandsOn
<1>8. task[h].step \notin Saving /\ k.step \notin Saving /\ k.step \notin After
  BY <1>2, <1>6 DEF Saving, After
<1> QED BY <1>2, <1>3, <1>4, <1>6, <1>7, <1>8, QuietStep

-----------------------------------------------------------------------------
(* Hello makes a clone of the memory and changes nothing there. *)
Clones(h) ==
  /\ UNCHANGED <<mem, file, run, history>> /\ OthersKept(h)
  /\ run.up /\ task[h].step \notin Saving /\ task[h].op = "hello"
  /\ task'[h].op = "hello" /\ task'[h].step = "create" /\ task'[h].number = 0
  /\ task'[h].snapshot = mem

LEMMA HelloClones ==
  ASSUME NEW h \in Handlers, Types, Resolve(h) \/ Advertise(h)
  PROVE  Types' /\ Clones(h)
<1> DEFINE first == Alone(h, Saving)
<1>1. /\ run.up /\ task[h].step \in {"resolve", "advertise"}
      /\ UNCHANGED <<mem, live, file, audio, load, run, history>>
  BY DEF Resolve, Advertise, At
<1>2. /\ task[h].op = "hello" /\ task[h].number = 0 /\ task[h].user \in Users /\ task[h].inode = NoFile
      /\ task[h].seen <= history.changes
  BY <1>1, Typed DEF TaskRight, HelloSteps, HandsOn
<1>3. PICK left \in SUBSET Users :
         task' = [task EXCEPT ![h].step = "create", ![h].snapshot = mem, ![h].left = left, ![h].first = first]
  <2>1. CASE Resolve(h)
    <3>1. {task[h].user} \in SUBSET Users
      BY <1>2
    <3> QED BY <2>1, <3>1 DEF Resolve
  <2>2. CASE Advertise(h)
    BY <2>2 DEF Advertise
  <2> QED BY <2>1, <2>2
<1> DEFINE k == [task[h] EXCEPT !.step = "create", !.snapshot = mem, !.left = left, !.first = first]
<1>4. task' = [task EXCEPT ![h] = k]
  <2> HIDE DEF first
  <2> QED BY <1>3, TaskType DEF Task
<1>5. first \in BOOLEAN /\ mem \in [Users -> Desired] /\ "create" \in Steps
  BY Typed DEF States, Steps, Alone
<1> HIDE DEF first
<1>6. /\ k \in Task /\ k.step = "create" /\ k.op = task[h].op /\ k.user = task[h].user
      /\ k.inode = task[h].inode /\ k.number = task[h].number /\ k.seen = task[h].seen
      /\ k.snapshot = mem
  BY <1>5, TaskType, ZenonT(60) DEF Task
<1> HIDE DEF k
<1>7. TaskRight(k, run'.up, history'.changes)
  BY <1>1, <1>2, <1>6, Typed DEF TaskRight, HelloSteps, HandsOn
<1>8. /\ history' \in [changes : 0..MaxChanges, acked : [Users -> 0..MaxChanges]]
      /\ history.changes <= history'.changes /\ FileRight(file') /\ mem' \in States /\ live' \in [Users -> Session]
  BY <1>1, Typed, StoreAssumption
<1>9. Types' /\ task'[h] = k /\ (\A g \in Handlers \ {h} : task'[g] = task[g])
  BY <1>1, <1>4, <1>6, <1>7, <1>8, TypesStep
<1>10. task[h].step \notin Saving
  BY <1>1 DEF Saving
<1> QED BY <1>1, <1>2, <1>6, <1>9, <1>10 DEF Clones, OthersKept

(* A write makes change n in the memory and a clone with it. *)
Writes(h, n) ==
  /\ UNCHANGED <<file, run>> /\ OthersKept(h)
  /\ run.up /\ task[h].step = "write" /\ n = history.changes + 1
  /\ history'.changes = n /\ history'.acked = history.acked
  /\ \E d \in Result(task[h], task[h].user) :
       /\ d \in Desired /\ d.change = n /\ (d.locked => d.there)
       /\ \A u \in Users : mem'[u] = IF u \in Written(task[h]) THEN d ELSE mem[u]
  /\ task'[h].op = task[h].op /\ Written(task'[h]) = Written(task[h])
  /\ task'[h].step = "create" /\ task'[h].number = n
  /\ task'[h].snapshot = mem' /\ (task'[h].first <=> Alone(h, Saving))

LEMMA WriteWrites ==
  ASSUME NEW h \in Handlers, Types, Write(h)
  PROVE  Types' /\ Writes(h, history.changes + 1)
<1> DEFINE t == task[h]
           n == history.changes + 1
           first == Alone(h, Saving)
           left == IF t.op = "delete" THEN {} ELSE Written(t)
<1>1. /\ run.up /\ t.step = "write" /\ history.changes < MaxChanges
      /\ UNCHANGED <<live, file, audio, load, run>>
  BY DEF Write, At
<1>2. PICK d \in Result(t, t.user) :
         /\ mem' = [u \in Users |-> IF u \in Written(t) THEN d ELSE mem[u]]
         /\ task' = [task EXCEPT
              ![h].step = "create", ![h].snapshot = mem', ![h].number = d.change, ![h].first = first,
              ![h].left = left]
  BY DEF Write, Cloned
<1>3. /\ t \in Task /\ TaskRight(t, run.up, history.changes) /\ t.user \in Users /\ t.op \in AllOps /\ t.op # "hello"
      /\ t.inode = NoFile
  BY <1>1, Typed DEF TaskRight, HandsOn
<1>4. n \in 0..MaxChanges /\ n \in Nat /\ history.changes < n /\ history.changes \in Nat
  BY <1>1, Typed, StoreAssumption
<1>5. d \in Desired /\ d.change = n /\ (d.locked => d.there)
  <2>1. t.op \in {"config", "talk_mode", "patch_setting", "patch_lockout", "put", "preset", "delete"}
    BY <1>3 DEF AllOps, ClientOps, AdminOps
  <2>2. t.setting \in Settings /\ t.baseline.setting \in Settings /\ t.baseline.locked \in BOOLEAN
    BY Typed DEF Desired
  <2>3. d \in Result(t, t.user)
    BY <1>2
  <2> HIDE DEF t
  <2>4. CASE t.op = "delete"
    <3>1. d = [Nothing EXCEPT !.change = n]
      BY <2>3, <2>4 DEF Result
    <3>2. d.locked = FALSE
      BY <3>1 DEF Nothing
    <3> QED BY <3>1, <3>2, <1>4, NothingTypes DEF Desired
  <2>5. CASE t.op # "delete"
    <3>1. \E v \in Settings, locked \in BOOLEAN :
            d = [there |-> TRUE, setting |-> v, locked |-> locked, change |-> n]
      BY <2>1, <2>2, <2>3, <2>5 DEF Result
    <3> QED BY <3>1, <1>4 DEF Desired
  <2> QED BY <2>4, <2>5
<1>6. /\ mem' \in [Users -> Desired]
      /\ \A u \in Users : mem'[u] = IF u \in Written(t) THEN d ELSE mem[u]
  BY <1>2, <1>5, Typed DEF States
<1>7. /\ history' \in [changes : 0..MaxChanges, acked : [Users -> 0..MaxChanges]]
      /\ history'.changes = n /\ history'.acked = history.acked /\ history.changes <= history'.changes
  <2>1. history' = [history EXCEPT !.changes = n]
    BY DEF Write
  <2> HIDE DEF n
  <2> QED BY <1>4, <2>1, Typed
<1> DEFINE k == [t EXCEPT !.step = "create", !.snapshot = mem', !.number = d.change, !.first = first, !.left = left]
<1>8. left \in SUBSET Users /\ first \in BOOLEAN /\ "create" \in Steps
  BY <1>3 DEF Written, Steps, Alone
<1>9. task' = [task EXCEPT ![h] = k]
  <2> HIDE DEF first, left
  <2> QED BY <1>2, TaskType DEF Task
<1> HIDE DEF left, first
<1>10. k \in Task
  BY <1>3, <1>4, <1>5, <1>6, <1>8 DEF Task
<1>11. /\ k.step = "create" /\ k.op = t.op /\ k.user = t.user /\ k.inode = t.inode
       /\ k.number = n /\ k.snapshot = mem' /\ k.seen = t.seen /\ (k.first <=> first)
  BY <1>3, <1>5 DEF Task
<1> HIDE DEF k
<1>12. TaskRight(k, run'.up, history'.changes)
  <2>1. t.seen \in Nat /\ t.seen <= history.changes
    BY Typed, StoreAssumption DEF TaskRight
  <2>2. k.seen <= n /\ k.number <= n
    BY <1>4, <1>11, <2>1
  <2>3. k.seen <= history'.changes /\ k.number <= history'.changes
    BY <1>7, <2>2
  <2> QED BY <1>1, <1>3, <1>11, <2>3 DEF TaskRight, HelloSteps, HandsOn
<1>13. mem' \in States /\ live' \in [Users -> Session] /\ FileRight(file')
  BY <1>1, <1>6, Typed DEF States
<1>14. Types' /\ task'[h] = k /\ (\A g \in Handlers \ {h} : task'[g] = task[g])
  BY <1>1, <1>7, <1>9, <1>10, <1>12, <1>13, TypesStep
<1>15. Written(k) = Written(t)
  BY <1>11 DEF Written
<1>16. d \in Result(t, t.user)
  BY <1>2
<1> QED BY <1>1, <1>5, <1>6, <1>7, <1>11, <1>14, <1>15, <1>16 DEF Writes, OthersKept, first

(* The answer acknowledges the change, if its clone was the first to be saved. *)
Replies(h) ==
  /\ UNCHANGED <<mem, file, run>> /\ OthersKept(h)
  /\ task[h].step = "reply" /\ task'[h] = IdleTask
  /\ history'.changes = history.changes
  /\ \A u \in Users : history'.acked[u] =
       IF task[h].first /\ u \in Written(task[h]) /\ task[h].number > history.acked[u]
       THEN task[h].number ELSE history.acked[u]

LEMMA ReplyReplies ==
  ASSUME NEW h \in Handlers, Types, Reply(h)
  PROVE  Types' /\ Replies(h)
<1> DEFINE t == task[h]
           acked == [u \in Users |-> IF t.first /\ u \in Written(t) /\ t.number > history.acked[u]
                                     THEN t.number ELSE history.acked[u]]
<1>1. /\ t.step = "reply" /\ history' = [history EXCEPT !.acked = acked]
      /\ task' = [task EXCEPT ![h] = IdleTask] /\ UNCHANGED <<mem, live, file, audio, load, run>>
  BY DEF Reply, At, Finish
<1>2. t.number \in 0..MaxChanges
  BY Typed
<1>3. history \in [changes : 0..MaxChanges, acked : [Users -> 0..MaxChanges]]
  BY Typed
<1>4. acked \in [Users -> 0..MaxChanges]
  BY <1>2, <1>3
<1>5. /\ history' \in [changes : 0..MaxChanges, acked : [Users -> 0..MaxChanges]]
      /\ history'.acked = acked /\ history'.changes = history.changes
      /\ history.changes <= history'.changes
  <2> HIDE DEF acked
  <2> QED BY <1>1, <1>3, <1>4, StoreAssumption
<1>6. TaskRight(IdleTask, run'.up, history'.changes)
  BY <1>1, <1>5, IdleIsRight DEF TaskRight
<1>7. mem' \in States /\ live' \in [Users -> Session] /\ FileRight(file') /\ IdleTask \in Task
  BY <1>1, Typed, NothingTypes
<1>8. Types' /\ task'[h] = IdleTask /\ (\A g \in Handlers \ {h} : task'[g] = task[g])
  BY <1>1, <1>5, <1>6, <1>7, TypesStep
<1> QED BY <1>1, <1>5, <1>8 DEF Replies, OthersKept

-----------------------------------------------------------------------------
(* The steps of a save. *)

(* However many handlers have a file open, there is another. *)
LEMMA SomeUnused ==
  ASSUME Types, file.tmp = NoFile
  PROVE  \E j \in Inodes : UnusedInode(j)
<1> DEFINE open == {task[g].inode : g \in Handlers}
           used == open \cup {file.path}
           f == [g \in Handlers |-> task[g].inode]
<1>1. IsFiniteSet(open) /\ Cardinality(open) <= Cardinality(Handlers)
  <2>1. f \in Surjection(Handlers, open)
    BY DEF Surjection
  <2> HIDE DEF f, open
  <2> QED BY <2>1, FS_Surjection, StoreAssumption
<1>2. IsFiniteSet(used) /\ Cardinality(used) <= Cardinality(Handlers) + 1
  <2>1. Cardinality(open) \in Nat /\ Cardinality(Handlers) \in Nat
    BY <1>1, FS_CardinalityType, StoreAssumption
  <2> HIDE DEF open
  <2> QED BY <1>1, <2>1, FS_AddElement
<1>3. IsFiniteSet(Inodes) /\ Cardinality(Inodes) = Cardinality(Handlers) + 2
  <2>1. Cardinality(Handlers) \in Nat
    BY FS_CardinalityType, StoreAssumption
  <2> QED BY <2>1, FS_Interval DEF Inodes
<1>4. ~(Inodes \subseteq used)
  <2> HIDE DEF used
  <2>1. SUFFICES ASSUME Inodes \subseteq used PROVE FALSE
    OBVIOUS
  <2>2. Cardinality(Inodes) <= Cardinality(used)
    BY <1>2, <2>1, FS_Subset
  <2>3. Cardinality(Handlers) \in Nat /\ Cardinality(used) \in Nat
    BY <1>2, FS_CardinalityType, StoreAssumption
  <2> QED BY <1>2, <1>3, <2>2, <2>3
<1>5. PICK j \in Inodes : j \notin used
  BY <1>4
<1> QED BY <1>5, FileAssumption DEF UnusedInode

(* The temporary file is opened: file i, empty from now on. *)
Creates(h, i) ==
  /\ UNCHANGED <<mem, run, history>> /\ OthersKept(h)
  /\ run.up /\ task[h].step = "create" /\ task'[h].step = "fill" /\ task'[h].inode = i
  /\ i \in Inodes /\ i # file.path
  /\ file'.path = file.path /\ file'.tmp = i /\ file'.content = [file.content EXCEPT ![i] = Torn]
  /\ file'.mixed = IF Alone(h, HandsOn) THEN file.mixed \ {i} ELSE file.mixed \cup {i}
  /\ task'[h].first = task[h].first /\ task'[h].number = task[h].number
  /\ Written(task'[h]) = Written(task[h]) /\ task'[h].snapshot = task[h].snapshot

LEMMA CreateCreates ==
  ASSUME NEW h \in Handlers, Types, Create(h)
  PROVE  Types' /\ \E i \in Inodes : Creates(h, i)
<1> DEFINE i == IF Target # NoFile THEN Target ELSE CHOOSE j \in Inodes : UnusedInode(j)
           mixed == IF Alone(h, HandsOn) THEN file.mixed \ {i} ELSE file.mixed \cup {i}
           k == [task[h] EXCEPT !.step = "fill", !.inode = i]
<1>1. /\ run.up /\ task[h].step = "create" /\ UNCHANGED <<mem, live, audio, load, run, history>>
      /\ file' = [file EXCEPT !.tmp = i, !.content[i] = Torn, !.mixed = mixed]
      /\ task' = [task EXCEPT ![h].step = "fill", ![h].inode = i]
  BY DEF Create, At, HandsOn
<1>2. i \in Inodes /\ i # file.path
  <2>1. CASE Target # NoFile
    BY <2>1, Typed, FileAssumption DEF Target, FileRight
  <2>2. CASE Target = NoFile
    <3>1. \E j \in Inodes : UnusedInode(j)
      BY <2>2, SomeUnused DEF Target
    <3>2. i \in Inodes /\ UnusedInode(i)
      BY <2>2, <3>1
    <3> QED BY <3>2 DEF UnusedInode
  <2> QED BY <2>1, <2>2
<1>3. mixed \in SUBSET Inodes
  BY <1>2, Typed DEF FileRight
<1>4. task' = [task EXCEPT ![h] = k]
  <2> HIDE DEF i
  <2> QED BY <1>1, TaskType DEF Task
<1> HIDE DEF i
<1>5. /\ k \in Task /\ k.step = "fill" /\ k.op = task[h].op /\ k.user = task[h].user
      /\ k.inode = i /\ k.number = task[h].number /\ k.seen = task[h].seen
      /\ k.snapshot = task[h].snapshot /\ k.first = task[h].first
  <2>1. "fill" \in Steps
    BY DEF Steps
  <2> QED BY <1>2, <2>1, TaskType, ZenonT(60) DEF Task
<1> HIDE DEF k, mixed
<1>6. /\ file'.path = file.path /\ file'.tmp = i /\ file'.content = [file.content EXCEPT ![i] = Torn]
      /\ file'.mixed = mixed
  BY <1>1, <1>3, Typed DEF FileRight
<1>7. FileRight(file')
  <2>1. Torn \in Contents /\ Torn # NoFile /\ i # NoFile
    BY <1>2, FileAssumption DEF Contents
  <2>2. file' \in [path : Inodes \cup {NoFile}, tmp : Inodes \cup {NoFile},
                  content : [Inodes -> Contents], mixed : SUBSET Inodes]
    BY <1>1, <1>2, <1>3, <2>1, Typed DEF FileRight
  <2>3. /\ file'.content[i] = Torn
        /\ file.path # NoFile => file'.content[file.path] = file.content[file.path]
    BY <1>2, <1>6, Typed DEF FileRight
  <2> QED BY <1>2, <1>6, <2>1, <2>2, <2>3, Typed DEF FileRight
<1>8. TaskRight(k, run'.up, history'.changes)
  <2>1. i # NoFile
    BY <1>2, FileAssumption
  <2> QED BY <1>1, <1>5, <2>1, Typed DEF TaskRight, HelloSteps, HandsOn
<1>9. /\ history' \in [changes : 0..MaxChanges, acked : [Users -> 0..MaxChanges]]
      /\ history.changes <= history'.changes /\ mem' \in States /\ live' \in [Users -> Session]
  BY <1>1, Typed, StoreAssumption
<1>10. Types' /\ task'[h] = k /\ (\A g \in Handlers \ {h} : task'[g] = task[g])
  BY <1>1, <1>4, <1>5, <1>7, <1>8, <1>9, TypesStep
<1>11. Written(k) = Written(task[h])
  BY <1>5 DEF Written
<1> QED BY <1>1, <1>2, <1>5, <1>6, <1>10, <1>11 DEF Creates, OthersKept, mixed

(* Something is written to the file that h has open: c, of which nothing is known but
   that it is the clone or torn, and the clone if the file was empty still. *)
Fills(h, c) ==
  /\ UNCHANGED <<mem, run, history>> /\ OthersKept(h)
  /\ task[h].step = "fill" /\ task[h].inode \in Inodes /\ c \in {Torn, task[h].snapshot}
  /\ file'.path = file.path /\ file'.tmp = file.tmp /\ file'.mixed = file.mixed
  /\ file'.content = [file.content EXCEPT ![task[h].inode] = c]
  /\ \/ task'[h] = IdleTask /\ c = Torn
     \/ /\ task'[h].step = "rename" /\ task'[h].inode = task[h].inode
        /\ file.content[task[h].inode] = Torn => c # Torn
        /\ task'[h].first = task[h].first /\ task'[h].number = task[h].number
        /\ Written(task'[h]) = Written(task[h]) /\ task'[h].snapshot = task[h].snapshot

LEMMA FillFills ==
  ASSUME NEW h \in Handlers, Types, Fill(h) \/ FillFails(h)
  PROVE  Types' /\ \E c \in Contents : Fills(h, c)
<1> DEFINE i == task[h].inode
           s == task[h].snapshot
<1>1. run.up /\ task[h].step = "fill" /\ UNCHANGED <<mem, live, audio, load, run, history>>
  BY DEF Fill, FillFails, At
<1>2. i \in Inodes
  BY <1>1, Typed DEF TaskRight, HandsOn
<1>3. s \in States /\ s \in Contents /\ Torn \in Contents /\ s # Torn /\ s # NoFile /\ Torn # NoFile
  BY Typed, FileAssumption DEF Contents, States
<1>4. ASSUME NEW c \in {Torn, s}, file' = [file EXCEPT !.content[i] = c]
      PROVE  /\ file'.path = file.path /\ file'.tmp = file.tmp /\ file'.mixed = file.mixed
             /\ file'.content = [file.content EXCEPT ![i] = c]
             /\ FileRight(file')
  <2> HIDE DEF i, s
  <2>1. /\ file'.path = file.path /\ file'.tmp = file.tmp /\ file'.mixed = file.mixed
        /\ file'.content = [file.content EXCEPT ![i] = c] /\ c \in Contents /\ c # NoFile
    BY <1>3, <1>4, Typed DEF FileRight
  <2>2. file' \in [path : Inodes \cup {NoFile}, tmp : Inodes \cup {NoFile},
                  content : [Inodes -> Contents], mixed : SUBSET Inodes]
    BY <1>2, <1>4, <2>1, Typed DEF FileRight
  <2>3. \A j \in Inodes : file'.content[j] = file.content[j] \/ file'.content[j] = c
    BY <2>1, Typed DEF FileRight
  <2> QED BY <2>1, <2>2, <2>3, Typed DEF FileRight
<1>5. /\ history' \in [changes : 0..MaxChanges, acked : [Users -> 0..MaxChanges]]
      /\ history.changes <= history'.changes /\ mem' \in States /\ live' \in [Users -> Session]
  BY <1>1, Typed, StoreAssumption
<1>6. CASE Fill(h)
  <2> DEFINE k == [task[h] EXCEPT !.step = "rename"]
  <2>1. PICK c \in Filled(file.content[i], s) : file' = [file EXCEPT !.content[i] = c]
    BY <1>6 DEF Fill
  <2>2. c \in {Torn, s} /\ (file.content[i] = Torn => c # Torn)
    BY <1>3, <2>1 DEF Filled
  <2>3. task' = [task EXCEPT ![h] = k]
    BY <1>6 DEF Fill, Goto
  <2>4. /\ k \in Task /\ k.step = "rename" /\ k.op = task[h].op /\ k.user = task[h].user
        /\ k.number = task[h].number /\ k.snapshot = s /\ k.inode = i
        /\ k.first = task[h].first /\ k.seen = task[h].seen
    <3>1. "rename" \in Steps
      BY DEF Steps
    <3> QED BY <3>1, TaskType, ZenonT(60) DEF Task
  <2> HIDE DEF k
  <2>5. TaskRight(k, run'.up, history'.changes)
    BY <1>1, <2>4, Typed DEF TaskRight, HelloSteps, HandsOn
  <2>6. Types' /\ task'[h] = k /\ (\A g \in Handlers \ {h} : task'[g] = task[g])
    <3>1. FileRight(file')
      BY <1>4, <2>1, <2>2
    <3> QED BY <1>1, <1>5, <2>3, <2>4, <2>5, <3>1, TypesStep
  <2>7. Written(k) = Written(task[h])
    BY <2>4 DEF Written
  <2>8. Fills(h, c)
    BY <1>1, <1>2, <1>4, <2>1, <2>2, <2>4, <2>6, <2>7 DEF Fills, OthersKept
  <2> QED BY <1>3, <2>2, <2>6, <2>8
<1>7. CASE FillFails(h)
  <2>1. file' = [file EXCEPT !.content[i] = Torn] /\ task' = [task EXCEPT ![h] = IdleTask]
    BY <1>7 DEF FillFails, Finish
  <2>2. TaskRight(IdleTask, run'.up, history'.changes) /\ IdleTask \in Task
    BY <1>1, IdleIsRight, NothingTypes DEF TaskRight
  <2>3. Types' /\ task'[h] = IdleTask /\ (\A g \in Handlers \ {h} : task'[g] = task[g])
    <3>1. FileRight(file')
      BY <1>4, <2>1
    <3> QED BY <1>1, <1>5, <2>1, <2>2, <3>1, TypesStep
  <2>4. Fills(h, Torn)
    BY <1>1, <1>2, <1>4, <2>1, <2>3 DEF Fills, OthersKept
  <2> QED BY <1>3, <2>3, <2>4
<1> QED BY <1>6, <1>7

(* The temporary file becomes the state file, whoever wrote what to it. *)
Renames(h) ==
  /\ UNCHANGED <<mem, run, history>> /\ OthersKept(h)
  /\ task[h].step = "rename" /\ task'[h].step \notin Saving
  /\ file.tmp = NoFile => file' = file /\ task'[h] = IdleTask
  /\ file.tmp # NoFile =>
       /\ file'.path = file.tmp /\ file'.tmp = NoFile /\ file'.mixed = file.mixed
       /\ file'.content = [i \in Inodes |-> IF i = file.path THEN NoFile ELSE file.content[i]]
  /\ task'[h].step \in After =>
       /\ task'[h].first = task[h].first /\ task'[h].number = task[h].number
       /\ Written(task'[h]) = Written(task[h])
  /\ task'[h].snapshot \in {task[h].snapshot, Empty}

LEMMA RenameRenames ==
  ASSUME NEW h \in Handlers, Types, Rename(h)
  PROVE  Types' /\ Renames(h)
<1> DEFINE t == task[h]
<1>1. t.step = "rename" /\ run.up /\ UNCHANGED <<mem, live, audio, load, run, history>>
  BY DEF Rename, At
<1>2. t \in Task /\ TaskRight(t, run.up, history.changes) /\ t.user \in Users /\ t.op \in AllOps
  BY <1>1, Typed DEF TaskRight
<1>3. /\ history' \in [changes : 0..MaxChanges, acked : [Users -> 0..MaxChanges]]
      /\ history.changes <= history'.changes /\ mem' \in States /\ live' \in [Users -> Session]
  BY <1>1, Typed, StoreAssumption
<1>4. FileRight(file') /\ (file.tmp # NoFile =>
       /\ file'.path = file.tmp /\ file'.tmp = NoFile /\ file'.mixed = file.mixed
       /\ file'.content = [i \in Inodes |-> IF i = file.path THEN NoFile ELSE file.content[i]])
  <2>1. CASE file.tmp = NoFile
    BY <2>1, Typed DEF Rename
  <2>2. CASE file.tmp # NoFile
    <3> DEFINE content == [i \in Inodes |-> IF i = file.path THEN NoFile ELSE file.content[i]]
    <3>1. file' = [file EXCEPT !.path = file.tmp, !.tmp = NoFile, !.content = content]
      BY <2>2 DEF Rename
    <3>2. content \in [Inodes -> Contents] /\ (file.tmp # file.path => content[file.tmp] = file.content[file.tmp])
      BY <2>2, Typed DEF FileRight, Contents
    <3>3. /\ file.tmp \in Inodes /\ file.tmp # file.path /\ file.content[file.tmp] # NoFile
          /\ file \in [path : Inodes \cup {NoFile}, tmp : Inodes \cup {NoFile},
                      content : [Inodes -> Contents], mixed : SUBSET Inodes]
      BY <2>2, Typed DEF FileRight
    <3> HIDE DEF content
    <3>4. /\ file'.path = file.tmp /\ file'.tmp = NoFile /\ file'.mixed = file.mixed /\ file'.content = content
          /\ file' \in [path : Inodes \cup {NoFile}, tmp : Inodes \cup {NoFile},
                       content : [Inodes -> Contents], mixed : SUBSET Inodes]
      BY <3>1, <3>2, <3>3
    <3>5. FileRight(file')
      BY <2>2, <3>2, <3>3, <3>4 DEF FileRight
    <3> QED BY <3>4, <3>5 DEF content
  <2> QED BY <2>1, <2>2
<1>5. CASE file.tmp = NoFile \/ AfterSave(t) = "idle"
  <2>1. task' = [task EXCEPT ![h] = IdleTask] /\ IdleTask \in Task
    BY <1>5, NothingTypes DEF Rename, Finish
  <2>2. TaskRight(IdleTask, run'.up, history'.changes)
    BY <1>1, IdleIsRight DEF TaskRight
  <2>3. Types' /\ task'[h] = IdleTask /\ (\A g \in Handlers \ {h} : task'[g] = task[g])
    BY <1>1, <1>3, <1>4, <2>1, <2>2, TypesStep
  <2>4. file.tmp = NoFile => file' = file
    BY DEF Rename
  <2> QED BY <1>1, <1>4, <2>3, <2>4, NothingTypes DEF Renames, OthersKept, Saving, After
<1>6. CASE file.tmp # NoFile /\ AfterSave(t) # "idle"
  <2> DEFINE step == AfterSave(t)
             k == [t EXCEPT !.step = step, !.inode = NoFile]
  <2>1. /\ step \in {"desired", "reply", "apply"}
        /\ step = "desired" <=> t.op = "hello"
    BY <1>6 DEF AfterSave
  <2>2. task' = [task EXCEPT ![h] = k]
    <3>1. task' = [task EXCEPT ![h].step = step, ![h].inode = NoFile]
      BY <1>6 DEF Rename
    <3> HIDE DEF step
    <3> QED BY <3>1, TaskType DEF Task
  <2> HIDE DEF step
  <2>3. /\ k \in Task /\ k.step = step /\ k.op = t.op /\ k.user = t.user /\ k.inode = NoFile
        /\ k.number = t.number /\ k.first = t.first /\ k.snapshot = t.snapshot /\ k.seen = t.seen
    <3>1. step \in Steps
      BY <2>1 DEF Steps
    <3> QED BY <1>2, <3>1, ZenonT(60) DEF Task
  <2> HIDE DEF k
  <2>4. TaskRight(k, run'.up, history'.changes)
    BY <1>1, <1>2, <2>1, <2>3 DEF TaskRight, HelloSteps, HandsOn
  <2>5. Types' /\ task'[h] = k /\ (\A g \in Handlers \ {h} : task'[g] = task[g])
    BY <1>1, <1>3, <1>4, <2>2, <2>3, <2>4, TypesStep
  <2>6. Written(k) = Written(t) /\ k.step \notin Saving
    BY <2>1, <2>3 DEF Written, Saving
  <2> QED BY <1>1, <1>4, <1>6, <2>3, <2>5, <2>6 DEF Renames, OthersKept
<1> QED BY <1>5, <1>6

-----------------------------------------------------------------------------
(* The process, the audio receiver, and all steps together. *)

Stops ==
  /\ UNCHANGED <<file, history>> /\ ~run'.up /\ mem' = Empty
  /\ \A h \in Handlers : task'[h] = IdleTask
Starts ==
  /\ UNCHANGED <<file, history, task>> /\ ~run.up
  /\ OnDisk # Torn /\ mem' = OnDisk
Nothings == UNCHANGED <<mem, file, task, run, history>>

LEMMA CrashStops == ASSUME Types, Crash PROVE Types' /\ Stops
<1>1. /\ run' = [up |-> FALSE, crashes |-> run.crashes + 1] /\ run.crashes < MaxCrashes
      /\ task' = [g \in Handlers |-> IdleTask] /\ mem' = Empty /\ audio' = <<>>
      /\ live' = [u \in Users |-> NoSession] /\ UNCHANGED <<file, load, history>>
  BY DEF Crash
<1>2. run' \in [up : BOOLEAN, crashes : 0..MaxCrashes] /\ run'.up = FALSE
  BY <1>1, Typed, StoreAssumption
<1>3. live' \in [Users -> Session]
  BY <1>1, StoreAssumption DEF NoSession, Session
<1>4. /\ task' \in [Handlers -> Task] /\ mem' \in [Users -> Desired]
      /\ \A h \in Handlers : task'[h] = IdleTask
  BY <1>1, NothingTypes DEF States
<1>5. TaskRight(IdleTask, run'.up, history'.changes)
  BY <1>1, IdleIsRight, NothingTypes DEF TaskRight
<1>6. FileRight(file)'
  BY <1>1, Typed DEF FileRight
<1>7. TypeOK'
  BY <1>1, <1>2, <1>3, <1>4, Typed DEF TypeOK, Types, Session, FileRight
<1> QED BY <1>1, <1>2, <1>4, <1>5, <1>6, <1>7 DEF Types, Stops

LEMMA OnDiskType == ASSUME Types, OnDisk # Torn PROVE OnDisk \in States
BY Typed, NothingTypes DEF OnDisk, FileRight, Contents, States

LEMMA RestartStarts == ASSUME Types, Restart PROVE Types' /\ Starts
<1>1. /\ ~run.up /\ mem' = OnDisk /\ run' = [run EXCEPT !.up = TRUE]
      /\ file.path # NoFile => file.content[file.path] # Torn
      /\ UNCHANGED <<live, file, task, audio, load, history>>
  BY DEF Restart, OnDisk
<1>2. OnDisk # Torn
  BY <1>1, NothingTypes, FileAssumption DEF OnDisk, States
<1>3. mem' \in [Users -> Desired]
  BY <1>1, <1>2, OnDiskType DEF States
<1>4. run' \in [up : BOOLEAN, crashes : 0..MaxCrashes] /\ run'.up = TRUE
  BY <1>1, Typed
<1>5. \A h \in Handlers : TaskRight(task'[h], run'.up, history'.changes)
  BY <1>1, <1>4, Typed DEF TaskRight
<1>6. TypeOK' /\ FileRight(file)'
  BY <1>1, <1>3, <1>4, Typed DEF TypeOK, Types, Session, FileRight
<1> QED BY <1>1, <1>2, <1>5, <1>6 DEF Types, Starts

LEMMA AudioDoesNothing ==
  ASSUME Types, (\E u \in Users : AudioDesired(u)) \/ AudioSession
  PROVE  Types' /\ Nothings
<1>1. UNCHANGED <<mem, file, task, load, run, history>>
  BY DEF AudioDesired, AudioSession
<1>2. /\ live' \in [Users -> Session]
      /\ audio' = <<>> \/ \E u \in Users, d \in Desired : audio' = <<[user |-> u, desired |-> d]>>
  <2>1. ASSUME NEW u \in Users, AudioDesired(u)
        PROVE  live' \in [Users -> Session] /\ \E d \in Desired : audio' = <<[user |-> u, desired |-> d]>>
    <3>1. UNCHANGED live /\ audio' = <<[user |-> u, desired |-> mem[u]]>> /\ mem[u] \in Desired
      BY <2>1, Typed DEF AudioDesired, States
    <3> QED BY <3>1, Typed
  <2>2. CASE AudioSession
    <3>1. audio # <<>> /\ audio' = <<>>
      BY <2>2 DEF AudioSession
    <3>2. PICK u \in Users, d \in Desired : audio = <<[user |-> u, desired |-> d]>>
      BY <3>1 DEF Types, TypeOK
    <3>3. audio[1].user = u /\ audio[1].desired = d
      BY <3>2
    <3>4. live' = [live EXCEPT ![u] = IF d.there THEN Applied(d, u) ELSE [@ EXCEPT !.there = TRUE]]
      BY <2>2, <3>3 DEF AudioSession
    <3> QED BY <3>1, <3>4, FilledSession
  <2> QED BY <2>1, <2>2
<1>3. TypeOK' /\ FileRight(file)'
  BY <1>1, <1>2, Typed DEF TypeOK, Types, Session, FileRight
<1>4. \A h \in Handlers : TaskRight(task'[h], run'.up, history'.changes)
  BY <1>1, Typed
<1> QED BY <1>1, <1>3, <1>4 DEF Types, Nothings

LEMMA StutterDoesNothing == ASSUME Types, UNCHANGED vars PROVE Types' /\ Nothings
<1>1. TypeOK' /\ FileRight(file)'
  BY DEF vars, Types, TypeOK, FileRight
<1>2. \A h \in Handlers : TaskRight(task'[h], run'.up, history'.changes)
  BY Typed DEF vars
<1> QED BY <1>1, <1>2 DEF vars, Types, Nothings

(* What one step can do. *)
Step(h) ==
  \/ Quiet(h) \/ Clones(h) \/ Writes(h, history.changes + 1) \/ Replies(h)
  \/ \E i \in Inodes : Creates(h, i)
  \/ \E c \in Contents : Fills(h, c)
  \/ Renames(h)

LEMMA NextSteps ==
  ASSUME Types, [Next]_vars
  PROVE  Types' /\ ((\E h \in Handlers : Step(h)) \/ Stops \/ Starts \/ Nothings)
<1>1. ASSUME NEW h \in Handlers,
             (\E op \in AllOps, u \in Users, v \in Settings : Request(h, op, u, v)) \/ Handle(h) \/ Save(h)
      PROVE  Types' /\ Step(h)
  <2>1. ASSUME NEW op \in AllOps, NEW u \in Users, NEW v \in Settings, Request(h, op, u, v)
        PROVE  Types' /\ Step(h)
    BY <2>1, RequestIsQuiet DEF Step
  <2>2. CASE Check(h) \/ ReadBaseline(h) \/ Apply(h) \/ HelloDesired(h) \/ HelloSession(h)
    BY <2>2, CheckIsQuiet, ReadBaselineIsQuiet, ApplyIsQuiet, HelloIsQuiet DEF Step
  <2>3. CASE Resolve(h) \/ Advertise(h)
    BY <2>3, HelloClones DEF Step
  <2>4. CASE Write(h)
    BY <2>4, WriteWrites DEF Step
  <2>5. CASE Reply(h)
    BY <2>5, ReplyReplies DEF Step
  <2>6. CASE Save(h)
    BY <2>6, CreateCreates, FillFills, RenameRenames DEF Save, Step
  <2> QED BY <1>1, <2>1, <2>2, <2>3, <2>4, <2>5, <2>6 DEF Handle
<1>2. CASE (\E u \in Users : AudioDesired(u)) \/ AudioSession
  BY <1>2, AudioDoesNothing
<1>3. CASE Crash \/ Restart
  BY <1>3, CrashStops, RestartStarts
<1>4. CASE UNCHANGED vars
  BY <1>4, StutterDoesNothing
<1> QED BY <1>1, <1>2, <1>3, <1>4 DEF Next

LEMMA InitEstablishesTypes == Init => Types
<1> SUFFICES ASSUME Init PROVE Types
  OBVIOUS
<1>1. mem \in [Users -> Desired] /\ task \in [Handlers -> Task]
  BY NothingTypes DEF Init, States
<1>2. /\ file \in [path : Inodes \cup {NoFile}, tmp : Inodes \cup {NoFile},
                   content : [Inodes -> Contents], mixed : SUBSET Inodes]
      /\ file.path = NoFile /\ file.tmp = NoFile
  BY DEF Init, Contents
<1>3. live \in [Users -> [there : BOOLEAN, setting : Settings, locked : BOOLEAN]]
  BY StoreAssumption DEF Init, NoSession
<1>4. /\ run \in [up : BOOLEAN, crashes : 0..MaxCrashes]
      /\ history \in [changes : 0..MaxChanges, acked : [Users -> 0..MaxChanges]]
      /\ history.changes = 0
  BY StoreAssumption DEF Init
<1>5. TypeOK /\ FileRight(file)
  BY <1>1, <1>2, <1>3, <1>4 DEF Init, TypeOK, FileRight
<1>6. \A h \in Handlers : TaskRight(task[h], run.up, history.changes)
  <2>1. \A h \in Handlers : task[h] = IdleTask
    BY DEF Init
  <2> QED BY <1>4, <2>1, NothingTypes DEF TaskRight, HelloSteps, HandsOn
<1> QED BY <1>5, <1>6 DEF Types

-----------------------------------------------------------------------------
(* Changes are numbered as they are made. *)

LEMMA NextKeepsBounded ==
  ASSUME Types, Bounded, [Next]_vars
  PROVE  Bounded'
<1>1. \A u \in Users : Empty[u].change = 0
  BY NothingTypes
<1>2. /\ history.changes \in Nat /\ mem \in States
      /\ \A h \in Handlers : task[h].snapshot \in States
      /\ file.content \in [Inodes -> Contents]
  BY Typed, StoreAssumption DEF FileRight
<1>3. \A state \in States, u \in Users : state[u].change \in Nat
  BY StoreAssumption DEF States, Desired
<1>4. ASSUME NEW h \in Handlers, Quiet(h) PROVE Bounded'
  <2>1. \A g \in Handlers : task'[g].snapshot \in {task[g].snapshot, Empty}
    BY <1>4 DEF Quiet, OthersKept
  <2> QED BY <1>1, <1>2, <1>4, <2>1 DEF Quiet, Bounded, Within
<1>5. ASSUME NEW h \in Handlers, Clones(h) PROVE Bounded'
  <2>1. \A g \in Handlers : task'[g].snapshot \in {task[g].snapshot, mem}
    BY <1>5 DEF Clones, OthersKept
  <2> QED BY <1>5, <2>1 DEF Clones, Bounded, Within
<1>6. ASSUME NEW h \in Handlers, Writes(h, history.changes + 1) PROVE Bounded'
  <2> DEFINE n == history.changes + 1
  <2>1. /\ \A g \in Handlers : task'[g].snapshot \in {task[g].snapshot, mem'}
        /\ history'.changes = n /\ file' = file
    BY <1>6 DEF Writes, OthersKept
  <2>2. \A u \in Users : mem'[u].change = n \/ mem'[u] = mem[u]
    BY <1>6 DEF Writes
  <2>3. \A state \in States : Within(state) => \A u \in Users : state[u].change <= n
    BY <1>2, <1>3 DEF Within
  <2>4. \A u \in Users : mem'[u].change <= n
    BY <1>2, <2>2, <2>3 DEF Bounded
  <2> HIDE DEF n
  <2> QED BY <1>2, <2>1, <2>3, <2>4 DEF Bounded, Within
<1>7. ASSUME NEW h \in Handlers, Replies(h) PROVE Bounded'
  <2>1. \A g \in Handlers : task'[g].snapshot \in {task[g].snapshot, Empty}
    BY <1>7, NothingTypes DEF Replies, OthersKept
  <2> QED BY <1>1, <1>2, <1>7, <2>1 DEF Replies, Bounded, Within
<1>8. ASSUME NEW h \in Handlers, NEW i \in Inodes, Creates(h, i) PROVE Bounded'
  <2>1. /\ \A g \in Handlers : task'[g].snapshot = task[g].snapshot
        /\ \A j \in Inodes : file'.content[j] \in {file.content[j], Torn}
        /\ UNCHANGED <<mem, history>>
    BY <1>2, <1>8 DEF Creates, OthersKept
  <2> QED BY <2>1, FileAssumption DEF Bounded, Within, States
<1>9. ASSUME NEW h \in Handlers, NEW c \in Contents, Fills(h, c) PROVE Bounded'
  <2>1. /\ \A g \in Handlers : task'[g].snapshot \in {task[g].snapshot, Empty}
        /\ \A j \in Inodes : file'.content[j] \in {file.content[j], Torn, task[h].snapshot}
        /\ UNCHANGED <<mem, history>>
    BY <1>2, <1>9, NothingTypes DEF Fills, OthersKept
  <2>2. Within(Empty)
    BY <1>1, <1>2 DEF Within
  <2>3. Torn \notin States
    BY FileAssumption DEF States
  <2> QED BY <2>1, <2>2, <2>3 DEF Bounded, Within
<1>10. ASSUME NEW h \in Handlers, Renames(h) PROVE Bounded'
  <2>1. /\ \A g \in Handlers : task'[g].snapshot \in {task[g].snapshot, Empty}
        /\ \A j \in Inodes : file'.content[j] \in {file.content[j], NoFile}
        /\ UNCHANGED <<mem, history>>
    BY <1>2, <1>10 DEF Renames, OthersKept
  <2>2. Within(Empty)
    BY <1>1, <1>2 DEF Within
  <2>3. NoFile \notin States
    BY FileAssumption DEF States
  <2> QED BY <2>1, <2>2, <2>3 DEF Bounded, Within
<1>11. CASE Stops
  BY <1>1, <1>2, <1>11, NothingTypes DEF Stops, Bounded, Within
<1>12. CASE Starts
  <2>1. OnDisk \in States
    BY <1>12, OnDiskType DEF Starts
  <2>2. Within(OnDisk)
    BY <1>1, <1>2, <2>1, Typed DEF Bounded, Within, OnDisk, FileRight
  <2> QED BY <1>12, <2>2 DEF Starts, Bounded, Within
<1>13. CASE Nothings
  BY <1>13 DEF Nothings, Bounded, Within
<1> QED BY <1>4, <1>5, <1>6, <1>7, <1>8, <1>9, <1>10, <1>11, <1>12, <1>13, NextSteps DEF Step

-----------------------------------------------------------------------------
(* Torn files have been mixed. *)

LEMMA HandsKept ==
  ASSUME Unmixed, file' = file,
         \A g \in Handlers : task'[g].step \in HandsOn =>
           task'[g].step = task[g].step /\ task'[g].inode = task[g].inode
  PROVE  Unmixed'
BY DEF Unmixed, Alone

LEMMA NextKeepsUnmixed ==
  ASSUME Types, Unmixed, [Next]_vars
  PROVE  Unmixed'
<1>1. /\ file.path \in Inodes \cup {NoFile} /\ file.tmp \in Inodes \cup {NoFile}
      /\ file.content \in [Inodes -> Contents] /\ NoFile \notin Inodes /\ Torn # NoFile
      /\ file.path # NoFile => file.path # file.tmp /\ file.content[file.path] # NoFile
      /\ file.tmp # NoFile => file.content[file.tmp] # NoFile
  BY Typed, FileAssumption DEF FileRight
<1>2. \A h \in Handlers : task[h].step \in HandsOn <=> task[h].inode # NoFile
  BY Typed DEF TaskRight
<1>3. IdleTask.step \notin HandsOn
  BY NothingTypes DEF HandsOn
<1>4. ASSUME NEW h \in Handlers, Quiet(h) \/ Clones(h) \/ Writes(h, history.changes + 1) \/ Replies(h)
      PROVE  Unmixed'
  <2>1. file' = file /\ OthersKept(h) /\ task'[h].step \notin HandsOn
    BY <1>3, <1>4 DEF Quiet, Clones, Writes, Replies, Saving, HandsOn
  <2> QED BY <2>1, HandsKept DEF OthersKept
<1>5. ASSUME NEW h \in Handlers, NEW i \in Inodes, Creates(h, i) PROVE Unmixed'
  <2>1. /\ OthersKept(h) /\ task'[h].step = "fill" /\ task'[h].inode = i
        /\ i # file.path /\ i # NoFile
        /\ file'.path = file.path /\ file'.tmp = i /\ file'.content = [file.content EXCEPT ![i] = Torn]
        /\ file'.mixed = IF Alone(h, HandsOn) THEN file.mixed \ {i} ELSE file.mixed \cup {i}
    BY <1>1, <1>5 DEF Creates
  <2>2. /\ file'.content[i] = Torn
        /\ file.path # NoFile => file'.content[file.path] = file.content[file.path]
    BY <1>1, <2>1
  <2>3. file.path \in file'.mixed <=> file.path \in file.mixed
    BY <2>1
  <2>4. Alone(h, HandsOn)' <=> Alone(h, HandsOn)
    BY <2>1 DEF Alone, OthersKept
  <2>5. ASSUME NEW g \in Handlers, i \notin file'.mixed, task'[g].step \in HandsOn PROVE g = h
    BY <2>1, <2>4, <2>5 DEF Alone
  <2>6. i \notin file'.mixed => Alone(h, HandsOn)'
    BY <2>1, <2>4
  <2>7. \A g \in Handlers : task'[g].step \in HandsOn /\ task'[g].inode = file.path => file.path \in file.mixed
    BY <2>1 DEF Unmixed, OthersKept
  <2> QED BY <2>1, <2>2, <2>3, <2>5, <2>6, <2>7 DEF Unmixed
<1>6. ASSUME NEW h \in Handlers, NEW c \in Contents, Fills(h, c) PROVE Unmixed'
  <2> DEFINE i == task[h].inode
  <2>1. /\ OthersKept(h) /\ task[h].step = "fill" /\ i \in Inodes
        /\ file'.path = file.path /\ file'.tmp = file.tmp /\ file'.mixed = file.mixed
        /\ file'.content = [file.content EXCEPT ![i] = c]
        /\ \/ task'[h] = IdleTask
           \/ /\ task'[h].step = "rename" /\ task'[h].inode = i
              /\ file.content[i] = Torn => c # Torn
    BY <1>6 DEF Fills
  <2>2. task[h].step \in HandsOn
    BY <2>1 DEF HandsOn
  <2>3. i = file.path => file.path \in file.mixed
    BY <2>2 DEF Unmixed
  <2>4. \A j \in Inodes : j # i => file'.content[j] = file.content[j]
    BY <1>1, <2>1
  <2>5. /\ file.path # NoFile /\ file.path \notin file.mixed => file'.content[file.path] # Torn
        /\ \A g \in Handlers :
             task'[g].step \in HandsOn => task[g].step \in HandsOn /\ task'[g].inode = task[g].inode
    BY <1>1, <1>3, <2>1, <2>2, <2>3, <2>4 DEF Unmixed, OthersKept
  <2>6. ASSUME NEW g \in Handlers, file.tmp # NoFile, file.tmp \notin file.mixed, task'[g].step \in HandsOn
        PROVE  /\ task'[g].inode = file.tmp /\ Alone(g, HandsOn)'
               /\ file'.content[file.tmp] = Torn <=> task'[g].step = "fill"
    <3>1. /\ task[g].inode = file.tmp /\ Alone(g, HandsOn) /\ task'[g].inode = file.tmp
          /\ i = file.tmp /\ Alone(h, HandsOn) /\ file.content[i] = Torn
      BY <2>1, <2>2, <2>5, <2>6 DEF Unmixed
    <3>2. g = h
      BY <2>2, <3>1 DEF Alone
    <3>3. task'[h].step = "rename" /\ c # Torn /\ file'.content[i] = c
      BY <1>1, <1>3, <2>1, <2>6, <3>1, <3>2
    <3>4. Alone(g, HandsOn)'
      BY <2>5, <3>1 DEF Alone
    <3> QED BY <3>1, <3>2, <3>3, <3>4
  <2> QED BY <2>1, <2>5, <2>6 DEF Unmixed
<1>7. ASSUME NEW h \in Handlers, Renames(h) PROVE Unmixed'
  <2>1. task[h].step = "rename" /\ task[h].step \in HandsOn /\ OthersKept(h) /\ task'[h].step \notin HandsOn
    BY <1>7 DEF Renames, HandsOn, Saving
  <2>2. CASE file.tmp = NoFile
    <3>1. file' = file
      BY <1>7, <2>2 DEF Renames
    <3> QED BY <2>1, <3>1, HandsKept DEF OthersKept
  <2>3. CASE file.tmp # NoFile
    <3>1. /\ file'.path = file.tmp /\ file'.tmp = NoFile /\ file'.mixed = file.mixed
          /\ file'.content = [i \in Inodes |-> IF i = file.path THEN NoFile ELSE file.content[i]]
      BY <1>7, <2>3 DEF Renames
    <3>2. file'.content[file.tmp] = file.content[file.tmp]
      BY <1>1, <2>3, <3>1
    <3>3. file.tmp \notin file.mixed => Alone(h, HandsOn) /\ file.content[file.tmp] # Torn
      BY <2>1, <2>3 DEF Unmixed
    <3>4. \A g \in Handlers : task'[g].step \in HandsOn => g # h /\ task[g].step \in HandsOn
      BY <2>1 DEF OthersKept
    <3>5. file.tmp \notin file.mixed => \A g \in Handlers : task'[g].step \notin HandsOn
      BY <3>3, <3>4 DEF Alone
    <3> QED BY <2>3, <3>1, <3>2, <3>3, <3>5 DEF Unmixed
  <2> QED BY <2>2, <2>3
<1>8. CASE Stops \/ Starts \/ Nothings
  <2>1. /\ file' = file
        /\ \A g \in Handlers : task'[g].step \in HandsOn => task'[g] = task[g]
    BY <1>3, <1>8 DEF Stops, Starts, Nothings
  <2> QED BY <2>1, HandsKept
<1> QED BY <1>4, <1>5, <1>6, <1>7, <1>8, NextSteps DEF Step

-----------------------------------------------------------------------------
(* Acknowledged changes are in whatever may become the state file. *)

(* The steps after which a state still has what it must have: no more is owed. *)
OwesNoMore(before, after, steps) ==
  \A h \in Handlers : after[h].first /\ after[h].step \in steps =>
    \/ after[h].number = 0
    \/ /\ before[h].first /\ before[h].step \in steps
       /\ after[h].number = before[h].number /\ Written(after[h]) = Written(before[h])

LEMMA CoversKept ==
  ASSUME NEW state \in States, NEW steps, NEW before, NEW after, NEW acked,
         Covers(state, steps, before, acked), OwesNoMore(before, after, steps)
  PROVE  Covers(state, steps, after, acked)
<1>1. \A u \in Users : state[u].change >= 0
  BY StoreAssumption DEF States, Desired
<1>2. ASSUME NEW u \in Users, NEW h \in Handlers, after[h].first, after[h].step \in steps,
             u \in Written(after[h])
      PROVE  after[h].number <= state[u].change
  <2>1. CASE after[h].number = 0
    BY <1>1, <2>1
  <2>2. CASE /\ before[h].first /\ before[h].step \in steps
             /\ after[h].number = before[h].number /\ Written(after[h]) = Written(before[h])
    BY <1>2, <2>2 DEF Covers
  <2> QED BY <1>2, <2>1, <2>2 DEF OwesNoMore
<1> QED BY <1>2 DEF Covers

LEMMA CoversAfter ==
  ASSUME NEW state, NEW tasks, NEW acked, Covers(state, Since, tasks, acked)
  PROVE  Covers(state, After, tasks, acked)
BY DEF Covers, Since

LEMMA DurableTypes ==
  ASSUME Types
  PROVE  /\ mem \in States /\ \A h \in Handlers : task[h].snapshot \in States
         /\ OnDisk # Torn => OnDisk \in States
         /\ file.tmp # NoFile /\ file.content[file.tmp] # Torn => file.content[file.tmp] \in States
         /\ Torn \notin States
BY Typed, OnDiskType, FileAssumption DEF FileRight, Contents, States

(* Steps that leave the memory and the files as they are, and owe no more. *)
LEMMA OwedKept ==
  ASSUME Types, Types', Durable, UNCHANGED <<mem, file, run>>, history'.acked = history.acked,
         OwesNoMore(task, task', Since), OwesNoMore(task, task', After),
         \A h \in Handlers : task'[h].step \in Saving =>
           \/ task'[h].snapshot = mem /\ run.up
           \/ task[h].step \in Saving /\ task'[h].snapshot = task[h].snapshot,
         \A h \in Handlers : task'[h].step \in HandsOn => task[h].step \in HandsOn
  PROVE  Durable'
<1>1. ASSUME NEW state \in States, CoversAll(state) PROVE Covers(state, Since, task', history'.acked)
  BY <1>1, CoversKept DEF CoversAll
<1>2. OnDisk' = OnDisk /\ (OnDisk # Torn => Covers(OnDisk, After, task', history'.acked))
  <2>1. OnDisk' = OnDisk
    BY DEF OnDisk
  <2>2. ASSUME OnDisk # Torn PROVE Covers(OnDisk, After, task', history'.acked)
    BY <2>2, DurableTypes, CoversKept DEF Durable
  <2> QED BY <2>1, <2>2
<1>3. run'.up => CoversAll(mem)'
  BY <1>1, DurableTypes DEF Durable, CoversAll
<1>4. ASSUME NEW h \in Handlers, task'[h].step \in Saving PROVE CoversAll(task[h].snapshot)'
  <2>1. task'[h].snapshot \in States /\ CoversAll(task'[h].snapshot)
    BY <1>4, DurableTypes DEF Durable
  <2> QED BY <1>1, <2>1 DEF CoversAll
<1>5. ASSUME NEW h \in Handlers, task'[h].step \in HandsOn, file.tmp # NoFile, file.content[file.tmp] # Torn
      PROVE  CoversAll(file.content[file.tmp])'
  BY <1>1, <1>5, DurableTypes DEF Durable, CoversAll
<1> QED BY <1>2, <1>3, <1>4, <1>5 DEF Durable

LEMMA QuietKeepsDurable ==
  ASSUME NEW h \in Handlers, Types, Types', Durable, Quiet(h) \/ Clones(h)
  PROVE  Durable'
<1>1. UNCHANGED <<mem, file, run>> /\ history'.acked = history.acked /\ OthersKept(h)
  BY DEF Quiet, Clones
<1>2. \A g \in Handlers : g # h => task'[g] = task[g]
  BY <1>1 DEF OthersKept
<1>3. OwesNoMore(task, task', Since) /\ OwesNoMore(task, task', After)
  <2>1. CASE Quiet(h)
    BY <1>2, <2>1 DEF Quiet, OwesNoMore, Since, After, Saving
  <2>2. CASE Clones(h)
    BY <1>2, <2>2 DEF Clones, OwesNoMore
  <2> QED BY <2>1, <2>2
<1>4. /\ \A g \in Handlers : task'[g].step \in Saving =>
           \/ task'[g].snapshot = mem /\ run.up
           \/ task[g].step \in Saving /\ task'[g].snapshot = task[g].snapshot
      /\ \A g \in Handlers : task'[g].step \in HandsOn => task[g].step \in HandsOn
  BY <1>2 DEF Quiet, Clones, Saving, HandsOn
<1> QED BY <1>1, <1>3, <1>4, OwedKept

LEMMA NothingsKeepDurable ==
  ASSUME Types, Types', Durable, Nothings
  PROVE  Durable'
<1>1. \A s : OwesNoMore(task, task', s)
  BY DEF Nothings, OwesNoMore
<1> QED BY <1>1, OwedKept DEF Nothings

(* The new change is the newest: the new memory has all that the old one had. Its clone
   is to be acknowledged only if nothing else is to be saved. *)
LEMMA WriteKeepsDurable ==
  ASSUME NEW h \in Handlers, Types, Types', Bounded, Durable, Writes(h, history.changes + 1)
  PROVE  Durable'
<1> DEFINE n == history.changes + 1
<1>1. /\ UNCHANGED <<file, run>> /\ history'.acked = history.acked /\ run.up
      /\ task[h].step = "write" /\ task'[h].step = "create" /\ task'[h].number = n
      /\ Written(task'[h]) = Written(task[h])
      /\ task'[h].snapshot = mem' /\ (task'[h].first <=> Alone(h, Saving))
      /\ \A g \in Handlers : g # h => task'[g] = task[g]
  BY DEF Writes, OthersKept
<1>2. /\ \A u \in Users : mem'[u].change = IF u \in Written(task[h]) THEN n ELSE mem[u].change
      /\ n \in Nat /\ mem \in States /\ mem' \in States
      /\ \A u \in Users : mem[u].change < n /\ mem[u].change \in Nat
  <2>1. history.changes \in Nat /\ mem \in States /\ mem' \in States
    BY Typed, StoreAssumption DEF Types, TypeOK, States
  <2>2. \A u \in Users : mem[u].change <= history.changes /\ mem[u].change \in Nat
    BY <2>1, StoreAssumption DEF Bounded, Within, States, Desired
  <2>3. \A u \in Users : mem'[u].change = IF u \in Written(task[h]) THEN n ELSE mem[u].change
    BY DEF Writes
  <2> QED BY <2>1, <2>2, <2>3
<1>3. CoversAll(mem)'
  <2> SUFFICES ASSUME NEW u \in Users
               PROVE  /\ history.acked[u] <= mem'[u].change
                      /\ \A g \in Handlers :
                           task'[g].first /\ task'[g].step \in Since /\ u \in Written(task'[g]) =>
                             task'[g].number <= mem'[u].change
    BY <1>1 DEF CoversAll, Covers
  <2>1. /\ history.acked[u] <= mem[u].change /\ history.acked[u] \in Nat
        /\ \A g \in Handlers :
             task[g].first /\ task[g].step \in Since /\ u \in Written(task[g]) =>
               task[g].number <= mem[u].change
    BY <1>1, Typed, StoreAssumption DEF Durable, CoversAll, Covers
  <2>2. mem[u].change <= mem'[u].change /\ mem'[u].change \in Nat /\ mem[u].change \in Nat
    <3> HIDE DEF n
    <3> QED BY <1>2
  <2>3. \A g \in Handlers : task[g].number \in Nat
    BY Typed, StoreAssumption
  <2>4. ASSUME NEW g \in Handlers, task'[g].first, task'[g].step \in Since, u \in Written(task'[g])
        PROVE  task'[g].number <= mem'[u].change
    <3> HIDE DEF n
    <3>1. CASE g = h
      BY <1>1, <1>2, <2>4, <3>1
    <3>2. CASE g # h
      <4>1. task'[g] = task[g] /\ task[g].number <= mem[u].change /\ task[g].number \in Nat
        BY <1>1, <2>1, <2>3, <2>4, <3>2
      <4> QED BY <2>2, <4>1
    <3> QED BY <3>1, <3>2
  <2>5. history.acked[u] <= mem'[u].change
    BY <2>1, <2>2
  <2> QED BY <2>4, <2>5
<1>5. ~Alone(h, Saving) => OwesNoMore(task, task', Since)
  BY <1>1 DEF OwesNoMore
<1>6. OwesNoMore(task, task', After)
  BY <1>1 DEF OwesNoMore, After
<1>7. ASSUME NEW g \in Handlers, task'[g].step \in Saving PROVE CoversAll(task[g].snapshot)'
  <2>1. CASE g = h
    BY <1>1, <1>3, <2>1 DEF CoversAll
  <2>2. CASE g # h
    <3>1. task[g].step \in Saving /\ task'[g] = task[g] /\ ~Alone(h, Saving)
      BY <1>1, <1>7, <2>2 DEF Alone
    <3>2. task[g].snapshot \in States /\ CoversAll(task[g].snapshot)
      BY <3>1, DurableTypes DEF Durable
    <3> QED BY <1>1, <1>5, <3>1, <3>2, CoversKept DEF CoversAll
  <2> QED BY <2>1, <2>2
<1>8. ASSUME NEW g \in Handlers, task'[g].step \in HandsOn, file.tmp # NoFile, file.content[file.tmp] # Torn
      PROVE  CoversAll(file.content[file.tmp])'
  <2>1. g # h /\ task[g].step \in HandsOn /\ ~Alone(h, Saving)
    BY <1>1, <1>8 DEF HandsOn, Alone, Saving
  <2>2. file.content[file.tmp] \in States /\ CoversAll(file.content[file.tmp])
    BY <1>8, <2>1, DurableTypes DEF Durable
  <2> QED BY <1>1, <1>5, <2>1, <2>2, CoversKept DEF CoversAll
<1>9. OnDisk' = OnDisk /\ (OnDisk # Torn => Covers(OnDisk, After, task', history'.acked))
  <2>1. OnDisk' = OnDisk
    BY <1>1 DEF OnDisk
  <2>2. ASSUME OnDisk # Torn PROVE Covers(OnDisk, After, task', history'.acked)
    BY <1>1, <1>6, <2>2, DurableTypes, CoversKept DEF Durable
  <2> QED BY <2>1, <2>2
<1> QED BY <1>1, <1>3, <1>7, <1>8, <1>9 DEF Durable

(* What is acknowledged now was owed before. *)
LEMMA ReplyKeepsDurable ==
  ASSUME NEW h \in Handlers, Types, Types', Durable, Replies(h)
  PROVE  Durable'
<1>1. /\ UNCHANGED <<mem, file, run>> /\ task[h].step = "reply" /\ task'[h] = IdleTask
      /\ \A g \in Handlers : g # h => task'[g] = task[g]
      /\ \A u \in Users : history'.acked[u] =
           IF task[h].first /\ u \in Written(task[h]) /\ task[h].number > history.acked[u]
           THEN task[h].number ELSE history.acked[u]
  BY DEF Replies, OthersKept
<1>2. IdleTask.step \notin Saving \cup After
  BY NothingTypes DEF Saving, After
<1>3. ASSUME NEW state, NEW steps \in {Since, After}, Covers(state, steps, task, history.acked)
      PROVE  Covers(state, steps, task', history'.acked)
  <2>1. task[h].step \in steps
    BY <1>1, <1>3 DEF Since, After
  <2>2. \A u \in Users : history'.acked[u] <= state[u].change
    BY <1>1, <1>3, <2>1 DEF Covers
  <2>3. \A g \in Handlers : task'[g].step \in steps => task'[g] = task[g]
    BY <1>1, <1>2, <1>3 DEF Since
  <2> QED BY <1>3, <2>2, <2>3 DEF Covers
<1>4. ASSUME NEW state, CoversAll(state) PROVE Covers(state, Since, task', history'.acked)
  BY <1>3, <1>4 DEF CoversAll
<1>5. OnDisk' = OnDisk /\ (OnDisk # Torn => Covers(OnDisk, After, task', history'.acked))
  BY <1>1, <1>3 DEF OnDisk, Durable
<1>6. run'.up => CoversAll(mem)'
  BY <1>1, <1>4 DEF Durable, CoversAll
<1>7. ASSUME NEW g \in Handlers, task'[g].step \in Saving PROVE CoversAll(task[g].snapshot)'
  <2>1. task'[g] = task[g]
    BY <1>1, <1>2, <1>7
  <2> QED BY <1>4, <1>7, <2>1 DEF Durable, CoversAll
<1>8. ASSUME NEW g \in Handlers, task'[g].step \in HandsOn, file.tmp # NoFile, file.content[file.tmp] # Torn
      PROVE  CoversAll(file.content[file.tmp])'
  <2>1. task'[g] = task[g]
    BY <1>1, <1>2, <1>8 DEF HandsOn, Saving
  <2> QED BY <1>1, <1>4, <1>8, <2>1 DEF Durable, CoversAll
<1> QED BY <1>1, <1>5, <1>6, <1>7, <1>8 DEF Durable

(* What a state keeps while a handler only goes on with its save. *)
LEMMA SaveKeepsCovers ==
  ASSUME NEW h \in Handlers, Types,
         (\E i \in Inodes : Creates(h, i)) \/ (\E c \in Contents : Fills(h, c)) \/ Renames(h),
         NEW state \in States, CoversAll(state)
  PROVE  Covers(state, Since, task', history'.acked)
<1>1. history' = history /\ OthersKept(h)
  BY DEF Creates, Fills, Renames
<1>2. /\ task[h].step \in Saving
      /\ \/ task'[h].step \notin Since
         \/ /\ task'[h].first = task[h].first /\ task'[h].number = task[h].number
            /\ Written(task'[h]) = Written(task[h])
  BY NothingTypes DEF Creates, Fills, Renames, Saving, Since, After
<1>3. OwesNoMore(task, task', Since)
  BY <1>1, <1>2 DEF OwesNoMore, OthersKept, Since
<1> QED BY <1>1, <1>3, CoversKept DEF CoversAll

LEMMA CreateKeepsDurable ==
  ASSUME NEW h \in Handlers, NEW i \in Inodes, Types, Types', Durable, Creates(h, i)
  PROVE  Durable'
<1>1. /\ UNCHANGED <<mem, run, history>> /\ run.up
      /\ task[h].step = "create" /\ task'[h].step = "fill" /\ task'[h].snapshot = task[h].snapshot
      /\ \A g \in Handlers : g # h => task'[g] = task[g]
      /\ i # file.path /\ file'.path = file.path /\ file'.tmp = i
      /\ file'.content = [file.content EXCEPT ![i] = Torn]
  BY DEF Creates, OthersKept
<1>2. ASSUME NEW state \in States, CoversAll(state) PROVE CoversAll(state)'
  BY <1>2, SaveKeepsCovers DEF CoversAll
<1>3. CoversAll(mem)'
  BY <1>1, SaveKeepsCovers, DurableTypes DEF CoversAll, Durable
<1>4. ASSUME NEW g \in Handlers, task'[g].step \in Saving PROVE CoversAll(task[g].snapshot)'
  <2>1. task[g].step \in Saving /\ task'[g].snapshot = task[g].snapshot
    BY <1>1, <1>4 DEF Saving
  <2> QED BY <1>1, <2>1, SaveKeepsCovers, DurableTypes DEF CoversAll, Durable
<1>5. file'.content[file'.tmp] = Torn
  BY <1>1, Typed DEF FileRight
<1>6. OnDisk' = OnDisk
  BY <1>1, Typed DEF OnDisk, FileRight
<1>7. OnDisk # Torn => Covers(OnDisk, After, task', history'.acked)
  <2>1. OwesNoMore(task, task', After)
    BY <1>1 DEF OwesNoMore, After
  <2> QED BY <1>1, <2>1, CoversKept, DurableTypes DEF Durable
<1> QED BY <1>1, <1>3, <1>4, <1>5, <1>6, <1>7 DEF Durable

LEMMA FillKeepsDurable ==
  ASSUME NEW h \in Handlers, NEW c \in Contents, Types, Types', Durable, Fills(h, c)
  PROVE  Durable'
<1> DEFINE i == task[h].inode
<1>1. /\ UNCHANGED <<mem, run, history>>
      /\ task[h].step = "fill" /\ i \in Inodes /\ c \in {Torn, task[h].snapshot}
      /\ \A g \in Handlers : g # h => task'[g] = task[g]
      /\ file'.path = file.path /\ file'.tmp = file.tmp
      /\ file'.content = [file.content EXCEPT ![i] = c]
      /\ \/ task'[h] = IdleTask
         \/ task'[h].step = "rename" /\ task'[h].snapshot = task[h].snapshot
  BY DEF Fills, OthersKept
<1>2. task[h].step \in Saving /\ task[h].step \in HandsOn /\ IdleTask.step \notin Since
  BY <1>1, NothingTypes DEF Saving, HandsOn, Since, After
<1>3. /\ c # Torn => c \in States /\ CoversAll(c)
      /\ c # Torn => Covers(c, Since, task', history'.acked)
  BY <1>1, <1>2, SaveKeepsCovers, DurableTypes DEF Durable
<1>4. run.up => CoversAll(mem)'
  BY <1>1, SaveKeepsCovers, DurableTypes DEF CoversAll, Durable
<1>5. ASSUME NEW g \in Handlers, task'[g].step \in Saving PROVE CoversAll(task[g].snapshot)'
  <2>1. task[g].step \in Saving /\ task'[g].snapshot = task[g].snapshot
    BY <1>1, <1>2, <1>5 DEF Since
  <2> QED BY <1>1, <2>1, SaveKeepsCovers, DurableTypes DEF CoversAll, Durable
<1>6. \A j \in Inodes : file'.content[j] = IF j = i THEN c ELSE file.content[j]
  BY <1>1, Typed DEF FileRight
<1>7. OnDisk' # Torn => Covers(OnDisk', After, task', history'.acked)
  <2>1. CASE OnDisk' = OnDisk /\ OnDisk # Torn
    <3>1. OwesNoMore(task, task', After)
      BY <1>1, NothingTypes DEF OwesNoMore, After
    <3> QED BY <1>1, <2>1, <3>1, CoversKept, DurableTypes DEF Durable
  <2>2. CASE OnDisk' = c /\ c # Torn
    BY <1>3, <2>2, CoversAfter
  <2>3. OnDisk' = OnDisk \/ OnDisk' = c
    BY <1>1, <1>6, Typed DEF OnDisk, FileRight
  <2> QED BY <2>1, <2>2, <2>3
<1>8. ASSUME NEW g \in Handlers, task'[g].step \in HandsOn, file'.tmp # NoFile, file'.content[file'.tmp] # Torn
      PROVE  Covers(file'.content[file'.tmp], Since, task', history'.acked)
  <2>1. file'.content[file.tmp] = c \/ file'.content[file.tmp] = file.content[file.tmp]
    BY <1>1, <1>6, <1>8, Typed DEF FileRight
  <2>2. CASE file'.content[file.tmp] = c
    BY <1>1, <1>3, <1>8, <2>2
  <2>3. CASE file'.content[file.tmp] = file.content[file.tmp]
    BY <1>1, <1>2, <1>8, <2>3, SaveKeepsCovers, DurableTypes DEF Durable
  <2> QED BY <2>1, <2>2, <2>3
<1> QED BY <1>1, <1>4, <1>5, <1>7, <1>8 DEF Durable, CoversAll

LEMMA RenameKeepsDurable ==
  ASSUME NEW h \in Handlers, Types, Types', Durable, Renames(h)
  PROVE  Durable'
<1>1. /\ UNCHANGED <<mem, run, history>>
      /\ task[h].step = "rename" /\ task'[h].step \notin Saving
      /\ \A g \in Handlers : g # h => task'[g] = task[g]
  BY DEF Renames, OthersKept
<1>2. task[h].step \in Saving /\ task[h].step \in HandsOn
  BY <1>1 DEF Saving, HandsOn
<1>3. run.up => CoversAll(mem)'
  BY <1>1, SaveKeepsCovers, DurableTypes DEF CoversAll, Durable
<1>4. ASSUME NEW g \in Handlers, task'[g].step \in Saving PROVE CoversAll(task[g].snapshot)'
  <2>1. task[g].step \in Saving /\ task'[g].snapshot = task[g].snapshot
    BY <1>1, <1>4
  <2> QED BY <1>1, <2>1, SaveKeepsCovers, DurableTypes DEF CoversAll, Durable
<1>5. CASE file.tmp = NoFile
  <2>1. file' = file /\ task'[h] = IdleTask /\ OnDisk' = OnDisk
    BY <1>5 DEF Renames, OnDisk
  <2>2. OwesNoMore(task, task', After)
    BY <1>1, <2>1, NothingTypes DEF OwesNoMore, After
  <2>3. OnDisk # Torn => Covers(OnDisk, After, task', history'.acked)
    BY <1>1, <2>2, CoversKept, DurableTypes DEF Durable
  <2> QED BY <1>1, <1>3, <1>4, <1>5, <2>1, <2>3 DEF Durable
<1>6. CASE file.tmp # NoFile
  <2>1. /\ file'.path = file.tmp /\ file'.tmp = NoFile
        /\ file'.content = [j \in Inodes |-> IF j = file.path THEN NoFile ELSE file.content[j]]
    BY <1>6 DEF Renames
  <2>2. OnDisk' = file.content[file.tmp]
    BY <1>6, <2>1, Typed DEF OnDisk, FileRight
  <2>3. OnDisk' # Torn => Covers(OnDisk', Since, task', history'.acked)
    BY <1>2, <1>6, <2>2, SaveKeepsCovers, DurableTypes DEF Durable
  <2>4. OnDisk' # Torn => Covers(OnDisk', After, task', history'.acked)
    BY <2>3, CoversAfter
  <2> QED BY <1>1, <1>3, <1>4, <2>1, <2>4 DEF Durable
<1> QED BY <1>5, <1>6

(* A stop takes the memory; a start brings back what is on disk, when nobody is owed
   anything but what was acknowledged. *)
LEMMA ProcessKeepsDurable ==
  ASSUME Types, Types', Durable, Stops \/ Starts
  PROVE  Durable'
<1>1. UNCHANGED <<file, history>> /\ OnDisk' = OnDisk
  BY DEF Stops, Starts, OnDisk
<1>2. \A g \in Handlers : task'[g].step = "idle"
  <2>1. CASE Stops
    BY <2>1, NothingTypes DEF Stops
  <2>2. CASE Starts
    BY <2>2, Typed DEF Starts, TaskRight
  <2> QED BY <2>1, <2>2
<1>3. \A g \in Handlers : task'[g].step \notin Since /\ task'[g].step \notin Saving /\ task'[g].step \notin HandsOn
  BY <1>2 DEF Since, After, Saving, HandsOn
<1>4. ASSUME NEW state, NEW steps \in {Since, After}, Covers(state, After, task, history.acked)
      PROVE  Covers(state, steps, task', history'.acked)
  BY <1>1, <1>3, <1>4 DEF Covers, Since
<1>5. OnDisk # Torn => Covers(OnDisk, After, task', history'.acked)
  BY <1>4 DEF Durable
<1>6. run'.up => CoversAll(mem)'
  <2>1. run'.up => Starts
    BY DEF Stops
  <2> QED BY <1>4, <2>1 DEF Starts, Durable, CoversAll
<1> QED BY <1>1, <1>3, <1>5, <1>6 DEF Durable

LEMMA NextKeepsInv ==
  ASSUME Inv, [Next]_vars
  PROVE  Inv'
<1>1. Types' /\ Bounded' /\ Unmixed'
  BY NextSteps, NextKeepsBounded, NextKeepsUnmixed DEF Inv
<1>2. Durable'
  <2>1. ASSUME NEW h \in Handlers, Step(h) PROVE Durable'
    BY <1>1, <2>1, QuietKeepsDurable, WriteKeepsDurable, ReplyKeepsDurable, CreateKeepsDurable,
       FillKeepsDurable, RenameKeepsDurable DEF Step, Inv
  <2>2. CASE Stops \/ Starts \/ Nothings
    BY <1>1, <2>2, ProcessKeepsDurable, NothingsKeepDurable DEF Inv
  <2> QED BY <2>1, <2>2, NextSteps DEF Inv
<1> QED BY <1>1, <1>2 DEF Inv

LEMMA InitEstablishesInv == Init => Inv
<1> SUFFICES ASSUME Init PROVE Inv
  OBVIOUS
<1>1. Types
  BY InitEstablishesTypes
<1>2. /\ \A h \in Handlers : task[h].step = "idle" /\ task[h].snapshot = Empty
      /\ mem = Empty /\ OnDisk = Empty /\ file.path = NoFile
      /\ \A u \in Users : Empty[u].change = 0 /\ history.acked[u] = 0
      /\ history.changes = 0 /\ \A i \in Inodes : file.content[i] = NoFile
  BY NothingTypes DEF Init, OnDisk
<1>3. Bounded
  <2>1. NoFile \notin States
    BY FileAssumption DEF States
  <2> QED BY <1>2, <2>1 DEF Bounded, Within
<1>4. Unmixed
  BY <1>2 DEF Unmixed, HandsOn
<1>5. Durable
  BY <1>2 DEF Durable, CoversAll, Covers, Since, After, Saving, HandsOn
<1> QED BY <1>1, <1>3, <1>4, <1>5 DEF Inv

LEMMA Invariance == Spec => []Inv
<1>1. Inv /\ [Next]_vars => Inv'
  BY NextKeepsInv
<1> QED BY <1>1, InitEstablishesInv, PTL DEF Spec

(* However many requests are handled at once, the state file is one that the server
   can start from at every moment at which it may stop, whatever fails on the disk,
   unless it was opened while another save was under way (save_admin_state_to_path,
   load_admin_state). *)
THEOREM TornFilesAreMixed == Spec => []TornByMixingOnly
<1>1. Inv => TornByMixingOnly
  BY FileAssumption DEF Inv, Types, FileRight, Unmixed, TornByMixingOnly, SavedIsLoadable
<1> QED BY <1>1, Invariance, PTL

(* However many requests are handled at once, a change that was acknowledged, and was
   cloned with no older clone still to be saved, is in the state file, or a later one
   is, through any number of failed saves, crashes and restarts, while the file is not
   torn (apply_desired_client, save_admin_state). *)
THEOREM AcknowledgedIsSaved == Spec => []AckedSurvives
<1>1. Inv => AckedSurvives
  <2> SUFFICES ASSUME Inv, file.path # NoFile => file.content[file.path] # Torn, NEW u \in Users
               PROVE  Saved(u) >= history.acked[u]
    BY DEF AckedSurvives
  <2>1. OnDisk # Torn
    BY NothingTypes, FileAssumption DEF OnDisk, States
  <2>2. history.acked[u] <= OnDisk[u].change
    BY <2>1 DEF Inv, Durable, Covers
  <2>3. Saved(u) = OnDisk[u].change
    BY NothingTypes DEF Saved, OnDisk
  <2>4. history.acked[u] \in Nat /\ OnDisk[u].change \in Nat
    BY <2>1, OnDiskType, Typed, StoreAssumption DEF Inv, States, Desired
  <2> QED BY <2>2, <2>3, <2>4
<1> QED BY <1>1, Invariance, PTL

-----------------------------------------------------------------------------
(* Lockouts. *)

LEMMA InitEstablishesLockInv == Init => LockInv
<1> SUFFICES ASSUME Init PROVE LockInv
  OBVIOUS
<1>1. /\ mem = Empty /\ \A u \in Users : Empty[u].locked = FALSE
      /\ \A h \in Handlers : task[h].op = "none" /\ task[h].snapshot = Empty
      /\ \A i \in Inodes : file.content[i] = NoFile
  BY NothingTypes DEF Init
<1>2. NoFile \notin States
  BY FileAssumption DEF States
<1> QED BY <1>1, <1>2 DEF LockInv, LockedAreThere, LockoutHeeded, ClientOps

(* The state in its places: nothing but what a write has made gets there. *)
Placed ==
  /\ LockedAreThere(mem)
  /\ \A h \in Handlers : LockedAreThere(task[h].snapshot)
  /\ \A i \in Inodes : file.content[i] \in States => LockedAreThere(file.content[i])

LEMMA NextKeepsPlaced ==
  ASSUME Types, Placed, [Next]_vars
  PROVE  Placed'
<1>1. LockedAreThere(Empty)
  BY NothingTypes DEF LockedAreThere
<1>2. /\ file.content \in [Inodes -> Contents] /\ Torn \notin States /\ NoFile \notin States
      /\ \A h \in Handlers : task[h].snapshot \in States
  BY Typed, FileAssumption DEF FileRight, States
<1>3. ASSUME NEW h \in Handlers, Quiet(h) \/ Clones(h) \/ Replies(h) PROVE Placed'
  <2>1. /\ UNCHANGED <<mem, file>>
        /\ \A g \in Handlers : task'[g].snapshot \in {task[g].snapshot, Empty, mem}
    BY <1>3, NothingTypes DEF Quiet, Clones, Replies, OthersKept
  <2> QED BY <1>1, <2>1 DEF Placed
<1>4. ASSUME NEW h \in Handlers, Writes(h, history.changes + 1) PROVE Placed'
  <2>1. /\ \A g \in Handlers : task'[g].snapshot \in {task[g].snapshot, mem'}
        /\ file' = file
    BY <1>4 DEF Writes, OthersKept
  <2>2. LockedAreThere(mem')
    BY <1>4 DEF Writes, LockedAreThere, Placed
  <2> QED BY <2>1, <2>2 DEF Placed
<1>5. ASSUME NEW h \in Handlers,
             (\E i \in Inodes : Creates(h, i)) \/ (\E c \in Contents : Fills(h, c)) \/ Renames(h)
      PROVE  Placed'
  <2>1. /\ \A g \in Handlers : task'[g].snapshot \in {task[g].snapshot, Empty}
        /\ \A j \in Inodes : file'.content[j] \in {file.content[j], Torn, NoFile, task[h].snapshot}
        /\ mem' = mem
    BY <1>2, <1>5, NothingTypes DEF Creates, Fills, Renames, OthersKept
  <2> QED BY <1>1, <1>2, <2>1 DEF Placed
<1>6. CASE Stops
  BY <1>1, <1>6, NothingTypes DEF Stops, Placed
<1>7. CASE Starts
  <2>1. OnDisk \in States /\ mem' = OnDisk
    BY <1>7, OnDiskType DEF Starts
  <2>2. LockedAreThere(OnDisk)
    BY <1>1, <2>1, Typed DEF Placed, OnDisk, FileRight
  <2> QED BY <1>7, <2>1, <2>2 DEF Starts, Placed
<1>8. CASE Nothings
  BY <1>8 DEF Nothings, Placed
<1> QED BY <1>3, <1>4, <1>5, <1>6, <1>7, <1>8, NextSteps DEF Step

(* Steps that leave the memory and the message alone, or take the message out of the
   way between its check and its write. *)
LEMMA HeededStays ==
  ASSUME NEW g \in Handlers, LockoutHeeded(task[g]), mem' = mem,
         task'[g] = task[g] \/ task'[g].step \notin {"baseline", "write"}
  PROVE  LockoutHeeded(task[g])'
BY DEF LockoutHeeded

(* A user that is written has a change that no check has seen. *)
LEMMA UnseenIsHeeded ==
  ASSUME NEW g \in Handlers, LockoutHeeded(task[g]), Types, Types', task'[g] = task[g],
         task[g].step # "idle",
         mem'[task[g].user] = mem[task[g].user] \/ mem'[task[g].user].change > history.changes
  PROVE  LockoutHeeded(task[g])'
<1>1. /\ task[g].user \in Users /\ task[g].seen \in Nat /\ task[g].seen <= history.changes
      /\ history.changes \in Nat /\ mem' \in States
  BY Typed, StoreAssumption DEF TaskRight, Types, TypeOK, States
<1>2. mem'[task[g].user].change \in Nat
  BY <1>1, StoreAssumption DEF States, Desired
<1>3. CASE mem'[task[g].user] = mem[task[g].user]
  BY <1>3 DEF LockoutHeeded
<1>4. CASE mem'[task[g].user].change > history.changes
  <2>1. ~(mem'[task[g].user].change <= task[g].seen)
    BY <1>1, <1>2, <1>4
  <2> QED BY <2>1 DEF LockoutHeeded
<1> QED BY <1>3, <1>4

LEMMA RequestHeeds ==
  ASSUME NEW h \in Handlers, Types, NEW op \in AllOps, NEW u \in Users, NEW v \in Settings,
         Request(h, op, u, v)
  PROVE  LockoutHeeded(task[h])'
<1> DEFINE k == [IdleTask EXCEPT !.op = op, !.step = FirstStep(op), !.user = u, !.setting = v]
<1>1. task' = [task EXCEPT ![h] = k]
  BY DEF Request
<1>2. k.op = op /\ k.step = FirstStep(op)
  BY DEF IdleTask
<1> HIDE DEF k
<1>3. task'[h].op = op /\ task'[h].step = FirstStep(op)
  BY <1>1, <1>2, Typed
<1>4. op = "talk_mode" => FirstStep(op) = "check"
  BY DEF FirstStep
<1>5. op = "config" => FirstStep(op) = "baseline"
  BY DEF FirstStep
<1> QED BY <1>3, <1>4, <1>5 DEF LockoutHeeded, ClientOps

LEMMA CheckHeeds ==
  ASSUME NEW h \in Handlers, Types, Placed, Check(h)
  PROVE  LockoutHeeded(task[h])'
<1> DEFINE n == history.changes
           k == [task[h] EXCEPT !.step = "baseline", !.seen = n]
<1>1. task[h].step = "check" /\ mem' = mem /\ task[h].user \in Users
  BY Typed DEF Check, At, TaskRight
<1>2. CASE Finish(h)
  <2>1. task'[h].step = "idle"
    BY <1>2, Typed, NothingTypes DEF Finish
  <2> QED BY <2>1 DEF LockoutHeeded, ClientOps
<1>3. CASE task' = [task EXCEPT ![h].step = "baseline", ![h].seen = n] /\ Allowed(h)
  <2>1. task' = [task EXCEPT ![h] = k]
    <3> HIDE DEF n
    <3> QED BY <1>3, TaskType DEF Task
  <2>2. k.op = task[h].op /\ k.user = task[h].user /\ k.step = "baseline"
    BY TaskType DEF Task
  <2> HIDE DEF k
  <2>3. task'[h] = k
    BY <2>1, Typed
  <2>4. ~mem[task[h].user].locked
    BY <1>1, <1>3 DEF Allowed, Baseline, Placed, LockedAreThere
  <2> QED BY <1>1, <2>2, <2>3, <2>4 DEF LockoutHeeded
<1> QED BY <1>2, <1>3 DEF Check

LEMMA ReadBaselineHeeds ==
  ASSUME NEW h \in Handlers, Types, Placed, LockoutHeeded(task[h]), ReadBaseline(h)
  PROVE  LockoutHeeded(task[h])'
<1> DEFINE t == task[h]
           b == Baseline(t.user)
           n == IF t.op = "config" THEN history.changes ELSE t.seen
           k == [t EXCEPT !.step = "write", !.baseline = b, !.seen = n]
<1>1. t.step = "baseline" /\ mem' = mem /\ t.user \in Users
  BY Typed DEF ReadBaseline, At, TaskRight
<1>2. CASE Finish(h)
  <2>1. task'[h].step = "idle"
    BY <1>2, Typed, NothingTypes DEF Finish
  <2> QED BY <2>1 DEF LockoutHeeded, ClientOps
<1>3. CASE /\ task' = [task EXCEPT ![h].step = "write", ![h].baseline = b, ![h].seen = n]
           /\ ~(t.op = "config" /\ ~Allowed(h) /\ t.setting # b.setting)
  <2>1. mem[t.user].locked => b = mem[t.user] /\ ~Allowed(h)
    BY <1>1 DEF Allowed, Baseline, Placed, LockedAreThere
  <2>2. task' = [task EXCEPT ![h] = k]
    <3> HIDE DEF b, n
    <3> QED BY <1>3, TaskType DEF Task
  <2> HIDE DEF b, n
  <2>3. /\ k.op = t.op /\ k.user = t.user /\ k.step = "write" /\ k.baseline = b
        /\ k.setting = t.setting /\ k.seen = n
    BY TaskType DEF Task
  <2>4. t.op = "talk_mode" => n = t.seen
    BY DEF n
  <2> HIDE DEF k
  <2>5. task'[h] = k
    BY <2>2, Typed
  <2>6. t.op = "talk_mode" /\ mem[t.user].change <= t.seen => ~mem[t.user].locked
    BY <1>1 DEF LockoutHeeded, ClientOps
  <2> QED BY <1>1, <1>3, <2>1, <2>3, <2>4, <2>5, <2>6 DEF LockoutHeeded, ClientOps
<1> QED BY <1>2, <1>3 DEF ReadBaseline

(* The steps that are not about whether a message may change what is locked. *)
LEMMA OtherStepsHeed ==
  ASSUME NEW h \in Handlers, Types, NEW g \in Handlers, LockoutHeeded(task[g]),
         Apply(h) \/ Reply(h) \/ Resolve(h) \/ HelloDesired(h) \/ HelloSession(h) \/ Advertise(h) \/ Save(h)
  PROVE  LockoutHeeded(task[g])'
<1>1. mem' = mem /\ task \in [Handlers -> Task] /\ task[h] \in Task
  BY Typed DEF Apply, Reply, Resolve, HelloDesired, HelloSession, Advertise, Save, Create, Fill, FillFails, Rename
<1>2. ASSUME g # h PROVE task'[g] = task[g]
  <2>1. CASE Apply(h)
    BY <1>1, <1>2, <2>1 DEF Apply
  <2>2. CASE Reply(h) \/ FillFails(h) \/ Fill(h) \/ HelloSession(h)
    BY <1>1, <1>2, <2>2 DEF Reply, Fill, FillFails, HelloSession, Goto, Finish
  <2>3. CASE Resolve(h) \/ HelloDesired(h) \/ Advertise(h)
    BY <1>1, <1>2, <2>3 DEF Resolve, HelloDesired, Advertise
  <2>4. CASE Create(h)
    BY <1>1, <1>2, <2>4 DEF Create
  <2>5. CASE Rename(h)
    BY <1>1, <1>2, <2>5 DEF Rename, Finish
  <2> QED BY <2>1, <2>2, <2>3, <2>4, <2>5 DEF Save
<1>3. task'[h].step \notin {"baseline", "write"}
  <2>1. CASE Apply(h)
    <3>1. PICK u \in task[h].left :
            task' = [task EXCEPT ![h].left = @ \ {u},
                                 ![h].step = IF task[h].left = {u} THEN "reply" ELSE @]
      BY <2>1 DEF Apply
    <3>2. task[h].step = "apply"
      BY <2>1 DEF Apply, At
    <3> QED BY <1>1, <3>1, <3>2 DEF Task
  <2>2. CASE Reply(h) \/ FillFails(h)
    BY <1>1, <2>2, NothingTypes DEF Reply, FillFails, Finish
  <2>3. CASE Resolve(h) \/ HelloDesired(h) \/ Advertise(h) \/ Create(h)
    BY <1>1, <2>3 DEF Resolve, HelloDesired, Advertise, Create, Task
  <2>4. CASE HelloSession(h) \/ Fill(h)
    BY <1>1, <2>4 DEF HelloSession, Fill, Goto, Task
  <2>5. CASE Rename(h)
    <3>1. AfterSave(task[h]) \in {"desired", "idle", "reply", "apply"}
      BY DEF AfterSave
    <3> QED BY <1>1, <2>5, <3>1, NothingTypes DEF Rename, Finish, Task
  <2> QED BY <2>1, <2>2, <2>3, <2>4, <2>5 DEF Save
<1> QED BY <1>1, <1>2, <1>3, HeededStays

LEMMA NextKeepsLockInv ==
  ASSUME Types, LockInv, [Next]_vars
  PROVE  LockInv'
<1>1. Placed /\ Placed' /\ Types'
  BY NextKeepsPlaced, NextSteps DEF LockInv, Placed
<1> SUFFICES ASSUME NEW g \in Handlers PROVE LockoutHeeded(task[g])'
  BY <1>1 DEF LockInv, Placed
<1>2. LockoutHeeded(task[g])
  BY DEF LockInv
<1>4. ASSUME NEW h \in Handlers, NEW op \in AllOps, NEW u \in Users, NEW v \in Settings, Request(h, op, u, v)
      PROVE  LockoutHeeded(task[g])'
  <2>1. LockoutHeeded(task[h])'
    BY <1>4, RequestHeeds
  <2>2. mem' = mem /\ (g # h => task'[g] = task[g])
    BY <1>4 DEF Request
  <2> QED BY <1>2, <2>1, <2>2, HeededStays
<1>5. ASSUME NEW h \in Handlers, Check(h) \/ ReadBaseline(h) PROVE LockoutHeeded(task[g])'
  <2>1. LockoutHeeded(task[h])'
    BY <1>1, <1>5, CheckHeeds, ReadBaselineHeeds DEF LockInv
  <2>2. mem' = mem /\ (g # h => task'[g] = task[g])
    <3>1. CASE Check(h)
      BY <3>1, Typed DEF Check, Finish
    <3>2. CASE ReadBaseline(h)
      BY <3>2, Typed DEF ReadBaseline, Finish
    <3> QED BY <1>5, <3>1, <3>2
  <2> QED BY <1>2, <2>1, <2>2, HeededStays
<1>6. ASSUME NEW h \in Handlers, Write(h) PROVE LockoutHeeded(task[g])'
  <2>1. Writes(h, history.changes + 1)
    BY <1>6, WriteWrites
  <2>2. CASE g = h
    BY <2>1, <2>2 DEF Writes, LockoutHeeded
  <2>3. CASE g # h /\ task[g].step # "idle"
    <3>1. /\ task'[g] = task[g] /\ task[g].user \in Users /\ history.changes \in Nat
          /\ history.changes + 1 > history.changes
      BY <2>1, <2>3, Typed, StoreAssumption DEF Writes, OthersKept, TaskRight
    <3>2. mem'[task[g].user] = mem[task[g].user] \/ mem'[task[g].user].change = history.changes + 1
      BY <2>1, <3>1 DEF Writes
    <3> QED BY <1>1, <1>2, <2>3, <3>1, <3>2, UnseenIsHeeded
  <2>4. CASE g # h /\ task[g].step = "idle"
    BY <2>1, <2>4 DEF Writes, OthersKept, LockoutHeeded, ClientOps
  <2> QED BY <2>2, <2>3, <2>4
<1>7. ASSUME NEW h \in Handlers,
             Apply(h) \/ Reply(h) \/ Resolve(h) \/ HelloDesired(h) \/ HelloSession(h) \/ Advertise(h) \/ Save(h)
      PROVE  LockoutHeeded(task[g])'
  BY <1>2, <1>7, OtherStepsHeed
<1>8. CASE (\E u \in Users : AudioDesired(u)) \/ AudioSession \/ UNCHANGED vars
  <2>1. mem' = mem /\ task' = task
    BY <1>8 DEF AudioDesired, AudioSession, vars
  <2> QED BY <1>2, <2>1, HeededStays
<1>9. CASE Crash \/ Restart
  <2>1. task'[g].step = "idle"
    <3>1. CASE Crash
      BY <3>1, NothingTypes DEF Crash
    <3>2. CASE Restart
      BY <3>2, Typed DEF Restart, TaskRight
    <3> QED BY <1>9, <3>1, <3>2
  <2> QED BY <2>1 DEF LockoutHeeded, ClientOps
<1> QED BY <1>4, <1>5, <1>6, <1>7, <1>8, <1>9 DEF Next, Handle

(* Only the write of a client's message goes from "write" to "create". *)
LEMMA MessageIsWritten ==
  ASSUME NEW h \in Handlers, Types, [Next]_vars, task[h].step = "write", task'[h].step = "create"
  PROVE  Write(h)
<1>1. ASSUME NEW g \in Handlers,
             (\E op \in AllOps, u \in Users, v \in Settings : Request(g, op, u, v)) \/ Handle(g) \/ Save(g)
      PROVE  g = h
  <2>1. task'[h] # task[h]
    OBVIOUS
  <2> QED BY <1>1, <2>1, Typed DEF Request, Handle, Check, ReadBaseline, Write, Apply, Reply, Resolve,
        HelloDesired, HelloSession, Advertise, Save, Create, Fill, FillFails, Rename, Goto, Finish
<1>2. ~ \E op \in AllOps, u \in Users, v \in Settings : Request(h, op, u, v)
  BY DEF Request, At
<1>3. Handle(h) => Write(h)
  BY DEF Handle, Check, ReadBaseline, Apply, Reply, Resolve, HelloDesired, HelloSession, Advertise, At
<1>4. ~Save(h)
  BY DEF Save, Create, Fill, FillFails, Rename, At
<1>5. CASE (\E u \in Users : AudioDesired(u)) \/ AudioSession \/ Restart \/ UNCHANGED vars
  BY <1>5 DEF AudioDesired, AudioSession, Restart, vars
<1>6. CASE Crash
  BY <1>6, NothingTypes DEF Crash
<1> QED BY <1>1, <1>2, <1>3, <1>4, <1>5, <1>6 DEF Next

(* However many requests are handled at once, a client's message changes a setting that
   the admin has locked, or lifts the lockout, only if the user was written after the
   message was checked: a lockout that the check could see holds
   (ensure_control_allowed, validate_config_lockout, apply_desired_client). *)
THEOREM LockoutsStick == Spec => LockoutSticks
<1>1. Init => Types /\ LockInv
  BY InitEstablishesTypes, InitEstablishesLockInv
<1>2. Types /\ LockInv /\ [Next]_vars => (Types /\ LockInv)'
  BY NextSteps, NextKeepsLockInv
<1>3. Types /\ LockInv /\ [Next]_vars =>
        [\A h \in Handlers, u \in Users : Overrides(h, u) => mem[u].change > task[h].seen]_vars
  <2> SUFFICES ASSUME Types, LockInv, [Next]_vars, NEW h \in Handlers, NEW u \in Users, Overrides(h, u)
               PROVE  mem[u].change > task[h].seen
    OBVIOUS
  <2>1. /\ task[h].op \in ClientOps /\ task[h].step = "write" /\ task'[h].step = "create" /\ mem[u].locked
        /\ ~(mem'[u].locked /\ mem'[u].setting = mem[u].setting)
    BY DEF Overrides
  <2>2. Write(h)
    BY <2>1, MessageIsWritten
  <2>3. PICK d \in Result(task[h], task[h].user) :
          mem' = [v \in Users |-> IF v \in Written(task[h]) THEN d ELSE mem[v]]
    BY <2>2 DEF Write
  <2>4. d.setting = task[h].setting /\ d.locked = task[h].baseline.locked /\ Written(task[h]) = {task[h].user}
    BY <2>1, <2>3 DEF Result, Written, ClientOps
  <2>5. u = task[h].user
    BY <2>1, <2>3, <2>4
  <2>6. ~(mem[u].change <= task[h].seen)
    BY <2>1, <2>3, <2>4, <2>5 DEF LockInv, LockoutHeeded, ClientOps
  <2>7. mem[u].change \in Nat /\ task[h].seen \in Nat
    BY Typed, StoreAssumption DEF States, Desired
  <2> QED BY <2>6, <2>7
<1> QED BY <1>1, <1>2, <1>3, PTL DEF Spec, LockoutSticks
=============================================================================
