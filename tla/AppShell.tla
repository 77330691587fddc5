------------------------------ MODULE AppShell ------------------------------
(***************************************************************************)
(* The shells that hold a client runtime: the native window and the mobile    *)
(* application (clients/app).  A start command spawns a thread with a client   *)
(* runtime (clients/desktop) of its own and keeps a handle to it, a stop       *)
(* command takes the handle, asks the runtime to end and joins its thread.     *)
(*                                                                         *)
(* Neither command holds the shell's lock while it spawns or joins.  The       *)
(* native shell runs its commands one at a time; the mobile shell's start is    *)
(* asynchronous, so starts, stops and status requests interleave.             *)
(*                                                                         *)
(* Saving the settings file and the fields of the responses are left out.      *)
(***************************************************************************)
EXTENDS Naturals, FiniteSets

CONSTANTS
  Callers,   \* tasks that run the shell's commands, one command at a time each
  MaxRuns    \* bound: how many runtimes are spawned

Runs == 1..MaxRuns
None == 0

VARIABLES
  shell,     \* "native" or "mobile"; it never changes
  phase,     \* phase of the runtime state, as the window shows it
  held,      \* the run whose handle the runtime state holds, or None
  run,       \* run[r]: where its thread is, whether it has handed over its local
             \* API, and whether its shutdown future has resolved
  caller     \* caller[c]: where the command is, and the run that it is about

vars == <<shell, phase, held, run, caller>>

Idle == [at |-> "idle", run |-> None]
Unborn == [at |-> "unborn", told |-> FALSE, asked |-> FALSE]

Init ==
  /\ shell \in {"native", "mobile"}
  /\ phase = "stopped"
  /\ held = None
  /\ run = [r \in Runs |-> Unborn]
  /\ caller = [c \in Callers |-> Idle]

Over(r) == run[r].at \in {"exited", "failed"}
Alive(r) == run[r].at \in {"booting", "greeting", "looping"}

-----------------------------------------------------------------------------
(* A runtime's thread. *)

(* Identity, settings, buffers; then the local API is handed over. *)
Ready(r) ==
  /\ run[r].at = "booting"
  /\ run' = [run EXCEPT ![r].at = "greeting", ![r].told = TRUE]
  /\ UNCHANGED <<shell, phase, held, caller>>

(* The output stream plays and the server has answered the hello.  The shutdown *)
(* future is not polled before that.                                         *)
Greeted(r) ==
  /\ run[r].at = "greeting"
  /\ run' = [run EXCEPT ![r].at = "looping"]
  /\ UNCHANGED <<shell, phase, held, caller>>

(* A device is missing, the server refuses the hello, a socket cannot be bound. *)
Fails(r) ==
  /\ Alive(r)
  /\ run' = [run EXCEPT ![r].at = "failed"]
  /\ UNCHANGED <<shell, phase, held, caller>>

(* The select at the end of the runtime: the first branch that is ready. *)
Exits(r) ==
  /\ run[r].at = "looping"
  /\ run[r].asked
  /\ run' = [run EXCEPT ![r].at = "exited"]
  /\ UNCHANGED <<shell, phase, held, caller>>

-----------------------------------------------------------------------------
(* A fault: the runtime waits for a message and ignores a closed channel. *)
DroppedUnasked(runs, r) == runs

(* The handle.  Dropping it drops the sender of the shutdown channel, and the   *)
(* runtime awaits the channel whatever it yields.                             *)

Asked(runs, r) == IF r = None THEN runs ELSE [runs EXCEPT ![r].asked = TRUE]

Dropped(runs, r) == Asked(runs, r)

(* What every command does with the runtime state first: a thread that is over  *)
(* is joined and forgotten.                                                  *)
Refreshed ==
  IF held = None
  THEN [held |-> None, phase |-> IF phase = "failed" THEN "failed" ELSE "stopped"]
  ELSE IF Over(held)
       THEN [held |-> None, phase |-> IF run[held].at = "failed" THEN "failed" ELSE "stopped"]
       ELSE [held |-> held, phase |-> "running"]

(* The commands of the native shell are synchronous: one at a time. *)
NativeTurn(c) == shell = "native" => \A other \in Callers \ {c} : caller[other] = Idle

(* The mobile start is a task of its own and the mobile stop a call on the main *)
(* thread: there is one stop at a time.                                      *)
StopTurn(c) ==
  /\ NativeTurn(c)
  /\ \A other \in Callers \ {c} : caller[other].at # "joining"

-----------------------------------------------------------------------------
(* Commands. *)

Start(c) ==
  /\ caller[c] = Idle
  /\ NativeTurn(c)
  /\ held' = Refreshed.held
  /\ IF held' # None
     THEN /\ phase' = Refreshed.phase
          /\ UNCHANGED caller
     ELSE /\ phase' = "starting"
          /\ caller' = [caller EXCEPT ![c].at = "preparing"]
  /\ UNCHANGED <<shell, run>>

(* The mobile shell asks the platform for its audio session first. *)
Unprepared(c) ==
  /\ caller[c].at = "preparing"
  /\ shell = "mobile"
  /\ caller' = [caller EXCEPT ![c].at = "failing"]
  /\ UNCHANGED <<shell, phase, held, run>>

Spawn(c) ==
  /\ caller[c].at = "preparing"
  /\ \E r \in Runs :
       /\ run[r] = Unborn
       /\ \A earlier \in 1..(r - 1) : run[earlier] # Unborn
       /\ run' = [run EXCEPT ![r].at = "booting"]
       /\ caller' = [caller EXCEPT ![c] = [at |-> "awaiting", run |-> r]]
  /\ UNCHANGED <<shell, phase, held>>

GotApi(c) ==
  /\ caller[c].at = "awaiting"
  /\ run[caller[c].run].told
  /\ caller' = [caller EXCEPT ![c].at = "keeping"]
  /\ UNCHANGED <<shell, phase, held, run>>

(* The native spawn: 15 seconds have passed, or the thread is over.  It is asked *)
(* to end and left alone.                                                     *)
NativeGivesUp(c) ==
  /\ shell = "native"
  /\ caller[c].at = "awaiting"
  /\ ~run[caller[c].run].told
  /\ run' = Asked(run, caller[c].run)
  /\ caller' = [caller EXCEPT ![c] = [at |-> "failing", run |-> None]]
  /\ UNCHANGED <<shell, phase, held>>

(* The mobile spawn looks every 100 ms whether the thread is over, and joins it. *)
MobileGivesUp(c) ==
  /\ shell = "mobile"
  /\ caller[c].at = "awaiting"
  /\ ~run[caller[c].run].told
  /\ run' = Asked(run, caller[c].run)
  /\ caller' = [caller EXCEPT ![c] = [at |-> "failing", run |-> None]]
  /\ UNCHANGED <<shell, phase, held>>

(* set_mobile_runtime_failure: whatever handle is there is dropped. *)
Cleared(handle) == None

Failure(c) ==
  /\ caller[c].at = "failing"
  /\ run' = Dropped(run, held)
  /\ held' = Cleared(held)
  /\ phase' = "failed"
  /\ caller' = [caller EXCEPT ![c] = Idle]
  /\ UNCHANGED shell

(* The end of a start: the new handle replaces whatever handle is there. *)
Keep(c) ==
  /\ caller[c].at = "keeping"
  /\ run' = Dropped(run, held)
  /\ held' = caller[c].run
  /\ phase' = "running"
  /\ caller' = [caller EXCEPT ![c] = Idle]
  /\ UNCHANGED shell

(* The handle is taken under the lock; the runtime is asked and joined after it. *)
Stop(c) ==
  /\ caller[c] = Idle
  /\ StopTurn(c)
  /\ run' = Asked(run, held)
  /\ caller' = [caller EXCEPT ![c] = IF held = None THEN Idle ELSE [at |-> "joining", run |-> held]]
  /\ held' = None
  /\ phase' = "stopped"
  /\ UNCHANGED shell

Joined(c) ==
  /\ caller[c].at = "joining"
  /\ Over(caller[c].run)
  /\ caller' = [caller EXCEPT ![c] = Idle]
  /\ UNCHANGED <<shell, phase, held, run>>

(* The status command, and every command that needs the local API. *)
Status(c) ==
  /\ caller[c] = Idle
  /\ NativeTurn(c)
  /\ held' = Refreshed.held
  /\ phase' = Refreshed.phase
  /\ UNCHANGED <<shell, run, caller>>

Next ==
  \/ \E r \in Runs : Ready(r) \/ Greeted(r) \/ Fails(r) \/ Exits(r)
  \/ \E c \in Callers :
       \/ Start(c) \/ Unprepared(c) \/ Spawn(c) \/ GotApi(c)
       \/ NativeGivesUp(c) \/ MobileGivesUp(c) \/ Failure(c) \/ Keep(c)
       \/ Stop(c) \/ Joined(c) \/ Status(c)

Spec == Init /\ [][Next]_vars

-----------------------------------------------------------------------------
(* Every run is numbered once, and a caller waits only where a command waits. *)
TypeOK ==
  /\ shell \in {"native", "mobile"}
  /\ phase \in {"stopped", "starting", "running", "failed"}
  /\ held \in Runs \cup {None}
  /\ run \in [Runs -> [at : {"unborn", "booting", "greeting", "looping", "exited", "failed"},
                       told : BOOLEAN, asked : BOOLEAN]]
  /\ caller \in [Callers ->
       [at : {"idle", "preparing", "awaiting", "keeping", "failing", "joining"},
        run : Runs \cup {None}]]

(* A client that nobody can reach ends: a runtime whose thread lives is held by *)
(* the shell, is still being started by a command, or has been asked to end.   *)
(* Two starts at once, a start that fails beside one that succeeds, and a start *)
(* that gives up waiting all let go of a running client.                      *)
AbandonedAreAsked ==
  \A r \in Runs : Alive(r) =>
    \/ run[r].asked
    \/ held = r
    \/ \E c \in Callers : caller[c].at \in {"awaiting", "keeping"} /\ caller[c].run = r

(* The window says "running" exactly while the shell holds a client: whatever   *)
(* commands overlap, the phase and the handle are replaced together.          *)
HeldIsShown == phase = "running" <=> held # None
=============================================================================
