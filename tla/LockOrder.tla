----------------------------- MODULE LockOrder -----------------------------
(***************************************************************************)
(* The locks of ServerState and the order in which handlers take them.       *)
(*                                                                         *)
(* Every table of the server has a lock of its own (tokio's RwLock).  A       *)
(* handler is seen here as nothing but its requests for locks (module          *)
(* LockPrograms), one after the other.  Tokio's lock is fair: who              *)
(* cannot be served at once queues, and a reader queues behind a waiting      *)
(* writer even while the lock is held by readers only.                       *)
(***************************************************************************)
EXTENDS LockPrograms, FiniteSets

CONSTANTS
  Tasks,      \* tasks of the runtime that run handlers at once
  Handlers,   \* the handlers they run, of DOMAIN Program
  Idle        \* runs nothing

LockAssumption ==
  /\ Handlers \subseteq DOMAIN Program /\ Idle \notin Handlers
  /\ \A h \in Handlers : Program[h] \in Seq(Request)

-----------------------------------------------------------------------------
VARIABLES
  runs,   \* runs[t]: the handler that t runs
  done,   \* done[t]: how many of its requests t has been given
  held,   \* held[t]: the locks that t holds, with the mode
  queue   \* queue[l]: who waits for l, first come first

vars == <<runs, done, held, queue>>

Init ==
  /\ runs = [t \in Tasks |-> Idle] /\ done = [t \in Tasks |-> 0]
  /\ held = [t \in Tasks |-> {}] /\ queue = [l \in Locks |-> <<>>]

Next1(t) == Program[runs[t]][done[t] + 1]
Waiting(t) == \E l \in Locks : \E i \in DOMAIN queue[l] : queue[l][i] = t
Conflict(m, n) == m = "write" \/ n = "write"
Free(l, mode, holding) ==
  \A t \in Tasks : \A x \in holding[t] : x[1] = l => ~Conflict(mode, x[2])

Start(t, h) ==
  /\ runs[t] = Idle
  /\ runs' = [runs EXCEPT ![t] = h] /\ done' = [done EXCEPT ![t] = 0]
  /\ UNCHANGED <<held, queue>>

(* Guards that go out of scope, and the next request: served or queued. *)
Ask(t) ==
  /\ runs[t] # Idle /\ ~Waiting(t) /\ done[t] < Len(Program[runs[t]])
  /\ LET r == Next1(t)
         kept == {x \in held[t] : x[1] \in r.keep}
         now == [held EXCEPT ![t] = kept]
     IN \/ /\ queue[r.lock] = <<>> /\ Free(r.lock, r.mode, now)
           /\ held' = [held EXCEPT ![t] = kept \cup {<<r.lock, r.mode>>}]
           /\ done' = [done EXCEPT ![t] = @ + 1]
           /\ UNCHANGED <<runs, queue>>
        \/ /\ ~(queue[r.lock] = <<>> /\ Free(r.lock, r.mode, now))
           /\ held' = now
           /\ queue' = [queue EXCEPT ![r.lock] = Append(@, t)]
           /\ UNCHANGED <<runs, done>>

(* The lock goes to who has waited longest. *)
Grant(l) ==
  /\ queue[l] # <<>>
  /\ LET t == Head(queue[l]) IN
       /\ Free(l, Next1(t).mode, held)
       /\ held' = [held EXCEPT ![t] = @ \cup {<<l, Next1(t).mode>>}]
       /\ done' = [done EXCEPT ![t] = @ + 1]
       /\ queue' = [queue EXCEPT ![l] = Tail(@)]
       /\ UNCHANGED runs

Finish(t) ==
  /\ runs[t] # Idle /\ ~Waiting(t) /\ done[t] = Len(Program[runs[t]])
  /\ runs' = [runs EXCEPT ![t] = Idle] /\ done' = [done EXCEPT ![t] = 0]
  /\ held' = [held EXCEPT ![t] = {}]
  /\ UNCHANGED queue

Next ==
  \/ \E t \in Tasks : (\E h \in Handlers : Start(t, h)) \/ Ask(t) \/ Finish(t)
  \/ \E l \in Locks : Grant(l)

Spec == Init /\ [][Next]_vars

-----------------------------------------------------------------------------
(* Properties. *)

(* Every variable keeps its type. *)
TypeOK ==
  /\ runs \in [Tasks -> Handlers \cup {Idle}] /\ done \in [Tasks -> Nat]
  /\ held \in [Tasks -> SUBSET (Locks \X Modes)]
  /\ queue \in [Locks -> Seq(Tasks)]

(* t waits for l until u has had it, or has let go of it. *)
WaitsFor(t, u) ==
  \E l \in Locks : \E i \in DOMAIN queue[l] :
    /\ queue[l][i] = t
    /\ \/ \E mode \in Modes : <<l, mode>> \in held[u]
       \/ \E j \in 1..(i - 1) : queue[l][j] = u

(* "mixes active talkers every 10 ms" (README.md:60), whatever else the server
   does: no handlers wait for each other in a circle.  A circle around the
   sessions stops the mixer, and with it everything. *)
NoDeadlock ==
  \A S \in (SUBSET Tasks) \ {{}} : \E t \in S : \A u \in S : ~WaitsFor(t, u)
=============================================================================
