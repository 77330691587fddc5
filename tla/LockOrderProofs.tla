-------------------------- MODULE LockOrderProofs --------------------------
(***************************************************************************)
(* Whoever takes locks in the order of their ranks never waits in a circle,   *)
(* whatever the number of tasks and whatever the handlers ask for.           *)
(***************************************************************************)
EXTENDS LockOrder, WellFoundedInduction, SequenceTheorems, TLAPS

-----------------------------------------------------------------------------
(* Every set of numbers has a least, and every bounded one a greatest. *)

LEMMA Least ==
  ASSUME NEW T, T \subseteq Nat, T # {}
  PROVE  \E x \in T : \A y \in T : x <= y
<1> DEFINE Less == {ss \in Nat \X Nat : ss[1] < ss[2]}
<1>1. IsWellFoundedOn(Less, Nat)
  BY NatLessThanWellFounded DEF OpToRel
<1>2. PICK x \in T : \A y \in T : <<y, x>> \notin Less
  <2> HIDE DEF Less
  <2> QED BY <1>1, WFMin, Zenon
<1>3. ASSUME NEW y \in T PROVE x <= y
  <2>1. x \in Nat /\ y \in Nat
    OBVIOUS
  <2>2. <<y, x>> \in Nat \X Nat /\ ~(<<y, x>>[1] < <<y, x>>[2])
    BY <1>2, <2>1
  <2> QED BY <2>1, <2>2
<1> QED BY <1>3

LEMMA Greatest ==
  ASSUME NEW N \in Nat, NEW T, T \subseteq 0..N, T # {}
  PROVE  \E x \in T : \A y \in T : y <= x
<1> DEFINE D == {N - y : y \in T}
<1>1. PICK d \in D : \A e \in D : d <= e
  <2>1. \A y \in T : N - y \in Nat
    OBVIOUS
  <2>2. D \subseteq Nat
    BY <2>1
  <2>3. D # {}
    OBVIOUS
  <2> HIDE DEF D
  <2> QED BY <2>2, <2>3, Least
<1>2. PICK x \in T : d = N - x
  OBVIOUS
<1>3. ASSUME NEW y \in T PROVE y <= x
  <2>1. N - y \in D
    OBVIOUS
  <2>2. N - x <= N - y
    BY <2>1, <1>1, <1>2
  <2>3. x \in Int /\ y \in Int
    OBVIOUS
  <2> HIDE DEF D
  <2> QED BY <2>2, <2>3
<1> QED BY <1>3

(* Ranks are numbers. *)
LEMMA RankType == Rank \in [Locks -> 0..14]
BY DEF Rank, Locks

-----------------------------------------------------------------------------
(* The invariant. *)

(* Who waits has been asked for what it waits for. *)
WaitersAsk ==
  \A l \in Locks : \A i \in DOMAIN queue[l] :
    LET t == queue[l][i] IN
      /\ runs[t] \in Handlers
      /\ done[t] + 1 \in DOMAIN Program[runs[t]]
      /\ Next1(t).lock = l

(* Who waits, waits once. *)
WaitOnce ==
  \A l, k \in Locks : \A i \in DOMAIN queue[l], j \in DOMAIN queue[k] :
    queue[l][i] = queue[k][j] => l = k /\ i = j

(* Who waits for a lock holds only locks of a lower rank. *)
HeldBelow ==
  \A l \in Locks : \A i \in DOMAIN queue[l] : \A x \in held[queue[l][i]] :
    Rank[x[1]] < Rank[l]

Inv == TypeOK /\ WaitersAsk /\ WaitOnce /\ HeldBelow

(* In a circle, look at the lock of the highest rank that somebody waits for, and
   there at who came first: it waits for a holder, who waits for a higher lock. *)
LEMMA NoCircle ==
  ASSUME Inv PROVE NoDeadlock
<1> SUFFICES ASSUME NEW S \in SUBSET Tasks, S # {},
                    \A t \in S : \E u \in S : WaitsFor(t, u)
             PROVE  FALSE
  BY DEF NoDeadlock
<1> USE DEF Inv
<1>1. \A t \in S : \E l \in Locks : \E i \in DOMAIN queue[l] : queue[l][i] = t
  BY DEF WaitsFor
<1> DEFINE Wanted == {k \in Locks : \E i \in DOMAIN queue[k] : queue[k][i] \in S}
           Ranks == {Rank[k] : k \in Wanted}
<1>2. PICK l \in Wanted : \A k \in Wanted : Rank[k] <= Rank[l]
  <2>1. Ranks \subseteq 0..14
    BY RankType
  <2>2. Ranks # {}
    <3>1. Wanted # {}
      BY <1>1
    <3> QED BY <3>1
  <2>3. PICK r \in Ranks : \A s \in Ranks : s <= r
    <3> HIDE DEF Ranks
    <3> QED BY <2>1, <2>2, Greatest
  <2>4. PICK k \in Wanted : r = Rank[k]
    BY <2>3
  <2>5. \A j \in Wanted : Rank[j] \in Ranks
    OBVIOUS
  <2> HIDE DEF Ranks, Wanted
  <2> QED BY <2>3, <2>4, <2>5
<1> DEFINE Places == {i \in DOMAIN queue[l] : queue[l][i] \in S}
<1>3. PICK i \in Places : \A j \in Places : i <= j
  <2>1. Places \subseteq Nat
    <3>1. queue[l] \in Seq(Tasks)
      BY DEF TypeOK
    <3> QED BY <3>1
  <2>2. Places # {}
    OBVIOUS
  <2> HIDE DEF Places
  <2> QED BY <2>1, <2>2, Least
<1> DEFINE t == queue[l][i]
<1>4. PICK u \in S : WaitsFor(t, u)
  BY <1>3
<1>5. \/ \E mode \in Modes : <<l, mode>> \in held[u]
      \/ \E j \in 1..(i - 1) : queue[l][j] = u
  <2>1. PICK k \in Locks : \E j \in DOMAIN queue[k] :
          /\ queue[k][j] = t
          /\ \/ \E mode \in Modes : <<k, mode>> \in held[u]
             \/ \E p \in 1..(j - 1) : queue[k][p] = u
    BY <1>4 DEF WaitsFor
  <2>2. PICK j \in DOMAIN queue[k] :
          /\ queue[k][j] = t
          /\ \/ \E mode \in Modes : <<k, mode>> \in held[u]
             \/ \E p \in 1..(j - 1) : queue[k][p] = u
    BY <2>1
  <2>3. l \in Locks /\ i \in DOMAIN queue[l]
    BY <1>3
  <2>4. k = l /\ j = i
    BY <2>2, <2>3 DEF WaitOnce
  <2> QED BY <2>2, <2>4
<1>6. CASE \E mode \in Modes : <<l, mode>> \in held[u]
  <2>1. PICK mode \in Modes : <<l, mode>> \in held[u]
    BY <1>6
  <2>2. PICK k \in Locks : \E j \in DOMAIN queue[k] : queue[k][j] = u
    BY <1>1
  <2>3. Rank[l] < Rank[k]
    BY <2>1, <2>2 DEF HeldBelow
  <2>4. k \in Wanted
    BY <2>2
  <2>5. Rank[k] <= Rank[l] /\ Rank[k] \in Nat /\ Rank[l] \in Nat
    BY <1>2, <2>4, RankType
  <2> QED BY <2>3, <2>5
<1>7. CASE \E j \in 1..(i - 1) : queue[l][j] = u
  <2>1. PICK j \in 1..(i - 1) : queue[l][j] = u
    BY <1>7
  <2>2. queue[l] \in Seq(Tasks) /\ i \in DOMAIN queue[l]
    BY <1>3 DEF TypeOK
  <2>3. j \in DOMAIN queue[l] /\ j < i
    BY <2>1, <2>2
  <2>4. j \in Places
    BY <2>1, <2>3
  <2> QED BY <1>3, <2>2, <2>3, <2>4
<1> QED BY <1>5, <1>6, <1>7

-----------------------------------------------------------------------------
(* The steps. *)

LEMMA InvInit == Init => Inv
BY DEF Init, Inv, TypeOK, WaitersAsk, WaitOnce, HeldBelow

(* A handler begins: it waits for nothing and holds nothing new. *)
LEMMA StartKeeps ==
  ASSUME LockAssumption, Inv, NEW t \in Tasks, NEW h \in Handlers, Start(t, h)
  PROVE  Inv'
<1> USE DEF Inv
<1>1. TypeOK'
  BY DEF TypeOK, Start
<1>2. \A l \in Locks : \A i \in DOMAIN queue[l] : queue[l][i] # t
  BY DEF WaitersAsk, Start, LockAssumption
<1>3. WaitersAsk'
  BY <1>2 DEF WaitersAsk, Start, Next1, TypeOK
<1>4. WaitOnce' /\ HeldBelow'
  BY DEF WaitOnce, HeldBelow, Start
<1> QED BY <1>1, <1>3, <1>4

(* A handler ends: it waited for nothing, and holds nothing any more. *)
LEMMA FinishKeeps ==
  ASSUME LockAssumption, Inv, NEW t \in Tasks, Finish(t)
  PROVE  Inv'
<1> USE DEF Inv
<1>1. TypeOK'
  BY DEF TypeOK, Finish
<1>2. \A l \in Locks : \A i \in DOMAIN queue[l] : queue[l][i] # t
  BY DEF Waiting, Finish
<1>3. WaitersAsk'
  BY <1>2 DEF WaitersAsk, Finish, Next1, TypeOK
<1>4. WaitOnce'
  BY DEF WaitOnce, Finish
<1>5. HeldBelow'
  BY <1>2 DEF HeldBelow, Finish, TypeOK
<1> QED BY <1>1, <1>3, <1>4, <1>5
-----------------------------------------------------------------------------

(* The request that a running handler makes next. *)
LEMMA NextRequest ==
  ASSUME LockAssumption, TypeOK, NEW t \in Tasks, runs[t] \in Handlers,
         done[t] < Len(Program[runs[t]])
  PROVE  /\ done[t] + 1 \in DOMAIN Program[runs[t]]
         /\ Next1(t) \in Request
<1>1. Program[runs[t]] \in Seq(Request) /\ done[t] \in Nat
  BY DEF LockAssumption, TypeOK
<1>2. done[t] + 1 \in DOMAIN Program[runs[t]]
  BY <1>1
<1>3. Next1(t) \in Request
  BY <1>1, <1>2 DEF Next1
<1> QED BY <1>2, <1>3

(* A handler asks: it keeps what ranks below what it asks for. *)
LEMMA AskKeeps ==
  ASSUME LockAssumption, Ordered(Handlers), Inv, NEW t \in Tasks, Ask(t)
  PROVE  Inv'
<1> USE DEF Inv
<1> DEFINE r == Next1(t)
           kept == {x \in held[t] : x[1] \in r.keep}
           now == [held EXCEPT ![t] = kept]
<1>1. runs[t] \in Handlers /\ done[t] < Len(Program[runs[t]])
  BY DEF Ask, TypeOK
<1>2. done[t] + 1 \in DOMAIN Program[runs[t]] /\ r \in Request
  BY <1>1, NextRequest
<1>3. \A l \in Locks : \A i \in DOMAIN queue[l] : queue[l][i] # t
  BY DEF Ask, Waiting
<1>4. \A x \in kept : Rank[x[1]] < Rank[r.lock]
  BY <1>1, <1>2 DEF Ordered, Next1
<1>5. r.lock \in Locks /\ r.mode \in Modes
  BY <1>2 DEF Request
<1>6. kept \subseteq Locks \X Modes
  BY DEF TypeOK
<1>7. runs' = runs
  BY DEF Ask
<1> HIDE DEF r, kept
<1>8. CASE /\ held' = [held EXCEPT ![t] = kept \cup {<<r.lock, r.mode>>}]
           /\ done' = [done EXCEPT ![t] = @ + 1]
           /\ queue' = queue
  <2>1. TypeOK'
    BY <1>5, <1>6, <1>7, <1>8 DEF TypeOK
  <2>2. WaitersAsk'
    BY <1>3, <1>7, <1>8 DEF WaitersAsk, Next1, TypeOK
  <2>3. WaitOnce'
    BY <1>8 DEF WaitOnce
  <2>4. HeldBelow'
    BY <1>3, <1>8 DEF HeldBelow, TypeOK
  <2> QED BY <2>1, <2>2, <2>3, <2>4
<1>9. CASE /\ held' = [held EXCEPT ![t] = kept]
           /\ queue' = [queue EXCEPT ![r.lock] = Append(@, t)]
           /\ done' = done
  <2>1. TypeOK'
    BY <1>5, <1>6, <1>7, <1>9 DEF TypeOK
  <2>2. ASSUME NEW l \in Locks, NEW i \in DOMAIN queue'[l]
        PROVE  \/ i \in DOMAIN queue[l] /\ queue'[l][i] = queue[l][i] /\ queue[l][i] # t
               \/ l = r.lock /\ i = Len(queue[l]) + 1 /\ queue'[l][i] = t
    <3>1. queue \in [Locks -> Seq(Tasks)] /\ queue[l] \in Seq(Tasks)
      BY DEF TypeOK
    <3>2. CASE l # r.lock
      BY <1>3, <1>5, <1>9, <3>1, <3>2
    <3>3. CASE l = r.lock
      <4>1. queue'[l] = Append(queue[l], t)
        BY <1>5, <1>9, <3>1, <3>3, SMTT(30)
      <4> QED BY <1>3, <3>1, <3>3, <4>1
    <3> QED BY <3>2, <3>3
  <2>3. WaitersAsk'
    <3>1. ASSUME NEW l \in Locks, NEW i \in DOMAIN queue'[l]
          PROVE  LET u == queue'[l][i] IN
                   /\ runs[u] \in Handlers
                   /\ done[u] + 1 \in DOMAIN Program[runs[u]]
                   /\ Program[runs[u]][done[u] + 1].lock = l
      <4>1. CASE i \in DOMAIN queue[l] /\ queue'[l][i] = queue[l][i]
        BY <4>1 DEF WaitersAsk, Next1
      <4>2. CASE l = r.lock /\ queue'[l][i] = t
        BY <1>1, <1>2, <4>2 DEF r, Next1
      <4> QED BY <2>2, <4>1, <4>2
    <3> QED BY <1>7, <1>9, <3>1, ZenonT(60) DEF WaitersAsk, Next1
  <2>4. WaitOnce'
    BY <2>2 DEF WaitOnce
  <2>5. HeldBelow'
    BY <1>4, <1>9, <2>2 DEF HeldBelow, TypeOK
  <2> QED BY <2>1, <2>3, <2>4, <2>5
<1> QED BY <1>8, <1>9 DEF Ask, r, kept

(* The first in a queue is served: it waits no more. *)
LEMMA GrantKeeps ==
  ASSUME LockAssumption, Inv, NEW l \in Locks, Grant(l)
  PROVE  Inv'
<1> USE DEF Inv
<1> DEFINE t == Head(queue[l])
<1>1. /\ queue \in [Locks -> Seq(Tasks)] /\ queue[l] \in Seq(Tasks) /\ queue[l] # <<>>
      /\ t = queue[l][1] /\ 1 \in DOMAIN queue[l] /\ t \in Tasks
  BY DEF TypeOK, Grant
<1>2. runs[t] \in Handlers /\ done[t] + 1 \in DOMAIN Program[runs[t]]
  BY <1>1 DEF WaitersAsk
<1>3. Next1(t) \in Request
  BY <1>2 DEF Next1, LockAssumption
<1>4. /\ held' = [held EXCEPT ![t] = @ \cup {<<l, Next1(t).mode>>}]
      /\ done' = [done EXCEPT ![t] = @ + 1]
      /\ queue' = [queue EXCEPT ![l] = Tail(@)]
      /\ runs' = runs
  BY DEF Grant
<1>5. Next1(t).mode \in Modes
  BY <1>3 DEF Request
<1> HIDE DEF t
<1>6. TypeOK'
  BY <1>1, <1>4, <1>5 DEF TypeOK
<1>7. ASSUME NEW k \in Locks, NEW i \in DOMAIN queue'[k]
      PROVE  LET j == IF k = l THEN i + 1 ELSE i
             IN i \in Int /\ j \in DOMAIN queue[k] /\ queue'[k][i] = queue[k][j] /\ queue[k][j] # t
  <2>1. queue[k] \in Seq(Tasks)
    BY <1>1
  <2>2. CASE k # l
    <3>1. queue'[k] = queue[k]
      BY <1>1, <1>4, <2>2
    <3> QED BY <1>1, <2>1, <2>2, <3>1 DEF WaitOnce
  <2>3. CASE k = l
    <3>1. queue'[k] = Tail(queue[l])
      BY <1>1, <1>4, <2>3
    <3>2. i \in Int /\ i + 1 \in DOMAIN queue[l] /\ Tail(queue[l])[i] = queue[l][i + 1] /\ i + 1 # 1
      BY <1>1, <3>1
    <3>3. queue[l][i + 1] # t
      BY <1>1, <3>2 DEF WaitOnce
    <3> QED BY <2>3, <3>1, <3>2, <3>3
  <2> QED BY <2>2, <2>3
<1>8. WaitersAsk'
  <2> SUFFICES ASSUME NEW k \in Locks, NEW i \in DOMAIN queue'[k]
               PROVE  LET v == queue'[k][i] IN
                        /\ runs'[v] \in Handlers
                        /\ done'[v] + 1 \in DOMAIN Program[runs'[v]]
                        /\ Program[runs'[v]][done'[v] + 1].lock = k
    BY DEF WaitersAsk, Next1
  <2> DEFINE j == IF k = l THEN i + 1 ELSE i
             v == queue[k][j]
  <2>1. j \in DOMAIN queue[k] /\ queue'[k][i] = v /\ v # t
    BY <1>7
  <2>2. runs[v] \in Handlers /\ done[v] + 1 \in DOMAIN Program[runs[v]] /\ Program[runs[v]][done[v] + 1].lock = k
    BY <2>1 DEF WaitersAsk, Next1
  <2>3. v \in Tasks
    <3>1. queue[k] \in Seq(Tasks)
      BY <1>1
    <3> QED BY <2>1, <3>1
  <2> HIDE DEF j, v
  <2>4. done'[v] = done[v]
    BY <1>1, <1>4, <2>1, <2>3 DEF TypeOK
  <2> QED BY <1>4, <2>1, <2>2, <2>4
<1>9. WaitOnce'
  BY <1>7 DEF WaitOnce
<1>10. HeldBelow'
  BY <1>1, <1>4, <1>7 DEF HeldBelow, TypeOK
<1> QED BY <1>6, <1>8, <1>9, <1>10

LEMMA InvStep ==
  ASSUME LockAssumption, Ordered(Handlers), Inv, [Next]_vars
  PROVE  Inv'
<1>1. CASE UNCHANGED vars
  BY <1>1 DEF vars, Inv, TypeOK, WaitersAsk, WaitOnce, HeldBelow, Next1
<1>2. CASE Next
  BY <1>2, StartKeeps, AskKeeps, FinishKeeps, GrantKeeps DEF Next
<1> QED BY <1>1, <1>2

-----------------------------------------------------------------------------
(* The handlers of the server, but for one, nest locks in the order of the ranks. *)

(* A program that asks for locks above n only, each while it keeps lower ones. *)
Sound(n, prog) ==
  /\ prog \in Seq(Request)
  /\ \A i \in DOMAIN prog :
       /\ n < Rank[prog[i].lock]
       /\ \A l \in prog[i].keep : Rank[l] < Rank[prog[i].lock]

LEMMA SoundConcat ==
  ASSUME NEW n \in Int, NEW p, NEW q, Sound(n, p), Sound(n, q)
  PROVE  Sound(n, p \o q)
<1>1. p \in Seq(Request) /\ q \in Seq(Request)
  BY DEF Sound
<1>2. p \o q \in Seq(Request) /\ DOMAIN (p \o q) = 1..(Len(p) + Len(q))
  BY <1>1
<1>3. ASSUME NEW i \in DOMAIN (p \o q)
      PROVE  \/ i \in DOMAIN p /\ (p \o q)[i] = p[i]
             \/ i - Len(p) \in DOMAIN q /\ (p \o q)[i] = q[i - Len(p)]
  BY <1>1, <1>2
<1> QED BY <1>2, <1>3 DEF Sound

LEMMA SoundRequest ==
  ASSUME NEW n \in Int, NEW lock \in Locks, NEW mode \in Modes, NEW keep \in SUBSET Locks,
         n < Rank[lock], \A l \in keep : Rank[l] < Rank[lock],
         NEW r, r = [keep |-> keep, lock |-> lock, mode |-> mode]
  PROVE  Sound(n, <<r>>)
<1>1. r \in Request
  BY DEF Request
<1>2. <<r>> \in Seq(Request) /\ DOMAIN <<r>> = {1} /\ <<r>>[1] = r
  BY <1>1
<1> QED BY <1>2 DEF Sound

LEMMA SoundOne ==
  ASSUME NEW n \in Int, NEW lock \in Locks, n < Rank[lock]
  PROVE  Sound(n, Read(lock)) /\ Sound(n, Write(lock))
<1>1. {} \in SUBSET Locks /\ "read" \in Modes /\ "write" \in Modes
  BY DEF Modes
<1> QED BY <1>1, SoundRequest DEF Read, Write, ReadWith, WriteWith

LEMMA SoundNested ==
  ASSUME NEW n \in Int, NEW keep \in SUBSET Locks, NEW lock \in Locks, n < Rank[lock],
         \A l \in keep : Rank[l] < Rank[lock]
  PROVE  Sound(n, ReadWith(keep, lock)) /\ Sound(n, WriteWith(keep, lock))
<1>1. "read" \in Modes /\ "write" \in Modes
  BY DEF Modes
<1> QED BY <1>1, SoundRequest DEF ReadWith, WriteWith

(* Who keeps locks up to n all the while may run what asks for locks above n. *)
LEMMA SoundKeeping ==
  ASSUME NEW n \in Int, NEW keep \in SUBSET Locks, \A l \in keep : Rank[l] <= n, n \in Nat,
         NEW p, Sound(n, p)
  PROVE  Sound(-1, Keeping(keep, p))
<1> DEFINE q == Keeping(keep, p)
<1>1. p \in Seq(Request)
  BY DEF Sound
<1>2. \A i \in DOMAIN p : p[i] \in Request
  BY <1>1
<1>3. ASSUME NEW i \in DOMAIN p
      PROVE  /\ q[i] = [keep |-> p[i].keep \cup keep, lock |-> p[i].lock, mode |-> p[i].mode]
             /\ q[i] \in Request
  BY <1>2 DEF Keeping, Request
<1>4. q \in Seq(Request) /\ DOMAIN q = DOMAIN p
  <2>1. DOMAIN p = 1..Len(p) /\ Len(p) \in Nat
    BY <1>1
  <2>2. q \in [1..Len(p) -> Request]
    BY <2>1, <1>3 DEF Keeping
  <2> QED BY <2>1, <2>2, SeqDef
<1>5. ASSUME NEW i \in DOMAIN q
      PROVE  -1 < Rank[q[i].lock] /\ \A l \in q[i].keep : Rank[l] < Rank[q[i].lock]
  <2>1. i \in DOMAIN p /\ p[i] \in Request
    BY <1>2, <1>4
  <2>2. q[i].lock = p[i].lock /\ q[i].keep = p[i].keep \cup keep
    <3>1. q[i] = [keep |-> p[i].keep \cup keep, lock |-> p[i].lock, mode |-> p[i].mode]
      BY <1>3, <2>1
    <3> HIDE DEF q
    <3> QED BY <3>1
  <2>3. n < Rank[p[i].lock] /\ \A l \in p[i].keep : Rank[l] < Rank[p[i].lock]
    BY <2>1 DEF Sound
  <2>4. p[i].lock \in Locks /\ p[i].keep \subseteq Locks
    BY <2>1 DEF Request
  <2> QED BY <2>2, <2>3, <2>4, RankType
<1> QED BY <1>4, <1>5 DEF Sound

(* The names of the locks and their ranks, spelled out. *)
LEMMA Ranks ==
  /\ Locks = {"admin_state", "sessions", "control_clients", "sources", "virtual_sources", "health", "alerts", "emergency", "recording", "transcription", "model_downloads", "deepfilternet_model_dir", "deepfilternet_coreml_model_dir", "output_seq", "debug_audio_tx"}
  /\ Rank["admin_state"] = 0
  /\ Rank["sessions"] = 1
  /\ Rank["control_clients"] = 2
  /\ Rank["sources"] = 3
  /\ Rank["virtual_sources"] = 4
  /\ Rank["health"] = 5
  /\ Rank["alerts"] = 6
  /\ Rank["emergency"] = 7
  /\ Rank["recording"] = 8
  /\ Rank["transcription"] = 9
  /\ Rank["model_downloads"] = 10
  /\ Rank["deepfilternet_model_dir"] = 11
  /\ Rank["deepfilternet_coreml_model_dir"] = 12
  /\ Rank["output_seq"] = 13
  /\ Rank["debug_audio_tx"] = 14
BY DEF Locks, Rank

LEMMA SoundParts ==
  /\ Sound(-1, DesiredClient)
  /\ Sound(-1, DesiredBaselineForUser)
  /\ Sound(-1, ConfigEventSnapshot)
  /\ Sound(-1, PushConfigUpdate)
  /\ Sound(-1, ChannelRostersForUser)
  /\ Sound(-1, ResolveAlertRecipients)
  /\ Sound(-1, CreateRuntimeAlert)
  /\ Sound(-1, CodecAvailableForUser)
  /\ Sound(-1, ApplySendAlertEvent)
  /\ Sound(-1, ApplyDesiredClient)
  /\ Sound(-1, RecordingStatusSnapshot)
  /\ Sound(-1, ModelCatalogSnapshot)
  /\ Sound(-1, StatusSnapshot)
  /\ Sound(-1, BuildMixes)
  /\ Sound(-1, AudioUserIsEnrolled)
  /\ Sound(-1, RegisterAudioEndpoint)
  /\ Sound(-1, ProcessingConfigForUser)
  /\ Sound(-1, RecordIngestFrame)
  /\ Sound(-1, TranscribeIngestFrame)
  /\ Sound(-1, StoreSourceFrame)
<1> USE SoundConcat, SoundOne, SoundNested, Ranks
<1>1. Sound(-1, DesiredClient)
  BY DEF DesiredClient
<1>2. Sound(-1, DesiredBaselineForUser)
  BY <1>1 DEF DesiredBaselineForUser
<1>3. Sound(-1, ConfigEventSnapshot)
  BY DEF ConfigEventSnapshot
<1>4. Sound(-1, PushConfigUpdate)
  BY <1>3 DEF PushConfigUpdate
<1>5. Sound(-1, ChannelRostersForUser)
  BY DEF ChannelRostersForUser
<1>6. Sound(-1, ResolveAlertRecipients)
  BY DEF ResolveAlertRecipients
<1>7. Sound(-1, CreateRuntimeAlert)
  BY DEF CreateRuntimeAlert
<1>8. Sound(-1, CodecAvailableForUser)
  BY DEF CodecAvailableForUser
<1>9. Sound(-1, ApplySendAlertEvent)
  BY <1>7, <1>4, <1>6 DEF ApplySendAlertEvent
<1>10. Sound(-1, ApplyDesiredClient)
  BY <1>4 DEF ApplyDesiredClient
<1>11. Sound(-1, RecordingStatusSnapshot)
  BY DEF RecordingStatusSnapshot
<1>12. Sound(-1, ModelCatalogSnapshot)
  BY DEF ModelCatalogSnapshot
<1>13. Sound(-1, StatusSnapshot)
  BY SMTT(30) DEF StatusSnapshot
<1>14. Sound(-1, BuildMixes)
  BY DEF BuildMixes
<1>15. Sound(-1, AudioUserIsEnrolled)
  BY DEF AudioUserIsEnrolled
<1>16. Sound(-1, RegisterAudioEndpoint)
  BY <1>1 DEF RegisterAudioEndpoint
<1>17. Sound(-1, ProcessingConfigForUser)
  BY DEF ProcessingConfigForUser
<1>18. Sound(-1, RecordIngestFrame)
  BY DEF RecordIngestFrame
<1>19. Sound(-1, TranscribeIngestFrame)
  BY DEF TranscribeIngestFrame
<1>20. Sound(-1, StoreSourceFrame)
  BY DEF StoreSourceFrame
<1> QED BY <1>1, <1>2, <1>3, <1>4, <1>5, <1>6, <1>7, <1>8, <1>9, <1>10, <1>11, <1>12,
  <1>13, <1>14, <1>15, <1>16, <1>17, <1>18, <1>19, <1>20

(* The admin's page, under the three locks that it keeps. *)
LEMMA SoundAdminState == Sound(-1, AdminStateSnapshot)
<1> DEFINE inner == RecordingStatusSnapshot \o Read("transcription")
                      \o Read("deepfilternet_model_dir") \o ModelCatalogSnapshot
           kept == {"sessions", "alerts", "emergency"}
<1>1. Sound(7, RecordingStatusSnapshot)
  <2>1. Sound(7, ReadWith({"recording"}, "transcription"))
    BY SoundNested, Ranks
  <2> QED BY <2>1, SoundConcat, SoundOne, Ranks DEF RecordingStatusSnapshot
<1>2. Sound(7, ModelCatalogSnapshot)
  BY SoundConcat, SoundOne, Ranks DEF ModelCatalogSnapshot
<1>3. Sound(7, inner)
  BY <1>1, <1>2, SoundConcat, SoundOne, Ranks
<1>4. Sound(-1, Keeping(kept, inner))
  <2> HIDE DEF inner
  <2>1. kept \in SUBSET Locks /\ \A l \in kept : Rank[l] <= 7
    BY Ranks
  <2> QED BY <1>3, <2>1, SoundKeeping
<1>5. Sound(-1, StatusSnapshot)
  BY SoundParts
<1> HIDE DEF inner, kept
<1>6. /\ Sound(-1, ReadWith({"sessions"}, "alerts"))
      /\ Sound(-1, ReadWith({"sessions", "alerts"}, "emergency"))
  BY SoundNested, Ranks
<1>7. AdminStateSnapshot =
        StatusSnapshot \o Read("admin_state") \o Read("sessions") \o ReadWith({"sessions"}, "alerts")
          \o ReadWith({"sessions", "alerts"}, "emergency") \o Keeping(kept, inner)
  BY DEF AdminStateSnapshot, inner, kept
<1> QED BY <1>4, <1>5, <1>6, <1>7, SoundConcat, SoundOne, Ranks

LEMMA SoundHandlers ==
  /\ Sound(-1, Hello)
  /\ Sound(-1, Config)
  /\ Sound(-1, Talk)
  /\ Sound(-1, Emergency)
  /\ Sound(-1, Button)
  /\ Sound(-1, AckAlert)
  /\ Sound(-1, DirectCall)
  /\ Sound(-1, CaptureHealth)
  /\ Sound(-1, CleanUp)
  /\ Sound(-1, AudioPacket)
  /\ Sound(-1, MixTick)
  /\ Sound(-1, PushPresenceUpdates)
  /\ Sound(-1, ApplyAnnouncementEvent)
  /\ Sound(-1, UpdateDeviceEnrollment)
  /\ Sound(-1, StartRecording)
  /\ Sound(-1, StopRecording)
  /\ Sound(-1, TranscribeRecording)
  /\ Sound(-1, StartModelDownload)
<1> USE SoundConcat, SoundOne, SoundNested, Ranks, SoundParts
<1>1. Sound(-1, Hello)
  BY DEF Hello
<1>2. Sound(-1, Config)
  BY DEF Config
<1>3. Sound(-1, Talk)
  BY DEF Talk
<1>4. Sound(-1, Emergency)
  BY DEF Emergency
<1>5. Sound(-1, Button)
  BY DEF Button
<1>6. Sound(-1, AckAlert)
  BY DEF AckAlert
<1>7. Sound(-1, DirectCall)
  BY DEF DirectCall
<1>8. Sound(-1, CaptureHealth)
  BY DEF CaptureHealth
<1>9. Sound(-1, CleanUp)
  BY DEF CleanUp
<1>10. Sound(-1, AudioPacket)
  BY DEF AudioPacket
<1>11. Sound(-1, MixTick)
  BY DEF MixTick
<1>12. Sound(-1, PushPresenceUpdates)
  BY DEF PushPresenceUpdates
<1>13. Sound(-1, ApplyAnnouncementEvent)
  BY DEF ApplyAnnouncementEvent
<1>14. Sound(-1, UpdateDeviceEnrollment)
  BY DEF UpdateDeviceEnrollment
<1>15. Sound(-1, StartRecording)
  BY DEF StartRecording
<1>16. Sound(-1, StopRecording)
  BY DEF StopRecording
<1>17. Sound(-1, TranscribeRecording)
  BY DEF TranscribeRecording
<1>18. Sound(-1, StartModelDownload)
  BY DEF StartModelDownload
<1> QED BY <1>1, <1>2, <1>3, <1>4, <1>5, <1>6, <1>7, <1>8, <1>9, <1>10, <1>11, <1>12,
  <1>13, <1>14, <1>15, <1>16, <1>17, <1>18

(* Whoever answers an alert request apart, every handler asks in order. *)
LEMMA ProgramsSound ==
  ASSUME NEW h \in DOMAIN Program \ {"admin_send_alert"}
  PROVE  Sound(-1, Program[h])
<1>1. h \in {"hello", "config", "talk", "emergency", "button", "send_alert", "ack_alert",
          "direct_call", "capture_health", "clean_up", "audio_packet", "mix_tick",
          "presence", "status", "admin_state", "announcement", "device",
          "start_recording", "stop_recording", "transcribe_recording", "download"}
  BY DEF Program
<1>2. CASE h = "hello"
  BY <1>2, SoundParts, SoundAdminState, SoundHandlers DEF Program
<1>3. CASE h = "config"
  BY <1>3, SoundParts, SoundAdminState, SoundHandlers DEF Program
<1>4. CASE h = "talk"
  BY <1>4, SoundParts, SoundAdminState, SoundHandlers DEF Program
<1>5. CASE h = "emergency"
  BY <1>5, SoundParts, SoundAdminState, SoundHandlers DEF Program
<1>6. CASE h = "button"
  BY <1>6, SoundParts, SoundAdminState, SoundHandlers DEF Program
<1>7. CASE h = "send_alert"
  BY <1>7, SoundParts, SoundAdminState, SoundHandlers DEF Program
<1>8. CASE h = "ack_alert"
  BY <1>8, SoundParts, SoundAdminState, SoundHandlers DEF Program
<1>9. CASE h = "direct_call"
  BY <1>9, SoundParts, SoundAdminState, SoundHandlers DEF Program
<1>10. CASE h = "capture_health"
  BY <1>10, SoundParts, SoundAdminState, SoundHandlers DEF Program
<1>11. CASE h = "clean_up"
  BY <1>11, SoundParts, SoundAdminState, SoundHandlers DEF Program
<1>12. CASE h = "audio_packet"
  BY <1>12, SoundParts, SoundAdminState, SoundHandlers DEF Program
<1>13. CASE h = "mix_tick"
  BY <1>13, SoundParts, SoundAdminState, SoundHandlers DEF Program
<1>14. CASE h = "presence"
  BY <1>14, SoundParts, SoundAdminState, SoundHandlers DEF Program
<1>15. CASE h = "status"
  BY <1>15, SoundParts, SoundAdminState, SoundHandlers DEF Program
<1>16. CASE h = "admin_state"
  BY <1>16, SoundParts, SoundAdminState, SoundHandlers DEF Program
<1>17. CASE h = "announcement"
  BY <1>17, SoundParts, SoundAdminState, SoundHandlers DEF Program
<1>18. CASE h = "device"
  BY <1>18, SoundParts, SoundAdminState, SoundHandlers DEF Program
<1>19. CASE h = "start_recording"
  BY <1>19, SoundParts, SoundAdminState, SoundHandlers DEF Program
<1>20. CASE h = "stop_recording"
  BY <1>20, SoundParts, SoundAdminState, SoundHandlers DEF Program
<1>21. CASE h = "transcribe_recording"
  BY <1>21, SoundParts, SoundAdminState, SoundHandlers DEF Program
<1>22. CASE h = "download"
  BY <1>22, SoundParts, SoundAdminState, SoundHandlers DEF Program
<1> QED BY <1>1, <1>2, <1>3, <1>4, <1>5, <1>6, <1>7, <1>8, <1>9, <1>10, <1>11, <1>12,
  <1>13, <1>14, <1>15, <1>16, <1>17, <1>18, <1>19, <1>20, <1>21, <1>22

LEMMA ServerOrdered ==
  ASSUME Handlers \subseteq DOMAIN Program \ {"admin_send_alert"}, Idle \notin Handlers
  PROVE  LockAssumption /\ Ordered(Handlers)
<1>1. \A h \in Handlers : Sound(-1, Program[h])
  BY ProgramsSound
<1>2. LockAssumption
  BY <1>1 DEF LockAssumption, Sound
<1>3. Ordered(Handlers)
  BY <1>1 DEF Ordered, Sound
<1> QED BY <1>2, <1>3

-----------------------------------------------------------------------------

(* The variables of the locks keep their types, for any tasks and handlers. *)
THEOREM LockTypes ==
  ASSUME Handlers \subseteq DOMAIN Program \ {"admin_send_alert"}, Idle \notin Handlers
  PROVE  Spec => []TypeOK
<1>1. Inv => TypeOK
  BY DEF Inv
<1> QED BY InvInit, InvStep, ServerOrdered, <1>1, PTL DEF Spec

(* Any number of tasks that run handlers which nest locks in the order of the
   ranks never wait for each other in a circle. *)
THEOREM OrderedNeverDeadlocks ==
  ASSUME LockAssumption, Ordered(Handlers)
  PROVE  Spec => []NoDeadlock
BY InvInit, InvStep, NoCircle, PTL DEF Spec

(* But for the request of an admin that sends an alert, no handlers of the server
   ever wait for each other in a circle, however many run at once. *)
THEOREM ServerNeverDeadlocks ==
  ASSUME Handlers \subseteq DOMAIN Program \ {"admin_send_alert"}, Idle \notin Handlers
  PROVE  Spec => []NoDeadlock
BY OrderedNeverDeadlocks, ServerOrdered
=============================================================================
