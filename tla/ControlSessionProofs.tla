------------------------- MODULE ControlSessionProofs -------------------------
(***************************************************************************)
(* Proofs about ControlSession for any users, connections, buttons, calls and  *)
(* lengths of the histories: the talk state first, which never reads the        *)
(* histories, then the histories.  These are kept right by every change a       *)
(* handler makes, so by the fold that makes several.                            *)
(***************************************************************************)
EXTENDS ControlSession, FiniteSetTheorems, TLAPS

-----------------------------------------------------------------------------
(* The shape of connections and sessions, as far as the talk state needs it. *)
Connection == [phase : {"new", "open", "closing", "gone"}, user : Users \cup {NoUser}, todo : Seq(Step)]
Session ==
  [live : BOOLEAN, buttons : SUBSET ButtonConfig, active : SUBSET ButtonIds, talk : BOOLEAN,
   calls : SUBSET Users]
Shapes ==
  /\ conn \in [Conns -> Connection]
  /\ session \in [Users -> Session]

(* Only an open connection is in the middle of a handler, and it has a user. *)
OpenHasUser ==
  \A c \in Conns :
    /\ conn[c].phase \in {"open", "closing"} => conn[c].user \in Users
    /\ conn[c].todo # <<>> => conn[c].phase = "open"

Inv == Shapes /\ OpenHasUser /\ NoStuckTalk /\ ActiveButtonsConfigured

LEMMA InitEstablishesInv == Init => Inv
<1> SUFFICES ASSUME Init PROVE Inv
  OBVIOUS
<1>1. Shapes /\ OpenHasUser
  BY DEF Init, Shapes, OpenHasUser, Connection, Session, NoSession
<1>2. NoStuckTalk /\ ActiveButtonsConfigured
  BY DEF Init, NoStuckTalk, ActiveButtonsConfigured, Talking, NoSession
<1> QED BY <1>1, <1>2 DEF Inv

-----------------------------------------------------------------------------
(* The steps of a handler: a connection notes what it has left to do, and one
   session changes or none. *)
SamePhases == \A c \in Conns : conn'[c].phase = conn[c].phase /\ conn'[c].user = conn[c].user

LEMMA TodoChanges ==
  ASSUME Inv, NEW c \in Conns, NEW todo \in Seq(Step), conn' = [conn EXCEPT ![c].todo = todo],
         todo = <<>> \/ conn[c].phase = "open"
  PROVE  conn' \in [Conns -> Connection] /\ OpenHasUser' /\ SamePhases
<1>1. conn \in [Conns -> Connection]
  BY DEF Inv, Shapes
<1>2. conn' \in [Conns -> Connection] /\ SamePhases
  BY <1>1 DEF SamePhases, Connection
<1>3. conn'[c].todo = todo /\ \A d \in Conns : d # c => conn'[d] = conn[d]
  BY <1>1 DEF Connection
<1> QED BY <1>2, <1>3 DEF SamePhases, Inv, OpenHasUser

LEMMA HandlerGoesOn ==
  ASSUME Inv, NEW c \in Conns, NEW step \in Step, Ready(c), Then(c, step)
  PROVE  conn' \in [Conns -> Connection] /\ OpenHasUser' /\ SamePhases
<1>1. <<step>> \in Seq(Step) /\ conn[c].phase = "open"
  BY DEF Ready
<1> DEFINE todo == <<step>>
<1>2. conn' = [conn EXCEPT ![c].todo = todo]
  BY DEF Then
<1> HIDE DEF todo
<1>3. todo \in Seq(Step)
  BY <1>1 DEF todo
<1> QED BY <1>1, <1>2, <1>3, TodoChanges

LEMMA HandlerEnds ==
  ASSUME Inv, NEW c \in Conns, Done(c)
  PROVE  conn' \in [Conns -> Connection] /\ OpenHasUser' /\ SamePhases
<1>1. <<>> \in Seq(Step)
  OBVIOUS
<1> DEFINE todo == <<>>
<1>2. conn' = [conn EXCEPT ![c].todo = todo] /\ todo = <<>>
  BY DEF Done
<1>3. todo \in Seq(Step)
  BY <1>1
<1> HIDE DEF todo
<1> QED BY <1>2, <1>3, TodoChanges

LEMMA ConnAlone ==
  ASSUME Inv, UNCHANGED conn
  PROVE  conn' \in [Conns -> Connection] /\ OpenHasUser' /\ SamePhases
BY DEF Inv, Shapes, OpenHasUser, SamePhases

LEMMA QuietStep ==
  ASSUME Inv, conn' \in [Conns -> Connection], OpenHasUser', SamePhases, UNCHANGED session
  PROVE  Inv'
<1>1. Shapes' /\ ActiveButtonsConfigured'
  BY DEF Inv, Shapes, ActiveButtonsConfigured
<1>2. NoStuckTalk'
  BY DEF Inv, NoStuckTalk, Talking, Holds, User, SamePhases
<1> QED BY <1>1, <1>2 DEF Inv

LEMMA SessionStep ==
  ASSUME Inv, conn' \in [Conns -> Connection], OpenHasUser', SamePhases,
         NEW u \in Users, NEW s \in Session, session' = [session EXCEPT ![u] = s],
         s.active \subseteq Ids(s.buttons),
         s.talk \/ s.active # {} => Talking(u) \/ \E c \in Conns : Holds(c, u, {"open", "closing"})
  PROVE  Inv'
<1>1. session'[u] = s /\ \A v \in Users : v # u => session'[v] = session[v]
  BY DEF Inv, Shapes
<1>2. Shapes' /\ ActiveButtonsConfigured'
  BY <1>1 DEF Inv, Shapes, ActiveButtonsConfigured
<1>3. NoStuckTalk'
  <2> SUFFICES ASSUME NEW v \in Users, Talking(v)'
               PROVE  \E c \in Conns : Holds(c, v, {"open", "closing"})'
    BY DEF NoStuckTalk
  <2>1. \E c \in Conns : Holds(c, v, {"open", "closing"})
    BY <1>1 DEF Inv, NoStuckTalk, Talking
  <2> QED BY <2>1 DEF Holds, User, SamePhases
<1> QED BY <1>2, <1>3 DEF Inv

LEMMA ReadyHolds ==
  ASSUME Inv, NEW c \in Conns, Ready(c)
  PROVE  User(c) \in Users /\ Holds(c, User(c), {"open", "closing"}) /\ session[User(c)] \in Session
BY DEF Inv, Shapes, OpenHasUser, Ready, Holds, User

LEMMA TalkKeepsInv ==
  ASSUME Inv, NEW c \in Conns, NEW active \in BOOLEAN, Talk(c, active)
  PROVE  Inv'
<1> DEFINE s == [session[User(c)] EXCEPT !.talk = active]
<1>1. Ready(c) /\ session' = [session EXCEPT ![User(c)] = s] /\ UNCHANGED conn
  BY DEF Talk
<1>2. s \in Session /\ s.active = session[User(c)].active /\ s.buttons = session[User(c)].buttons
  BY <1>1, ReadyHolds DEF Session
<1> HIDE DEF s
<1>3. s.active \subseteq Ids(s.buttons)
  BY <1>1, <1>2, ReadyHolds DEF Inv, ActiveButtonsConfigured
<1> QED BY <1>1, <1>2, <1>3, ReadyHolds, ConnAlone, SessionStep

LEMMA ButtonKeepsInv ==
  ASSUME Inv, NEW c \in Conns, NEW b, NEW pressed \in BOOLEAN, Button(c, b, pressed)
  PROVE  Inv'
<1> DEFINE u == User(c)
           was == b.id \in session[u].active
           now == NowActive(b, was, pressed)
           s == [session[u] EXCEPT !.active = IF now THEN @ \cup {b.id} ELSE @ \ {b.id}]
           step == [op |-> IF now THEN "start" ELSE "stop", button |-> b]
<1>1. Ready(c) /\ b \in session[u].buttons
  BY DEF Button
<1>2. /\ session[u] \in Session /\ session[u].buttons \subseteq ButtonConfig
      /\ b \in ButtonConfig /\ b.id \in ButtonIds /\ u \in Users
  BY <1>1, ReadyHolds DEF Session, ButtonConfig
<1>3. session' = [session EXCEPT ![u] = s]
  BY DEF Button
<1>4. s \in Session /\ s.buttons = session[u].buttons /\ s.active \subseteq session[u].active \cup {b.id}
  BY <1>2 DEF Session
<1>5. step \in Step
  BY <1>2 DEF Step
<1>6. conn' \in [Conns -> Connection] /\ OpenHasUser' /\ SamePhases
  <2>1. CASE UNCHANGED conn
    BY <2>1, ConnAlone
  <2>2. CASE Then(c, step)
    <3> HIDE DEF step
    <3> QED BY <1>1, <1>5, <2>2, HandlerGoesOn
  <2> QED BY <2>1, <2>2 DEF Button
<1> HIDE DEF s
<1>7. s.active \subseteq Ids(s.buttons)
  BY <1>1, <1>2, <1>4 DEF Inv, ActiveButtonsConfigured, Ids
<1> QED BY <1>1, <1>2, <1>3, <1>4, <1>6, <1>7, ReadyHolds, SessionStep

LEMMA RoutesKeepInv ==
  ASSUME Inv, NEW c \in Conns, StartRoutes(c) \/ StopRoutes(c)
  PROVE  Inv'
<1>1. Done(c) /\ UNCHANGED session
  BY Zenon DEF StartRoutes, StopRoutes
<1>2. conn' \in [Conns -> Connection] /\ OpenHasUser' /\ SamePhases
  BY <1>1, HandlerEnds
<1> QED BY <1>1, <1>2, QuietStep, SMTT(30)

LEMMA ReplyKeepsInv ==
  ASSUME Inv, NEW c \in Conns, NEW active \in BOOLEAN, ReplyCall(c, active)
  PROVE  Inv'
<1> DEFINE step == [op |-> "reply", target |-> log[User(c)].lastCaller, active |-> active]
<1>1. step \in Step
  BY ControlAssumption DEF ReplyCall, Step
<1>2. Ready(c) /\ Then(c, step) /\ UNCHANGED session
  BY DEF ReplyCall
<1> HIDE DEF step
<1> QED BY <1>1, <1>2, HandlerGoesOn, QuietStep

(* A direct call, whoever asks for it, leaves the key and the buttons alone. *)
LEMMA DirectCallKeepsInv ==
  ASSUME Inv, conn' \in [Conns -> Connection], OpenHasUser', SamePhases,
         NEW u \in Users, NEW t \in Users, NEW active \in BOOLEAN, DirectCallResult(u, t, active)
  PROVE  Inv'
<1> DEFINE s == [session[u] EXCEPT !.live = TRUE, !.calls = IF active THEN @ \cup {t} ELSE @ \ {t}]
<1>1. session[u] \in Session
  BY DEF Inv, Shapes
<1>2. session' = [session EXCEPT ![u] = s]
  BY <1>1 DEF DirectCallResult, Session
<1>3. /\ s \in Session /\ s.talk = session[u].talk /\ s.active = session[u].active
      /\ s.buttons = session[u].buttons
  BY <1>1 DEF Session
<1> HIDE DEF s
<1>4. s.active \subseteq Ids(s.buttons)
  BY <1>3 DEF Inv, ActiveButtonsConfigured
<1> QED BY <1>2, <1>3, <1>4, SessionStep DEF Talking

LEMMA DirectCallsKeepInv ==
  ASSUME Inv, NEW c \in Conns, NEW t \in Users, NEW active \in BOOLEAN,
         DirectCall(c, t, active) \/ FinishReply(c)
  PROVE  Inv'
<1>1. CASE DirectCall(c, t, active)
  <2>1. Ready(c) /\ UNCHANGED conn /\ DirectCallResult(User(c), t, active)
    BY <1>1 DEF DirectCall
  <2> QED BY <2>1, ReadyHolds, ConnAlone, DirectCallKeepsInv
<1>2. CASE FinishReply(c)
  <2> DEFINE step == conn[c].todo[1]
  <2>1. /\ conn[c].todo # <<>> /\ step.op = "reply" /\ Done(c)
        /\ DirectCallResult(User(c), step.target, step.active)
    BY <1>2 DEF FinishReply
  <2>2. conn[c].todo \in Seq(Step)
    BY DEF Inv, Shapes, Connection
  <2>3. step \in Step
    BY <2>1, <2>2
  <2>4. step.target \in Users /\ step.active \in BOOLEAN
    BY <2>1, <2>3 DEF Step
  <2>5. User(c) \in Users
    BY <2>1 DEF Inv, OpenHasUser, User
  <2> HIDE DEF step
  <2> QED BY <2>1, <2>4, <2>5, HandlerEnds, DirectCallKeepsInv
<1> QED BY <1>1, <1>2

-----------------------------------------------------------------------------
(* Connections come and go. *)
LEMMA HelloKeepsInv ==
  ASSUME Inv, NEW c \in Conns, NEW u \in Users, Hello(c, u)
  PROVE  Inv'
<1>1. conn[c] \in Connection /\ session[u] \in Session
  BY DEF Inv, Shapes
<1>2. /\ conn' \in [Conns -> Connection] /\ conn'[c].phase = "open" /\ conn'[c].user = u
      /\ conn'[c].todo = conn[c].todo /\ \A d \in Conns : d # c => conn'[d] = conn[d]
  BY <1>1 DEF Hello, Inv, Shapes, Connection
<1>3. /\ session' \in [Users -> Session]
      /\ \A v \in Users : /\ session'[v].talk = session[v].talk /\ session'[v].active = session[v].active
                          /\ session'[v].buttons = session[v].buttons
  BY <1>1 DEF Hello, Inv, Shapes, Session
<1>4. Shapes' /\ OpenHasUser' /\ ActiveButtonsConfigured'
  BY <1>2, <1>3 DEF Shapes, OpenHasUser, ActiveButtonsConfigured, Inv
<1>5. NoStuckTalk'
  <2> SUFFICES ASSUME NEW v \in Users, Talking(v)'
               PROVE  \E d \in Conns : Holds(d, v, {"open", "closing"})'
    BY DEF NoStuckTalk
  <2>1. PICK d \in Conns : Holds(d, v, {"open", "closing"})
    BY <1>3 DEF Inv, NoStuckTalk, Talking
  <2>2. d # c
    BY <2>1 DEF Hello, Holds
  <2> QED BY <1>2, <2>1, <2>2 DEF Holds, User
<1> QED BY <1>4, <1>5 DEF Inv

LEMMA SocketEndsKeepsInv ==
  ASSUME Inv, NEW c \in Conns, SocketEnds(c)
  PROVE  Inv'
<1>1. conn[c] \in Connection /\ Ready(c) /\ UNCHANGED session
  BY DEF Inv, Shapes, SocketEnds
<1>2. /\ conn' \in [Conns -> Connection] /\ conn'[c].phase = "closing" /\ conn'[c].todo = conn[c].todo
      /\ \A d \in Conns : conn'[d].user = conn[d].user /\ (d # c => conn'[d] = conn[d])
  BY <1>1 DEF SocketEnds, Inv, Shapes, Connection
<1>3. Shapes' /\ OpenHasUser' /\ ActiveButtonsConfigured'
  BY <1>1, <1>2 DEF Shapes, OpenHasUser, ActiveButtonsConfigured, Inv, Ready
<1>4. NoStuckTalk'
  BY <1>1, <1>2 DEF Inv, NoStuckTalk, Talking, Holds, User
<1> QED BY <1>3, <1>4 DEF Inv

LEMMA ClearActiveButtonsKeepsInv ==
  ASSUME Inv, NEW c \in Conns, ClearActiveButtons(c)
  PROVE  Inv'
<1> DEFINE u == User(c)
           s == Silenced(session[u])
<1>1. u \in Users /\ conn[c].phase = "closing" /\ conn[c] \in Connection /\ session[u] \in Session
  BY DEF Inv, Shapes, OpenHasUser, ClearActiveButtons, User
<1>2. /\ conn' \in [Conns -> Connection] /\ conn'[c].phase = "gone" /\ conn'[c].todo = conn[c].todo
      /\ \A d \in Conns : conn'[d].user = conn[d].user /\ (d # c => conn'[d] = conn[d])
  BY <1>1 DEF ClearActiveButtons, Inv, Shapes, Connection
<1>3. s \in Session /\ s.talk = FALSE /\ s.active = {}
  BY <1>1 DEF Silenced, Session
<1>4. session' = [session EXCEPT ![u] = s]
  BY DEF ClearActiveButtons
<1> HIDE DEF s
<1>5. session' \in [Users -> Session] /\ session'[u] = s /\ \A v \in Users : v # u => session'[v] = session[v]
  BY <1>1, <1>3, <1>4 DEF Inv, Shapes
<1>6. Shapes' /\ OpenHasUser' /\ ActiveButtonsConfigured'
  BY <1>1, <1>2, <1>3, <1>5 DEF Shapes, OpenHasUser, ActiveButtonsConfigured, Inv
<1>7. NoStuckTalk'
  <2> SUFFICES ASSUME NEW v \in Users, Talking(v)'
               PROVE  \E d \in Conns : Holds(d, v, {"open", "closing"})'
    BY DEF NoStuckTalk
  <2>1. v # u /\ Talking(v)
    BY <1>3, <1>5 DEF Talking
  <2>2. PICK d \in Conns : Holds(d, v, {"open", "closing"})
    BY <2>1 DEF Inv, NoStuckTalk
  <2>3. d # c
    BY <2>1, <2>2 DEF Holds
  <2> QED BY <1>2, <2>2, <2>3 DEF Holds, User
<1> QED BY <1>6, <1>7 DEF Inv

-----------------------------------------------------------------------------
(* The operator's requests. *)
LEMMA ReconfigureKeepsInv ==
  ASSUME Inv, NEW u \in Users, NEW B \in ConfigSets, Reconfigure(u, B)
  PROVE  Inv'
<1> DEFINE s == Reconfigured(session[u], B)
<1>1. session[u] \in Session /\ B \subseteq ButtonConfig
  BY ControlAssumption DEF Inv, Shapes
<1>2. session' = [session EXCEPT ![u] = s] /\ UNCHANGED conn
  BY DEF Reconfigure
<1>3. /\ s \in Session /\ s.talk = session[u].talk /\ s.active \subseteq session[u].active
      /\ s.active \subseteq Ids(s.buttons)
  BY <1>1 DEF Reconfigured, Session
<1> HIDE DEF s
<1> QED BY <1>2, <1>3, ConnAlone, SessionStep DEF Talking

LEMMA NextKeepsInv == Inv /\ [Next]_vars => Inv'
<1> SUFFICES ASSUME Inv, [Next]_vars PROVE Inv'
  OBVIOUS
<1>1. ASSUME NEW c \in Conns, Handler(c) PROVE Inv'
  BY <1>1, TalkKeepsInv, ReplyKeepsInv, ButtonKeepsInv, DirectCallsKeepInv DEF Handler
<1>2. ASSUME NEW c \in Conns, NEW u \in Users, Hello(c, u) PROVE Inv'
  BY <1>2, HelloKeepsInv
<1>3. ASSUME NEW c \in Conns, StartRoutes(c) \/ StopRoutes(c) \/ SocketEnds(c) \/ ClearActiveButtons(c)
      PROVE  Inv'
  BY <1>3, RoutesKeepInv, SocketEndsKeepsInv, ClearActiveButtonsKeepsInv
<1>4. ASSUME NEW c \in Conns, FinishReply(c) PROVE Inv'
  <2>1. User(c) \in Users
    BY <1>4 DEF FinishReply, Inv, OpenHasUser, User
  <2> QED BY <1>4, <2>1, DirectCallsKeepInv
<1>5. ASSUME NEW u \in Users, NEW t \in Users, NEW active \in BOOLEAN, AdminDirectCall(u, t, active)
      PROVE  Inv'
  BY <1>5, ConnAlone, DirectCallKeepsInv DEF AdminDirectCall
<1>6. ASSUME NEW u \in Users, NEW B \in ConfigSets, Reconfigure(u, B) PROVE Inv'
  BY <1>6, ReconfigureKeepsInv
<1>7. CASE UNCHANGED vars
  BY <1>7, ConnAlone, QuietStep DEF vars
<1> QED BY <1>1, <1>2, <1>3, <1>4, <1>5, <1>6, <1>7 DEF Next, Continue, Admin

LEMMA Invariance == Spec => []Inv
<1>1. Init => Inv
  BY InitEstablishesInv
<1>2. Inv /\ [Next]_vars => Inv'
  BY NextKeepsInv
<1> QED BY <1>1, <1>2, PTL DEF Spec

(* However presses, reconnects and late clean-ups of any number of connections
   interleave, a user whose talk key or button is down has a connection that is
   open or has yet to clear them (apply_control, clear_active_buttons). *)
THEOREM NobodyIsStuckTalking == Spec => []NoStuckTalk
<1>1. Inv => NoStuckTalk
  BY DEF Inv
<1> QED BY <1>1, Invariance, PTL

(* A button that is down is one that is configured, for any buttons and however
   reconfigurations and presses interleave (apply_desired_to_session_fields). *)
THEOREM DownIsConfigured == Spec => []ActiveButtonsConfigured
<1>1. Inv => ActiveButtonsConfigured
  BY DEF Inv
<1> QED BY <1>1, Invariance, PTL

-----------------------------------------------------------------------------
(* The histories of direct calls. *)
LEMMA SmallestExists ==
  ASSUME NEW T \in SUBSET Nat, T # {}
  PROVE  \E x \in T : \A y \in T : x <= y
<1>1. PICK x \in T : \A y \in T : ~ (<<y, x>> \in OpToRel(<, Nat))
  BY WFMin, NatLessThanWellFounded, Zenon
<1>2. \A y \in T : ~ (y < x)
  BY <1>1 DEF OpToRel
<1> QED BY <1>2

LEMMA LargestExists ==
  ASSUME NEW n \in Nat, NEW S \in SUBSET (0..n), S # {}
  PROVE  \E x \in S : \A y \in S : x >= y
<1> DEFINE bounds == {b \in Nat : \A y \in S : y <= b}
<1>1. n \in bounds /\ bounds \in SUBSET Nat
  OBVIOUS
<1>2. PICK x \in bounds : \A b \in bounds : x <= b
  BY <1>1, SmallestExists
<1>3. x \in S
  <2> SUFFICES ASSUME x \notin S PROVE FALSE
    OBVIOUS
  <2>1. PICK y \in S : TRUE
    OBVIOUS
  <2>2. x - 1 \in Nat /\ \A z \in S : z <= x - 1
    BY <1>2, <2>1
  <2>3. x - 1 \in bounds
    BY <2>2
  <2> QED BY <1>2, <2>3
<1> QED BY <1>2, <1>3

(* One history: what a push and a closing make of it. *)
History == {h \in Seq(HistoryEntry) :
              /\ Len(h) <= MAX_DIRECT_CALL_HISTORY
              /\ \A k \in DOMAIN h : h[k].caller # h[k].target}

Dropped(h) == IF Len(h) = MAX_DIRECT_CALL_HISTORY THEN 1 ELSE 0

LEMMA PushedHistory ==
  ASSUME MAX_DIRECT_CALL_HISTORY \in Nat \ {0}, NEW h \in History, NEW e \in HistoryEntry, e.caller # e.target
  PROVE  LET g == Trimmed(Append(h, e))
         IN /\ g \in History
            /\ Len(g) \in Nat /\ Len(g) >= 1 /\ Len(g) = Len(h) + 1 - Dropped(h)
            /\ g[Len(g)] = e
            /\ \A k \in 1..(Len(g) - 1) : k + Dropped(h) \in DOMAIN h /\ g[k] = h[k + Dropped(h)]
<1> DEFINE a == Append(h, e)
           g == Trimmed(a)
           max == MAX_DIRECT_CALL_HISTORY
<1>1. max \in Nat /\ max >= 1
  OBVIOUS
<1>2. h \in Seq(HistoryEntry) /\ Len(h) \in Nat /\ Len(h) <= max /\ DOMAIN h = 1..Len(h)
  BY DEF History
<1>15. Len(h) \in Nat /\ Len(h) <= max
  BY <1>2
<1>0. Dropped(h) = IF Len(h) = max THEN 1 ELSE 0
  BY DEF Dropped
<1> HIDE DEF max
<1>3. a \in Seq(HistoryEntry) /\ Len(a) = Len(h) + 1
  BY <1>2
<1>4. a[Len(h) + 1] = e /\ \A k \in 1..Len(h) : a[k] = h[k]
  BY <1>2
<1> HIDE DEF a
<1>5. Dropped(h) = IF Len(a) > max THEN Len(a) - max ELSE 0
  <2>0. Len(a) = Len(h) + 1
    BY <1>3
  <2>1. CASE Len(h) = max
    BY <1>0, <1>1, <1>15, <2>0, <2>1
  <2>2. CASE Len(h) # max
    BY <1>0, <1>1, <1>15, <2>0, <2>2
  <2> QED BY <2>1, <2>2
<1>6. Dropped(h) \in 0..1 /\ Dropped(h) <= Len(h) /\ Len(h) + 1 - Dropped(h) <= max
  <2>1. CASE Len(h) = max
    BY <1>0, <1>1, <1>15, <2>1
  <2>2. CASE Len(h) # max
    BY <1>0, <1>1, <1>15, <2>2
  <2> QED BY <2>1, <2>2
<1>14. g = SubSeq(a, Dropped(h) + 1, Len(a))
  BY <1>5 DEF Trimmed, max
<1> HIDE DEF a, g, max
<1>7. Dropped(h) + 1 \in 1..Len(a)
  BY <1>2, <1>3, <1>6
<1>8. /\ g \in Seq(HistoryEntry) /\ Len(g) = Len(h) + 1 - Dropped(h)
      /\ \A k \in 1..Len(g) : g[k] = a[k + Dropped(h)]
  BY <1>2, <1>3, <1>6, <1>7, <1>14
<1>9. Len(g) \in Nat /\ Len(g) >= 1 /\ DOMAIN g = 1..Len(g) /\ Len(g) <= max
  BY <1>2, <1>6, <1>8
<1>10. g[Len(g)] = e
  BY <1>2, <1>4, <1>6, <1>8, <1>9
<1>11. \A k \in 1..(Len(g) - 1) : k + Dropped(h) \in 1..Len(h) /\ g[k] = h[k + Dropped(h)]
  BY <1>2, <1>4, <1>6, <1>8, <1>9
<1>12. \A k \in DOMAIN g : g[k].caller # g[k].target
  <2> SUFFICES ASSUME NEW k \in 1..Len(g) PROVE g[k].caller # g[k].target
    BY <1>9
  <2>1. CASE k = Len(g)
    BY <1>10, <2>1
  <2>2. CASE k # Len(g)
    <3>0. Len(g) \in Nat
      BY <1>9
    <3>1. k \in 1..(Len(g) - 1)
      BY <2>2, <3>0
    <3>2. k + Dropped(h) \in DOMAIN h /\ g[k] = h[k + Dropped(h)]
      BY <1>2, <1>11, <3>1
    <3> QED BY <3>2 DEF History
  <2> QED BY <2>1, <2>2
<1>13. g \in History
  BY <1>8, <1>9, <1>12 DEF History, max
<1> QED BY <1>2, <1>8, <1>9, <1>10, <1>11, <1>13 DEF g, a

(* The newest open entry of a pair. *)
IsNewest(h, u, t, sources, k) ==
  k \in OpenPositions(h, u, t, sources) /\ \A j \in OpenPositions(h, u, t, sources) : j <= k

LEMMA ClosedHistory ==
  ASSUME NEW h \in History, NEW u, NEW t, NEW sources
  PROVE  LET g == CloseNewest(h, u, t, sources)
         IN /\ g \in History
            /\ Len(g) = Len(h)
            /\ \A k \in DOMAIN h :
                 g[k] = IF IsNewest(h, u, t, sources, k) THEN [h[k] EXCEPT !.open = FALSE] ELSE h[k]
<1> DEFINE open == OpenPositions(h, u, t, sources)
           g == CloseNewest(h, u, t, sources)
           newest == CHOOSE k \in open : \A j \in open : j <= k
<1>1. h \in Seq(HistoryEntry) /\ Len(h) \in Nat /\ Len(h) <= MAX_DIRECT_CALL_HISTORY /\ DOMAIN h = 1..Len(h)
  BY DEF History
<1>2. open \in SUBSET (0..Len(h)) /\ open \in SUBSET (DOMAIN h)
  BY <1>1 DEF OpenPositions
<1>3. CASE open = {}
  <2>1. g = h
    BY <1>3 DEF CloseNewest
  <2>2. \A k : ~ IsNewest(h, u, t, sources, k)
    BY <1>3 DEF IsNewest
  <2> QED BY <2>1, <2>2
<1>4. CASE open # {}
  <2>1. \E k \in open : \A j \in open : k >= j
    BY <1>1, <1>2, <1>4, LargestExists
  <2>2. newest \in open /\ \A j \in open : j <= newest
    <3>1. \E k \in open : \A j \in open : j <= k
      BY <1>2, <2>1
    <3> HIDE DEF open
    <3> QED BY <3>1
  <2>3. g = [h EXCEPT ![newest].open = FALSE]
    BY <1>4 DEF CloseNewest
  <2> HIDE DEF open, newest, g
  <2>4. ASSUME NEW k PROVE IsNewest(h, u, t, sources, k) <=> k = newest
    BY <1>1, <1>2, <2>2 DEF IsNewest, open
  <2>5. newest \in DOMAIN h
    BY <1>2, <2>2
  <2>6. h[newest] \in HistoryEntry
    BY <1>1, <2>5
  <2>7. /\ [h[newest] EXCEPT !.open = FALSE] \in HistoryEntry
        /\ [h[newest] EXCEPT !.open = FALSE].caller = h[newest].caller
        /\ [h[newest] EXCEPT !.open = FALSE].target = h[newest].target
    BY <2>6 DEF HistoryEntry
  <2>8. \A k \in DOMAIN h : g[k] = IF k = newest THEN [h[k] EXCEPT !.open = FALSE] ELSE h[k]
    BY <2>3
  <2>9. g \in Seq(HistoryEntry) /\ Len(g) = Len(h)
    BY <1>1, <2>3, <2>5, <2>7
  <2>10. \A k \in DOMAIN g : g[k].caller # g[k].target
    <3> SUFFICES ASSUME NEW k \in DOMAIN h PROVE g[k].caller # g[k].target
      BY <1>1, <2>9
    <3>1. h[k].caller # h[k].target
      BY DEF History
    <3> QED BY <2>7, <2>8, <3>1
  <2>11. g \in History
    BY <1>1, <2>9, <2>10 DEF History
  <2> QED BY <2>4, <2>8, <2>9, <2>11 DEF g
<1> QED BY <1>3, <1>4

(* All logs. *)
LogRecord == [history : History, lastCaller : Users \cup {NoUser}]

LogsTyped(L) == L \in [Users -> LogRecord] /\ \A v \in Users : L[v].lastCaller # v

LEMMA HistoryType ==
  ASSUME NEW L, LogsTyped(L), NEW v \in Users
  PROVE  /\ L[v].history \in History /\ L[v].history \in Seq(HistoryEntry)
         /\ Len(L[v].history) \in Nat /\ DOMAIN L[v].history = 1..Len(L[v].history)
<1>1. L[v] \in LogRecord
  BY DEF LogsTyped
<1>2. L[v].history \in History
  BY <1>1 DEF LogRecord
<1> QED BY <1>2 DEF History

LEMMA EntryType ==
  ASSUME NEW u \in Users, NEW t \in Users, NEW b \in AnySource
  PROVE  Entry(u, t, b) \in HistoryEntry /\ Entry(u, t, b).caller = u /\ Entry(u, t, b).target = t
BY DEF Entry, HistoryEntry

LEMMA OpenedLogs ==
  ASSUME MAX_DIRECT_CALL_HISTORY \in Nat \ {0}, NEW L, LogsTyped(L),
         NEW u \in Users, NEW t \in Users, u # t, NEW b \in AnySource
  PROVE  LET M == Opened(L, u, t, b)
         IN /\ LogsTyped(M)
            /\ \A v \in Users :
                 /\ M[v].history = IF v \in {u, t} THEN Trimmed(Append(L[v].history, Entry(u, t, b)))
                                   ELSE L[v].history
                 /\ M[v].lastCaller = IF v = t THEN u ELSE L[v].lastCaller
<1> DEFINE e == Entry(u, t, b)
           M == Opened(L, u, t, b)
           now(v) == IF v \in {u, t} THEN Trimmed(Append(L[v].history, e)) ELSE L[v].history
           last(v) == IF v = t THEN u ELSE L[v].lastCaller
<1>1. L \in [Users -> LogRecord]
  BY DEF LogsTyped
<1>2. DOMAIN M = Users /\ M = [v \in Users |-> M[v]]
  BY <1>1 DEF Opened
<1>3. \A v \in Users : M[v] = [history |-> now(v), lastCaller |-> last(v)]
  <2> SUFFICES ASSUME NEW v \in Users PROVE M[v] = [history |-> now(v), lastCaller |-> last(v)]
    OBVIOUS
  <2>1. L[v] = [history |-> L[v].history, lastCaller |-> L[v].lastCaller]
    BY <1>1 DEF LogRecord
  <2>2. CASE v = t
    <3>1. M[v] = [L[v] EXCEPT !.history = Trimmed(Append(@, e)), !.lastCaller = u]
      BY <1>1, <2>2 DEF Opened, LogRecord
    <3> QED BY <2>1, <2>2, <3>1
  <2>3. CASE v = u
    <3>1. M[v] = [L[v] EXCEPT !.history = Trimmed(Append(@, e))]
      BY <1>1, <2>3 DEF Opened
    <3> QED BY <2>1, <2>3, <3>1
  <2>4. CASE v \notin {u, t}
    <3>1. M[v] = L[v]
      BY <1>1, <2>4 DEF Opened
    <3> QED BY <2>1, <2>4, <3>1
  <2> QED BY <2>2, <2>3, <2>4
<1>4. e \in HistoryEntry /\ e.caller # e.target
  BY EntryType
<1> HIDE DEF e, M
<1>5. ASSUME NEW v \in Users PROVE now(v) \in History /\ last(v) \in Users \cup {NoUser} /\ last(v) # v
  <2>1. L[v].history \in History
    BY HistoryType
  <2>2. Trimmed(Append(L[v].history, e)) \in History
    BY <1>4, <2>1, PushedHistory
  <2>3. L[v].lastCaller \in Users \cup {NoUser} /\ L[v].lastCaller # v
    BY <1>1 DEF LogRecord, LogsTyped
  <2> QED BY <2>1, <2>2, <2>3
<1> HIDE DEF now, last
<1>6. ASSUME NEW v \in Users
      PROVE  M[v] \in LogRecord /\ M[v].history = now(v) /\ M[v].lastCaller = last(v)
  <2>1. M[v] = [history |-> now(v), lastCaller |-> last(v)]
    BY <1>3
  <2>2. now(v) \in History /\ last(v) \in Users \cup {NoUser}
    BY <1>5
  <2> QED BY <2>1, <2>2 DEF LogRecord
<1>7. LogsTyped(M)
  <2>1. \A v \in Users : M[v] \in LogRecord /\ M[v].lastCaller # v
    BY <1>5, <1>6
  <2> QED BY <1>2, <2>1 DEF LogsTyped
<1> QED BY <1>6, <1>7 DEF now, last, e, M

LEMMA NoSelfCalls ==
  ASSUME NEW h \in History, NEW u, NEW sources
  PROVE  OpenPositions(h, u, u, sources) = {} /\ CloseNewest(h, u, u, sources) = h
BY DEF History, OpenPositions, CloseNewest

LEMMA ClosedLogs ==
  ASSUME NEW L, LogsTyped(L), NEW u \in Users, NEW t \in Users, NEW sources
  PROVE  LET M == Closed(L, u, t, sources)
         IN /\ LogsTyped(M)
            /\ \A v \in Users :
                 /\ M[v].history = IF v \in {u, t} THEN CloseNewest(L[v].history, u, t, sources)
                                   ELSE L[v].history
                 /\ M[v].lastCaller = L[v].lastCaller
<1> DEFINE M == Closed(L, u, t, sources)
           now(v) == IF v \in {u, t} THEN CloseNewest(L[v].history, u, t, sources) ELSE L[v].history
<1>1. L \in [Users -> LogRecord]
  BY DEF LogsTyped
<1> DEFINE half == ClosedAt(L, u, u, t, sources)
<1>2. /\ DOMAIN half = Users
      /\ \A v \in Users : half[v] = IF v = u THEN [L[v] EXCEPT !.history = CloseNewest(@, u, t, sources)] ELSE L[v]
  BY <1>1 DEF ClosedAt
<1>3. M = [half EXCEPT ![t].history = CloseNewest(@, u, t, sources)]
  BY DEF Closed, ClosedAt
<1> HIDE DEF half, M
<1>4. /\ DOMAIN M = Users /\ M = [v \in Users |-> M[v]]
      /\ \A v \in Users : M[v] = IF v = t THEN [half[v] EXCEPT !.history = CloseNewest(@, u, t, sources)] ELSE half[v]
  BY <1>2, <1>3
<1>8. \A v \in Users : M[v] = [history |-> now(v), lastCaller |-> L[v].lastCaller]
  <2> SUFFICES ASSUME NEW v \in Users PROVE M[v] = [history |-> now(v), lastCaller |-> L[v].lastCaller]
    OBVIOUS
  <2> DEFINE h == L[v].history
             c == CloseNewest(h, u, t, sources)
  <2>1. L[v] = [history |-> h, lastCaller |-> L[v].lastCaller]
    BY <1>1 DEF LogRecord
  <2>2. h \in History
    BY HistoryType
  <2>3. now(v) = IF v \in {u, t} THEN c ELSE h
    OBVIOUS
  <2> HIDE DEF h, now
  <2>4. half[v] = [history |-> IF v = u THEN c ELSE h, lastCaller |-> L[v].lastCaller]
    <3>1. CASE v = u
      <4>1. half[v] = [L[v] EXCEPT !.history = c]
        BY <1>2, <3>1 DEF h
      <4> HIDE DEF c
      <4> QED BY <2>1, <3>1, <4>1
    <3>2. CASE v # u
      BY <1>2, <2>1, <3>2
    <3> QED BY <3>1, <3>2
  <2>5. CASE v = t /\ v # u
    <3>1. M[v] = [half[v] EXCEPT !.history = c] /\ half[v].history = h
      BY <1>4, <2>4, <2>5
    <3> HIDE DEF c
    <3> QED BY <2>3, <2>4, <2>5, <3>1
  <2>6. CASE v = t /\ v = u
    <3>1. c = h
      BY <2>2, <2>6, NoSelfCalls
    <3>2. M[v] = [half[v] EXCEPT !.history = CloseNewest(half[v].history, u, t, sources)] /\ half[v].history = h
      BY <1>4, <2>4, <2>6, <3>1
    <3>3. M[v] = [half[v] EXCEPT !.history = c]
      BY <3>2
    <3> HIDE DEF c
    <3> QED BY <2>3, <2>4, <2>6, <3>3
  <2>7. CASE v # t
    <3>1. M[v] = half[v]
      BY <1>4, <2>7
    <3> HIDE DEF c
    <3> QED BY <2>3, <2>4, <2>7, <3>1
  <2> QED BY <2>5, <2>6, <2>7
<1>5. ASSUME NEW v \in Users PROVE now(v) \in History
  <2>1. L[v].history \in History
    BY HistoryType
  <2>2. CloseNewest(L[v].history, u, t, sources) \in History
    BY <2>1, ClosedHistory
  <2> QED BY <2>1, <2>2
<1> HIDE DEF now
<1>6. ASSUME NEW v \in Users
      PROVE  M[v] \in LogRecord /\ M[v].history = now(v) /\ M[v].lastCaller = L[v].lastCaller
  <2>1. L[v].lastCaller \in Users \cup {NoUser}
    BY <1>1 DEF LogRecord
  <2>2. M[v] = [history |-> now(v), lastCaller |-> L[v].lastCaller]
    BY <1>8
  <2>3. now(v) \in History
    BY <1>5
  <2> QED BY <2>1, <2>2, <2>3 DEF LogRecord
<1>7. LogsTyped(M)
  <2>1. \A v \in Users : M[v] \in LogRecord /\ M[v].lastCaller # v
    BY <1>6 DEF LogsTyped
  <2> QED BY <1>4, <2>1 DEF LogsTyped
<1> QED BY <1>6, <1>7 DEF now, M

(* The calls of all logs, numbered in the order in which they were made: the two sides of
   a call have one number, a history rises, and what lies between two calls of a pair on
   one side is on the other side too, unless it is older than all that is left there. *)
NumbersRise(L, num, top) ==
  /\ top \in Nat /\ num \in [Users -> [Nat -> Nat]]
  /\ \A v \in Users : \A k \in DOMAIN L[v].history :
       num[v][k] < top /\ \A j \in DOMAIN L[v].history : j < k => num[v][j] < num[v][k]

SameCalls(L, num) ==
  \A a, b \in Users : \A v, w \in {a, b} :
    \A k \in OfPair(L[v].history, a, b), j \in OfPair(L[w].history, a, b) :
      num[v][k] = num[w][j] => L[v].history[k] = L[w].history[j]

NoGaps(L, num) ==
  \A a, b \in Users : \A v, w \in {a, b} :
    \A k \in OfPair(L[v].history, a, b), j \in OfPair(L[w].history, a, b) :
      num[v][k] > num[w][j] => \E i \in OfPair(L[w].history, a, b) : num[w][i] = num[v][k]

Numbering(L, num, top) == NumbersRise(L, num, top) /\ SameCalls(L, num) /\ NoGaps(L, num)

LEMMA OpenedNumbers ==
  ASSUME MAX_DIRECT_CALL_HISTORY \in Nat \ {0}, NEW L, LogsTyped(L), NEW num, NEW top, Numbering(L, num, top),
         NEW u \in Users, NEW t \in Users, u # t, NEW b \in AnySource
  PROVE  \E m : Numbering(Opened(L, u, t, b), m, top + 1)
<1> DEFINE e == Entry(u, t, b)
           M == Opened(L, u, t, b)
           h(v) == L[v].history
           g(v) == M[v].history
           d(v) == IF v \in {u, t} THEN Dropped(h(v)) ELSE 0
           new(v, k) == v \in {u, t} /\ k = Len(g(v))
           m == [v \in Users |-> [k \in Nat |-> IF new(v, k) THEN top ELSE num[v][k + d(v)]]]
<1>0. e.caller = u /\ e.target = t /\ e \in HistoryEntry
  BY EntryType
<1>1. \A v \in Users : /\ h(v) \in History /\ Len(h(v)) \in Nat /\ DOMAIN h(v) = 1..Len(h(v))
                       /\ d(v) \in 0..1
  BY HistoryType DEF Dropped
<1>2. LogsTyped(M) /\ \A v \in Users : g(v) = IF v \in {u, t} THEN Trimmed(Append(h(v), e)) ELSE h(v)
  <2>1. MAX_DIRECT_CALL_HISTORY \in Nat \ {0} /\ LogsTyped(L) /\ u # t
    OBVIOUS
  <2> HIDE DEF d, new, m
  <2> QED BY <2>1, OpenedLogs
<1> HIDE DEF M, e
<1>3. \A v \in Users : Len(g(v)) \in Nat /\ DOMAIN g(v) = 1..Len(g(v))
  BY <1>2, HistoryType
<1> HIDE DEF g, h
<1>4. ASSUME NEW v \in Users
      PROVE  /\ v \in {u, t} => Len(g(v)) >= 1 /\ g(v)[Len(g(v))] = e
             /\ Len(g(v)) = IF v \in {u, t} THEN Len(h(v)) + 1 - d(v) ELSE Len(h(v))
             /\ \A k \in DOMAIN g(v) :
                  ~ new(v, k) => k + d(v) \in DOMAIN h(v) /\ g(v)[k] = h(v)[k + d(v)]
  <2>1. CASE v \in {u, t}
    <3>1. d(v) = Dropped(h(v)) /\ g(v) = Trimmed(Append(h(v), e)) /\ h(v) \in History
      BY <1>1, <1>2, <2>1
    <3>2. e.caller # e.target
      BY <1>0
    <3>3. /\ Len(g(v)) \in Nat /\ Len(g(v)) >= 1 /\ Len(g(v)) = Len(h(v)) + 1 - d(v)
          /\ g(v)[Len(g(v))] = e
          /\ \A k \in 1..(Len(g(v)) - 1) : k + d(v) \in DOMAIN h(v) /\ g(v)[k] = h(v)[k + d(v)]
      <4> HIDE DEF d
      <4> QED BY <1>0, <3>1, <3>2, PushedHistory
    <3>4. ASSUME NEW k \in DOMAIN g(v), ~ new(v, k) PROVE k \in 1..(Len(g(v)) - 1)
      <4>1. k \in 1..Len(g(v)) /\ k # Len(g(v)) /\ Len(g(v)) \in Nat
        BY <1>3, <2>1, <3>4
      <4> QED BY <4>1
    <3> HIDE DEF d, new
    <3> QED BY <2>1, <3>3, <3>4
  <2>2. CASE v \notin {u, t}
    <3>1. g(v) = h(v) /\ d(v) = 0 /\ Len(h(v)) \in Nat /\ DOMAIN h(v) = 1..Len(h(v))
      BY <1>1, <1>2, <2>2
    <3> HIDE DEF d, new
    <3> QED BY <2>2, <3>1
  <2> QED BY <2>1, <2>2
<1>5. ASSUME NEW v \in Users
      PROVE  /\ DOMAIN g(v) \subseteq Nat /\ DOMAIN h(v) \subseteq Nat
             /\ v \in {u, t} => Len(g(v)) \in DOMAIN g(v) /\ new(v, Len(g(v)))
             /\ \A k, j \in DOMAIN g(v) : j < k => ~ new(v, j)
             /\ \A i \in DOMAIN h(v) : i > d(v) => i - d(v) \in DOMAIN g(v) /\ ~ new(v, i - d(v))
  <2>1. /\ Len(g(v)) \in Nat /\ DOMAIN g(v) = 1..Len(g(v)) /\ Len(h(v)) \in Nat /\ DOMAIN h(v) = 1..Len(h(v))
        /\ d(v) \in 0..1
    BY <1>1, <1>3
  <2>2. /\ v \in {u, t} => Len(g(v)) >= 1
        /\ Len(g(v)) = IF v \in {u, t} THEN Len(h(v)) + 1 - d(v) ELSE Len(h(v))
    BY <1>4
  <2>3. v \notin {u, t} => d(v) = 0
    OBVIOUS
  <2> HIDE DEF d
  <2>4. v \in {u, t} => Len(g(v)) \in DOMAIN g(v) /\ new(v, Len(g(v)))
    BY <2>1, <2>2
  <2>5. \A k, j \in DOMAIN g(v) : j < k => ~ new(v, j)
    BY <2>1
  <2>6. \A i \in DOMAIN h(v) : i > d(v) => i - d(v) \in DOMAIN g(v) /\ ~ new(v, i - d(v))
    BY <2>1, <2>2, <2>3
  <2> QED BY <2>1, <2>4, <2>5, <2>6
<1>6. /\ top \in Nat /\ num \in [Users -> [Nat -> Nat]]
      /\ \A v \in Users : \A k \in DOMAIN h(v) :
           num[v][k] < top /\ \A j \in DOMAIN h(v) : j < k => num[v][j] < num[v][k]
  BY DEF Numbering, NumbersRise, h
<1>7. \A v \in Users : d(v) \in Nat
  BY <1>1
<1> HIDE DEF d, new
<1>8. m \in [Users -> [Nat -> Nat]]
  BY <1>6, <1>7
<1>9. ASSUME NEW v \in Users, NEW k \in DOMAIN g(v)
      PROVE  /\ new(v, k) => m[v][k] = top /\ g(v)[k] = e /\ v \in {u, t}
             /\ ~ new(v, k) => /\ k + d(v) \in DOMAIN h(v) /\ m[v][k] = num[v][k + d(v)]
                               /\ m[v][k] < top /\ g(v)[k] = h(v)[k + d(v)]
  <2>1. k \in Nat
    BY <1>5
  <2>2. m[v][k] = IF new(v, k) THEN top ELSE num[v][k + d(v)]
    BY <2>1
  <2>3. new(v, k) => v \in {u, t} /\ k = Len(g(v))
    BY DEF new
  <2>4. ~ new(v, k) => k + d(v) \in DOMAIN h(v) /\ g(v)[k] = h(v)[k + d(v)]
    BY <1>4
  <2>5. v \in {u, t} => g(v)[Len(g(v))] = e
    BY <1>4
  <2> HIDE DEF m
  <2>6. ~ new(v, k) => num[v][k + d(v)] < top
    BY <1>6, <2>4
  <2> QED BY <2>2, <2>3, <2>4, <2>5, <2>6
<1> HIDE DEF m
<1>10. NumbersRise(M, m, top + 1)
  <2> SUFFICES ASSUME NEW v \in Users, NEW k \in DOMAIN g(v)
               PROVE  m[v][k] < top + 1 /\ \A j \in DOMAIN g(v) : j < k => m[v][j] < m[v][k]
    BY <1>6, <1>8 DEF NumbersRise, g
  <2>1. k \in Nat /\ m[v][k] \in Nat
    BY <1>5, <1>8
  <2>2. m[v][k] < top + 1
    BY <1>6, <1>9, <2>1
  <2>3. ASSUME NEW j \in DOMAIN g(v), j < k PROVE m[v][j] < m[v][k]
    <3>1. ~ new(v, j)
      BY <1>5, <2>3
    <3>2. /\ j + d(v) \in DOMAIN h(v) /\ m[v][j] = num[v][j + d(v)] /\ m[v][j] < top
      BY <1>9, <3>1
    <3>3. CASE new(v, k)
      BY <1>9, <3>2, <3>3
    <3>4. CASE ~ new(v, k)
      <4>1. k + d(v) \in DOMAIN h(v) /\ m[v][k] = num[v][k + d(v)]
        BY <1>9, <3>4
      <4>2. j + d(v) < k + d(v)
        BY <1>5, <1>7, <2>1, <2>3
      <4> QED BY <1>6, <3>2, <4>1, <4>2
    <3> QED BY <3>3, <3>4
  <2> QED BY <2>2, <2>3
<1>11. ASSUME NEW a \in Users, NEW c \in Users, NEW v \in {a, c}, NEW k \in OfPair(g(v), a, c)
       PROVE  /\ v \in Users /\ k \in DOMAIN g(v)
              /\ new(v, k) => a = u /\ c = t
              /\ ~ new(v, k) => k + d(v) \in OfPair(h(v), a, c)
  <2>1. v \in Users /\ k \in DOMAIN g(v) /\ g(v)[k].caller = a /\ g(v)[k].target = c
    BY DEF OfPair
  <2>2. new(v, k) => a = u /\ c = t
    BY <1>0, <1>9, <2>1
  <2>3. ~ new(v, k) => k + d(v) \in OfPair(h(v), a, c)
    BY <1>9, <2>1 DEF OfPair
  <2> QED BY <2>1, <2>2, <2>3
<1>12. SameCalls(M, m)
  <2> SUFFICES ASSUME NEW a \in Users, NEW c \in Users, NEW v \in {a, c}, NEW w \in {a, c},
                      NEW k \in OfPair(g(v), a, c), NEW j \in OfPair(g(w), a, c), m[v][k] = m[w][j]
               PROVE  g(v)[k] = g(w)[j]
    BY DEF SameCalls, g
  <2>1. CASE new(v, k) /\ new(w, j)
    BY <1>9, <1>11, <2>1
  <2>2. CASE ~ new(v, k) /\ ~ new(w, j)
    <3>1. num[v][k + d(v)] = num[w][j + d(w)] /\ g(v)[k] = h(v)[k + d(v)] /\ g(w)[j] = h(w)[j + d(w)]
      BY <1>9, <1>11, <2>2
    <3>2. k + d(v) \in OfPair(h(v), a, c) /\ j + d(w) \in OfPair(h(w), a, c)
      BY <1>11, <2>2
    <3>3. h(v)[k + d(v)] = h(w)[j + d(w)]
      BY <3>1, <3>2 DEF Numbering, SameCalls, h
    <3> QED BY <3>1, <3>3
  <2>3. new(v, k) <=> new(w, j)
    <3>1. /\ new(v, k) => m[v][k] = top
          /\ ~ new(v, k) => m[v][k] < top
          /\ new(w, j) => m[w][j] = top
          /\ ~ new(w, j) => m[w][j] < top
      BY <1>9, <1>11
    <3> QED BY <1>6, <3>1
  <2> QED BY <2>1, <2>2, <2>3
<1>13. NoGaps(M, m)
  <2> SUFFICES ASSUME NEW a \in Users, NEW c \in Users, NEW v \in {a, c}, NEW w \in {a, c},
                      NEW k \in OfPair(g(v), a, c), NEW j \in OfPair(g(w), a, c), m[v][k] > m[w][j]
               PROVE  \E i \in OfPair(g(w), a, c) : m[w][i] = m[v][k]
    BY DEF NoGaps, g
  <2>0. v \in Users /\ w \in Users /\ k \in DOMAIN g(v) /\ j \in DOMAIN g(w)
    BY <1>11
  <2>1. CASE new(v, k)
    <3>1. a = u /\ c = t /\ m[v][k] = top
      BY <1>9, <1>11, <2>0, <2>1
    <3>2. Len(g(w)) \in DOMAIN g(w) /\ new(w, Len(g(w)))
      BY <1>5, <2>0, <3>1
    <3>3. m[w][Len(g(w))] = top /\ g(w)[Len(g(w))] = e
      BY <1>9, <2>0, <3>2
    <3>4. Len(g(w)) \in OfPair(g(w), a, c)
      BY <1>0, <3>1, <3>2, <3>3 DEF OfPair
    <3> QED BY <3>1, <3>3, <3>4
  <2>2. CASE ~ new(v, k)
    <3>1. m[v][k] < top /\ m[v][k] = num[v][k + d(v)] /\ m[v][k] \in Nat
      <4>1. k \in Nat
        BY <1>5, <2>0
      <4>2. m[v][k] < top /\ m[v][k] = num[v][k + d(v)]
        BY <1>9, <2>0, <2>2
      <4>3. m[v] \in [Nat -> Nat]
        BY <1>8, <2>0
      <4> QED BY <4>1, <4>2, <4>3
    <3>2. ~ new(w, j)
      <4>1. new(w, j) => m[w][j] = top
        BY <1>9, <2>0
      <4> QED BY <1>6, <3>1, <4>1
    <3>3. m[w][j] = num[w][j + d(w)] /\ j + d(w) \in DOMAIN h(w)
      BY <1>9, <2>0, <3>2
    <3>4. k + d(v) \in OfPair(h(v), a, c) /\ j + d(w) \in OfPair(h(w), a, c)
      BY <1>11, <2>2, <3>2
    <3>5. PICK i \in OfPair(h(w), a, c) : num[w][i] = num[v][k + d(v)]
      <4>1. num[v][k + d(v)] > num[w][j + d(w)]
        BY <3>1, <3>3
      <4> QED BY <3>4, <4>1 DEF Numbering, NoGaps, h
    <3>6. i \in DOMAIN h(w) /\ h(w)[i].caller = a /\ h(w)[i].target = c /\ i \in Nat /\ j \in Nat /\ j >= 1
      <4>1. i \in DOMAIN h(w) /\ h(w)[i].caller = a /\ h(w)[i].target = c
        BY DEF OfPair
      <4>2. DOMAIN g(w) = 1..Len(g(w)) /\ Len(g(w)) \in Nat
        BY <1>3, <2>0
      <4> QED BY <1>5, <2>0, <4>1, <4>2
    <3>7. i > j + d(w)
      <4> SUFFICES ASSUME ~ (i > j + d(w)) PROVE FALSE
        OBVIOUS
      <4>1. i < j + d(w) \/ i = j + d(w)
        BY <1>7, <2>0, <3>6
      <4>2. num[w][i] \in Nat /\ num[w][j + d(w)] \in Nat
        <5>1. j + d(w) \in Nat
          BY <1>7, <2>0, <3>6
        <5> QED BY <1>6, <2>0, <3>6, <5>1, ZenonT(60)
      <4>3. num[w][i] > num[w][j + d(w)]
        BY <3>1, <3>3, <3>5
      <4>4. i < j + d(w) => num[w][i] < num[w][j + d(w)]
        BY <1>6, <2>0, <3>3, <3>6
      <4> QED BY <4>1, <4>2, <4>3, <4>4
    <3>8. i > d(w) /\ d(w) \in Nat
      BY <1>7, <2>0, <3>6, <3>7
    <3>9. i - d(w) \in DOMAIN g(w) /\ ~ new(w, i - d(w))
      BY <1>5, <2>0, <3>6, <3>8
    <3>10. (i - d(w)) + d(w) = i
      BY <3>6, <3>8
    <3>11. m[w][i - d(w)] = num[w][i] /\ g(w)[i - d(w)] = h(w)[i]
      BY <1>9, <2>0, <3>9, <3>10
    <3>12. i - d(w) \in OfPair(g(w), a, c)
      BY <3>6, <3>9, <3>11 DEF OfPair
    <3> QED BY <3>1, <3>5, <3>11, <3>12
  <2> QED BY <2>1, <2>2
<1>14. Numbering(M, m, top + 1)
  BY <1>10, <1>12, <1>13 DEF Numbering
<1> QED BY <1>14 DEF M

(* A closing finds the same call on both sides: what one side has open and the other not is
   older than all that the other has left. *)
LEMMA SameNewest ==
  ASSUME NEW L, LogsTyped(L), NEW num, NEW top, Numbering(L, num, top), NEW sources,
         NEW u \in Users, NEW t \in Users, NEW v \in {u, t}, NEW w \in {u, t},
         NEW k \in OfPair(L[v].history, u, t), NEW j \in OfPair(L[w].history, u, t), num[v][k] = num[w][j],
         IsNewest(L[v].history, u, t, sources, k)
  PROVE  IsNewest(L[w].history, u, t, sources, j)
<1> DEFINE h(x) == L[x].history
<1>1. h(v)[k] = h(w)[j]
  BY DEF Numbering, SameCalls
<1>2. j \in OpenPositions(h(w), u, t, sources)
  BY <1>1 DEF IsNewest, OpenPositions, OfPair
<1>3. ASSUME NEW i \in OpenPositions(h(w), u, t, sources) PROVE i <= j
  <2> SUFFICES ASSUME ~ (i <= j) PROVE FALSE
    OBVIOUS
  <2>1. DOMAIN h(w) = 1..Len(h(w)) /\ DOMAIN h(v) = 1..Len(h(v)) /\ Len(h(w)) \in Nat /\ Len(h(v)) \in Nat
    BY HistoryType
  <2>2. i \in DOMAIN h(w) /\ j \in DOMAIN h(w) /\ i \in OfPair(h(w), u, t) /\ k \in DOMAIN h(v)
    BY DEF OpenPositions, OfPair
  <2>3. j < i /\ v \in Users /\ w \in Users
    BY <2>1, <2>2
  <2>4. num[w][j] < num[w][i]
    BY <2>2, <2>3 DEF Numbering, NumbersRise
  <2>5. num[w][i] \in Nat /\ num[w][j] \in Nat /\ num[v][k] \in Nat
    <3>1. i \in Nat /\ j \in Nat /\ k \in Nat
      BY <2>1, <2>2
    <3>2. num \in [Users -> [Nat -> Nat]]
      BY DEF Numbering, NumbersRise
    <3> QED BY <2>3, <3>1, <3>2
  <2>6. num[w][i] > num[v][k]
    BY <2>4, <2>5
  <2>7. PICK l \in OfPair(h(v), u, t) : num[v][l] = num[w][i]
    BY <2>2, <2>6 DEF Numbering, NoGaps
  <2>8. h(w)[i] = h(v)[l]
    BY <2>2, <2>7 DEF Numbering, SameCalls
  <2>9. l \in OpenPositions(h(v), u, t, sources)
    BY <2>8 DEF OpenPositions, OfPair
  <2>10. l <= k /\ l \in DOMAIN h(v)
    BY <2>9 DEF IsNewest, OpenPositions
  <2>11. l < k \/ l = k
    BY <2>1, <2>2, <2>10
  <2>12. l < k => num[v][l] < num[v][k]
    BY <2>2, <2>3, <2>10 DEF Numbering, NumbersRise
  <2> QED BY <2>5, <2>6, <2>7, <2>11, <2>12
<1> QED BY <1>2, <1>3 DEF IsNewest

LEMMA ClosedEntries ==
  ASSUME NEW L, LogsTyped(L), NEW u \in Users, NEW t \in Users, NEW sources, NEW v \in Users
  PROVE  LET h == L[v].history
             g == Closed(L, u, t, sources)[v].history
         IN /\ DOMAIN g = DOMAIN h /\ Len(g) = Len(h)
            /\ \A k \in DOMAIN h :
                 /\ g[k].caller = h[k].caller /\ g[k].target = h[k].target
                 /\ g[k] = IF v \in {u, t} /\ IsNewest(h, u, t, sources, k)
                           THEN [h[k] EXCEPT !.open = FALSE] ELSE h[k]
<1> DEFINE h == L[v].history
           M == Closed(L, u, t, sources)
           g == M[v].history
<1>1. h \in History /\ h \in Seq(HistoryEntry) /\ Len(h) \in Nat /\ DOMAIN h = 1..Len(h)
  BY HistoryType
<1>2. LogsTyped(M) /\ g = IF v \in {u, t} THEN CloseNewest(h, u, t, sources) ELSE h
  BY ClosedLogs
<1> HIDE DEF M
<1>3. Len(g) \in Nat /\ DOMAIN g = 1..Len(g)
  BY <1>2, HistoryType
<1> HIDE DEF h, g
<1>4. /\ Len(g) = Len(h)
      /\ \A k \in DOMAIN h :
           g[k] = IF v \in {u, t} /\ IsNewest(h, u, t, sources, k) THEN [h[k] EXCEPT !.open = FALSE] ELSE h[k]
  <2>1. CASE v \in {u, t}
    BY <1>1, <1>2, <2>1, ClosedHistory
  <2>2. CASE v \notin {u, t}
    BY <1>2, <2>2
  <2> QED BY <2>1, <2>2
<1>5. ASSUME NEW k \in DOMAIN h PROVE g[k].caller = h[k].caller /\ g[k].target = h[k].target
  <2>1. h[k] \in HistoryEntry
    BY <1>1
  <2>2. g[k] = h[k] \/ g[k] = [h[k] EXCEPT !.open = FALSE]
    BY <1>4
  <2> QED BY <2>1, <2>2 DEF HistoryEntry
<1> QED BY <1>1, <1>3, <1>4, <1>5 DEF h, g, M

LEMMA ClosedNumbers ==
  ASSUME NEW L, LogsTyped(L), NEW num, NEW top, Numbering(L, num, top), NEW sources,
         NEW u \in Users, NEW t \in Users
  PROVE  Numbering(Closed(L, u, t, sources), num, top)
<1> DEFINE M == Closed(L, u, t, sources)
           h(x) == L[x].history
           g(x) == M[x].history
<1>1. ASSUME NEW v \in Users
      PROVE  /\ DOMAIN g(v) = DOMAIN h(v)
             /\ \A a, b : OfPair(g(v), a, b) = OfPair(h(v), a, b)
             /\ \A k \in DOMAIN h(v) :
                  g(v)[k] = IF v \in {u, t} /\ IsNewest(h(v), u, t, sources, k)
                            THEN [h(v)[k] EXCEPT !.open = FALSE] ELSE h(v)[k]
  <2>1. /\ DOMAIN g(v) = DOMAIN h(v)
        /\ \A k \in DOMAIN h(v) :
             /\ g(v)[k].caller = h(v)[k].caller /\ g(v)[k].target = h(v)[k].target
             /\ g(v)[k] = IF v \in {u, t} /\ IsNewest(h(v), u, t, sources, k)
                          THEN [h(v)[k] EXCEPT !.open = FALSE] ELSE h(v)[k]
    BY ClosedEntries
  <2> HIDE DEF g, h
  <2>2. \A a, b : OfPair(g(v), a, b) = OfPair(h(v), a, b)
    BY <2>1 DEF OfPair
  <2> QED BY <2>1, <2>2
<1> HIDE DEF M
<1>2. NumbersRise(M, num, top)
  BY <1>1 DEF Numbering, NumbersRise
<1>3. NoGaps(M, num)
  <2> SUFFICES ASSUME NEW a \in Users, NEW c \in Users, NEW v \in {a, c}, NEW w \in {a, c},
                      NEW k \in OfPair(g(v), a, c), NEW j \in OfPair(g(w), a, c), num[v][k] > num[w][j]
               PROVE  \E i \in OfPair(g(w), a, c) : num[w][i] = num[v][k]
    BY DEF NoGaps
  <2>1. OfPair(g(v), a, c) = OfPair(h(v), a, c) /\ OfPair(g(w), a, c) = OfPair(h(w), a, c)
    BY <1>1
  <2> QED BY <2>1 DEF Numbering, NoGaps
<1>4. SameCalls(M, num)
  <2> SUFFICES ASSUME NEW a \in Users, NEW c \in Users, NEW v \in {a, c}, NEW w \in {a, c},
                      NEW k \in OfPair(g(v), a, c), NEW j \in OfPair(g(w), a, c), num[v][k] = num[w][j]
               PROVE  g(v)[k] = g(w)[j]
    BY DEF SameCalls
  <2>1. /\ v \in Users /\ w \in Users
        /\ k \in OfPair(h(v), a, c) /\ j \in OfPair(h(w), a, c)
    BY <1>1
  <2>2. k \in DOMAIN h(v) /\ j \in DOMAIN h(w)
    BY <2>1 DEF OfPair
  <2>3. h(v)[k] = h(w)[j]
    BY <2>1 DEF Numbering, SameCalls
  <2> DEFINE hit(x, i) == x \in {u, t} /\ IsNewest(h(x), u, t, sources, i)
  <2>4. /\ g(v)[k] = IF hit(v, k) THEN [h(v)[k] EXCEPT !.open = FALSE] ELSE h(v)[k]
        /\ g(w)[j] = IF hit(w, j) THEN [h(w)[j] EXCEPT !.open = FALSE] ELSE h(w)[j]
    BY <1>1, <2>1, <2>2
  <2>5. CASE a = u /\ c = t
    <3>1. hit(v, k) => hit(w, j)
      BY <2>1, <2>5, SameNewest
    <3>2. hit(w, j) => hit(v, k)
      BY <2>1, <2>5, SameNewest
    <3> HIDE DEF hit, h, g
    <3> QED BY <2>3, <2>4, <3>1, <3>2
  <2>6. CASE ~ (a = u /\ c = t)
    <3>1. ~ hit(v, k) /\ ~ hit(w, j)
      BY <2>1, <2>6 DEF IsNewest, OpenPositions, OfPair
    <3> HIDE DEF hit, h, g
    <3> QED BY <2>3, <2>4, <3>1
  <2> QED BY <2>5, <2>6
<1> QED BY <1>2, <1>3, <1>4 DEF Numbering, M

(* What a change must be so that no call of K loses its open entry. *)
Harmless(x, K) ==
  /\ x.op \in {"open", "close", "skip"}
  /\ x.op # "skip" => x.caller \in Users /\ x.target \in Users
  /\ x.op = "open" => x.caller # x.target /\ x.source \in AnySource
  /\ x.op = "close" => NoButton \notin x.sources \/ <<x.caller, x.target>> \notin K

(* Who called last is the caller of the newest incoming call. *)
NewestCalled(L) ==
  \A v \in Users : \A k \in DOMAIN L[v].history :
    /\ L[v].history[k].target = v
    /\ \A j \in DOMAIN L[v].history : L[v].history[j].target = v => j <= k
    => L[v].lastCaller = L[v].history[k].caller

LogsRight(L) == LogsTyped(L) /\ NewestCalled(L) /\ \E num, top : Numbering(L, num, top)

(* A call in progress has its open entry, unless the history is full. *)
CallShown(L, u, t) ==
  OpenPositions(L[u].history, u, t, {NoButton}) # {} \/ Len(L[u].history) = MAX_DIRECT_CALL_HISTORY

LogsKept(L, K) == LogsRight(L) /\ \A u, t \in Users : <<u, t>> \in K => CallShown(L, u, t)

LEMMA OpenedNewest ==
  ASSUME MAX_DIRECT_CALL_HISTORY \in Nat \ {0}, NEW L, LogsTyped(L), NewestCalled(L),
         NEW u \in Users, NEW t \in Users, u # t, NEW b \in AnySource
  PROVE  NewestCalled(Opened(L, u, t, b))
<1> DEFINE M == Opened(L, u, t, b)
           e == Entry(u, t, b)
<1>0. e.caller = u /\ e.target = t /\ e \in HistoryEntry
  BY EntryType
<1> HIDE DEF e
<1> SUFFICES ASSUME NEW v \in Users, NEW k \in DOMAIN M[v].history, M[v].history[k].target = v,
                    \A j \in DOMAIN M[v].history : M[v].history[j].target = v => j <= k
             PROVE  M[v].lastCaller = M[v].history[k].caller
  BY DEF NewestCalled
<1> DEFINE h == L[v].history
           g == M[v].history
<1>1. h \in History /\ Len(h) \in Nat /\ DOMAIN h = 1..Len(h)
  BY HistoryType
<1>2. /\ LogsTyped(M)
      /\ g = IF v \in {u, t} THEN Trimmed(Append(h, e)) ELSE h
      /\ M[v].lastCaller = IF v = t THEN u ELSE L[v].lastCaller
  <2>1. MAX_DIRECT_CALL_HISTORY \in Nat \ {0} /\ LogsTyped(L) /\ u # t
    OBVIOUS
  <2> QED BY <2>1, OpenedLogs DEF e
<1> HIDE DEF M
<1>3. DOMAIN g = 1..Len(g) /\ Len(g) \in Nat
  BY <1>2, HistoryType
<1>4. k \in DOMAIN g /\ g[k].target = v /\ \A j \in DOMAIN g : g[j].target = v => j <= k
  OBVIOUS
<1>5. ASSUME NEW i \in DOMAIN h, h[i].target = v, \A j \in DOMAIN h : h[j].target = v => j <= i
      PROVE  L[v].lastCaller = h[i].caller
  BY <1>5 DEF NewestCalled
<1> HIDE DEF h, g
<1>6. CASE v \notin {u, t}
  <2>1. g = h /\ M[v].lastCaller = L[v].lastCaller
    BY <1>2, <1>6
  <2>2. L[v].lastCaller = h[k].caller
    BY <1>4, <1>5, <2>1
  <2> QED BY <2>1, <2>2 DEF g
<1>7. CASE v \in {u, t}
  <2>1. g = Trimmed(Append(h, e)) /\ e.caller # e.target
    BY <1>0, <1>2, <1>7
  <2> DEFINE d == Dropped(h)
  <2>2. /\ Len(g) >= 1 /\ Len(g) = Len(h) + 1 - d /\ g[Len(g)] = e
        /\ \A i \in 1..(Len(g) - 1) : i + d \in DOMAIN h /\ g[i] = h[i + d]
    BY <1>0, <1>1, <2>1, PushedHistory
  <2>3. d \in 0..1
    BY DEF Dropped
  <2> HIDE DEF d
  <2>4. CASE v = t
    <3>1. Len(g) \in DOMAIN g /\ g[Len(g)].target = v
      BY <1>0, <1>3, <2>2, <2>4
    <3>2. k = Len(g)
      BY <1>3, <1>4, <3>1
    <3> QED BY <1>0, <1>2, <2>2, <2>4, <3>2 DEF g
  <2>5. CASE v # t
    <3>1. k # Len(g)
      BY <1>0, <1>4, <2>2, <2>5
    <3>2. k \in 1..(Len(g) - 1)
      BY <1>3, <1>4, <3>1
    <3>3. k + d \in DOMAIN h /\ g[k] = h[k + d]
      BY <2>2, <3>2
    <3>4. ASSUME NEW j \in DOMAIN h, h[j].target = v PROVE j <= k + d
      <4> SUFFICES ASSUME ~ (j <= k + d) PROVE FALSE
        OBVIOUS
      <4>1. j - d \in 1..(Len(g) - 1) /\ (j - d) + d = j /\ j - d > k
        BY <1>1, <1>3, <2>2, <2>3, <3>2
      <4>2. g[j - d] = h[j]
        BY <2>2, <4>1
      <4>3. j - d \in DOMAIN g /\ g[j - d].target = v
        BY <1>3, <3>4, <4>1, <4>2
      <4>4. j - d <= k
        BY <1>4, <4>3
      <4> QED BY <1>3, <1>4, <4>1, <4>4
    <3>5. L[v].lastCaller = h[k + d].caller
      BY <1>4, <1>5, <3>3, <3>4
    <3> QED BY <1>2, <2>5, <3>3, <3>5 DEF g
  <2> QED BY <2>4, <2>5
<1> QED BY <1>6, <1>7

LEMMA OpenedShown ==
  ASSUME MAX_DIRECT_CALL_HISTORY \in Nat \ {0}, NEW L, LogsTyped(L),
         NEW u \in Users, NEW t \in Users, u # t, NEW b \in AnySource, NEW v \in Users, NEW w \in Users,
         CallShown(L, v, w) \/ (v = u /\ w = t /\ b = NoButton)
  PROVE  CallShown(Opened(L, u, t, b), v, w)
<1> DEFINE M == Opened(L, u, t, b)
           e == Entry(u, t, b)
           h == L[v].history
           g == M[v].history
           max == MAX_DIRECT_CALL_HISTORY
<1>0. e.caller = u /\ e.target = t /\ e \in HistoryEntry /\ e.open = TRUE /\ e.source = b
  BY EntryType DEF Entry
<1> HIDE DEF e
<1>1. h \in History /\ Len(h) \in Nat /\ DOMAIN h = 1..Len(h)
  BY HistoryType
<1>2. LogsTyped(M) /\ g = IF v \in {u, t} THEN Trimmed(Append(h, e)) ELSE h
  <2>1. MAX_DIRECT_CALL_HISTORY \in Nat \ {0} /\ LogsTyped(L) /\ u # t
    OBVIOUS
  <2> QED BY <2>1, OpenedLogs DEF e
<1> HIDE DEF M
<1>3. DOMAIN g = 1..Len(g) /\ Len(g) \in Nat
  BY <1>2, HistoryType
<1>4. CASE v \notin {u, t}
  BY <1>2, <1>4 DEF CallShown, M
<1>5. CASE v \in {u, t}
  <2>1. g = Trimmed(Append(h, e)) /\ e.caller # e.target
    BY <1>0, <1>2, <1>5
  <2> DEFINE d == Dropped(h)
  <2> HIDE DEF h, g
  <2>2. /\ Len(g) >= 1 /\ Len(g) = Len(h) + 1 - d /\ g[Len(g)] = e
        /\ \A i \in 1..(Len(g) - 1) : i + d \in DOMAIN h /\ g[i] = h[i + d]
    BY <1>0, <1>1, <2>1, PushedHistory
  <2>3. d = IF Len(h) = max THEN 1 ELSE 0
    BY DEF Dropped
  <2> HIDE DEF d, max
  <2>4. CASE Len(h) = max
    <3>1. Len(g) = max
      BY <1>1, <2>2, <2>3, <2>4
    <3> QED BY <3>1 DEF CallShown, g, M, max
  <2>5. CASE Len(h) # max /\ v = u /\ w = t /\ b = NoButton
    <3>1. Len(g) \in OpenPositions(g, v, w, {NoButton})
      BY <1>0, <1>3, <2>2, <2>5 DEF OpenPositions
    <3> QED BY <3>1 DEF CallShown, g, M
  <2>6. CASE Len(h) # max /\ CallShown(L, v, w)
    <3>1. OpenPositions(h, v, w, {NoButton}) # {}
      BY <2>6 DEF CallShown, h, max
    <3>2. PICK i \in DOMAIN h : h[i].caller = v /\ h[i].target = w /\ h[i].open /\ h[i].source \in {NoButton}
      BY <3>1 DEF OpenPositions
    <3>3. i \in 1..(Len(g) - 1) /\ i \in DOMAIN g /\ i + d = i
      BY <1>1, <1>3, <2>2, <2>3, <2>6
    <3>4. g[i] = h[i]
      BY <2>2, <3>3
    <3>5. i \in OpenPositions(g, v, w, {NoButton})
      BY <3>2, <3>3, <3>4 DEF OpenPositions
    <3> QED BY <3>5 DEF CallShown, g, M
  <2> QED BY <2>4, <2>5, <2>6
<1> QED BY <1>4, <1>5

LEMMA ClosedNewest ==
  ASSUME NEW L, LogsTyped(L), NewestCalled(L), NEW u \in Users, NEW t \in Users, NEW sources
  PROVE  NewestCalled(Closed(L, u, t, sources))
<1> DEFINE M == Closed(L, u, t, sources)
<1>1. ASSUME NEW v \in Users
      PROVE  /\ M[v].lastCaller = L[v].lastCaller /\ DOMAIN M[v].history = DOMAIN L[v].history
             /\ \A k \in DOMAIN L[v].history :
                  /\ M[v].history[k].caller = L[v].history[k].caller
                  /\ M[v].history[k].target = L[v].history[k].target
  <2>1. M[v].lastCaller = L[v].lastCaller
    BY ClosedLogs
  <2>2. /\ DOMAIN M[v].history = DOMAIN L[v].history
        /\ \A k \in DOMAIN L[v].history :
             /\ M[v].history[k].caller = L[v].history[k].caller
             /\ M[v].history[k].target = L[v].history[k].target
    <3> DEFINE h == L[v].history
               g == M[v].history
    <3>1. /\ DOMAIN g = DOMAIN h
          /\ \A k \in DOMAIN h :
               /\ g[k].caller = h[k].caller /\ g[k].target = h[k].target
               /\ g[k] = IF v \in {u, t} /\ IsNewest(h, u, t, sources, k)
                         THEN [h[k] EXCEPT !.open = FALSE] ELSE h[k]
      BY ClosedEntries
    <3> HIDE DEF h, g
    <3>2. DOMAIN g = DOMAIN h /\ \A k \in DOMAIN h : g[k].caller = h[k].caller /\ g[k].target = h[k].target
      BY <3>1
    <3> QED BY <3>2 DEF h, g
  <2> QED BY <2>1, <2>2
<1> HIDE DEF M
<1>2. NewestCalled(M)
  BY <1>1 DEF NewestCalled
<1> QED BY <1>2 DEF M

LEMMA ClosedShown ==
  ASSUME NEW L, LogsTyped(L), NEW u \in Users, NEW t \in Users, NEW sources, NEW v \in Users, NEW w \in Users,
         CallShown(L, v, w), NoButton \notin sources \/ <<u, t>> # <<v, w>>
  PROVE  CallShown(Closed(L, u, t, sources), v, w)
<1> DEFINE h == L[v].history
           g == Closed(L, u, t, sources)[v].history
<1>1. /\ DOMAIN g = DOMAIN h /\ Len(g) = Len(h)
      /\ \A k \in DOMAIN h :
           g[k] = IF v \in {u, t} /\ IsNewest(h, u, t, sources, k) THEN [h[k] EXCEPT !.open = FALSE] ELSE h[k]
  BY ClosedEntries
<1>2. CASE Len(h) = MAX_DIRECT_CALL_HISTORY
  BY <1>1, <1>2 DEF CallShown
<1>3. CASE OpenPositions(h, v, w, {NoButton}) # {}
  <2> HIDE DEF h, g
  <2>1. PICK i \in DOMAIN h : h[i].caller = v /\ h[i].target = w /\ h[i].open /\ h[i].source = NoButton
    BY <1>3 DEF OpenPositions
  <2>2. ~ IsNewest(h, u, t, sources, i)
    BY <2>1 DEF IsNewest, OpenPositions
  <2>3. g[i] = h[i]
    BY <1>1, <2>2
  <2>4. i \in OpenPositions(g, v, w, {NoButton})
    BY <1>1, <2>1, <2>3 DEF OpenPositions
  <2> QED BY <2>4 DEF CallShown, g
<1> QED BY <1>2, <1>3 DEF CallShown

LEMMA OpenedKept ==
  ASSUME MAX_DIRECT_CALL_HISTORY \in Nat \ {0}, NEW L, NEW K, LogsKept(L, K),
         NEW u \in Users, NEW t \in Users, u # t, NEW b \in AnySource
  PROVE  LogsKept(Opened(L, u, t, b), K)
<1> DEFINE M == Opened(L, u, t, b)
<1>1. LogsTyped(L) /\ NewestCalled(L) /\ MAX_DIRECT_CALL_HISTORY \in Nat \ {0} /\ u # t
  BY DEF LogsKept, LogsRight
<1>2. PICK num, top : Numbering(L, num, top)
  BY DEF LogsKept, LogsRight
<1>3. \E m : Numbering(M, m, top + 1)
  BY <1>1, <1>2, OpenedNumbers
<1>4. LogsTyped(M)
  BY <1>1, OpenedLogs
<1>5. NewestCalled(M)
  BY <1>1, OpenedNewest
<1>6. \A v, w \in Users : <<v, w>> \in K => CallShown(M, v, w)
  BY <1>1, OpenedShown DEF LogsKept
<1> QED BY <1>3, <1>4, <1>5, <1>6 DEF LogsKept, LogsRight

LEMMA ClosedKept ==
  ASSUME NEW L, NEW K, LogsKept(L, K), NEW u \in Users, NEW t \in Users, NEW sources,
         NoButton \notin sources \/ <<u, t>> \notin K
  PROVE  LogsKept(Closed(L, u, t, sources), K)
<1> DEFINE M == Closed(L, u, t, sources)
<1>1. LogsTyped(L) /\ NewestCalled(L)
  BY DEF LogsKept, LogsRight
<1>2. PICK num, top : Numbering(L, num, top)
  BY DEF LogsKept, LogsRight
<1>3. Numbering(M, num, top)
  BY <1>1, <1>2, ClosedNumbers
<1>4. LogsTyped(M)
  BY <1>1, ClosedLogs
<1>5. NewestCalled(M)
  BY <1>1, ClosedNewest
<1>6. ASSUME NEW v \in Users, NEW w \in Users, <<v, w>> \in K PROVE CallShown(M, v, w)
  <2>1. CallShown(L, v, w) /\ (NoButton \notin sources \/ <<u, t>> # <<v, w>>)
    BY <1>6 DEF LogsKept
  <2> QED BY <1>1, <2>1, ClosedShown
<1> QED BY <1>3, <1>4, <1>5, <1>6 DEF LogsKept, LogsRight

LEMMA ChangedKeeps ==
  ASSUME MAX_DIRECT_CALL_HISTORY \in Nat \ {0}, NEW L, NEW K, NEW x, LogsKept(L, K), Harmless(x, K)
  PROVE  LogsKept(Changed(L, x), K)
<1>0. LogsKept(L, K) /\ MAX_DIRECT_CALL_HISTORY \in Nat \ {0}
  OBVIOUS
<1>1. CASE x.op = "open"
  <2>1. Changed(L, x) = Opened(L, x.caller, x.target, x.source)
    BY <1>1 DEF Changed
  <2>2. x.caller \in Users /\ x.target \in Users /\ x.caller # x.target /\ x.source \in AnySource
    BY <1>1 DEF Harmless
  <2> QED BY <1>0, <2>1, <2>2, OpenedKept
<1>2. CASE x.op = "close"
  <2>1. Changed(L, x) = Closed(L, x.caller, x.target, x.sources)
    BY <1>2 DEF Changed
  <2>2. x.caller \in Users /\ x.target \in Users /\ (NoButton \notin x.sources \/ <<x.caller, x.target>> \notin K)
    BY <1>2 DEF Harmless
  <2> QED BY <1>0, <2>1, <2>2, ClosedKept
<1>3. CASE x.op = "skip"
  <2>1. Changed(L, x) = L
    BY <1>3 DEF Changed
  <2> QED BY <1>0, <2>1
<1> QED BY <1>1, <1>2, <1>3 DEF Harmless

-----------------------------------------------------------------------------
(* A fold: the logs that a sequence of changes leaves. *)
LEMMA TopOf ==
  ASSUME NEW n \in Nat, NEW s \in SUBSET (1..n), s # {}
  PROVE  Max(s) \in s /\ \A y \in s : y <= Max(s)
<1>1. s \in SUBSET (0..n)
  OBVIOUS
<1>2. \E x \in s : \A y \in s : x >= y
  BY <1>1, LargestExists
<1>3. Max(s) \in s /\ \A y \in s : Max(s) >= y
  BY <1>2, Zenon DEF Max
<1> QED BY <1>3

IsFold(f, L, changes, n) ==
  f = [s \in SUBSET (1..n) |->
         IF s = {} THEN L ELSE Changed(f[s \ {Max(s)}], changes[Max(s)])]

LEMMA FoldExists ==
  ASSUME NEW L, NEW changes, NEW n \in Nat
  PROVE  \E f : IsFold(f, L, changes, n)
<1> USE DEF IsFold
<1> DEFINE Folds(f, m) == IsFold(f, L, changes, m)
           missing == {m \in Nat : ~ \E f : Folds(f, m)}
<1> SUFFICES ASSUME missing # {} PROVE FALSE
  OBVIOUS
<1>1. PICK m \in Nat : m \in missing /\ \A k \in missing : m <= k
  <2>1. missing \in SUBSET Nat
    OBVIOUS
  <2>2. PICK m \in missing : \A k \in missing : m <= k
    BY <2>1, SmallestExists
  <2> QED BY <2>1, <2>2
<1>2. CASE m = 0
  <2> DEFINE f == [s \in SUBSET (1..m) |-> L]
  <2>1. \A s \in SUBSET (1..m) : s = {}
    BY <1>2
  <2>2. Folds(f, m)
    BY <2>1
  <2> QED BY <1>1, <2>2
<1>3. CASE m # 0
  <2>0. m - 1 \in Nat
    BY <1>3
  <2>1. m - 1 \notin missing
    <3> HIDE DEF missing
    <3> QED BY <1>1, <2>0
  <2>2. PICK f : Folds(f, m - 1)
    BY <2>0, <2>1
  <2> HIDE DEF missing
  <2> DEFINE g == [s \in SUBSET (1..m) |-> IF m \in s THEN Changed(f[s \ {m}], changes[m]) ELSE f[s]]
             Value(h, s) == IF s = {} THEN L ELSE Changed(h[s \ {Max(s)}], changes[Max(s)])
  <2>3. \A s \in SUBSET (1..(m - 1)) : f[s] = Value(f, s)
    BY <2>2
  <2>4. ASSUME NEW s \in SUBSET (1..m) PROVE g[s] = Value(g, s)
    <3>1. CASE m \in s
      <4>1. Max(s) = m
        <5>1. s # {}
          BY <3>1
        <5>2. Max(s) \in s /\ \A y \in s : y <= Max(s)
          BY <5>1, TopOf, Zenon
        <5>3. Max(s) \in 1..m /\ m <= Max(s)
          BY <3>1, <5>2
        <5> HIDE DEF g
        <5> QED BY <5>3
      <4>2. s \ {m} \in SUBSET (1..m) /\ m \notin s \ {m} /\ s # {}
        BY <3>1
      <4>3. g[s \ {m}] = f[s \ {m}]
        BY <4>2
      <4> QED BY <3>1, <4>1, <4>2, <4>3
    <3>2. CASE m \notin s /\ s # {}
      <4>1. s \in SUBSET (1..(m - 1))
        BY <3>2
      <4>2. s \ {Max(s)} \in SUBSET (1..m) /\ m \notin s \ {Max(s)}
        BY <3>2
      <4>3. g[s \ {Max(s)}] = f[s \ {Max(s)}] /\ g[s] = f[s]
        BY <3>2, <4>2
      <4> QED BY <2>3, <3>2, <4>1, <4>3
    <3>3. CASE s = {}
      <4>1. s \in SUBSET (1..(m - 1)) /\ m \notin s
        BY <3>3
      <4> QED BY <2>3, <3>3, <4>1
    <3> QED BY <3>1, <3>2, <3>3
  <2>5. g = [s \in SUBSET (1..m) |-> g[s]]
    OBVIOUS
  <2> HIDE DEF g
  <2>6. Folds(g, m)
    BY <2>4, <2>5
  <2> QED BY <1>1, <2>6 DEF missing
<1> QED BY <1>2, <1>3

LEMMA OneFold ==
  ASSUME NEW L, NEW n \in Nat, NEW changes, NEW f, NEW g,
         IsFold(f, L, changes, n), IsFold(g, L, changes, n)
  PROVE  f = g
<1> DEFINE differ == {m \in Nat : m <= n /\ \E s \in SUBSET (1..m) : f[s] # g[s]}
<1>1. /\ \A s \in SUBSET (1..n) : f[s] = IF s = {} THEN L ELSE Changed(f[s \ {Max(s)}], changes[Max(s)])
      /\ \A s \in SUBSET (1..n) : g[s] = IF s = {} THEN L ELSE Changed(g[s \ {Max(s)}], changes[Max(s)])
  BY Zenon DEF IsFold
<1>2. f = [s \in SUBSET (1..n) |-> f[s]] /\ g = [s \in SUBSET (1..n) |-> g[s]]
  BY Zenon DEF IsFold
<1>3. differ = {}
  <2> SUFFICES ASSUME differ # {} PROVE FALSE
    OBVIOUS
  <2>1. PICK m \in Nat : m \in differ /\ \A k \in differ : m <= k
    <3>1. differ \in SUBSET Nat
      OBVIOUS
    <3>2. PICK m \in differ : \A k \in differ : m <= k
      BY <3>1, SmallestExists
    <3> QED BY <3>1, <3>2
  <2>2. PICK s \in SUBSET (1..m) : f[s] # g[s]
    BY <2>1
  <2>3. m <= n /\ s \in SUBSET (1..n)
    BY <2>1
  <2>4. s # {}
    BY <1>1, <2>2, <2>3
  <2>5. Max(s) \in s
    BY <2>4, TopOf, Zenon
  <2>6. \A y \in s : y <= Max(s)
    BY <2>4, TopOf, Zenon
  <2> DEFINE top == Max(s)
             rest == s \ {top}
  <2>7. top \in 1..m /\ top \in 1..n
    BY <2>3, <2>5
  <2>8. f[s] = Changed(f[rest], changes[top]) /\ g[s] = Changed(g[rest], changes[top])
    BY <1>1, <2>3, <2>4, Zenon
  <2>9. rest \in SUBSET (1..(top - 1))
    <3> SUFFICES ASSUME NEW y \in rest PROVE y \in 1..(top - 1)
      OBVIOUS
    <3>1. y \in 1..m /\ y <= top /\ y # top
      BY <2>6
    <3> HIDE DEF top
    <3> QED BY <2>7, <3>1
  <2> HIDE DEF top, rest
  <2>10. top - 1 \in Nat /\ top - 1 <= n /\ ~ (m <= top - 1)
    BY <2>7
  <2>11. top - 1 \notin differ
    <3> HIDE DEF differ
    <3> QED BY <2>1, <2>10
  <2>12. f[rest] = g[rest]
    BY <2>9, <2>10, <2>11
  <2> QED BY <2>2, <2>8, <2>12
<1>4. n \notin differ
  BY <1>3
<1>5. \A s \in SUBSET (1..n) : f[s] = g[s]
  BY <1>4
<1> QED BY <1>2, <1>5, Zenon

LEMMA FoldIs ==
  ASSUME NEW L, NEW n \in Nat, NEW changes, DOMAIN changes = 1..n, NEW f, IsFold(f, L, changes, n)
  PROVE  AllChanged(L, changes) = f[1..n]
<1> DEFINE after == CHOOSE g : IsFold(g, L, changes, n)
<1>1. AllChanged(L, changes) = after[1..n]
  BY DEF AllChanged, FoldLeft, MapThenFoldSet, IsFold
<1>2. IsFold(after, L, changes, n)
  OBVIOUS
<1> HIDE DEF after
<1>3. after = f
  BY <1>2, OneFold
<1> QED BY <1>1, <1>3

LEMMA FoldKeeps ==
  ASSUME MAX_DIRECT_CALL_HISTORY \in Nat \ {0},
         NEW L, NEW K, NEW n \in Nat, NEW changes, DOMAIN changes = 1..n,
         LogsKept(L, K), \A k \in 1..n : Harmless(changes[k], K)
  PROVE  LogsKept(AllChanged(L, changes), K)
<1>1. PICK after : IsFold(after, L, changes, n)
  BY FoldExists
<1>2. AllChanged(L, changes) = after[1..n]
  BY <1>1, FoldIs
<1> DEFINE lost == {m \in Nat : m <= n /\ \E s \in SUBSET (1..m) : ~ LogsKept(after[s], K)}
<1>3. \A s \in SUBSET (1..n) :
        after[s] = IF s = {} THEN L ELSE Changed(after[s \ {Max(s)}], changes[Max(s)])
  BY <1>1, Zenon DEF IsFold
<1>4. lost = {}
  <2> SUFFICES ASSUME lost # {} PROVE FALSE
    OBVIOUS
  <2>1. PICK m \in Nat : m \in lost /\ \A k \in lost : m <= k
    <3>1. lost \in SUBSET Nat
      OBVIOUS
    <3>2. PICK m \in lost : \A k \in lost : m <= k
      BY <3>1, SmallestExists
    <3> QED BY <3>1, <3>2
  <2>2. PICK s \in SUBSET (1..m) : ~ LogsKept(after[s], K)
    BY <2>1
  <2>3. m <= n /\ s \in SUBSET (1..n)
    BY <2>1
  <2>4. s # {}
    BY <1>3, <2>2, <2>3
  <2>5. Max(s) \in s
    BY <2>4, TopOf, Zenon
  <2>6. \A y \in s : y <= Max(s)
    BY <2>4, TopOf, Zenon
  <2> DEFINE top == Max(s)
             rest == s \ {top}
  <2>7. top \in 1..m /\ top \in 1..n
    BY <2>3, <2>5
  <2>8. after[s] = Changed(after[rest], changes[top])
    BY <1>3, <2>3, <2>4, Zenon
  <2>9. rest \in SUBSET (1..(top - 1))
    <3> SUFFICES ASSUME NEW y \in rest PROVE y \in 1..(top - 1)
      OBVIOUS
    <3>1. y \in 1..m /\ y <= top /\ y # top
      BY <2>6
    <3> HIDE DEF top
    <3> QED BY <2>7, <3>1
  <2> HIDE DEF top, rest
  <2>10. top - 1 \in Nat /\ top - 1 <= n /\ ~ (m <= top - 1)
    BY <2>7
  <2>11. top - 1 \notin lost
    <3> HIDE DEF lost
    <3> QED BY <2>1, <2>10
  <2>12. LogsKept(after[rest], K)
    BY <2>9, <2>10, <2>11
  <2>13. LogsKept(Changed(after[rest], changes[top]), K)
    BY <2>7, <2>12, ChangedKeeps
  <2> QED BY <2>2, <2>8, <2>13
<1>5. n \notin lost
  BY <1>4
<1> QED BY <1>2, <1>5

-----------------------------------------------------------------------------
(* The two sides agree: of two calls, the one with the larger number has fewer newer ones,
   on whichever side the one and the other are looked up. *)
LEMMA SomeOfHistory ==
  ASSUME NEW L, LogsTyped(L), NEW v \in Users, NEW S \in SUBSET (DOMAIN L[v].history)
  PROVE  IsFiniteSet(S) /\ Cardinality(S) \in Nat
<1> DEFINE n == Len(L[v].history)
<1>1. n \in Nat /\ DOMAIN L[v].history = 1..n
  BY HistoryType
<1> HIDE DEF n
<1>2. IsFiniteSet(1..n)
  BY <1>1, 1 \in Int, n \in Int, FS_Interval
<1>3. IsFiniteSet(S)
  BY <1>1, <1>2, FS_Subset
<1> QED BY <1>3, FS_CardinalityType

LEMMA LaterHasFewerNewer ==
  ASSUME NEW L, LogsTyped(L), NEW num, NEW top, Numbering(L, num, top),
         NEW u \in Users, NEW t \in Users, NEW v \in {u, t}, NEW w \in {u, t},
         NEW k \in OfPair(L[v].history, u, t), NEW j \in OfPair(L[w].history, u, t), num[v][k] > num[w][j]
  PROVE  Newer(L[v].history, u, t, k) < Newer(L[w].history, u, t, j)
<1> DEFINE g == L[v].history
           h == L[w].history
           A == {x \in OfPair(g, u, t) : x > k}
           D == {x \in OfPair(h, u, t) : x > j}
<1>1. /\ v \in Users /\ w \in Users /\ DOMAIN g = 1..Len(g) /\ DOMAIN h = 1..Len(h)
      /\ Len(g) \in Nat /\ Len(h) \in Nat
  BY HistoryType
<1>2. OfPair(g, u, t) \subseteq DOMAIN g /\ OfPair(h, u, t) \subseteq DOMAIN h
  BY DEF OfPair
<1>3. PICK i \in OfPair(h, u, t) : num[w][i] = num[v][k]
  BY DEF Numbering, NoGaps
<1>4. num[v] \in [Nat -> Nat] /\ num[w] \in [Nat -> Nat]
  BY <1>1 DEF Numbering, NumbersRise
<1>5. /\ \A x, y \in DOMAIN g : x < y => num[v][x] < num[v][y]
      /\ \A x, y \in DOMAIN h : x < y => num[w][x] < num[w][y]
  BY <1>1 DEF Numbering, NumbersRise
<1>6. \A x \in OfPair(g, u, t) :
        num[v][x] > num[w][j] => \E y \in OfPair(h, u, t) : num[w][y] = num[v][x]
  BY DEF Numbering, NoGaps
<1> DEFINE B == {x \in OfPair(h, u, t) : x > i}
           f == [x \in A |-> CHOOSE y \in B : num[w][y] = num[v][x]]
<1> HIDE DEF g, h
<1>7. /\ \A x \in DOMAIN g : x \in Nat /\ num[v][x] \in Nat
      /\ \A x \in DOMAIN h : x \in Nat /\ num[w][x] \in Nat
  <2>1. /\ \A x \in DOMAIN g : x \in Nat
        /\ \A x \in DOMAIN h : x \in Nat
    BY <1>1
  <2> QED BY <1>4, <2>1
<1>8. i > j
  <2>1. i \in DOMAIN h /\ j \in DOMAIN h /\ k \in DOMAIN g
    BY <1>2, <1>3 DEF g, h
  <2>2. i \in Nat /\ j \in Nat /\ num[w][i] \in Nat /\ num[w][j] \in Nat /\ num[w][i] > num[w][j]
    BY <1>3, <1>7, <2>1
  <2>3. i < j => num[w][i] < num[w][j]
    BY <1>5, <2>1
  <2> QED BY <2>2, <2>3
<1>9. B \in SUBSET D /\ i \in D /\ i \notin B /\ A \subseteq DOMAIN g /\ D \subseteq DOMAIN h
  <2>1. A \subseteq OfPair(g, u, t) /\ D \subseteq OfPair(h, u, t) /\ i \in D /\ B \subseteq OfPair(h, u, t)
    BY <1>8
  <2>2. i \in Nat /\ j \in Nat /\ \A x \in B : x \in Nat /\ x > i
    BY <1>2, <1>3, <1>7, <2>1 DEF h
  <2>3. ASSUME NEW x \in B PROVE x \in D
    <3>1. x \in OfPair(h, u, t) /\ x \in Nat /\ x > i
      BY <2>1, <2>2
    <3>2. x > j
      BY <1>8, <2>2, <3>1
    <3> QED BY <3>1, <3>2
  <2>4. i \notin B
    BY <2>2
  <2> QED BY <1>2, <2>1, <2>3, <2>4
<1>10. \A x \in A : \E y \in B : num[w][y] = num[v][x]
  <2> SUFFICES ASSUME NEW x \in A PROVE \E y \in B : num[w][y] = num[v][x]
    OBVIOUS
  <2>1. num[v][x] > num[v][k] /\ num[v][x] > num[w][j]
    <3>1. x \in DOMAIN g /\ k \in DOMAIN g /\ j \in DOMAIN h /\ k < x
      BY <1>2, <1>7 DEF A, g, h
    <3>2. num[v][k] < num[v][x] /\ num[v][k] \in Nat /\ num[v][x] \in Nat /\ num[w][j] \in Nat
      BY <1>5, <1>7, <3>1
    <3> QED BY <3>2
  <2>2. PICK y \in OfPair(h, u, t) : num[w][y] = num[v][x]
    BY <1>6, <2>1
  <2>3. y > i
    BY <1>2, <1>3, <1>5, <1>7, <2>1, <2>2
  <2> QED BY <2>2, <2>3
<1>11. f \in [A -> B] /\ \A x \in A : num[w][f[x]] = num[v][x]
  BY <1>10
<1> HIDE DEF f
<1>12. f \in Injection(A, B)
  <2>1. ASSUME NEW x \in A, NEW y \in A, f[x] = f[y] PROVE x = y
    <3>1. num[v][x] = num[v][y] /\ x \in DOMAIN g /\ y \in DOMAIN g
      BY <1>9, <1>11, <2>1
    <3> QED BY <1>5, <1>7, <3>1
  <2> QED BY <1>11, <2>1 DEF Injection, IsInjective
<1> HIDE DEF A, B, D
<1>13. IsFiniteSet(D) /\ Cardinality(D) \in Nat
  BY <1>1, <1>9, SomeOfHistory DEF h
<1>14. IsFiniteSet(B) /\ Cardinality(B) <= Cardinality(D) /\ Cardinality(D) # Cardinality(B)
  BY <1>9, <1>13, FS_Subset
<1>15. IsFiniteSet(A) /\ Cardinality(A) <= Cardinality(B)
  BY <1>12, <1>14, FS_Injection
<1>16. Cardinality(A) \in Nat /\ Cardinality(B) \in Nat
  BY <1>14, <1>15, FS_CardinalityType
<1>17. Cardinality(A) < Cardinality(D)
  BY <1>13, <1>14, <1>15, <1>16
<1> QED BY <1>17 DEF Newer, A, D, g, h

LEMMA SidesAgree ==
  ASSUME NEW L, LogsRight(L), NEW u \in Users, NEW t \in Users,
         NEW k \in OfPair(L[u].history, u, t), NEW j \in OfPair(L[t].history, u, t),
         Newer(L[u].history, u, t, k) = Newer(L[t].history, u, t, j)
  PROVE  L[u].history[k] = L[t].history[j]
<1>1. LogsTyped(L)
  BY DEF LogsRight
<1>2. PICK num, top : Numbering(L, num, top)
  BY DEF LogsRight
<1>3. u \in {u, t} /\ t \in {u, t}
  OBVIOUS
<1>4. k \in Nat /\ j \in Nat
  BY <1>1, HistoryType DEF OfPair
<1>5. num[u][k] \in Nat /\ num[t][j] \in Nat
  BY <1>2, <1>4 DEF Numbering, NumbersRise
<1>6. Newer(L[u].history, u, t, k) \in Nat /\ Newer(L[t].history, u, t, j) \in Nat
  <2>1. /\ {x \in OfPair(L[u].history, u, t) : x > k} \in SUBSET DOMAIN L[u].history
        /\ {x \in OfPair(L[t].history, u, t) : x > j} \in SUBSET DOMAIN L[t].history
    BY DEF OfPair
  <2> QED BY <1>1, <2>1, SomeOfHistory DEF Newer
<1>7. ~ (num[u][k] > num[t][j])
  <2> SUFFICES ASSUME num[u][k] > num[t][j] PROVE FALSE
    OBVIOUS
  <2>1. Newer(L[u].history, u, t, k) < Newer(L[t].history, u, t, j)
    BY <1>1, <1>2, <1>3, LaterHasFewerNewer
  <2> QED BY <1>6, <2>1
<1>8. ~ (num[t][j] > num[u][k])
  <2> SUFFICES ASSUME num[t][j] > num[u][k] PROVE FALSE
    OBVIOUS
  <2>1. Newer(L[t].history, u, t, j) < Newer(L[u].history, u, t, k)
    BY <1>1, <1>2, <1>3, LaterHasFewerNewer
  <2> QED BY <1>6, <2>1
<1>9. num[u][k] = num[t][j]
  BY <1>5, <1>7, <1>8
<1> QED BY <1>2, <1>3, <1>9 DEF Numbering, SameCalls

-----------------------------------------------------------------------------
(* What the steps need to know of sessions and handlers to keep the histories right: a
   reply under way is a call that may be made, buttons are ones that were configured. *)
RepliesRight ==
  \A c \in Conns :
    conn[c].todo # <<>> /\ conn[c].todo[1].op = "reply"
      => <<conn[c].user, conn[c].todo[1].target>> \in CallPairs

SessionRight(u) ==
  /\ session[u].buttons \in ConfigSets \cup {{}}
  /\ IsFiniteSet(session[u].calls) /\ u \notin session[u].calls
SessionsRight == \A u \in Users : SessionRight(u)

InProgress == {call \in Users \X Users : call[2] \in session[call[1]].calls}

LogInv == Inv /\ RepliesRight /\ SessionsRight /\ LogsKept(log, InProgress)

LEMMA SameCallsKept ==
  ASSUME LogInv, UNCHANGED log, \A u \in Users : session'[u].calls = session[u].calls
  PROVE  LogsKept(log, InProgress)'
<1>1. InProgress' = InProgress
  BY DEF InProgress
<1>2. LogsKept(log', InProgress)
  BY DEF LogInv
<1> QED BY <1>1, <1>2 DEF LogsKept, LogsRight, LogsTyped, NewestCalled, Numbering, NumbersRise, SameCalls,
        NoGaps, CallShown

(* Replies. *)
LEMMA RepliesStayRight ==
  ASSUME ControlAssumption, LogInv, [Next]_vars
  PROVE  RepliesRight'
<1>1. /\ RepliesRight /\ conn \in [Conns -> Connection]
      /\ \A c \in Conns : conn[c].todo # <<>> => conn[c].phase = "open"
  BY DEF LogInv, Inv, Shapes, OpenHasUser
<1>2. CASE UNCHANGED conn
  BY <1>1, <1>2 DEF RepliesRight
<1>3. ASSUME NEW c \in Conns, NEW step, Then(c, step),
             step.op = "reply" => <<conn[c].user, step.target>> \in CallPairs
      PROVE  RepliesRight'
  <2> DEFINE todo == <<step>>
  <2>1. conn' = [conn EXCEPT ![c].todo = todo] /\ todo[1] = step
    BY <1>3 DEF Then
  <2> HIDE DEF todo
  <2>2. /\ conn'[c].todo = todo /\ conn'[c].user = conn[c].user
        /\ \A d \in Conns : d # c => conn'[d] = conn[d]
    BY <1>1, <2>1 DEF Connection
  <2> QED BY <1>1, <1>3, <2>1, <2>2 DEF RepliesRight
<1>4. ASSUME NEW c \in Conns, Done(c) PROVE RepliesRight'
  <2>1. conn'[c].todo = <<>> /\ \A d \in Conns : d # c => conn'[d] = conn[d]
    BY <1>1, <1>4 DEF Done, Connection
  <2> QED BY <1>1, <2>1 DEF RepliesRight
<1>5. ASSUME NEW c \in Conns, conn'[c].todo = conn[c].todo, conn[c].todo = <<>>,
             \A d \in Conns : d # c => conn'[d] = conn[d]
      PROVE  RepliesRight'
  BY <1>1, <1>5 DEF RepliesRight
<1>6. ASSUME NEW c \in Conns, NEW active \in BOOLEAN, ReplyCall(c, active) PROVE RepliesRight'
  <2> DEFINE step == [op |-> "reply", target |-> log[User(c)].lastCaller, active |-> active]
  <2>1. Then(c, step) /\ <<conn[c].user, step.target>> \in CallPairs
    BY <1>6 DEF ReplyCall, User
  <2> HIDE DEF step
  <2> QED BY <1>3, <2>1
<1>7. ASSUME NEW c \in Conns, NEW b, NEW pressed, Button(c, b, pressed) PROVE RepliesRight'
  <2>1. CASE UNCHANGED conn
    BY <1>2, <2>1
  <2>2. ASSUME NEW now, Then(c, [op |-> IF now THEN "start" ELSE "stop", button |-> b])
        PROVE  RepliesRight'
    <3> DEFINE step == [op |-> IF now THEN "start" ELSE "stop", button |-> b]
    <3>1. Then(c, step) /\ step.op # "reply"
      BY <2>2
    <3> HIDE DEF step
    <3> QED BY <1>3, <3>1, Zenon
  <2> QED BY <1>7, <2>1, <2>2 DEF Button
<1>8. ASSUME NEW c \in Conns, Handler(c) PROVE RepliesRight'
  <2>1. ASSUME NEW active \in BOOLEAN, Talk(c, active) PROVE RepliesRight'
    BY <1>2, <2>1 DEF Talk
  <2>2. ASSUME NEW t \in Users, NEW active \in BOOLEAN, DirectCall(c, t, active) PROVE RepliesRight'
    BY <1>2, <2>2 DEF DirectCall
  <2> QED BY <1>6, <1>7, <1>8, <2>1, <2>2 DEF Handler
<1>9. ASSUME NEW c \in Conns, Continue(c) PROVE RepliesRight'
  BY <1>4, <1>9, Zenon DEF Continue, StartRoutes, StopRoutes, FinishReply
<1>10. ASSUME NEW c \in Conns, NEW u \in Users, Hello(c, u) PROVE RepliesRight'
  <2>1. conn[c].phase = "new" /\ conn' = [conn EXCEPT ![c].phase = "open", ![c].user = u]
    BY <1>10 DEF Hello
  <2>2. /\ conn'[c].todo = conn[c].todo /\ conn[c].todo = <<>>
        /\ \A d \in Conns : d # c => conn'[d] = conn[d]
    BY <1>1, <2>1 DEF Connection
  <2> QED BY <1>5, <2>2
<1>11. ASSUME NEW c \in Conns, SocketEnds(c) PROVE RepliesRight'
  BY <1>1, <1>5, <1>11 DEF SocketEnds, Ready, Connection
<1>12. ASSUME NEW c \in Conns, ClearActiveButtons(c) PROVE RepliesRight'
  <2>1. conn[c].phase = "closing" /\ conn' = [conn EXCEPT ![c].phase = "gone"]
    BY <1>12 DEF ClearActiveButtons
  <2>2. /\ conn'[c].todo = conn[c].todo /\ conn[c].todo = <<>>
        /\ \A d \in Conns : d # c => conn'[d] = conn[d]
    BY <1>1, <2>1 DEF Connection
  <2> QED BY <1>5, <2>2
<1>13. CASE Admin
  BY <1>2, <1>13 DEF Admin, Reconfigure, AdminDirectCall
<1>14. CASE UNCHANGED vars
  BY <1>2, <1>14 DEF vars
<1> QED BY <1>8, <1>9, <1>10, <1>11, <1>12, <1>13, <1>14 DEF Next

(* One call begins or ends. *)
LEMMA DirectCallKeepsLogs ==
  ASSUME ControlAssumption, LogInv, NEW u \in Users, NEW t \in Users, u # t, NEW active \in BOOLEAN,
         DirectCallResult(u, t, active)
  PROVE  SessionsRight' /\ LogsKept(log, InProgress)'
<1>1. /\ session \in [Users -> Session] /\ SessionsRight /\ LogsKept(log, InProgress)
      /\ MAX_DIRECT_CALL_HISTORY \in Nat \ {0}
  BY ControlAssumption DEF LogInv, Inv, Shapes
<1>2. session[u] \in Session
  BY <1>1
<1>3. /\ session'[u].buttons = session[u].buttons
      /\ session'[u].calls = IF active THEN session[u].calls \cup {t} ELSE session[u].calls \ {t}
      /\ \A v \in Users : v # u => session'[v] = session[v]
  BY <1>1, <1>2 DEF DirectCallResult, Session
<1>4. SessionsRight'
  <2>1. IsFiniteSet(session[u].calls)
    BY <1>1 DEF SessionsRight, SessionRight
  <2>2. IsFiniteSet(session[u].calls \cup {t}) /\ IsFiniteSet(session[u].calls \ {t})
    BY <2>1, FS_AddElement, FS_RemoveElement
  <2> QED BY <1>1, <1>3, <2>2 DEF SessionsRight, SessionRight
<1>5. NoButton \in AnySource
  BY DEF AnySource
<1>6. CASE active
  <2>1. log' = Opened(log, u, t, NoButton)
    BY <1>6 DEF DirectCallResult
  <2>2. LogsKept(log', InProgress)
    BY <1>1, <1>5, <2>1, OpenedKept
  <2>3. CallShown(log', u, t)
    BY <1>1, <1>5, <2>1, OpenedShown DEF LogsKept, LogsRight
  <2>4. \A v, w \in Users : <<v, w>> \in InProgress' => <<v, w>> \in InProgress \/ (v = u /\ w = t)
    BY <1>3, <1>6 DEF InProgress
  <2>5. \A v, w \in Users : <<v, w>> \in InProgress' => CallShown(log', v, w)
    BY <2>2, <2>3, <2>4 DEF LogsKept
  <2> QED BY <1>4, <2>2, <2>5 DEF LogsKept
<1>7. CASE ~active
  <2> DEFINE K == InProgress'
  <2>1. log' = Closed(log, u, t, AnySource)
    BY <1>7 DEF DirectCallResult
  <2>2. <<u, t>> \notin K /\ \A v, w \in Users : <<v, w>> \in K => <<v, w>> \in InProgress
    BY <1>3, <1>7 DEF InProgress
  <2> HIDE DEF K
  <2>3. LogsKept(log, K)
    BY <1>1, <2>2 DEF LogsKept
  <2>4. LogsKept(log', K)
    BY <2>1, <2>2, <2>3, ClosedKept
  <2> QED BY <1>4, <2>4 DEF K
<1> QED BY <1>6, <1>7

(* The changes a handler makes. *)
LEMMA ImageFinite ==
  ASSUME NEW f, IsFiniteSet(DOMAIN f)
  PROVE  IsFiniteSet({f[x] : x \in DOMAIN f})
<1> DEFINE S == DOMAIN f
           T == {f[x] : x \in DOMAIN f}
           g == [x \in S |-> f[x]]
<1>1. g \in [S -> T] /\ \A y \in T : \E x \in S : g[x] = y
  OBVIOUS
<1>2. g \in Surjection(S, T)
  BY <1>1 DEF Surjection
<1> HIDE DEF S, T, g
<1>3. IsFiniteSet(S)
  BY DEF S
<1>4. IsFiniteSet(T)
  BY <1>2, <1>3, FS_Surjection
<1> QED BY <1>4 DEF T

LEMMA RoutesKeepLogs ==
  ASSUME ControlAssumption, LogInv, NEW c \in Conns, StartRoutes(c) \/ StopRoutes(c)
  PROVE  SessionsRight' /\ LogsKept(log, InProgress)'
<1> DEFINE step == conn[c].todo[1]
           b == step.button
           u == User(c)
           n == Len(b.users)
<1>1. /\ UNCHANGED session /\ conn[c].todo # <<>> /\ step.op \in {"start", "stop"}
      /\ MAX_DIRECT_CALL_HISTORY \in Nat \ {0} /\ SessionsRight /\ LogsKept(log, InProgress)
  BY ControlAssumption, Zenon DEF StartRoutes, StopRoutes, LogInv
<1>2. u \in Users /\ conn[c].todo \in Seq(Step)
  BY <1>1 DEF LogInv, Inv, OpenHasUser, User, Shapes, Connection
<1>3. step \in Step
  BY <1>1, <1>2
<1>4. b \in ButtonConfig
  BY <1>1, <1>3 DEF Step
<1>5. /\ b.users \in Seq(Users) /\ n \in Nat /\ DOMAIN b.users = 1..n /\ \A k \in 1..n : b.users[k] \in Users
      /\ b.id \in AnySource /\ b.id # NoButton
  <2>1. b.users \in Seq(Users) /\ b.id \in ButtonIds
    BY <1>4 DEF ButtonConfig
  <2>2. b.id \in AnySource /\ b.id # NoButton
    BY <2>1, ControlAssumption DEF AnySource
  <2> HIDE DEF b, step
  <2>3. n \in Nat /\ DOMAIN b.users = 1..n /\ \A k \in 1..n : b.users[k] \in Users
    BY <2>1
  <2> QED BY <2>1, <2>2, <2>3
<1>6. SessionsRight' /\ InProgress' = InProgress
  BY <1>1 DEF SessionsRight, SessionRight, InProgress
<1>7. LogsKept(log', InProgress)
  <2>1. CASE StartRoutes(c)
    <3> DEFINE Reached(t) == t # u /\ session[t].live
               change(k) == [op |-> IF Reached(b.users[k]) THEN "open" ELSE "skip",
                             caller |-> u, target |-> b.users[k], source |-> b.id]
               changes == [k \in DOMAIN b.users |-> change(k)]
    <3>1. log' = AllChanged(log, changes)
      BY <2>1, ZenonT(60) DEF StartRoutes
    <3>2. DOMAIN changes = 1..n /\ \A k \in 1..n : changes[k] = change(k)
      BY <1>5, ZenonT(60)
    <3>3. \A k \in 1..n : Harmless(change(k), InProgress)
      BY <1>2, <1>5, ZenonT(60) DEF Harmless
    <3> HIDE DEF changes, change, n
    <3>4. \A k \in 1..n : Harmless(changes[k], InProgress)
      BY <3>2, <3>3
    <3>5. LogsKept(AllChanged(log, changes), InProgress)
      BY <1>1, <1>5, <3>2, <3>4, FoldKeeps
    <3> QED BY <3>1, <3>5
  <2>2. CASE StopRoutes(c)
    <3> DEFINE change(k) == [op |-> "close", caller |-> u, target |-> b.users[k], sources |-> ButtonSource(b)]
               changes == [k \in DOMAIN b.users |-> change(k)]
    <3>1. log' = AllChanged(log, changes)
      BY <2>2, SMTT(30) DEF StopRoutes
    <3>2. DOMAIN changes = 1..n /\ \A k \in 1..n : changes[k] = change(k)
      BY <1>5
    <3>3. \A k \in 1..n : Harmless(change(k), InProgress)
      BY <1>2, <1>5 DEF Harmless, ButtonSource
    <3> HIDE DEF changes, change, n
    <3>4. \A k \in 1..n : Harmless(changes[k], InProgress)
      BY <3>2, <3>3
    <3>5. LogsKept(AllChanged(log, changes), InProgress)
      BY <1>1, <1>5, <3>2, <3>4, FoldKeeps
    <3> QED BY <3>1, <3>5
  <2> QED BY <2>1, <2>2
<1> QED BY <1>6, <1>7, Zenon DEF LogsKept, LogsRight, LogsTyped, NewestCalled, Numbering, NumbersRise, SameCalls,
        NoGaps, CallShown

LEMMA ClosingsHarmless ==
  ASSUME ControlAssumption, LogInv, NEW u \in Users, NEW K, \A t : <<u, t>> \notin K
  PROVE  /\ IsFiniteSet(ButtonCalls(u) \cup DirectCalls(u))
         /\ \A x \in ButtonCalls(u) \cup DirectCalls(u) : Harmless(x, K)
<1>1. /\ session[u].buttons \in ConfigSets \cup {{}} /\ IsFiniteSet(session[u].calls)
      /\ session[u].calls \subseteq Users
  BY DEF LogInv, Inv, Shapes, Session, SessionsRight, SessionRight
<1>2. IsFiniteSet(session[u].buttons) /\ session[u].buttons \subseteq ButtonConfig
  <2>1. CASE session[u].buttons = {}
    BY <2>1, FS_EmptySet
  <2>2. CASE session[u].buttons \in ConfigSets
    BY <2>2, ControlAssumption
  <2> QED BY <1>1, <2>1, <2>2
<1>3. IsFiniteSet(ActiveButtons(u)) /\ ActiveButtons(u) \subseteq ButtonConfig
  BY <1>2, FS_Subset DEF ActiveButtons
<1> DEFINE change(b, k) == [op |-> "close", caller |-> u, target |-> b.users[k],
                            sources |-> ButtonSource(b), nth |-> k]
           ofButton == [b \in ActiveButtons(u) |-> {change(b, k) : k \in DOMAIN b.users}]
<1>4. ASSUME NEW b \in ActiveButtons(u)
      PROVE  IsFiniteSet(ofButton[b]) /\ \A x \in ofButton[b] : Harmless(x, K)
  <2> DEFINE n == Len(b.users)
             changes == [k \in DOMAIN b.users |-> change(b, k)]
  <2>1. /\ n \in Nat /\ DOMAIN b.users = 1..n /\ \A k \in 1..n : b.users[k] \in Users
        /\ b.id \in ButtonIds /\ b.id # NoButton
    BY <1>3, ControlAssumption DEF ButtonConfig
  <2>2. \A k \in 1..n : Harmless(change(b, k), K)
    BY <2>1 DEF Harmless, ButtonSource
  <2>3. DOMAIN changes = 1..n /\ \A k \in 1..n : changes[k] = change(b, k)
    BY <2>1
  <2>4. ofButton[b] = {change(b, k) : k \in 1..n}
    BY <2>1
  <2> HIDE DEF n, changes, ofButton, change
  <2>5. ofButton[b] = {changes[k] : k \in DOMAIN changes}
    BY <2>3, <2>4
  <2>6. IsFiniteSet(1..n)
    BY <2>1, 1 \in Int, n \in Int, FS_Interval
  <2>7. IsFiniteSet(DOMAIN changes)
    BY <2>3, <2>6
  <2>8. IsFiniteSet({changes[k] : k \in DOMAIN changes})
    BY <2>7, ImageFinite
  <2> QED BY <2>2, <2>3, <2>5, <2>8
<1>5. DOMAIN ofButton = ActiveButtons(u) /\ ButtonCalls(u) = UNION {ofButton[b] : b \in DOMAIN ofButton}
  BY DEF ButtonCalls
<1> HIDE DEF ofButton
<1>6. IsFiniteSet({ofButton[b] : b \in DOMAIN ofButton})
  BY <1>3, <1>5, ImageFinite
<1>7. IsFiniteSet(UNION {ofButton[b] : b \in DOMAIN ofButton})
  <2> DEFINE F == {ofButton[b] : b \in DOMAIN ofButton}
  <2>1. IsFiniteSet(F) /\ \A T \in F : IsFiniteSet(T)
    BY <1>4, <1>5, <1>6
  <2> HIDE DEF F
  <2>2. IsFiniteSet(UNION F)
    BY <2>1, FS_UNION
  <2> QED BY <2>2 DEF F
<1>8. \A x \in ButtonCalls(u) : Harmless(x, K)
  BY <1>4, <1>5
<1> DEFINE call(t) == [op |-> "close", caller |-> u, target |-> t, sources |-> {NoButton}]
           calls == [t \in session[u].calls |-> call(t)]
<1>9. DOMAIN calls = session[u].calls /\ DirectCalls(u) = {calls[t] : t \in DOMAIN calls}
  <2>1. DirectCalls(u) = {call(t) : t \in session[u].calls}
    BY DEF DirectCalls
  <2> HIDE DEF call
  <2>2. DOMAIN calls = session[u].calls /\ \A t \in session[u].calls : calls[t] = call(t)
    OBVIOUS
  <2> HIDE DEF calls
  <2> QED BY <2>1, <2>2
<1>10. \A x \in DirectCalls(u) : Harmless(x, K)
  BY <1>1 DEF Harmless, DirectCalls
<1> HIDE DEF calls
<1>11. IsFiniteSet(DirectCalls(u))
  BY <1>1, <1>9, ImageFinite
<1>12. IsFiniteSet(ButtonCalls(u) \cup DirectCalls(u))
  BY <1>5, <1>7, <1>11, FS_Union
<1> QED BY <1>8, <1>10, <1>12

LEMMA ClearActiveButtonsKeepsLogs ==
  ASSUME ControlAssumption, LogInv, NEW c \in Conns, ClearActiveButtons(c)
  PROVE  SessionsRight' /\ LogsKept(log, InProgress)'
<1> DEFINE u == User(c)
           S == ButtonCalls(u) \cup DirectCalls(u)
           K == InProgress'
<1>1. /\ session \in [Users -> Session] /\ SessionsRight /\ LogsKept(log, InProgress)
      /\ MAX_DIRECT_CALL_HISTORY \in Nat \ {0}
  BY ControlAssumption DEF LogInv, Inv, Shapes
<1>2. u \in Users /\ session[u] \in Session /\ session' = [session EXCEPT ![u] = Silenced(session[u])]
  BY <1>1 DEF LogInv, Inv, OpenHasUser, ClearActiveButtons, User
<1>3. /\ session'[u].calls = {} /\ session'[u].buttons = session[u].buttons
      /\ \A v \in Users : v # u => session'[v] = session[v]
  BY <1>1, <1>2 DEF Silenced, Session
<1>4. SessionsRight'
  BY <1>1, <1>3, FS_EmptySet DEF SessionsRight, SessionRight
<1>5. (\A t : <<u, t>> \notin K) /\ \A v, w \in Users : <<v, w>> \in K => <<v, w>> \in InProgress
  BY <1>3 DEF InProgress
<1>6. PICK changes \in SetToSeqs(S) : log' = AllChanged(log, changes)
  BY DEF ClearActiveButtons
<1> DEFINE n == Cardinality(S)
<1>7. changes \in [1..n -> S]
  BY <1>6 DEF SetToSeqs
<1> HIDE DEF K, S, u
<1>8. LogsKept(log, K)
  BY <1>1, <1>5 DEF LogsKept
<1>9. IsFiniteSet(S) /\ \A x \in S : Harmless(x, K)
  BY <1>2, <1>5, ClosingsHarmless DEF S
<1>10. n \in Nat
  BY <1>9, FS_CardinalityType
<1> HIDE DEF n
<1>11. DOMAIN changes = 1..n /\ \A k \in 1..n : Harmless(changes[k], K)
  BY <1>7, <1>9
<1>12. LogsKept(AllChanged(log, changes), K)
  BY <1>1, <1>8, <1>10, <1>11, FoldKeeps
<1> QED BY <1>4, <1>6, <1>12 DEF K

(* Steps that leave the histories and the calls alone. *)
LEMMA QuietKeepsLogs ==
  ASSUME LogInv, UNCHANGED log,
         \A u \in Users : /\ session'[u].calls = session[u].calls
                          /\ session'[u].buttons \in {session[u].buttons} \cup ConfigSets
  PROVE  SessionsRight' /\ LogsKept(log, InProgress)'
<1>1. SessionsRight'
  BY DEF LogInv, SessionsRight, SessionRight
<1>2. LogsKept(log, InProgress)'
  BY SameCallsKept
<1> QED BY <1>1, <1>2

LEMMA LogStep ==
  ASSUME ControlAssumption, LogInv, [Next]_vars
  PROVE  LogInv'
<1> DEFINE Kept == SessionsRight' /\ LogsKept(log, InProgress)'
<1> HIDE DEF Kept
<1>1. session \in [Users -> Session] /\ Inv /\ RepliesRight
  BY DEF LogInv, Inv, Shapes
<1>2. ASSUME UNCHANGED <<session, log>> PROVE Kept
  BY <1>2, QuietKeepsLogs DEF Kept
<1>3. ASSUME NEW u \in Users, NEW t \in Users, NEW active \in BOOLEAN, <<u, t>> \in CallPairs,
             DirectCallResult(u, t, active)
      PROVE  Kept
  <2>1. u # t
    BY <1>3, ControlAssumption
  <2> QED BY <1>3, <2>1, DirectCallKeepsLogs DEF Kept
<1>4. ASSUME NEW c \in Conns, NEW active \in BOOLEAN, Talk(c, active) PROVE Kept
  <2>1. User(c) \in Users /\ session[User(c)] \in Session
    BY <1>1, <1>4, ReadyHolds DEF Talk
  <2>2. \A u \in Users : session'[u].calls = session[u].calls /\ session'[u].buttons = session[u].buttons
    BY <1>1, <1>4, <2>1 DEF Talk, Session
  <2>3. UNCHANGED log
    BY <1>4 DEF Talk
  <2> QED BY <2>2, <2>3, QuietKeepsLogs DEF Kept
<1>5. ASSUME NEW c \in Conns, NEW b, NEW pressed \in BOOLEAN, Button(c, b, pressed) PROVE Kept
  <2> DEFINE now == NowActive(b, b.id \in session[User(c)].active, pressed)
             active == IF now THEN session[User(c)].active \cup {b.id} ELSE session[User(c)].active \ {b.id}
  <2>1. User(c) \in Users /\ session[User(c)] \in Session
    BY <1>1, <1>5, ReadyHolds DEF Button
  <2>2. session' = [session EXCEPT ![User(c)].active = active] /\ UNCHANGED log
    BY <1>5 DEF Button
  <2> HIDE DEF active
  <2>3. \A u \in Users : session'[u].calls = session[u].calls /\ session'[u].buttons = session[u].buttons
    BY <1>1, <2>1, <2>2 DEF Session
  <2> QED BY <2>2, <2>3, QuietKeepsLogs DEF Kept
<1>6. ASSUME NEW c \in Conns, NEW t \in Users, NEW active \in BOOLEAN, DirectCall(c, t, active) PROVE Kept
  <2>1. User(c) \in Users
    BY <1>1, <1>6, ReadyHolds DEF DirectCall
  <2> QED BY <1>3, <1>6, <2>1 DEF DirectCall
<1>7. ASSUME NEW c \in Conns, Handler(c) PROVE Kept
  <2>1. ASSUME NEW active \in BOOLEAN, ReplyCall(c, active) PROVE Kept
    BY <1>2, <2>1 DEF ReplyCall
  <2> QED BY <1>4, <1>5, <1>6, <1>7, <2>1 DEF Handler
<1>8. ASSUME NEW c \in Conns, FinishReply(c) PROVE Kept
  <2> DEFINE step == conn[c].todo[1]
  <2>1. /\ conn[c].todo # <<>> /\ step.op = "reply"
        /\ DirectCallResult(User(c), step.target, step.active)
    BY <1>8 DEF FinishReply
  <2>2. conn[c].todo \in Seq(Step) /\ User(c) \in Users
    BY <1>1, <2>1 DEF Inv, Shapes, Connection, OpenHasUser, User
  <2>3. step \in Step
    BY <2>1, <2>2
  <2>4. step.target \in Users /\ step.active \in BOOLEAN /\ <<User(c), step.target>> \in CallPairs
    BY <1>1, <2>1, <2>3 DEF Step, RepliesRight, User
  <2> HIDE DEF step
  <2> QED BY <1>3, <2>1, <2>2, <2>4
<1>9. ASSUME NEW c \in Conns, Continue(c) PROVE Kept
  BY <1>8, <1>9, RoutesKeepLogs DEF Continue, Kept
<1>10. ASSUME NEW c \in Conns, NEW u \in Users, Hello(c, u) PROVE Kept
  <2>1. session[u] \in Session
    BY <1>1
  <2>2. \A v \in Users : session'[v].calls = session[v].calls /\ session'[v].buttons = session[v].buttons
    BY <1>1, <1>10, <2>1 DEF Hello, Session
  <2>3. UNCHANGED log
    BY <1>10 DEF Hello
  <2> QED BY <2>2, <2>3, QuietKeepsLogs DEF Kept
<1>11. ASSUME NEW c \in Conns, SocketEnds(c) PROVE Kept
  BY <1>2, <1>11 DEF SocketEnds
<1>12. ASSUME NEW c \in Conns, ClearActiveButtons(c) PROVE Kept
  BY <1>12, ClearActiveButtonsKeepsLogs DEF Kept
<1>13. ASSUME NEW u \in Users, NEW B \in ConfigSets, Reconfigure(u, B) PROVE Kept
  <2>1. session[u] \in Session /\ session' = [session EXCEPT ![u] = Reconfigured(session[u], B)] /\ UNCHANGED log
    BY <1>1, <1>13 DEF Reconfigure
  <2>2. /\ Reconfigured(session[u], B).calls = session[u].calls
        /\ Reconfigured(session[u], B).buttons = B
    BY <2>1 DEF Reconfigured, Session
  <2>3. \A v \in Users : /\ session'[v].calls = session[v].calls
                         /\ session'[v].buttons \in {session[v].buttons} \cup ConfigSets
    BY <1>1, <2>1, <2>2
  <2> QED BY <2>1, <2>3, QuietKeepsLogs DEF Kept
<1>14. ASSUME Admin PROVE Kept
  <2>1. ASSUME NEW u \in Users, NEW t \in Users, NEW active \in BOOLEAN, AdminDirectCall(u, t, active)
        PROVE  Kept
    BY <1>3, <2>1 DEF AdminDirectCall
  <2> QED BY <1>13, <1>14, <2>1 DEF Admin
<1>15. ASSUME UNCHANGED vars PROVE Kept
  BY <1>2, <1>15 DEF vars
<1>16. Kept
  BY <1>7, <1>9, <1>10, <1>11, <1>12, <1>14, <1>15 DEF Next
<1>17. Inv' /\ RepliesRight'
  BY NextKeepsInv, RepliesStayRight DEF LogInv
<1> QED BY <1>16, <1>17 DEF LogInv, Kept

LEMMA InitEstablishesLogs ==
  ASSUME ControlAssumption, Init
  PROVE  LogInv
<1>1. Inv /\ RepliesRight
  BY InitEstablishesInv DEF Init, RepliesRight
<1>2. session = [u \in Users |-> NoSession] /\ log = [u \in Users |-> [history |-> <<>>, lastCaller |-> NoUser]]
  BY DEF Init
<1>3. SessionsRight
  BY <1>2, FS_EmptySet DEF SessionsRight, SessionRight, NoSession
<1>4. \A u \in Users : log[u].history = <<>> /\ log[u].lastCaller = NoUser
  BY <1>2
<1>5. <<>> \in History /\ DOMAIN <<>> = {}
  BY ControlAssumption DEF History
<1>6. LogsTyped(log)
  BY <1>2, <1>4, <1>5, ControlAssumption DEF LogsTyped, LogRecord
<1>7. \A u \in Users : DOMAIN log[u].history = {}
  BY <1>4
<1>8. NewestCalled(log)
  BY <1>7 DEF NewestCalled
<1> DEFINE num == [u \in Users |-> [k \in Nat |-> 0]]
<1>9. NumbersRise(log, num, 0)
  BY <1>7 DEF NumbersRise
<1>10. SameCalls(log, num) /\ NoGaps(log, num)
  BY <1>7 DEF SameCalls, NoGaps, OfPair
<1>11. \E m, top : Numbering(log, m, top)
  BY <1>9, <1>10 DEF Numbering
<1>12. InProgress = {}
  BY <1>2 DEF InProgress, NoSession
<1> QED BY <1>1, <1>3, <1>6, <1>8, <1>11, <1>12 DEF LogInv, LogsKept, LogsRight

LEMMA LogsAreRight ==
  ASSUME ControlAssumption, LogInv
  PROVE  TypeOK /\ HistoriesAgree /\ LastCallerIsNewest /\ ActiveCallHasEntry
<1>1. LogsRight(log) /\ LogsTyped(log) /\ Inv
  BY DEF LogInv, LogsKept, LogsRight
<1>2. TypeOK
  <2>1. ASSUME NEW u \in Users
        PROVE  /\ session[u].live \in BOOLEAN /\ session[u].talk \in BOOLEAN
               /\ session[u].calls \subseteq Users \ {u}
    BY DEF LogInv, Inv, Shapes, Session, SessionsRight, SessionRight
  <2>2. ASSUME NEW u \in Users
        PROVE  /\ log[u].lastCaller \in (Users \ {u}) \cup {NoUser}
               /\ log[u].history \in Seq(HistoryEntry)
               /\ Len(log[u].history) <= MAX_DIRECT_CALL_HISTORY
    BY <1>1 DEF LogsTyped, LogRecord, History
  <2>3. ASSUME NEW c \in Conns
        PROVE  /\ conn[c].phase \in {"new", "open", "closing", "gone"}
               /\ conn[c].user \in Users \cup {NoUser}
               /\ conn[c].todo # <<>> => conn[c].phase = "open"
    BY <1>1 DEF Inv, Shapes, Connection, OpenHasUser
  <2> QED BY <2>1, <2>2, <2>3 DEF TypeOK
<1>3. HistoriesAgree
  BY <1>1, SidesAgree DEF HistoriesAgree
<1>4. LastCallerIsNewest
  BY <1>1 DEF LastCallerIsNewest, LogsRight, NewestCalled
<1>5. ActiveCallHasEntry
  <2> SUFFICES ASSUME NEW u \in Users, NEW t \in session[u].calls PROVE CallShown(log, u, t)
    BY DEF ActiveCallHasEntry, CallShown
  <2>1. t \in Users /\ <<u, t>> \in InProgress
    BY <1>1 DEF Inv, Shapes, Session, InProgress
  <2> QED BY <2>1 DEF LogInv, LogsKept
<1> QED BY <1>2, <1>3, <1>4, <1>5

LEMMA LogInvariance == Spec => []LogInv
<1>1. Init => LogInv
  BY ControlAssumption, InitEstablishesLogs
<1>2. LogInv /\ [Next]_vars => LogInv'
  BY ControlAssumption, LogStep
<1> QED BY <1>1, <1>2, PTL DEF Spec

(* Caller and target remember the same calls of theirs, open or closed alike, reply goes to
   whoever called last, and a call in progress is in the caller's history: for any number of
   users, connections and buttons, any length of the histories and however handlers, closing
   sockets and the admin's calls interleave (push_direct_call_history,
   close_direct_history, clear_active_buttons). *)
THEOREM CallHistoriesAreRight ==
  Spec => [](TypeOK /\ HistoriesAgree /\ LastCallerIsNewest /\ ActiveCallHasEntry)
<1>1. LogInv => TypeOK /\ HistoriesAgree /\ LastCallerIsNewest /\ ActiveCallHasEntry
  BY ControlAssumption, LogsAreRight
<1> QED BY <1>1, LogInvariance, PTL
=============================================================================
