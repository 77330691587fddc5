---------------------------- MODULE ControlSession ----------------------------
(***************************************************************************)
(* The talk state the server keeps for every user and the control           *)
(* connections that change it: regular talk, dedicated buttons and direct     *)
(* calls with their history on both sides.                                   *)
(*                                                                         *)
(* A connection is one task of the server.  It handles its messages one at   *)
(* a time, but a handler takes and releases the session lock several times,   *)
(* and the tasks of other connections, of the same user's next connection     *)
(* and of the admin API run in between; a step of this module runs from one   *)
(* lock acquisition to the next.  When its socket ends a connection clears    *)
(* the user's talk state, whoever is connected by then.  The emergency that   *)
(* it clears next is module EmergencyOverride, pushes to clients ConfigPush,  *)
(* where configurations come from AdminStore.                                 *)
(***************************************************************************)
EXTENDS Naturals, Sequences, FiniteSets, SequencesExt

CONSTANTS
  Users,                    \* clients with a user id, never SERVER_USER_ID
  Conns,                    \* control connections ever accepted
  ButtonIds,
  NoUser, NoButton,         \* None
  ConfigSets,               \* the button lists an operator may give a session
  MAX_DIRECT_CALL_HISTORY,
  CallPairs                 \* bound: who ever calls whom directly

(* TalkButtonConfig: only the mode and the users its Transmit actions name
   are kept; channels of a button do not change the talk state. *)
ButtonConfig == [id : ButtonIds, mode : {"momentary", "latching"}, users : Seq(Users)]

ASSUME ControlAssumption ==
  /\ NoUser \notin Users
  /\ NoButton \notin ButtonIds
  /\ MAX_DIRECT_CALL_HISTORY \in Nat \ {0}
  /\ \A pair \in CallPairs : pair \in Users \X Users /\ pair[1] # pair[2]
  /\ \A B \in ConfigSets : IsFiniteSet(B) /\ B \subseteq ButtonConfig
  /\ \A B \in ConfigSets : \A x, y \in B : x.id = y.id => x = y

VARIABLES
  conn,       \* conn[c]: phase and user of a connection, and what its handler has left to do
  session,    \* session[u]: the talk state of u's session
  log         \* log[u]: its direct call history and the caller to reply to

vars == <<conn, session, log>>

NoSession == [live |-> FALSE, buttons |-> {}, active |-> {}, talk |-> FALSE, calls |-> {}]

Init ==
  /\ conn = [c \in Conns |-> [phase |-> "new", user |-> NoUser, todo |-> <<>>]]
  /\ session = [u \in Users |-> NoSession]
  /\ log = [u \in Users |-> [history |-> <<>>, lastCaller |-> NoUser]]

-----------------------------------------------------------------------------
(* Direct call history: an entry is pushed on the caller's and the target's
   session and closed on both, each side finding its own newest open entry. *)

Trimmed(h) ==
  SubSeq(h, (IF Len(h) > MAX_DIRECT_CALL_HISTORY THEN Len(h) - MAX_DIRECT_CALL_HISTORY ELSE 0) + 1,
         Len(h))

Entry(u, t, b) == [caller |-> u, target |-> t, source |-> b, open |-> TRUE]

Opened(L, u, t, b) ==
  [L EXCEPT ![u].history = Trimmed(Append(@, Entry(u, t, b))),
            ![t].history = Trimmed(Append(@, Entry(u, t, b))),
            ![t].lastCaller = u]

OpenPositions(h, u, t, sources) ==
  {k \in DOMAIN h : h[k].caller = u /\ h[k].target = t /\ h[k].open /\ h[k].source \in sources}
CloseNewest(h, u, t, sources) ==
  LET open == OpenPositions(h, u, t, sources)
  IN IF open = {} THEN h
     ELSE [h EXCEPT ![CHOOSE k \in open : \A j \in open : j <= k].open = FALSE]

ClosedAt(L, v, u, t, sources) == [L EXCEPT ![v].history = CloseNewest(@, u, t, sources)]

\* fault: only the caller's side of the call is closed
ClosedAtCaller(L, u, t, sources) == ClosedAt(L, u, u, t, sources)
Closed(L, u, t, sources) == ClosedAt(ClosedAt(L, u, u, t, sources), t, u, t, sources)

(* A direct call ends the newest open entry of the pair, whatever opened it. *)
AnySource == ButtonIds \cup {NoButton}
ButtonSource(b) == {b.id}

(* A handler that opens or closes several entries makes these changes one after
   the other; each sees the log that the one before it left. *)
Changed(L, x) ==
  CASE x.op = "open" -> Opened(L, x.caller, x.target, x.source)
    [] x.op = "close" -> Closed(L, x.caller, x.target, x.sources)
    [] x.op = "skip" -> L

AllChanged(L, changes) == FoldLeft(Changed, L, changes)

-----------------------------------------------------------------------------
(* A connection: hello, then messages of its user, one at a time. *)

User(c) == conn[c].user
Ready(c) == conn[c].phase = "open" /\ conn[c].todo = <<>>
Then(c, step) == conn' = [conn EXCEPT ![c].todo = <<step>>]
Done(c) == conn' = [conn EXCEPT ![c].todo = <<>>]

(* Hello of an enrolled client: its session exists from now on. *)
Hello(c, u) ==
  /\ conn[c].phase = "new"
  /\ conn' = [conn EXCEPT ![c].phase = "open", ![c].user = u]
  /\ session' = [session EXCEPT ![u].live = TRUE]
  /\ UNCHANGED log

(* apply_regular_talk_event *)
Talk(c, active) ==
  /\ Ready(c)
  /\ session' = [session EXCEPT ![User(c)].talk = active]
  /\ UNCHANGED <<conn, log>>

(* apply_button_event up to the release of the session lock.  The button's
   configuration is captured here and used by the step that follows. *)
NowActive(b, was, pressed) ==
  IF b.mode = "momentary" THEN pressed ELSE IF pressed THEN ~was ELSE was

Button(c, b, pressed) ==
  /\ Ready(c)
  /\ b \in session[User(c)].buttons
  /\ LET was == b.id \in session[User(c)].active
         now == NowActive(b, was, pressed)
     IN /\ session' = [session EXCEPT ![User(c)].active =
                         IF now THEN @ \cup {b.id} ELSE @ \ {b.id}]
        /\ IF was = now THEN UNCHANGED conn
           ELSE Then(c, [op |-> IF now THEN "start" ELSE "stop", button |-> b])
  /\ UNCHANGED log

(* start_button_transmit_routes *)
StartRoutes(c) ==
  /\ conn[c].todo # <<>> /\ conn[c].todo[1].op = "start"
  /\ Done(c)
  /\ LET u == User(c)
         b == conn[c].todo[1].button
         Reached(t) == t # u /\ session[t].live
     IN log' = AllChanged(log,
                 [k \in DOMAIN b.users |->
                    [op |-> IF Reached(b.users[k]) THEN "open" ELSE "skip",
                     caller |-> u, target |-> b.users[k], source |-> b.id]])
  /\ UNCHANGED session

(* stop_button_transmit_routes *)
StopRoutes(c) ==
  /\ conn[c].todo # <<>> /\ conn[c].todo[1].op = "stop"
  /\ Done(c)
  /\ LET b == conn[c].todo[1].button
     IN log' = AllChanged(log,
                 [k \in DOMAIN b.users |->
                    [op |-> "close", caller |-> User(c), target |-> b.users[k],
                     sources |-> ButtonSource(b)]])
  /\ UNCHANGED session

(* apply_direct_call_event: the whole call is one critical section. *)
DirectCallResult(u, t, active) ==
  /\ session' = [session EXCEPT ![u].live = TRUE,
                                ![u].calls = IF active THEN @ \cup {t} ELSE @ \ {t}]
  /\ log' = IF active THEN Opened(log, u, t, NoButton) ELSE Closed(log, u, t, AnySource)

DirectCall(c, t, active) ==
  /\ Ready(c)
  /\ <<User(c), t>> \in CallPairs /\ session[t].live
  /\ DirectCallResult(User(c), t, active)
  /\ UNCHANGED conn

(* apply_reply_call_event reads the last caller, lets go of the lock, and
   handles the reply as a direct call to the caller it read. *)
ReplyCall(c, active) ==
  /\ Ready(c)
  /\ <<User(c), log[User(c)].lastCaller>> \in CallPairs
  /\ Then(c, [op |-> "reply", target |-> log[User(c)].lastCaller, active |-> active])
  /\ UNCHANGED <<session, log>>

FinishReply(c) ==
  /\ conn[c].todo # <<>> /\ conn[c].todo[1].op = "reply"
  /\ Done(c)
  /\ DirectCallResult(User(c), conn[c].todo[1].target, conn[c].todo[1].active)

(* The socket ends while the task waits for a message.  The task leaves the
   registry (ConfigPush) and cleans up if a hello had registered its user. *)
SocketEnds(c) ==
  /\ Ready(c)
  /\ conn' = [conn EXCEPT ![c].phase = "closing"]
  /\ UNCHANGED <<session, log>>

(* clear_active_buttons: a button that names a user twice closes two entries.  No
   two of these closings look for the same entries unless they are alike, so the
   order in which they are made does not matter. *)
ActiveButtons(u) == {b \in session[u].buttons : b.id \in session[u].active}
ButtonCalls(u) ==
  UNION {{[op |-> "close", caller |-> u, target |-> b.users[k], sources |-> ButtonSource(b), nth |-> k]
          : k \in DOMAIN b.users} : b \in ActiveButtons(u)}
DirectCalls(u) ==
  {[op |-> "close", caller |-> u, target |-> t, sources |-> {NoButton}] : t \in session[u].calls}

\* fault: the talk key is forgotten
SilencedButTalk(s) == [s EXCEPT !.active = {}, !.calls = {}]
Silenced(s) == [s EXCEPT !.active = {}, !.talk = FALSE, !.calls = {}]

ClearActiveButtons(c) ==
  /\ conn[c].phase = "closing"
  /\ conn' = [conn EXCEPT ![c].phase = "gone"]
  /\ LET u == User(c)
     IN /\ session' = [session EXCEPT ![u] = Silenced(@)]
        /\ \E changes \in SetToSeqs(ButtonCalls(u) \cup DirectCalls(u)) : log' = AllChanged(log, changes)

-----------------------------------------------------------------------------
(* The admin API: new buttons for a session (apply_desired_to_session_fields,
   also reached from presets, templates and button actions), and direct calls
   on behalf of any user. *)

Ids(B) == {b.id : b \in B}
\* fault: the buttons held down are kept as they are
ReconfiguredOnly(s, B) == [s EXCEPT !.live = TRUE, !.buttons = B]
Reconfigured(s, B) == [s EXCEPT !.live = TRUE, !.buttons = B, !.active = @ \cap Ids(B)]

Reconfigure(u, B) ==
  /\ session' = [session EXCEPT ![u] = Reconfigured(@, B)]
  /\ UNCHANGED <<conn, log>>

AdminDirectCall(u, t, active) ==
  /\ <<u, t>> \in CallPairs /\ session[t].live
  /\ DirectCallResult(u, t, active)
  /\ UNCHANGED conn

-----------------------------------------------------------------------------
Handler(c) ==
  \/ \E active \in BOOLEAN : Talk(c, active) \/ ReplyCall(c, active)
  \/ Ready(c) /\ \E b \in session[User(c)].buttons, pressed \in BOOLEAN : Button(c, b, pressed)
  \/ \E t \in Users, active \in BOOLEAN : DirectCall(c, t, active)

Continue(c) == StartRoutes(c) \/ StopRoutes(c) \/ FinishReply(c)

Admin ==
  \/ \E u \in Users, B \in ConfigSets : Reconfigure(u, B)
  \/ \E u, t \in Users, active \in BOOLEAN : AdminDirectCall(u, t, active)

Next ==
  \/ \E c \in Conns : (\E u \in Users : Hello(c, u)) \/ Handler(c) \/ Continue(c)
                      \/ SocketEnds(c) \/ ClearActiveButtons(c)
  \/ Admin

(* Once a handler or the clean-up has begun, the runtime runs it to its end;
   nobody is obliged to send a message or to close a socket. *)
Fairness == \A c \in Conns : WF_vars(Continue(c)) /\ WF_vars(ClearActiveButtons(c))

Spec == Init /\ [][Next]_vars /\ Fairness

-----------------------------------------------------------------------------
(* Properties. *)

HistoryEntry ==
  [caller : Users, target : Users, source : AnySource, open : BOOLEAN]

Step ==
  [op : {"start", "stop"}, button : ButtonConfig]
    \cup [op : {"reply"}, target : Users, active : BOOLEAN]

(* Every variable keeps its type, a history its length, and only an open
   connection has a handler under way. *)
TypeOK ==
  /\ \A c \in Conns :
       /\ conn[c].phase \in {"new", "open", "closing", "gone"}
       /\ conn[c].user \in Users \cup {NoUser}
       /\ conn[c].todo # <<>> => conn[c].phase = "open"
  /\ \A u \in Users :
       /\ session[u].live \in BOOLEAN /\ session[u].talk \in BOOLEAN
       /\ session[u].calls \subseteq Users \ {u}
       /\ log[u].lastCaller \in (Users \ {u}) \cup {NoUser}
       /\ log[u].history \in Seq(HistoryEntry)
       /\ Len(log[u].history) <= MAX_DIRECT_CALL_HISTORY

(* A connection that still answers for its user's talk state. *)
Holds(c, u, phases) == conn[c].phase \in phases /\ User(c) = u
Talking(u) == session[u].talk \/ session[u].active # {}

(* "Dedicated buttons do not stay active after disconnect/reconnect"
   (docs/field-testing.md): a user whose talk key or button is down has a
   connection that is open or has yet to clear them.  Violating it takes a
   press, an overlapping reconnect and two clean-ups. *)
NoStuckTalk ==
  \A u \in Users : Talking(u) => \E c \in Conns : Holds(c, u, {"open", "closing"})

(* A button that is down is one the operator still configures, whatever
   reconfigurations and presses have been interleaved. *)
ActiveButtonsConfigured ==
  \A u \in Users : session[u].active \subseteq Ids(session[u].buttons)

(* The two sides of a pair remember the same calls: the entries of a pair in
   one session's history are the last ones in the other's, open or closed
   alike (the history of either side may have been trimmed further).  Counted
   from the newest, equal places hold equal entries. *)
OfPair(h, u, t) == {k \in DOMAIN h : h[k].caller = u /\ h[k].target = t}
Newer(h, u, t, k) == Cardinality({j \in OfPair(h, u, t) : j > k})
HistoriesAgree ==
  \A u, t \in Users : u # t =>
    LET mine == log[u].history
        theirs == log[t].history
    IN \A k \in OfPair(mine, u, t), j \in OfPair(theirs, u, t) :
         Newer(mine, u, t, k) = Newer(theirs, u, t, j) => mine[k] = theirs[j]

(* "Reply" goes to whoever called last: the caller of the newest incoming
   call still in the history. *)
LastCallerIsNewest ==
  \A t \in Users :
    LET incoming == {k \in DOMAIN log[t].history : log[t].history[k].target = t}
    IN \A k \in incoming :
         (\A j \in incoming : j <= k) => log[t].lastCaller = log[t].history[k].caller

(* A direct call in progress shows as open in the caller's history, unless a
   full history has pushed it out. *)
ActiveCallHasEntry ==
  \A u \in Users : \A t \in session[u].calls :
    \/ OpenPositions(log[u].history, u, t, {NoButton}) # {}
    \/ Len(log[u].history) = MAX_DIRECT_CALL_HISTORY

(* A client that goes away stops talking: unless it connects again, its talk
   key and buttons are released. *)
TalkEventuallyReleased ==
  \A u \in Users :
    Talking(u) ~> (~Talking(u) \/ \E c \in Conns : Holds(c, u, {"open"}))
=============================================================================
