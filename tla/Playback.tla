------------------------------- MODULE Playback -------------------------------
(***************************************************************************)
(* The playback buffer of a client.  The network, the cues of the control        *)
(* connection and the output device share it: frames arrive mono or stereo, a    *)
(* cue is put behind them at once, the device takes sample after sample and      *)
(* waits for the prebuffer when it has run dry.  A frame of 10 ms is one sample   *)
(* here, or two, left and right.                                                 *)
(***************************************************************************)
EXTENDS Integers, Sequences

CONSTANTS
  Prebuffer,   \* frames of the jitter buffer (--jitter-ms 40: 4)
  Extra,       \* frames that fit beside it (12)
  CueLen,      \* frames of each cue: its tones and pauses
  EventQueue,  \* capacity of the two queues of connection events
  MaxFrames,   \* bound: frames from the network
  MaxEvents    \* bound: changes of the connection

Cues == {"Connected", "Disconnected", "Reconnecting"}
Capacity == Prebuffer + Extra   \* even, as the real one: a stereo frame is never cut in two
CapacityAssumption ==
  /\ Capacity % 2 = 0 /\ CueLen \in [Cues -> Nat]
  /\ {Prebuffer, Extra, EventQueue, MaxFrames, MaxEvents} \subseteq Nat

VARIABLES
  buffer,     \* samples: [of, at, side], of "audio" or a cue
  channels,   \* the layout of the buffer
  started,    \* the prebuffer was full and has not run dry since
  cut,        \* samples of each cue that were dropped unheard
  current, coming,  \* what the device plays, and what it has taken ahead
  frames,     \* frames from the network so far
  linked,     \* the control connection is up
  events, cues,  \* connection events on the way to the status and to the cue task
  status,     \* the status that the page shows
  reconnecting,  \* the cue task repeats its chime
  changes     \* changes of the connection so far

vars == <<buffer, channels, started, cut, current, coming, frames, linked, events, cues, status, reconnecting, changes>>
device == <<current, coming>>
link == <<linked, events, cues, status, reconnecting, changes>>

Sides(n) == IF n = 2 THEN <<"left", "right">> ELSE <<"both">>
Silence == [of |-> "silence", at |-> 0, side |-> "both"]

(* connection_cue_samples *)
Frame(of, at, n) == [k \in 1..n |-> [of |-> of, at |-> at, side |-> Sides(n)[k]]]
Cue(e, n) ==
  [k \in 1..(CueLen[e] * n) |->
    [of |-> e, at |-> (k + n - 1) \div n, side |-> Sides(n)[((k - 1) % n) + 1]]]

Init ==
  /\ buffer = <<>> /\ channels = 1 /\ started = (Prebuffer = 0) /\ cut = [e \in Cues |-> 0]
  /\ current = <<Silence, Silence>> /\ coming = <<>> /\ frames = 0
  /\ linked = FALSE /\ events = <<>> /\ cues = <<>> /\ status = "Reconnecting"
  /\ reconnecting = FALSE /\ changes = 0

(* PlaybackBuffer::push_frame: a new layout clears the buffer, and what does not
   fit is taken from the front *)
\* fault: a new layout takes over what the old one left
PushKept(samples, n) ==
  LET all == buffer \o samples
      excess == IF Len(all) > Capacity THEN Len(all) - Capacity ELSE 0
  IN /\ buffer' = SubSeq(all, excess + 1, Len(all)) /\ channels' = n
     /\ UNCHANGED <<started, cut>>
Push(samples, n) ==
  LET kept == IF n = channels THEN buffer ELSE <<>>
      all == kept \o samples
      excess == IF Len(all) > Capacity THEN Len(all) - Capacity ELSE 0
      gone == SubSeq(all, 1, excess)
  IN /\ buffer' = SubSeq(all, excess + 1, Len(all)) /\ channels' = n
     /\ started' = IF n = channels THEN started ELSE Prebuffer = 0
     /\ cut' = [e \in Cues |->
          IF \E k \in DOMAIN samples : samples[k].of = e
          THEN Len(SelectSeq(gone, LAMBDA s : s.of = e))
          ELSE cut[e] + Len(SelectSeq(gone, LAMBDA s : s.of = e))]

(* the receive task *)
Receive(n) ==
  /\ frames < MaxFrames /\ frames' = frames + 1
  /\ Push(Frame("audio", frames', n), n)
  /\ UNCHANGED <<device, link>>

-----------------------------------------------------------------------------
(* The control connection and its cues. *)

(* notify_connection_event: nobody waits for room *)
Notified(new) ==
  events' = SubSeq(events \o new, 1, IF Len(events \o new) > EventQueue THEN EventQueue ELSE Len(events \o new))
Change(up, new) ==
  /\ changes < MaxEvents /\ changes' = changes + 1
  /\ linked' = up /\ Notified(new)
  /\ UNCHANGED <<buffer, channels, started, cut, device, frames, cues, status, reconnecting>>

Connect == ~linked /\ Change(TRUE, <<"Connected">>)
ConnectFails == ~linked /\ Change(FALSE, <<"Reconnecting">>)
Disconnect == linked /\ Change(FALSE, <<"Disconnected", "Reconnecting">>)

(* the task between the two queues *)
ShowStatus ==
  /\ events # <<>> /\ Len(cues) < EventQueue
  /\ status' = Head(events) /\ events' = Tail(events) /\ cues' = Append(cues, Head(events))
  /\ UNCHANGED <<buffer, channels, started, cut, device, frames, linked, reconnecting, changes>>

(* enqueue_connection_cue: in the layout that the buffer has *)
PlayCue(e) == Push(Cue(e, channels), channels)

(* handle_connection_cue_event *)
TakeEvent ==
  /\ cues # <<>> /\ cues' = Tail(cues)
  /\ reconnecting' = (Head(cues) = "Reconnecting")
  /\ IF Head(cues) = "Reconnecting" /\ reconnecting
     THEN UNCHANGED <<buffer, channels, started, cut>>
     ELSE PlayCue(Head(cues))
  /\ UNCHANGED <<device, frames, linked, events, status, changes>>

(* run_connection_cue_task: four seconds without an event *)
RepeatCue ==
  /\ reconnecting /\ PlayCue("Reconnecting")
  /\ UNCHANGED <<device, frames, link>>

-----------------------------------------------------------------------------
(* OutputAdapter::next_stereo at the device's rate of 48 kHz: it is one sample
   ahead, and repeats the last one when there is none. *)

Ready == started \/ Len(buffer) >= Prebuffer

(* PlaybackBuffer::pop_stereo, pop_sample *)
Popped == IF ~Ready \/ buffer = <<>> THEN <<>>
          ELSE IF channels = 1 THEN <<buffer[1], buffer[1]>>
          ELSE <<buffer[1], IF Len(buffer) > 1 THEN buffer[2] ELSE buffer[1]>>
Rest == IF Popped = <<>> THEN buffer ELSE SubSeq(buffer, channels + 1, Len(buffer))
StillStarted == IF Ready /\ buffer = <<>> THEN Prebuffer = 0 ELSE Ready

Play ==
  /\ current' = IF coming = <<>> THEN (IF Popped = <<>> THEN <<Silence, Silence>> ELSE Popped) ELSE coming
  /\ coming' = IF Popped = <<>> THEN current' ELSE Popped
  /\ buffer' = Rest /\ started' = StillStarted
  /\ UNCHANGED <<channels, cut, frames, link>>

Next ==
  \/ \E n \in 1..2 : Receive(n)
  \/ Connect \/ ConnectFails \/ Disconnect \/ ShowStatus \/ TakeEvent \/ RepeatCue
  \/ Play

Spec == Init /\ [][Next]_vars

-----------------------------------------------------------------------------
(* Properties. *)

(* Every variable keeps its type. *)
TypeOK ==
  /\ Len(buffer) <= Capacity /\ channels \in 1..2 /\ Len(events) <= EventQueue /\ Len(cues) <= EventQueue
  /\ status \in Cues /\ frames <= MaxFrames /\ changes <= MaxEvents

(* Left is heard on the left and right on the right, of one and the same frame, whatever
   was trimmed, cleared or put between; and no frame is heard after a later one. *)
PlayedInOrder ==
  /\ \A pair \in {current, coming} \ {<<>>} :
       pair[1].of = pair[2].of /\ pair[1].at = pair[2].at /\ <<pair[1].side, pair[2].side>> \in {<<"both", "both">>, <<"left", "right">>}
  /\ \A i, j \in DOMAIN buffer : i < j /\ buffer[i].of = "audio" /\ buffer[j].of = "audio" => buffer[i].at <= buffer[j].at
  /\ \A i \in DOMAIN buffer : buffer[i].side \in {Sides(channels)[k] : k \in 1..channels}
  /\ coming # <<>> /\ coming[1].of = "audio" =>
       /\ current[1].of = "audio" => current[1].at <= coming[1].at
       /\ \A i \in DOMAIN buffer : buffer[i].of = "audio" => coming[1].at <= buffer[i].at

(* "Output-capable clients play a short disconnect tone followed by a soft
   reconnecting chime" (README.md:749): at least half of the tone is heard. *)
DisconnectToneHeard == cut["Disconnected"] <= (CueLen["Disconnected"] * channels) \div 2
=============================================================================
