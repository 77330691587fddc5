------------------------------- MODULE Capture -------------------------------
(***************************************************************************)
(* The microphone side of a client (clients/desktop): the audio callback cuts  *)
(* samples into frames, gates and processes them and offers each frame to a     *)
(* bounded channel; the send task takes frames and, while the user talks,       *)
(* sends them; a task copies the processing settings from the       *)
(* configuration every 250 ms; a task reports the capture's health each second. *)
(*                                                                         *)
(* The settings are five atomics, written and read one by one with relaxed       *)
(* ordering: while they are written, a reader sees any mixture of the two.        *)
(*                                                                         *)
(* Samples, gains and thresholds are abstracted to how loud the gate finds a       *)
(* frame under each profile: "speech" reaches the threshold of the profile and       *)
(* sounds like a voice to it, "quiet" is below the threshold that closes the gate,   *)
(* "noise" is between.  The codec is in CodecPath.                             *)
(***************************************************************************)
EXTENDS Naturals, Sequences, FiniteSets

CONSTANTS
  QueueLimit,   \* capacity of the channel from the callback to the send task
  Configs,      \* processing settings the server may configure
  Frames,       \* frames, by how loud each profile finds them
  MaxFrames,    \* bound: frames captured
  MaxReports    \* bound: health reports

(* Of the five atomics, those that the speech gate depends on. *)
Fields == {"profile", "mode", "vad"}
Profiles == {"raw", "broadcast", "voice", "isolation"}
Loudness == {"speech", "noise", "quiet"}

(* capture_gate_params: the speech frames that open the gate, and its hold. *)
OpenFrames == [raw |-> 1, broadcast |-> 1, voice |-> 2, isolation |-> 3]
HoldFrames == [raw |-> 0, broadcast |-> 20, voice |-> 14, isolation |-> 10]

CaptureAssumption ==
  /\ QueueLimit \in Nat \ {0}
  /\ {MaxFrames, MaxReports} \subseteq Nat
  /\ Configs \subseteq [profile : Profiles, mode : {"auto", "enabled", "disabled"}, vad : BOOLEAN]
  /\ Frames \subseteq [Profiles -> Loudness]

Shut == [open |-> FALSE, speech |-> 0, hold |-> 0]
Idle == [at |-> "idle", count |-> 0, total |-> 0]

VARIABLES
  config,     \* processing part of the client's configuration
  settings,   \* the atomics, as the last complete store left them
  storing,    \* what is being stored, or settings when no store is under way
  at,         \* where the callback is
  captured,   \* frames captured
  dropped,    \* whether the frame that is being recorded was dropped
  heard,      \* history: of each frame that the gate processed, the profile and how loud
  gate,       \* CaptureSpeechGate
  queue,      \* how many frames are in the channel
  sender,     \* the send task: "ready" or, after a failed send, "sleeping"
  drops,      \* telemetry: frames dropped since the client started
  pending,    \* diagnostics: frames dropped since the last report
  health,     \* the health task and the report it makes: the drops it took, their total
  told        \* history: counts up to the latest report that arrived, its total, counts lost since

vars == <<config, settings, storing, at, captured, dropped, heard, gate,
          queue, sender, drops, pending, health, told>>
capturing == <<at, captured, dropped, heard, gate, drops, pending>>
settingUp == <<config, settings, storing>>
reporting == <<health, told>>

Init ==
  /\ config \in Configs
  /\ settings = config
  /\ storing = config
  /\ at = "samples"
  /\ captured = 0
  /\ dropped = FALSE
  /\ heard = <<>>
  /\ gate = Shut
  /\ queue = 0
  /\ sender = "ready"
  /\ drops = 0
  /\ pending = 0
  /\ health = Idle
  /\ told = [sum |-> 0, lost |-> 0, total |-> 0, reports |-> 0]

-----------------------------------------------------------------------------
(* Settings. *)

(* capture_processing_active: the mode "auto" counts as enabled. *)
Active(seen) == seen.mode # "disabled" /\ seen.profile # "raw"

(* What a reader may see: each field is the old one or the new one. *)
Seen ==
  {[f \in Fields |-> IF f \in new THEN storing[f] ELSE settings[f]] : new \in SUBSET Fields}

Configure ==
  /\ \E new \in Configs \ {config} : config' = new
  /\ UNCHANGED <<settings, storing, capturing, queue, sender, reporting>>

StoreBegins ==
  /\ storing = settings
  /\ config # settings
  /\ storing' = config
  /\ UNCHANGED <<config, settings, capturing, queue, sender, reporting>>

StoreEnds ==
  /\ storing # settings
  /\ settings' = storing
  /\ UNCHANGED <<config, storing, capturing, queue, sender, reporting>>

-----------------------------------------------------------------------------
(* The audio callback. *)

(* CaptureSpeechGate.process: the profile may be another at every frame, and the    *)
(* frames that were speech to the profiles before it count for this one.          *)
Gated(g, loud, profile) ==
  IF loud = "speech"
  THEN [speech |-> g.speech + 1,
        open |-> g.open \/ g.speech + 1 >= OpenFrames[profile],
        hold |-> IF g.speech + 1 >= OpenFrames[profile] THEN HoldFrames[profile] ELSE g.hold]
  ELSE [speech |-> 0,
        open |-> g.open /\ loud = "noise",
        hold |-> IF g.hold > 0 /\ loud = "noise" THEN g.hold - 1 ELSE g.hold]

(* process_capture_frame: the settings are read anew for the whole frame.  The gate *)
(* keeps its state over the frames that it does not process.                     *)
Gates(seen) == Active(seen) /\ seen.vad
Processed(g, frame, seen) ==
  IF Gates(seen) THEN Gated(g, frame[seen.profile], seen.profile) ELSE g

(* try_send fails *)
Full(waiting) == waiting = QueueLimit

(* The samples of a frame are gated one by one for silence and key clicks; what the   *)
(* frame is after that, full, is all that the later stages are given.            *)
Offer ==
  /\ at = "samples"
  /\ captured < MaxFrames
  /\ captured' = captured + 1
  /\ \E frame \in Frames, seen \in Seen :
       /\ gate' = Processed(gate, frame, seen)
       /\ heard' = IF Gates(seen)
                   THEN Append(heard, [profile |-> seen.profile, loud |-> frame[seen.profile]])
                   ELSE heard
  /\ dropped' = Full(queue)
  /\ queue' = IF dropped' THEN queue ELSE queue + 1
  /\ drops' = IF dropped' THEN drops + 1 ELSE drops
  /\ at' = "record"
  /\ UNCHANGED <<settingUp, pending, sender, reporting>>

(* diagnostics.record_frame *)
Record ==
  /\ at = "record"
  /\ pending' = IF dropped THEN pending + 1 ELSE pending
  /\ at' = "samples"
  /\ dropped' = FALSE
  /\ UNCHANGED <<settingUp, captured, heard, gate, drops, queue, sender, reporting>>

-----------------------------------------------------------------------------
(* The send task. *)

(* A frame is sent, or discarded when nobody talks at the time it is taken,  *)
(* whenever it was captured.                                              *)
Take ==
  /\ sender = "ready"
  /\ queue > 0
  /\ queue' = queue - 1
  /\ UNCHANGED <<settingUp, capturing, sender, reporting>>

(* A packet cannot be sent: the task sleeps for 250 ms. *)
SendFails ==
  /\ sender = "ready"
  /\ queue > 0
  /\ queue' = queue - 1
  /\ sender' = "sleeping"
  /\ UNCHANGED <<settingUp, capturing, reporting>>

Wake ==
  /\ sender = "sleeping"
  /\ sender' = "ready"
  /\ UNCHANGED <<settingUp, capturing, queue, reporting>>

-----------------------------------------------------------------------------
(* Health reports.  The diagnostics are taken and reset before the telemetry's   *)
(* total is read; a report that is refused or goes down with its connection is      *)
(* not sent again, and what it took is lost with it.                            *)

(* A fault: the count stays when it is reported. *)
LeftThere(count) == count

(* mem::take *)
Left(count) == 0

TakeCount ==
  /\ health.at = "idle"
  /\ told.reports < MaxReports
  /\ health' = [at |-> "taken", count |-> pending, total |-> 0]
  /\ pending' = Left(pending)
  /\ told' = [told EXCEPT !.reports = @ + 1]
  /\ UNCHANGED <<settingUp, at, captured, dropped, heard, gate, drops, queue, sender>>

ReadTotal ==
  /\ health.at = "taken"
  /\ health' = [health EXCEPT !.at = "sent", !.total = drops]
  /\ UNCHANGED <<settingUp, capturing, queue, sender, told>>

Arrives ==
  /\ health.at = "sent"
  /\ health' = Idle
  /\ told' = [told EXCEPT !.sum = @ + told.lost + health.count, !.lost = 0, !.total = health.total]
  /\ UNCHANGED <<settingUp, capturing, queue, sender>>

Refused ==
  /\ health.at = "sent"
  /\ health' = Idle
  /\ told' = [told EXCEPT !.lost = @ + health.count]
  /\ UNCHANGED <<settingUp, capturing, queue, sender>>

Next ==
  \/ Configure \/ StoreBegins \/ StoreEnds
  \/ Offer \/ Record
  \/ Take \/ SendFails \/ Wake
  \/ TakeCount \/ ReadTotal \/ Arrives \/ Refused

Spec == Init /\ [][Next]_vars

-----------------------------------------------------------------------------
(* The channel stays within its capacity, and every count within what it counts. *)
TypeOK ==
  /\ {config, settings, storing} \subseteq Configs
  /\ dropped \in BOOLEAN
  /\ at \in {"samples", "record"}
  /\ gate \in [open : BOOLEAN, speech : Nat, hold : Nat]
  /\ queue \in 0..QueueLimit
  /\ sender \in {"ready", "sleeping"}
  /\ {captured, drops, pending} \subseteq 0..MaxFrames
  /\ health \in [at : {"idle", "taken", "sent"}, count : Nat, total : Nat]

(* The gate is open exactly when some frame that it processed was the last of as     *)
(* many speech frames in a row as the profile of that frame wants, each of them        *)
(* speech to the profile of its own moment, and no frame since was quiet to its          *)
(* own: whatever mixture of settings the callback saw, and whether or not the gate        *)
(* was left out between, noise alone never opens it and its hold never keeps it          *)
(* open through a quiet frame.                                                *)
Opens(i) ==
  /\ i >= OpenFrames[heard[i].profile]
  /\ \A j \in (i - OpenFrames[heard[i].profile] + 1)..i : heard[j].loud = "speech"
GateFollowsSpeech ==
  gate.open <=>
    \E i \in 1..Len(heard) : Opens(i) /\ \A j \in i..Len(heard) : heard[j].loud # "quiet"

(* A frame that was dropped is counted once: in a report that arrived, in one that    *)
(* was lost, in the one that is under way, in the next one, or in the callback's        *)
(* hands.                                                                    *)
CountedOnce ==
  drops = told.sum + told.lost + health.count + pending
          + (IF dropped THEN 1 ELSE 0)

(* The total of the latest report that arrived covers the counts of all reports up     *)
(* to it, those that were lost included: the callback adds to the total first and        *)
(* the report reads it last, whatever happens between.                           *)
TotalCoversCounts == told.sum <= told.total
=============================================================================
