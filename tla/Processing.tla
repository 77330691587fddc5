------------------------------ MODULE Processing ------------------------------
(***************************************************************************)
(* What happens to a talker's frame between its packet and the source queue.   *)
(*                                                                         *)
(* One task receives the packets of all users.  It decodes a frame, sends it    *)
(* through the stages of the talker's pipeline and levels it.  A stage keeps     *)
(* state per user: the voice gate, the gain of the normalizer, and for the       *)
(* neural noise reduction a thread of its own, with a bounded queue of frames    *)
(* each way.  The receiver waits for that thread for two frames' time and then   *)
(* goes on without it; the answer comes all the same.                           *)
(*                                                                         *)
(* Samples are abstracted to the frame they came from.  Levels, gains and limits *)
(* are steps on a logarithmic scale, where full scale and unity gain are 0.      *)
(***************************************************************************)
EXTENDS Integers, Sequences, FiniteSetsExt

CONSTANTS
  Users,
  Features,    \* engines that the server is built with, of Engines
  Configs,     \* processing configurations that a user can get
  Models,      \* model files
  QueueFrames, \* worker_queue_frames
  Depth,       \* how far the lowest level is below full scale
  HoldFrames,  \* frames that the gate holds
  MaxFrames    \* bound: frames of a user

Engines == {"builtin", "webrtc", "rnnoise", "deepfilternet"}
Levels == (-Depth)..0
NoModel == "none"

ProcessingAssumption ==
  /\ Features \subseteq Engines \ {"builtin"} /\ NoModel \notin Models
  /\ QueueFrames \in 1..200 /\ Depth \in Nat
  /\ HoldFrames \in Nat /\ MaxFrames \in Nat
  /\ \A c \in Configs :
       /\ c.mode \in {"enabled", "disabled", "auto"} /\ c.raw \in BOOLEAN /\ c.isolation \in BOOLEAN
       /\ c.gate \in BOOLEAN /\ c.fallback \in BOOLEAN /\ c.model \in Models \cup {NoModel}
       /\ c.pipeline \in Seq(Engines) /\ c.pipeline # <<>>
       /\ c.normalize \in BOOLEAN /\ c.target \in Levels /\ c.boost \in Nat /\ c.attenuation \in Nat

VARIABLES
  config,    \* Session.processing
  frames,    \* frames received from each user
  gate,      \* AudioProcessorBank.vad
  gain,      \* AudioProcessorBank.normalizers, a set of at most one gain each
  worker,    \* AudioProcessorBank.deepfilternet, a set of at most one worker each
  receiver,  \* the frame that the receiver is busy with, in a set
  levelled   \* what the normalizer did last: the gain it applied, the peak, the configuration

vars == <<config, frames, gate, gain, worker, receiver, levelled>>

Key(c) == c.model   \* with profile, back end and compute units, which the models stand for
NewWorker(key, state) ==
  [key |-> key, state |-> state, requests |-> <<>>, work |-> {}, answers |-> <<>>, next |-> 1]

Init ==
  /\ config \in [Users -> Configs] /\ frames = [u \in Users |-> 0]
  /\ gate = [u \in Users |-> [open |-> FALSE, hold |-> 0]]
  /\ gain = [u \in Users |-> {}] /\ worker = [u \in Users |-> {}]
  /\ receiver = {} /\ levelled = {}

-----------------------------------------------------------------------------
(* processing_active, processing_cleanup_enabled, level_normalization_enabled,
   for a codec that is pcm48 or not *)

HasNonBuiltin(c) == \E i \in DOMAIN c.pipeline : c.pipeline[i] # "builtin"
CleanupEnabled(c) ==
  ~c.raw /\ (c.mode = "enabled" \/ (c.mode = "auto" /\ (HasNonBuiltin(c) \/ c.isolation)))
Active(c, pcm48) ==
  \/ c.mode = "enabled"
  \/ c.mode = "auto" /\ ~c.raw /\ (HasNonBuiltin(c) \/ c.isolation \/ ~pcm48)
NormalizationEnabled(c) == c.mode # "disabled" /\ c.normalize

(* AudioProcessorBank::process begins.  A frame for which there is nothing to do is
   stored as it is; leveling alone runs the stages all the same. *)
Receive(u, pcm48, loud) ==
  /\ receiver = {} /\ frames[u] < MaxFrames
  /\ frames' = [frames EXCEPT ![u] = @ + 1]
  /\ LET c == config[u] IN
       receiver' = IF Active(c, pcm48) \/ NormalizationEnabled(c)
                   THEN {[user |-> u, frame |-> frames[u] + 1, samples |-> frames[u] + 1, c |-> c,
                          left |-> c.pipeline, open |-> loud, ran |-> FALSE, id |-> 0]}
                   ELSE {}
  /\ UNCHANGED <<config, gate, gain, worker, levelled>>

-----------------------------------------------------------------------------
(* The stages. *)

At(r, engine) == r.id = 0 /\ r.left # <<>> /\ Head(r.left) = engine
Advance(r, open, ran) ==
  receiver' = {[r EXCEPT !.left = Tail(@), !.open = open, !.ran = @ \/ ran, !.id = 0]}

(* gate_voice_frame, of a frame that is speech, or not and above or below the level
   at which the gate closes; or a gate that is opened without being asked *)
Gated(g, speech, above) ==
  CASE speech -> {[open |-> TRUE, hold |-> HoldFrames], g}   \* g: too few speech frames yet
    [] ~speech /\ g.hold > 0 /\ above -> {[g EXCEPT !.hold = @ - 1]}
    [] ~speech /\ g.hold = 0 /\ above -> {g}
    [] ~speech /\ ~above -> {[g EXCEPT !.open = FALSE]}

(* process_builtin, for its own stage or instead of another engine *)
Builtin(r) ==
  IF CleanupEnabled(r.c) /\ r.c.gate
  THEN \E speech, above \in BOOLEAN : \E g \in Gated(gate[r.user], speech, above) :
         gate' = [gate EXCEPT ![r.user] = g] /\ Advance(r, g.open, TRUE)
  ELSE Advance(r, TRUE, TRUE) /\ UNCHANGED gate

(* What becomes of a frame that an engine cannot take. *)
Fallback(r) ==
  IF r.c.fallback THEN Builtin(r)
  ELSE UNCHANGED gate /\ \E loud \in BOOLEAN : Advance(r, loud, FALSE)

BuiltinStage(r) ==
  /\ At(r, "builtin") /\ Builtin(r)
  /\ UNCHANGED <<config, frames, gain, worker, levelled>>

(* process_webrtc: it may fail to start, or fail on a frame. *)
WebRtcStage(r) ==
  /\ At(r, "webrtc")
  /\ \/ Fallback(r)
     \/ "webrtc" \in Features /\ UNCHANGED gate /\ \E voice \in BOOLEAN : Advance(r, voice, TRUE)
  /\ UNCHANGED <<config, frames, gain, worker, levelled>>

(* process_rnnoise: its verdict opens the gate, or leaves it to the gate. *)
RnNoiseStage(r) ==
  /\ At(r, "rnnoise")
  /\ IF "rnnoise" \notin Features THEN Fallback(r)
     ELSE \/ ~(CleanupEnabled(r.c) /\ r.c.gate) /\ Advance(r, TRUE, TRUE) /\ UNCHANGED gate
          \/ /\ CleanupEnabled(r.c) /\ r.c.gate
             /\ gate' = [gate EXCEPT ![r.user] = [open |-> TRUE, hold |-> HoldFrames]]
             /\ Advance(r, TRUE, TRUE)
          \/ CleanupEnabled(r.c) /\ r.c.gate /\ Builtin(r)
  /\ UNCHANGED <<config, frames, gain, worker, levelled>>

(* process_deepfilternet: a worker for the model, with empty queues unless it is
   there already; what has come late is thrown away; then the frame, and a wait. *)
Drained(w) == [w EXCEPT !.answers = <<>>]
HasModel(r) == "deepfilternet" \in Features /\ r.c.model # NoModel
Workers(r) ==
  LET now == {w \in worker[r.user] : w.key = Key(r.c)}
  IN IF now # {} THEN now ELSE {NewWorker(Key(r.c), state) : state \in {"loading", "gone"}}

DeepFilterNetStage(r) ==
  /\ At(r, "deepfilternet")
  /\ \/ ~HasModel(r) /\ Fallback(r) /\ UNCHANGED worker
     \/ /\ HasModel(r)
        /\ \E found \in Workers(r) :
             LET w == Drained(found) IN
               \/ /\ w.state = "gone" \/ Len(w.requests) = QueueFrames
                  /\ worker' = [worker EXCEPT ![r.user] = {[w EXCEPT !.next = @ + 1]}]
                  /\ Fallback(r)
               \/ /\ w.state # "gone" /\ Len(w.requests) < QueueFrames
                  /\ worker' = [worker EXCEPT ![r.user] =
                       {[w EXCEPT !.requests = Append(@, <<w.next, r.samples>>), !.next = @ + 1]}]
                  /\ receiver' = {[r EXCEPT !.id = w.next]}
                  /\ UNCHANGED gate
  /\ UNCHANGED <<config, frames, gain, levelled>>

\* fault: the next answer is taken for the one that is waited for
MineAny(answer, id) == TRUE
Mine(answer, id) == answer[1] = id

(* The loop around recv_timeout.  Answer: <<id, samples, ok>> *)
TakeAnswer(r) ==
  /\ r.id # 0
  /\ \E w \in worker[r.user] :
       /\ w.answers # <<>>
       /\ worker' = [worker EXCEPT ![r.user] = {[w EXCEPT !.answers = Tail(@)]}]
       /\ LET a == Head(w.answers) IN
            \/ ~Mine(a, r.id) /\ UNCHANGED <<receiver, gate>>
            \/ Mine(a, r.id) /\ ~a[3] /\ Fallback(r)
            \/ /\ Mine(a, r.id) /\ a[3]
               /\ \E open \in BOOLEAN : Advance([r EXCEPT !.samples = a[2]], open, TRUE)
               /\ UNCHANGED gate
  /\ UNCHANGED <<config, frames, gain, levelled>>

TimeOut(r) ==
  /\ r.id # 0 /\ Fallback(r)
  /\ UNCHANGED <<config, frames, gain, worker, levelled>>

-----------------------------------------------------------------------------
(* run_deepfilternet_worker: a model that fails to load answers for every frame. *)

Works(u, from, to) ==
  /\ worker[u] = {from} /\ worker' = [worker EXCEPT ![u] = {to}]
  /\ UNCHANGED <<config, frames, gate, gain, receiver, levelled>>

Load(u) == \E w \in worker[u], state \in {"ready", "broken"} :
  w.state = "loading" /\ Works(u, w, [w EXCEPT !.state = state])

Take(u) == \E w \in worker[u] :
  /\ w.state \in {"ready", "broken"} /\ w.work = {} /\ w.requests # <<>>
  /\ Works(u, w, [w EXCEPT !.work = {Head(w.requests)}, !.requests = Tail(@)])

(* send: it waits while the queue of answers is full. *)
Answer(u) == \E w \in worker[u] : \E job \in w.work, ok \in BOOLEAN :
  /\ Len(w.answers) < QueueFrames /\ (ok => w.state = "ready")
  /\ Works(u, w, [w EXCEPT !.work = {}, !.answers = Append(@, <<job[1], job[2], ok>>)])

-----------------------------------------------------------------------------
(* normalize_input_level, of a frame of that level and peak *)

Clamp(x, lo, hi) == Max({lo, Min({x, hi})})
Desired(c, rms) == Clamp(c.target - rms, -c.attenuation, c.boost)
(* some way from the gain to the desired one, the whole way at first *)
Towards(u, desired) ==
  (UNION {Min({g, desired})..Max({g, desired}) : g \in gain[u]})
  \cup (IF gain[u] = {} THEN {desired} ELSE {})

Applied(c, g, peak) == Max({Min({g, Min({-peak, c.boost})}), -c.attenuation})

Normalize(r, rms, peak) ==
  LET c == r.c IN
    \E next \in Towards(r.user, Desired(c, rms)) :
      LET g == Clamp(next, -c.attenuation, c.boost) IN
        /\ gain' = [gain EXCEPT ![r.user] = {g}]
        /\ levelled' = {[applied |-> Applied(c, g, peak), peak |-> peak,
                         boost |-> c.boost, attenuation |-> c.attenuation]}

(* The frame is done and stored. *)
Done(r) ==
  /\ r.id = 0 /\ r.left = <<>> /\ receiver' = {}
  /\ \/ NormalizationEnabled(r.c) /\ r.open
        /\ \E rms \in Levels : \E peak \in rms..0 : Normalize(r, rms, peak)
     \/ UNCHANGED <<gain, levelled>>   \* off, closed, or below the noise floor
  /\ UNCHANGED <<config, frames, gate, worker>>

(* The admin or the client changes what is to be done. *)
Configure(u, c) ==
  /\ c # config[u] /\ config' = [config EXCEPT ![u] = c]
  /\ UNCHANGED <<frames, gate, gain, worker, receiver, levelled>>

Stage(r) ==
  BuiltinStage(r) \/ WebRtcStage(r) \/ RnNoiseStage(r) \/ DeepFilterNetStage(r)

Next ==
  \/ \E u \in Users :
       \/ \E pcm48, loud \in BOOLEAN : Receive(u, pcm48, loud)
       \/ \E c \in Configs : Configure(u, c)
       \/ Load(u) \/ Take(u) \/ Answer(u)
  \/ \E r \in receiver : Stage(r) \/ TakeAnswer(r) \/ TimeOut(r) \/ Done(r)

Spec == Init /\ [][Next]_vars

-----------------------------------------------------------------------------
(* Properties. *)

(* Every variable keeps its type, and no queue outgrows its limit. *)
TypeOK ==
  /\ config \in [Users -> Configs] /\ frames \in [Users -> 0..MaxFrames]
  /\ \A u \in Users :
       /\ gate[u] \in [open : BOOLEAN, hold : 0..HoldFrames] /\ gain[u] \subseteq Int
       /\ \A w \in worker[u] :
            /\ w.state \in {"loading", "gone", "ready", "broken"} /\ w.key \in Models
            /\ Len(w.requests) <= QueueFrames /\ Len(w.answers) <= QueueFrames
  /\ \A r \in receiver : r.user \in Users /\ r.samples \in 1..MaxFrames /\ r.left \in Seq(Engines)

(* A frame leaves the noise reduction with its own samples, never with those of an
   earlier frame whose answer came too late, whatever models are selected, fail
   and are slow in between. *)
OwnSamples == \A r \in receiver : r.samples = r.frame

(* Leveling neither exceeds the limits that are in force, however the limits and the
   signal change from frame to frame, nor drives a frame into clipping. *)
GainSafe ==
  \A l \in levelled : l.applied \in (-l.attenuation)..l.boost /\ l.applied + l.peak <= 0
=============================================================================
