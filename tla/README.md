# OpenBroadcastIntercom: TLA+ models and proofs

This directory models the intercom: what the server and its clients keep, which
tasks change it, and what must hold however those tasks interleave. `src/`
stands for the root of the repository below; unless a path is given, lines are
of `server/src/lib.rs`.

Contents: [the system](#the-system), [modules](#modules-and-the-code),
[runs](#runs), [bounds and fairness](#bounds-symmetry-and-fairness),
[proofs](#proofs), [disagreements](#where-code-and-documentation-disagree),
[limits](#what-is-not-modelled), [plan](#plan).

## The system

One **server** process (tokio, many threads) mixes audio and owns all state.
**Clients** (desktop, native apps, Raspberry Pi, ESP32, bridges to audio
networks) hold two links to it: UDP for audio, one WebSocket for control. An
**operator** uses an HTTP API, from a web page or a command line tool.

State of the server is a struct of separately locked tables (`ServerState`,
248-269). A handler takes one lock, lets go, awaits, takes the next: nearly every
interesting behaviour comes from what runs in between.

| Component | State | Operations | Talks to |
|---|---|---|---|
| UDP audio path | `sessions[u].addr`, `sources[u]` (queue of frames), output sequence numbers | receive packet, register endpoint or source, store frame, tick and mix, send, clear failed endpoint | sessions (routes), recording, transcription |
| Talk state | regular talk, active buttons, direct calls, last caller, call histories in each session | Talk, Button, DirectCall, ReplyCall, admin call, reconfigure, clean-up when a connection ends | pushes, emergency |
| Control connections and push | `control_clients[u]`: sender of the newest connection | hello, register, greet, push after every change, unregister | every handler pushes |
| Locks | the tables' `RwLock`s | every handler | every handler |
| Desired configuration | `admin_state` in memory, a JSON file, the sessions | client and admin requests, presets, templates, channels, buttons, save, load | sessions, push, enrollment |
| Enrollment | devices (uid, alias, status), bindings of desired clients | hello under a policy, patch (approve, reject), move, forget, configuration messages | admission of audio and control |
| Emergency override | one slot: source and target | set, replace, clear, clean-up | mixes, push to all affected |
| Live transcription | chunk, queue, worker flag and counters per user; loaded model; semaphore | ingest frame, start, stop, select model, worker | audio receiver, transcript store |
| Recording and transcripts | active session with writers, lists of sessions and segments | start, stop, ingest, append, transcribe afterwards | audio receiver |
| Alerts and announcements | alert list, next ids; synthesized speech as virtual sources | send, acknowledge, cancel, announce | push, mixes |
| Voice processing | gate, gain and worker per talker | one frame at a time in the receiver; a worker thread with two bounded queues | audio path |
| Mix rules | routes, IFB, priority, calls, emergency | one tick of the mixer | audio path |
| Codecs | configuration, decoders and encoders at both ends | change codec, profile, stereo; encode, decode, resample, limit | audio path, push |
| Model downloads | status per model, temporary and final file | request, stream, verify, rename, fail, restart | transcription |
| Control link of a client (`clients/core`) | channel of requests, callers that wait, connection phase | connect, say hello, send, pair answers, fail callers | desktop, app, Pi |
| Local API and copy of the session (desktop, Pi, app) | `ClientConfig`, commands under way | commands of page, terminal, hotkeys and shell | control link |
| Capture (desktop) | gate, channel of frames, counters, five atomics | callback, send task, settings task, health task | audio path |
| Playback buffer (`clients/core`) | samples, layout, prebuffer, cue queues | push frame, cue, pop, clear, connection events | audio path, control link |
| App shells | phase and handle of the client runtime | start, stop, status, failure | desktop runtime |
| Panel of the ESP32 beltpack | keys, `s_config`, target of the reply key, hello flags | key, reply key, update, loss of the Wi-Fi, connect, disconnect, register | talk state, push |
| Bridge, GPIO, tools | see [limits](#what-is-not-modelled) | | |

What is hard here:

* **Interleaving.** Handlers are split at every lock; pushes, clean-ups of a
  connection that has already been replaced, and the audio tasks run between.
* **Stale reads.** A baseline, a list of recipients, a sender or a decision is
  read under one lock and used under another; frames wait in queues while their
  talker lets go, the codec changes or the layout does.
* **Crash and partial failure.** The state file and model files are replaced
  through one temporary path while the process may stop or the disk fail.
* **Ordering.** Two pushes overtake each other; answers are paired with callers
  by position alone; a noise-reduction worker answers after its caller has gone.
* **Limits.** Source queues, histories, the control channel, the job queue, the
  capture channel and the playback buffer are bounded and drop in different ways.
* **Waiting.** Some handlers keep one lock while they ask for the next.

`PROJECT.json` lists the hazards at their lines, with the properties that would
notice.

## Modules and the code

A step of a module runs from one lock acquisition of the code to the next, or is
a whole handler where the module says so. Every mapped definition names its
lines in `PROJECT.json`. Definitions after a comment `fault:` are plausible bugs
of the definition that follows them; no model uses them, they show that a
property would notice.

**Server**

| Module | Models | State against code |
|---|---|---|
| `AudioPath` | `run_audio_receiver`, `register_audio_*`, `store_source_frame`, `run_audio_mixer`, `build_mixes`, `record_audio_send_error` | `endpoint` is `Session.addr` with its age, `sources` the map of `SourceQueue`, `receiver` the packet between its lock sections, `outputs` and `failure` what the mixer holds between sections |
| `TalkerFifo` | the promise of a source queue: a bounded FIFO that loses frames only from its front | implemented by `AudioPath` under a refinement mapping |
| `ControlSession` | talk, button, direct call and reply handlers, `clear_active_buttons`, reconfiguration | `session[u]` is the talk state in `Session`, `log[u]` its call history and last caller; `conn[c].todo` the rest of a handler that has let go of the lock |
| `ConfigPush` | `handle_control_connection`, `push_config_update`, `register/unregister_control_client`, presence updates | `control` is `control_clients`; a configuration is the number of changes its snapshot has seen; `newest` and `last` are history |
| `LockPrograms`, `LockOrder` | which locks each handler asks for while it keeps which; tokio's fair `RwLock` | `Program[h]` is a handler's sequence of requests, `queue[l]` the waiters of a lock |
| `AdminStore` | `apply_desired_client` and its callers, admin client and preset handlers, `save_admin_state`, `load_admin_state`, the audio path's use of desired configuration | `mem` and `live` are the two copies; `file` has inodes, so that a rename and a write through an old handle are what they are on disk; `file.mixed`, `seen`, `first` and `history` are history |
| `Workflow` | channels, presets, templates, desired clients and button actions, with all normalization on the way, warnings, and what a restart loads | `clients`, `presets`, `templates`, `channels` are `AdminState`, `live` the sessions, `pressed` a button half way through its actions |
| `Enrollment` | `resolve_client_enrollment`, hello, device handlers, messages of any connection, handlers that bind clients to devices, `audio_user_is_enrolled` | `devices`, `desired`, `session` by uid and alias; `conn[c].writes` the alias a message is for; `admitted`, `offered` are history |
| `EmergencyOverride` | `apply_emergency_event`, `clear_emergency_for_source`, admin handler, the pushes that show it | `emergency` is the slot, `task[a]` the users still to tell; `missed` is history |
| `Alerts` | alerts, answers, cancellation, history, announcements and their virtual sources | `task[t]` is a handler between its locks, `shown[u]` what a client displays |
| `LiveTranscription` | `transcribe_ingest_frame`, the chunker, `run_live_transcription_worker`, start, stop, `select_whisper_model`, `ensure_live_transcription_engine` | a chunk is what its voiced frames are good for, a job is a number, time is which jobs are stale by now |
| `Recording` | start in two steps, ingest, stop, transcription of a stopped session, external transcripts | `disk[ms]` is a session's directory with metadata and wav files, `active` and `recent` are `RecordingState` |
| `ModelDownload` | the download API, its task and files | `temp` and `dest` are the two paths, `job[j]` the file a task has open |
| `Processing` | engine choice and fallback, gate, normalizer, the noise-reduction worker and its queues | `worker[u]` has the two channels, `receiver` the frame under way with the samples it carries |
| `MixRules` | one tick of `build_mixes` as a rule: who hears which frame, ducked for which reasons | `heard[l]` is the mix of a listener with the reasons instead of gains |
| `CodecPath` | packet header, encoders, decoders, resampling and limiter of both ends | frames are lengths, payloads bytes, `up` and `down` what is on the way |

**Clients**

| Module | Models | State against code |
|---|---|---|
| `ControlLink` | `run_control_connection`, `wait_before_reconnect`, `handle_control_text`, `apply_control_event`, a client's start, its window's presses, and the server's end | `pending` is `pending_responses`, `answer[r]` what a caller knows, `inbox`, `replies`, `events` what is on the wire; `refused` is history |
| `LocalApi` | every command of the local HTTP API, the terminal, hotkeys and the mobile shell, the client's copy, `apply_control` at the other end | `local` is `ClientConfig`, `server` the session, `queue`, `wire`, `down` what lies between |
| `Capture` | the callback, its gate, the send task, settings and health tasks | `settings` and `storing` are the five atomics while they are written, `drops`, `pending`, `health` the counters; `heard` and `told` are history |
| `Playback` | `JitterBuffer`/playback buffer, connection cues and their queues | `buffer` holds samples with their side, `current` and `coming` what the device plays next |
| `AppShell` | start, stop, status and failure in `clients/app` (mobile) and `app_native` | `held` is the handle in the runtime state, `run[r]` the thread of a runtime, `phase` what the window shows |
| `Esp32Panel` | the talk, dedicated and reply keys of the ESP32 firmware, its control connection and Wi-Fi events, the server's end | `config` is `s_config`, `reply` is `s_reply_active_target`, `flag` the two pending flags, `toSend[t]` what a task has yet to send, `up`, `down` what is on the wire; `lost` and `refused` are history |

How they fit together: `ControlSession`, `EmergencyOverride`, `Alerts`,
`AdminStore`, `Workflow` and `Enrollment` end their handlers with pushes, of
which `ConfigPush` is the anatomy; `ControlLink` carries requests and answers
between a client and the server, and `LocalApi` what they do to the two copies of
the session. A frame goes through `Capture`, `CodecPath`, `Processing`,
`AudioPath`, `MixRules`, `CodecPath` again and `Playback`. `LockOrder` sees all
handlers as nothing but their locks. The modules share no variables. Where one
needs what another details it says so in its header and takes the other's
operation as one step.

Abstractions that matter when reading:

* `AudioPath` counts time in mixer intervals. Samples, codecs and gains are left
  out.
* `ConfigPush` lets the tasks of connections and requests run in any order, as a
  multi-threaded runtime does.
* `ConfigPush`: whether a hello finds a desired client says nothing about the
  version of the session (a client is deleted and the session stays; keys and calls
  change the session alone), so it is a parameter of `Hello`. Only a client that it finds
  is greeted. Another one sends its own configuration if it starts (`Seed`), and
  nothing if its core reconnects, which drops the hello's answer (core 1300-1322): it
  keeps what it had. `newest[c]` therefore starts, for a client that is not greeted, at
  the version of its registration: what came before it is not owed.
* `AdminStore` keeps of a desired client one setting and the lockout that
  forbids it; `Workflow` keeps all of it but takes a request as one step. Messages and
  admin requests run side by side, as many as `Handlers`; `first` remembers whether a
  state was cloned with no older clone still to be saved, `mixed` the files that two saves
  had open at once, `seen` the changes made when a message was checked.
* `Enrollment` takes messages from every connection: one that has not said hello may
  name any alias, one that was refused goes on by the alias it asked for. A client
  left for any device (by the admin, or by such a message) is `offered`, and who
  takes one is `admitted`, as is who the admin names.
* `EmergencyOverride` greets a preconfigured client only. `missed` are connections that
  registered without a greeting, or whose session began between the list of an event and
  its slot, until something is sent to them.
* `Capture` reduces a frame to how loud each profile finds it, and the gate reads its
  counts by the profile of the moment (`OpenFrames`, `HoldFrames`, which are the code's
  numbers) with the speech count of earlier profiles kept. A report that fails is lost with
  the counts it took.
* `Esp32Panel` refuses the buttons of a client that the admin has locked, with no push;
  the firmware has acted on the press already and its error handler changes a line of text
  only (main.c:2813).
* `ControlLink` has atomic handlers in the server and lets a client read
  responses and events in either order: they come over one socket, but the
  handling of one does not depend on the other.
* `LiveTranscription` lets jobs go stale in the order in which they were spoken,
  which follows from how the server reckons when a chunk ended, as long as the
  mode and its window stay the same while jobs wait.
* `Processing` and `Capture` reduce a frame to its number and how loud it is,
  `MixRules` a gain to the set of reasons for ducking.

## Runs

`tlc -config <run>.cfg <module>`. The `MC` modules only give values to constants.
Parts of the system that share no state in the models are checked side by side by
three composing modules, `ServerParts`, `MediaAndClients` and `TalkAndPush`. Each
extends one of its parts and takes the others as instances, over constants and
variables of its own where two parts use one name (`E == INSTANCE
EmergencyOverride WITH Users <- EmergencyUsers, ...`). A behaviour picks a `part` in
its initial state, and `Parts == PartsInit /\ [][PartsNext]_partVars` (in
`TalkAndPush` with the fairness of both parts) makes it a behaviour of that part's
module alone, while the variables of the others are 0. Each property there is the
module's own under the condition `part = "..."`; the first property of a part also
takes in its type invariant. Theorems are about these very properties, so that a
run and a proof speak of one definition.

| Run | Module | What it shows |
|---|---|---|
| `AudioPathQueues` | `MCAudioPath` | latency is bounded, no frame is unaccounted for, queues are the FIFO of `TalkerFifo`, a failed send never clears a newer endpoint |
| `TalkAndPush` | `MCTalkAndPush` | talk: no talk state without a connection, held buttons are configured ones, talk is released by a user who goes away and stays away. Push: the newest change that a settled client is owed is among those it has read; every change that it is owed, or a newer one, arrives |
| `AdminStoreCrash` | `MCAdminStore` | with requests two at a time: the state file loads unless two saves had it open at once (`TornByMixingOnly`), and holds what was acknowledged unless an older clone was still to be saved (`AckedSurvives`); a lockout holds against every message checked after it (`LockoutSticks`); sessions converge to what is desired |
| `ControlLinkPairs` | `MCControlLink` | answers lag by at most one, nobody who waits is forgotten or waits for ever, and the window of a registered client settles on what the server has, with the admin locking the buttons meanwhile, but for a key whose press the full channel refused (`SettledAgrees`) |
| `ServerParts` | `MCServerParts` | locks: no circle among handlers that keep to the order (`NoDeadlock`). Alerts: who has to answer an alert, or sent it, sees it as it is (`AlertsRight`). Recording: every frame of every wav file has its line of metadata (`RecordingAgrees`). Workflow: sessions run on what is desired, a restart keeps the show, a client without warnings has no feedback route (`WorkflowRight`). Calls: both histories of a pair agree (`HistoriesAgree`). Emergencies: none outlives its connections, and whoever was greeted and present shows it (`NoOrphanEmergency`, `EmergencyReachesPresent`). Enrollment: bindings do not dangle, nobody is enrolled whom the admin has not named but by a client left for any device, a hello never moves a device (`EnrollmentRight`, `KnownUidKeepsAlias`) |
| `MediaAndClients` | `MCMediaAndClients` | downloads: an installed model is whole, one task per download. Transcription: one worker per user, text in order, nothing left by a stop, every job counted once (`TranscriptionRight`). Processing: a frame leaves with its own samples, levelling never clips. Mix: an emergency is heard alone, an interrupt over the programme, priority over the rest. Codecs: whole frames or none at both ends. Playback: in order, left on the left. Local API and panel: the copies of client and server agree when quiet, but for what the server refused (`CopyAgrees`), guesses are right. Shell: an abandoned runtime was asked to end, the window shows the one that is held. Capture: the gate follows the speech of the profiles it was read by, each dropped frame is counted once, refused reports included, and totals cover the counts |
| `AudioPathUnion` (violated) | `MCAudioPath` | a talker with two targets overflows its queue |
| `ConfigPushStale` (violated) | `ConfigPush` | a failed push removes the connection registered after it looked up |
| `AdminStoreTorn` (violated) | `MCAdminStore` | two saves at once replace the state file by a truncated one |
| `LocksCircle` (violated) | `MCLockOrder` | the admin's alert request, an answer to an alert and one more task wait for each other for good |
| `TerminalEndsClient` (violated) | `MCLocalApi` | a terminal command sent while the connection is down ends the client |
| `ReconnectSticks` (violated) | `MCEsp32Panel` | a button of the beltpack that was pressed between connect and hello stays active after the next reconnect |

## Bounds, symmetry and fairness

| Part | Bounds and why they suffice |
|---|---|
| Audio path | one talker, one listener, two addresses, queue of 2, 3 packets: overflow, idle expiry, endpoint change between build, send and failure all occur; the union run has a queue of 4 and 16 packets at the client's own pace |
| Talk | two users, two connections, so that a user can be connected twice; one has a key that calls the other, who calls and answers directly |
| Calls | two callers of one callee, one connection that any of them may have, history of 2, so that trimming takes open calls of the other pair |
| Push | one user, two connections, one more pushing task, 2 changes (4 in the violated run); every hello with and without a desired client |
| Store | two handlers, 2 changes, 1 crash, failing disk, under two loads: all requests of two users in one handler beside the audio receiver, and all requests on one user but hello in one handler beside puts and configuration messages in the other, which is what clones, checks and saves can be overtaken by; the violated run has puts alone and neither crash nor disk failure |
| Control link | three requests of which one is a press, channel of 1, two connections, one lockout: a press may meet a full channel, wait in the queue over a reconnect, be refused by the server, or be silenced by the end of the old connection. What `SettledAgrees` says is proved for any number of connections |
| Locks | three tasks and four handlers with the locks that are kept across requests; a circle needs a writer in the queue, hence the third task |
| Alerts | two clients, one channel that one of them hears, two handlers at once, two alerts and one spoken announcement, history of 1: trimming meets an open alert |
| Recording | two starts by two requests in two milliseconds, two frames a session, two segments, lists of 1: two starts in one millisecond or one after the other, a stop beside a start, a write that fails, trimming of sessions and segments |
| Workflow | three requests of any kind, for a client and a director whose configuration holds what only the page can send (double keys, unknown users, gains out of range), and one template that can be deleted and put again |
| Emergency | two clients of which one is staged, two connections, with and without a greeting, an admin |
| Enrollment | two devices, two aliases, one connection that may send before its hello, after a refusal or when enrolled, all admin requests in any number but moves to another alias (which the proof has), `approval` policy |
| Transcription | two users with 2 and 1 jobs, queue of 1, limits 2 then 1: full queue, stale jobs at all three places, competition for a permit, model lost under a worker; jobs that wait behind one that was missed need a queue of 2, which only the proof has |
| Downloads | three models, one without a URL, two tasks, two pieces |
| Processing | one talker, three frames, queues of 1, three configurations that between them use all engines and a model that is missing |
| Mix | three users, two channels, an IFB block, an announcement; every combination of what is transmitted and what is still queued |
| Codecs | five configurations, two changes, one packet on the way each way, and a datagram of every bad kind |
| Playback | prebuffer 1, room for 4 frames, cues of 3 to 5, three frames, two changes of the connection |
| Local API | two buttons, one peer, channel of 1, two commands, one change by the admin, one loss of the connection |
| Panel | one latching button, two connections, one press, one loss of the Wi-Fi, one change, buttons locked or not from the start and by the change, one message on a wire each way, which may be lost; the violated run has a momentary button, three connections and loses nothing |
| Shell, capture | two callers and three runtimes; a profile that opens at one frame of speech and one that wants three, processing on and off, so that the callback also sees the strict one with its gate on, which nobody made; a shout and a hum, three frames, two reports |

Runs with `CHECK_DEADLOCK FALSE` model a bounded number of requests, changes or
connections and stop when those are used up. `LocksCircle` is symmetric in its
tasks, `ServerParts` in `x1` and `x2` alone, which stand for two tasks, two
requests, two callers, two connections or two devices that nothing tells apart; its property
with a box is an action property. Runs with liveness use no symmetry.

Fairness is what the runtime owes and no more.

* Weak fairness on the rest of a handler, push or clean-up that has begun: the
  runtime polls tasks that are ready. None on new messages, requests, presses or
  the end of a socket, except in `ControlLink`, where the two ends of a
  connection notice in the end that the other has gone.
* `AdminStore`: strong fairness on the audio packets of a user, since clients
  send registration packets for as long as they run.
* `ControlLink`: strong fairness on refusing a queued request during the wait
  for a reconnect. The wait is a `select` between the timer and the channel that
  polls in random order, so a request cannot lose for ever. `Spec` assumes that an
  attempt to connect ends; `HangingSpec` does not.
* `TalkAndPush` has the fairness of both its parts. `ServerParts` and
  `MediaAndClients` state none: their properties are safety properties.

## Proofs

`tlapm <Module>Proofs.tla`. All are checked to the last leaf for every value of
the constants, from the named assumptions on them (`AudioAssumption`,
`LinkAssumption`, ...), which TLC evaluates in every run; some modules declare theirs
as an `ASSUME`, others name it in the theorems. Where a theorem needs
more than the module assumes, its statement says so.

| Module | Theorems (and the property of a run that each states) | Assumed besides |
|---|---|---|
| `AudioPathProofs` | `AudioTypes` (`TypeOK`), `LatencyIsBounded` (`LatencyBound`), `FramesAreConserved` (`FramesConserved`), `NewEndpointIsKept` (`OnlyFailedEndpointCleared`), `QueuesAreFifo` (`ImplementsTalkerFifo`, the refinement) | |
| `ControlLinkProofs` | `LinkTypes` (`TypeOK`), `OneAnswerBehind` (`AtMostOneBehind`), `NobodyIsForgotten` (`WaitersAreKnown`), `WindowShowsServer` (`SettledAgrees`) | |
| `LockOrderProofs` | `LockTypes`, `OrderedNeverDeadlocks` and `ServerNeverDeadlocks` (`NoDeadlock`) | that the handlers are ordered, or are all but the admin's alert request |
| `ConfigPushProofs` | `PushTypes`, `NewestIsRead` (`NewestReachesClient`) | |
| `ControlSessionProofs` | `NobodyIsStuckTalking` (`NoStuckTalk`), `DownIsConfigured` (`ActiveButtonsConfigured`), `CallHistoriesAreRight` | |
| `AdminStoreProofs` | `TornFilesAreMixed` (`TornByMixingOnly`), `AcknowledgedIsSaved` (`AckedSurvives`), `LockoutsStick` (`LockoutSticks`) | |
| `ServerPartsProofs` | `EmergencyEnds` (`NoOrphanEmergency`), `PresentClientsShowEmergency` (`EmergencyReachesPresent`), `OnlyAdmittedEnroll` (`EnrollmentRight`), `AliasesAreKept` (`KnownUidKeepsAlias`), `SessionsKeepTheirFrames` (`RecordingAgrees`), `AlertsReachTheirUsers` (`AlertsRight`), `ShowsKeep` (`WorkflowRight`), `CallsAgree` (`HistoriesAgree`) | |
| `MediaAndClientsProofs` | `DownloadsVerified` (`DownloadedIsVerified`), `DownloadsHaveOneJob` (`BusyHasOneJob`), `ShellsAskClients` (`ShellRight`), `GateAndDropsAreRight` (`CaptureRight`), `ListenersHearTheRules` (`MixRight`), `DevicePlaysInOrder` (`PlayedInOrder`), `FramesKeepTheirSamples` (`ProcessingRight`), `CommandsGuessRight` (`GuessesRight`), `TranscriptKeepsOrder` (`TranscriptionRight`), `FramesFitTheirReader` (`CodecRight`), `CopiesFollowServer` (`CopyAgrees`) | |

**AudioPathProofs.** The invariant is `TypeOK /\ LatencyBound /\
FramesConserved`. Latency needs an argument about queues rather than steps: a
queue is *young* if its k-th frame has waited at most capacity - k ticks;
appending behind a dropped head keeps a queue young because dropping moves
everyone one place up, and a tick that ages all frames also takes the first. For
the refinement a step of the receiver is one `Send` of `TalkerFifo`, with or
without a loss in front, a tick is one `Receive` for every talker, and an expiry
empties the queue; the mapping forgets ages, addresses and mixes.

**ControlLinkProofs.** The invariant is `TypeOK /\ NoneWaitOffline /\
AtMostOneBehind /\ WaitersAreKnown`. `AtMostOneBehind` relates the callers
entered in `pending` to the answers due on the connection, which are the
responses on the wire followed by those of the messages the server has not read.
It is not inductive alone: a connect must find `pending` empty
(`NoneWaitOffline`). The steps are cut along what moves: a send appends to both
sequences, a reply moves an id from one part of the due answers to the other, a
read takes the heads of both (or only the hello's), a disconnect empties them.

`WindowShowsServer` has an invariant of its own (`ShownInv`): if the client's connection
is the registered one and its user has a stored configuration, then the last
configuration on its way is the server's; with none on its way the window has the
server's already, in every key that the channel has not refused and that no press on
its way is about, or the lockout refuses (`NewestUnderWay`). A press that the server refuses
changes nothing because the client that reads the lockout has its buttons as they were
silenced or pressed before it; a connection that registers is sent what the server has; and the
end of another connection pushes what it silences. Without a stored configuration
it is false, and `Settled` asks for one: an old connection whose hello comes late takes
the registration and drops it, and the second hello of a third connection brings none.

**LockOrderProofs.** Every lock has a rank. A handler is *sound* if each request
is for a higher rank than all locks it keeps. If nobody could go on, take of
those who wait the one whose lock has the highest rank: its lock is kept by
somebody, or asked for earlier by somebody, who waits for a lock of a still
higher rank. That all programs of `LockPrograms` are sound is proved piece by
piece, for a snapshot, a push or a save is the same piece everywhere; the admin's
alert request is the one that is not, which is `LocksCircle`.

**ConfigPushProofs.** What a settled client has read is the newest version
because, for as long as it is not, that version is on its way: a push that has
not taken its snapshot, or carries the newest, or the inbox has it, or the
connection has yet to be greeted, to send its first configuration or to leave the
registry; or it registered without a greeting at that version or later. That invariant (`NewestOnItsWay`) needs to know whose connection a push
sends to and that no snapshot is newer than the session.

**ControlSessionProofs.** The talk state is read from nowhere but the session, so
its invariant needs the shapes of sessions and connections, the fact that only an
open connection is in the middle of a handler, and the two properties. The
histories need more. That both sides of a pair agree is not inductive: a full
history drops entries of other pairs, so the two sides keep different numbers of
the pair's calls, and which entry a close finds depends on all of them. The
invariant (`Numbering`) says that all calls can be numbered in the order in which
they were made: numbers rise along a history, entries of one number are equal, and
what lies between two calls of a pair on one side is on the other side too, unless
it is older than all that is left there. A new call takes the next number; a close
finds the same number on both sides, or none on a side that has dropped it, since
whatever lies newer than the entry it finds is on both sides and does not match
there either. Numbers that are not equal then have unequal counts of newer entries,
which is `HistoriesAgree`. That a call in progress has its open entry
(`CallShown`) needs that no handler closes a plain call that is in progress, and a
reply is only made to whom its connection may call. A handler that makes several
changes is a fold; what each change keeps the fold keeps (`FoldKeeps`), by the
smallest prefix that would not, because the library's induction theorems cannot
be instantiated here. `ServerPartsProofs` uses this invariant for its own instance:
the operators of the two instances are equal, the folds because a fold over the same
changes is unique (`OneFold`).

**AdminStoreProofs.** For any finite number of requests at once. A file that one save has
opened while no other has it open, and that nobody opens until it is renamed, is torn
until it is filled and whole from then on; under the name of the state file nobody writes
it any more (`Unmixed`). For what was acknowledged the invariant (`Durable`) says that every
clone that is still to be saved has the changes that have been, or are going to be,
acknowledged, since only a handler that cloned with no clone to be saved is counted: its
own clone and all later ones have its change. A crash between any two steps leaves the
file as it was or as one of these clones. Lockouts need that what a message was checked
against is what its write replaces, unless the user's desired client was written since
(`LockoutHeeded`), and that a lockout is never without a desired client, in memory as
in the file: without one the baseline would be the session's.

**ServerPartsProofs.** The invariants are about one part each.

* *Emergencies.* `EmergencyEnds` follows from who may put what into the slot: a
  connection only what is its own user's, and only while it is open. For
  `PresentClientsShowEmergency` the invariant says that a client that does not display
  what is in force is still to be greeted, or has missed it, or is among those that
  somebody has yet to tell, or that the slot has just been cleared by an ended connection
  that has yet to collect whom to tell; and that a handler before the slot tells everybody who
  was present when it collected (`PresentTold`).
* *Enrollment.* That no device is enrolled behind the admin's back needs every place
  from which a uid can be taken when a device is enrolled: a desired client, a
  session, a baseline that a message has read, a hello on its way. Whoever is in one
  of them was named by the admin or has taken a client left for any device
  (`OnlyAdmitted`); and a desired client without a uid was left so by the admin or by a
  connection that is not enrolled (`OnlyOffered`): a message of an enrolled one has found
  a uid, or such a client, in its baseline.
* *Alerts.* `AlertShown` and `SenderInformed` say nothing while a push is due, so
  the invariant says what a handler owes (`Due`): it will tell a client of an alert
  once it is about to push, or has made the alert, or has given it up because it
  could not speak. Whoever owes nothing displays what the list has. A step that
  changes the list owes a push to all it concerns (`ListTurn`), and trimming takes no
  alert that somebody waits for: the ranks of a finite set of numbers are all taken,
  each once (`RankTaken`, `RanksDiffer`), which also bounds what is kept.
* *Recordings.* A directory that one start made has one session at most, which is
  starting, active or finished (`OneSession`); its frames, lines and files agree
  in each of these states (`SessionsAgree`), and the writers that are open are those
  of the clients counted so far.
* *Workflow.* What the ways in leave in the variables differs: a template keeps an
  interrupted programme, a request's gains are lowered only in the session, a preset is
  normalized through and through. What they share is that a client is *clean*
  (`CleanClients`): its buttons have ids, each once and in order, their actions name
  users, and its programme is nothing that interrupts it. The proof is of two halves.
  Normalizing is idempotent (`ClientsCleaned`, `ShowsCleaned`), which needs that the
  buttons are numbered by the ranks of their ids (`PlacesNumber`, `KthNumbers`) and that
  the first of each id is kept (`ButtonsCleaned`); from that a restart changes nothing.
  And every step that writes a client writes a clean one together with what the session
  makes of it (`AppliedRight`), the actions of a button under way included, which work on
  what they have read before (`ButtonRight`).

**MediaAndClientsProofs.** Likewise.

* *Downloads.* A file under the final name has the bytes of the checksum because the
  task that renames it has verified the very file it wrote and is the only one that
  the model has; so both theorems need each other and are one invariant.
* *Shells.* `ShellRight` needs little more than that a call which waits for a runtime
  has one (`StartsHaveRuns`); the steps are what is long.
* *Capture.* Between the total and the diagnostics a drop is counted in one of them
  only, the total has each before a report takes it and is read after (`CountsRight`), and
  no more is dropped than was captured (`DropsCaptured`). The gate's count of speech says
  what the last frames that it processed were, whichever profiles they were processed by
  (`RunRight`), which is what "opened by speech" needs.
* *Mix.* What a listener hears has been mixed under the configuration still in force
  (`HeardIsMixed`): every change of it silences the mix until the next tick. The
  rules then follow from one tick's sets.
* *Playback.* The buffer is laid out in whole frames of its layout, in stereo in
  pairs (`LaidOut`), its frames are in order (`BufferOrder`), and neither what the
  device plays nor what it has taken next is of a later frame than what is left
  (`DeviceRight`). A pop takes a pair and a trim an even number of samples: without
  evenness one side would become the other.
* *Processing.* Numbers under way are below the next one (`WorkersRight`), and what is
  under way with the number that the receiver waits for is its own frame
  (`ReceiverRight`): an answer that comes late has an older number and is passed over.
* *Local API.* `CommandsGuessRight` is an action property: it is about the client's copy
  before a command. The copy is the session whenever nothing is on the way, because the
  last update on its way to a linked client is the session as it is, and a copy is
  changed ahead of the server only while the request that does so is in some queue
  (`CopyRight`); a caller waits alone and its request is in one place (`CallerInv`).
* *Codecs.* Before anything is configured no client has ADPCM or has named it
  (`NothingConfigured`), and the mixer's side can always encode what it makes;
  afterwards encoder and decoder may disagree for as long as a change is on its way, so
  `SentUpIsRead` and `SentDownIsPlayed` are about every pair of configurations: what arrives is
  read whole or not at all, and for a pair that agrees it plays. Rates divide the frame
  (`FrameLengths`), which is what makes the resampled lengths come out.
* *The client's copy.* That the copy agrees is the `CopyRight` of the local API; what
  `TypeOK` adds is that no queue outgrows its bound and that every mode on its way is one
  (`GoodModes`).
* *The panel.* The last update on its way has the session as it is (`LastPush`), and with
  none on its way the device has it, unless it has said something that has yet to be
  read, or was lost or refused (`PanelFollows`); what was refused since the last update was
  refused under a lockout that is still on, since lifting it sends one (`RefusedRight`). Both need that a connection says hello once
  (`HelloOnce`), since only the hello registers it for pushes.
* *Transcription.* Of a user's jobs those in the transcript were spoken first, then the
  one that the worker has, then those that wait (`Spoken`), so each appends in order; a
  user has one worker at most, whose job is the only one that is counted nowhere yet
  (`Counted`). That queues are in the order of speech is also why the stale jobs are
  the first of a queue, as the model has it.

Only model-checked: liveness (`TalkEventuallyReleased`, `ChangeReachesClient`,
`StagedEventuallyLive`, `EventuallyAnswered`), because the prover does not handle
fairness and ENABLED. Every safety property of a passing run is also proved.

## Where code and documentation disagree

Reported by runs (see `findings` in `PROJECT.json`):

* **Two active targets** (`AudioPathUnion`). The client sends one packet per
  target and interval, the mixer takes one frame per talker and tick.
* **A push to a dead connection** (`ConfigPushStale`) removes the registration of
  the live one: `push_config_update` removes by user, not by sender.
* **Concurrent saves** (`AdminStoreTorn`) share one temporary path.
* **A circle of locks** (`LocksCircle`). `create_runtime_alert` and its answer keep
  the alerts while they ask for the sessions; others ask the other way round.
* **A terminal command while offline** (`TerminalEndsClient`) fails, and its
  failure ends the client.
* **A press before the hello** (`ReconnectSticks`). The firmware sends a press on a
  connection that has not said hello yet (its registration task looks once a second),
  the server acts on it, and clears a user's talk at the end of a connection only if
  that one has said hello: the button stays active after the reconnect.

Stated in the modules and found violated, but in no run. Each is an invariant or
property of its own module and can be seen by a cfg for that module with the
constants of the part above and the change given:

| Definition | With | What happens |
|---|---|---|
| `ConfigPush!ClientShowsServerState` | as the part | docs/advanced-routing-ui.md:55-56 "Live audio behavior only changes after the server returns the authoritative `config_update`": two pushes overtake each other and the older one is applied last |
| `AdminStore!LockedIsRejected` | as the run | README.md:660-662: a client's message that was checked before the admin's lockout is written after it, whole: the setting changes and the lockout is lifted. `LockoutSticks` says that this is the only way past one |
| `AdminStore!AckedSurvives` with `first` taken as TRUE in `Write` | as the run | README.md:1216: of two clones the older one is saved last, and a restart loads the state without the change that was acknowledged |
| `EmergencyOverride!EmergencyShownToAll` | as the part | docs/ifb-talent-workflows.md:268: a client that is not preconfigured is not greeted (4747) and shows no emergency until the next push to it; a user whose session begins between the list of recipients and the slot is not told |
| `Enrollment!AliasUnique` | policy `auto`, AdminOps `{"preset"}` | README.md:531-532: a preset applied to the alias of an enrolled device leaves it without a uid, and after a restart another uid is bound to it |
| `Enrollment!UnapprovedBlocked` | AdminOps `{"patch"}`, policy `approval` | README.md:532-533: a health report for the alias of a pending device creates a session without a uid, whose audio is accepted |
| `Enrollment!UnknownUidRejected` | policy `preconfigured-only` | README.md:533-534: an unknown uid takes an alias whose staged client names no uid |
| `Enrollment!UnapprovedChangesNothing` | as the part | README.md:532-533: Config, AudioCodec, TalkMode and Priority look at no enrollment (4888-5042): a client that is pending, rejected or has said no hello leaves a desired client without a uid (5104-5148), which the next unknown uid that asks for the alias takes and is enrolled by (6852-6891) |
| `Enrollment!RejectionSticks` | AdminOps `{"patch"}` | README.md:499: a rejected device's next configuration message enrolls it again |
| `ControlLink!FailsFast` | `HangingSpec`, no presses | README.md:746-748: a request made while an attempt to connect hangs waits with it, `connect_async` has no timeout |
| `LiveTranscription!GlobalJobLimit` | three users with a job each, Limits `{1, 2}`, DefaultLimit 1 | README.md:463-464: a new limit is a new semaphore beside the old one, and jobs of both run |
| `LiveTranscription!ContextIsSelected` | two models | README.md:523: a model selected while another is loading is replaced by the late one, the page shows the selected one |
| `LiveTranscription!BornFresh` | as the part | README.md:464-465: a chunk interrupted by a pause counts as ended long ago by the number of its frames, and speech that has just arrived is dropped as stale though nothing has fallen behind |
| `LiveTranscription!WaitingIsServed` | as the part, queue of 2 | a worker that finds no model goes and takes a job with it, uncounted; the jobs behind it wait until the user speaks again |
| `Alerts!AnswersWithOwn` | as the part | the admin's alert request (3480) answers with the newest alert, which may be another request's |
| `Workflow!DeletedStaysDeleted` | as the part | README.md:505: built-in channels, presets and templates that were deleted are back after a restart |
| `Playback!DisconnectToneHeard` | `Prebuffer = 4`, `Extra = 12`, cues of 19, 25 and 15 | README.md:749-751: the cues are longer than the buffer, and the disconnect tone is trimmed by the chime that follows |
| `Esp32Panel!RefusedIsUndone` | as the part | README.md:660-662: a button that latches is toggled on the device before the message is sent; the server refuses it without a push if the buttons are locked, and the device stays as it is until the next update, transmitting or not |
| `Esp32Panel!ReplyEnds` | as the part, `MayFail = FALSE` | the release that the loss of the Wi-Fi sends for the reply key overtakes the start that the button task is about to send; the key's own release then finds no target and sends nothing |

Met while modelling, and part of the models' behaviour without a property of its
own:

* Push (`ConfigPush`): a client that was connected before and reconnects while no desired
  client exists keeps the configuration it had, whatever its session has become (core
  1171-1195, 1314): nothing pushes it, and `newest` counts it as not owed. README.md:742 says
  that it says hello again "so the server can resume pushing authoritative config updates".
* Window (`ControlLink`): a press that the full channel refuses stays shown until the next
  pushed configuration (`try_queue_control_message` fails after the copy was changed,
  desktop 1137-1198); `SettledAgrees` leaves that key out, and is false without that
  exception or without a stored configuration.
* Client copy (`LocalApi`): muting ends the regular talk only in the client's copy
  (desktop 1109-1111, 2197-2201), the server keeps it and its next update turns it
  back on; a release that a full queue refuses is turned back on likewise. A
  `/config` request with a locked priority applies its first message and fails
  with the second. A whole-configuration message made from a stale copy undoes an
  admin's newer change (README.md:721-724). Terminal commands check no lockout
  (README.md:661-663). Cancelling an alert that was received is always refused,
  yet removes it from the copy. Two toggles at once may both look before either
  acts.
* Shell (`AppShell`): on mobile a stop during a start answers "stopped" and the
  start then sets Running; two starts at once both spawn and the second drops the
  first one's handle; a second start that fails drops a running client; a stop
  waits in its join while the first hello waits for an unreachable server; Running
  is shown before anything is connected.
* Capture: the five atomics are stored one by one, so that a change between two
  inactive settings can be seen as active for a moment; a frame is sent or
  discarded by the talk state when it is dequeued, so that frames from before the
  press are sent and the last ones before the release are not; the counts of a
  refused report are lost (`told.lost`); a change of profile may open the gate in the
  middle of speech, since the speech count of the old profile is kept.
* Processing: the gate's hold has no effect in either place (11321; desktop
  3425-3463): a quiet frame closes the gate whatever is held, noise never does;
  docs/codec-findings.md:59-60 says the worker runs "instead of blocking audio
  ingest", but the receiver waits for up to two frames' time for each frame.
* Mix: the duck of a direct call also ducks an emergency; the volume of channel 0
  silences direct calls and emergencies.
* Codecs: the server's decoder state is one per user and codec, not per target,
  and is not reset when the codec switches back.
* Playback: the prebuffer counts samples and is half as long in stereo; a clear is
  not counted as dropped; a full queue of connection events loses the last one.
* Recording: a transcript that comes late is written into the session that is
  active by then; a second start in the same millisecond truncates the first one's
  metadata before it is refused.
* Downloads: the request has no timeout (3957); a stalled one is busy for good.
* Workflow: a button whose later action fails keeps the earlier ones done; two
  edits at once may lose one.

`ControlLink` also shows why `AtMostOneBehind` cannot be an equality: after a
reconnect the answer to the task's own hello goes to the first caller, and every
caller gets the answer of the one before for as long as somebody waits.

## What is not modelled

* **Discovery and process start-up**: an mDNS advertisement, arguments, spawning
  and aborting tasks; library calls without protocol state. A restart is an action
  of the modules whose state is on disk.
* **Metrics, health and status pages**: read-only snapshots; their locks are in
  `LockPrograms`, the web page that renders them is not modelled.
* **Numeric code**: filters, noise-reduction engines, codecs' samples, speech
  recognition and synthesis. What they may answer, and when, is nondeterministic.
* **Bridge**: a desktop client with other audio devices; its control link, capture
  and playback are the modelled ones, channel mapping and tones are numeric.
* **ESP32** beyond its panel: drivers, display, audio tasks and their frame ring,
  debouncing, alerts as reply targets, enrollment screens.
* **Pi GPIO, device selection, level meters, names and colours, identity files,
  bridge and server shells, tools.**

Within the modelled parts: `ControlSession` lets a client send only after its hello,
which is what `clients/core` does; `Esp32Panel` is about a client that does not.
`ControlLink` does not take over a changed user id
from a reconnect's hello, as the code does not either; the text carried over as a
prompt is left out of `LiveTranscription`; overflow of `next_available_user_id`
needs all aliases in use and is excluded by a guard; the order of the requests of
two tasks for different locks is free in `LockOrder`. Security of the HTTP API is
not a subject of this project.

## Plan

Done: every component of the server but its start-up and read-only pages, the
client's links, audio threads, buffers, commands and shells, the panel of the
beltpack, and proofs about most of the modules.

What could follow:

1. The Pi's GPIO debouncing and the ESP32's frame ring, each a small module for
   `MCMediaAndClients`; the Stop of a shell that joins a runtime which waits for an
   unreachable server.
2. A specification of what a store that serializes its saves would promise, and a
   proof that `AdminStore` implements it with one handler.
3. Fairness and liveness for `LiveTranscription` (every job ends) and `Alerts`
   (every push that is due is made).
