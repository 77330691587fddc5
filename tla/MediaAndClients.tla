--------------------------- MODULE MediaAndClients ---------------------------
(* The media path of the server and the clients, side by side: a behaviour picks one of
   the parts and is a behaviour of its module, while the variables of the others are 0.  The
   downloads are the module that this one extends; the others are instances, with
   constants and variables of their own where two modules use one name. *)
EXTENDS ModelDownload, Sequences

CONSTANTS
  \* LiveTranscription
  TranscribedUsers, WhisperModels, NoWhisper, Limits, DefaultLimit, JobQueueLimit, Choices, MaxJobs,
  MaxSchedulers,
  \* Processing
  ProcessedUsers, Features, EngineConfigs, EngineModels, QueueFrames, Depth, GateHoldFrames,
  MaxProcessed,
  \* MixRules
  MixUsers, Talkers, Virtual, Channels, Mixed, Listens, Listener, Talking, Privileged,
  Emergencies,
  \* CodecPath
  CodecConfigs, Supported, OpusSizes, Strays, Mixes, MaxCodecChanges, MaxFlight, NoConfig,
  \* Playback
  Prebuffer, Extra, CueLen, EventQueue, MaxPlayed, MaxEvents,
  \* LocalApi
  LocalButtons, Peers, Present, Routes, LocalCodecs, Alerts, NoUser, Patches, QueueSize, MaxLocalWire,
  MaxCommands, MaxLocalChanges, MaxDrops,
  \* Esp32Panel
  PanelButtons, Latching, Lists, MayFail, MaxConns, MaxKeys, MaxLosses, MaxPanelChanges,
  MaxPanelWire,
  \* AppShell
  Callers, MaxRuns,
  \* Capture
  CaptureQueueLimit, CaptureConfigs, CaptureFrames, MaxCaptured, MaxReports

VARIABLES
  part,   \* the part of the system that this behaviour is about
  active, chosen, model, context, loading, starting, schedulers, chunk, late, pending, running,
  workers, made, dropped, stale, completed, missed, transcript,
  processing, received, vad, gain, worker, receiver, levelled,
  ifb, tx, priority, calls, emergency, heard,
  desired, session, pushes, client, encoder, packetsUp, packetsDown, mixed, output, playback,
  failed, codecChanges,
  buffer, channels, started, cut, current, coming, arrived, linked, events, cues, pageStatus,
  reconnecting, linkChanges,
  serverSession, local, localLink, controlQueue, wire, localDown, waiting, toggling, ended,
  copyStale, localBounds,
  keysDown, panelConfig, reply, flag, toSend, panelLink, panelUp, panelDown, conn, registry,
  panelServer, lost, refused, panelBounds,
  shell, phase, heldRun, run, caller,
  captureConfig, settings, storing, at, captured, offerDropped, gateHeard, speechGate,
  sendQueue, sender, drops, unreported, health, told

transcriptionVars ==
  <<active, chosen, model, context, loading, starting, schedulers, chunk, late, pending, running,
  workers, made, dropped, stale, completed, missed, transcript>>
processingVars == <<processing, received, vad, gain, worker, receiver, levelled>>
mixVars == <<ifb, tx, priority, calls, emergency, heard>>
codecVars ==
  <<desired, session, pushes, client, encoder, packetsUp, packetsDown, mixed, output, playback,
  failed, codecChanges>>
playbackVars ==
  <<buffer, channels, started, cut, current, coming, arrived, linked, events, cues, pageStatus,
  reconnecting, linkChanges>>
localVars ==
  <<serverSession, local, localLink, controlQueue, wire, localDown, waiting, toggling, ended,
  copyStale, localBounds>>
panelVars ==
  <<keysDown, panelConfig, reply, flag, toSend, panelLink, panelUp, panelDown, conn, registry,
  panelServer, lost, refused, panelBounds>>
shellVars == <<shell, phase, heldRun, run, caller>>
captureVars ==
  <<captureConfig, settings, storing, at, captured, offerDropped, gateHeard, speechGate,
  sendQueue, sender, drops, unreported, health, told>>
partVars ==
  <<part, vars, transcriptionVars, processingVars, mixVars, codecVars, playbackVars, localVars,
  panelVars, shellVars, captureVars>>

T == INSTANCE LiveTranscription WITH
  Users <- TranscribedUsers, Models <- WhisperModels, NoModel <- NoWhisper,
  QueueLimit <- JobQueueLimit
P == INSTANCE Processing WITH
  Users <- ProcessedUsers, Configs <- EngineConfigs, Models <- EngineModels,
  HoldFrames <- GateHoldFrames, MaxFrames <- MaxProcessed, config <- processing,
  frames <- received, gate <- vad
X == INSTANCE MixRules WITH Users <- MixUsers
C == INSTANCE CodecPath WITH
  Configs <- CodecConfigs, MaxChanges <- MaxCodecChanges, None <- NoConfig, up <- packetsUp,
  down <- packetsDown, changes <- codecChanges
B == INSTANCE Playback WITH
  MaxFrames <- MaxPlayed, frames <- arrived, status <- pageStatus, changes <- linkChanges
L == INSTANCE LocalApi WITH
  Buttons <- LocalButtons, Codecs <- LocalCodecs, MaxWire <- MaxLocalWire, MaxChanges <- MaxLocalChanges,
  server <- serverSession, link <- localLink, queue <- controlQueue, down <- localDown,
  stale <- copyStale, bounds <- localBounds
E == INSTANCE Esp32Panel WITH
  Buttons <- PanelButtons, MaxChanges <- MaxPanelChanges, MaxWire <- MaxPanelWire,
  held <- keysDown, config <- panelConfig, link <- panelLink, up <- panelUp, down <- panelDown,
  server <- panelServer, bounds <- panelBounds
S == INSTANCE AppShell WITH held <- heldRun
K == INSTANCE Capture WITH
  QueueLimit <- CaptureQueueLimit, Configs <- CaptureConfigs, Frames <- CaptureFrames,
  MaxFrames <- MaxCaptured, config <- captureConfig, dropped <- offerDropped, heard <- gateHeard,
  gate <- speechGate, queue <- sendQueue, pending <- unreported

-----------------------------------------------------------------------------
NoTranscription ==
  /\ active = 0 /\ chosen = 0 /\ model = 0 /\ context = 0 /\ loading = 0 /\ starting = 0
  /\ schedulers = 0 /\ chunk = 0 /\ late = 0 /\ pending = 0 /\ running = 0 /\ workers = 0
  /\ made = 0 /\ dropped = 0 /\ stale = 0 /\ completed = 0 /\ missed = 0 /\ transcript = 0
NoProcessing ==
  /\ processing = 0 /\ received = 0 /\ vad = 0 /\ gain = 0 /\ worker = 0 /\ receiver = 0
  /\ levelled = 0
NoMix == ifb = 0 /\ tx = 0 /\ priority = 0 /\ calls = 0 /\ emergency = 0 /\ heard = 0
NoCodec ==
  /\ desired = 0 /\ session = 0 /\ pushes = 0 /\ client = 0 /\ encoder = 0 /\ packetsUp = 0
  /\ packetsDown = 0 /\ mixed = 0 /\ output = 0 /\ playback = 0 /\ failed = 0 /\ codecChanges = 0
NoPlayback ==
  /\ buffer = 0 /\ channels = 0 /\ started = 0 /\ cut = 0 /\ current = 0 /\ coming = 0
  /\ arrived = 0 /\ linked = 0 /\ events = 0 /\ cues = 0 /\ pageStatus = 0 /\ reconnecting = 0
  /\ linkChanges = 0
NoLocal ==
  /\ serverSession = 0 /\ local = 0 /\ localLink = 0 /\ controlQueue = 0 /\ wire = 0
  /\ localDown = 0 /\ waiting = 0 /\ toggling = 0 /\ ended = 0 /\ copyStale = 0 /\ localBounds = 0
NoPanel ==
  /\ keysDown = 0 /\ panelConfig = 0 /\ reply = 0 /\ flag = 0 /\ toSend = 0 /\ panelLink = 0
  /\ panelUp = 0 /\ panelDown = 0 /\ conn = 0 /\ registry = 0 /\ panelServer = 0 /\ lost = 0 /\ refused = 0
  /\ panelBounds = 0
NoShell == shell = 0 /\ phase = 0 /\ heldRun = 0 /\ run = 0 /\ caller = 0
NoCapture ==
  /\ captureConfig = 0 /\ settings = 0 /\ storing = 0 /\ at = 0 /\ captured = 0
  /\ offerDropped = 0 /\ gateHeard = 0 /\ speechGate = 0 /\ sendQueue = 0 /\ sender = 0
  /\ drops = 0 /\ unreported = 0 /\ health = 0 /\ told = 0

PartsInit ==
  /\ part \in {"downloads", "transcription", "processing", "mix", "codec", "playback", "local",
               "panel", "shell", "capture"}
  /\ Init
  /\ IF part = "transcription" THEN T!Init ELSE NoTranscription
  /\ IF part = "processing" THEN P!Init ELSE NoProcessing
  /\ IF part = "mix" THEN X!Init ELSE NoMix
  /\ IF part = "codec" THEN C!Init ELSE NoCodec
  /\ IF part = "playback" THEN B!Init ELSE NoPlayback
  /\ IF part = "local" THEN L!Init ELSE NoLocal
  /\ IF part = "panel" THEN E!Init ELSE NoPanel
  /\ IF part = "shell" THEN S!Init ELSE NoShell
  /\ IF part = "capture" THEN K!Init ELSE NoCapture

PartsNext ==
  /\ UNCHANGED part
  /\ \/ /\ part = "downloads" /\ Next
        /\ UNCHANGED <<transcriptionVars, processingVars, mixVars, codecVars, playbackVars,
                       localVars, panelVars, shellVars, captureVars>>
     \/ /\ part = "transcription" /\ T!Next
        /\ UNCHANGED <<vars, processingVars, mixVars, codecVars, playbackVars, localVars,
                       panelVars, shellVars, captureVars>>
     \/ /\ part = "processing" /\ P!Next
        /\ UNCHANGED <<vars, transcriptionVars, mixVars, codecVars, playbackVars, localVars,
                       panelVars, shellVars, captureVars>>
     \/ /\ part = "mix" /\ X!Next
        /\ UNCHANGED <<vars, transcriptionVars, processingVars, codecVars, playbackVars,
                       localVars, panelVars, shellVars, captureVars>>
     \/ /\ part = "codec" /\ C!Next
        /\ UNCHANGED <<vars, transcriptionVars, processingVars, mixVars, playbackVars,
                       localVars, panelVars, shellVars, captureVars>>
     \/ /\ part = "playback" /\ B!Next
        /\ UNCHANGED <<vars, transcriptionVars, processingVars, mixVars, codecVars, localVars,
                       panelVars, shellVars, captureVars>>
     \/ /\ part = "local" /\ L!Next
        /\ UNCHANGED <<vars, transcriptionVars, processingVars, mixVars, codecVars,
                       playbackVars, panelVars, shellVars, captureVars>>
     \/ /\ part = "panel" /\ E!Next
        /\ UNCHANGED <<vars, transcriptionVars, processingVars, mixVars, codecVars,
                       playbackVars, localVars, shellVars, captureVars>>
     \/ /\ part = "shell" /\ S!Next
        /\ UNCHANGED <<vars, transcriptionVars, processingVars, mixVars, codecVars,
                       playbackVars, localVars, panelVars, captureVars>>
     \/ /\ part = "capture" /\ K!Next
        /\ UNCHANGED <<vars, transcriptionVars, processingVars, mixVars, codecVars,
                       playbackVars, localVars, panelVars, shellVars>>

Parts == PartsInit /\ [][PartsNext]_partVars

-----------------------------------------------------------------------------
(* One worker per user, its jobs in the order they were spoken, each of them done, dropped,
   waiting or being worked on and counted once, and nothing left in the chunkers by a stop. *)
TranscriptionRight == part = "transcription" => T!TypeOK /\ T!OneWorker /\ T!JobsAccounted /\ T!TranscriptInOrder /\ T!NothingLeftBehind

(* A frame that comes out of an engine is the one that went in, or nothing; and the gain
   of the normalizer takes no frame over full scale. *)
ProcessingRight == part = "processing" => P!TypeOK /\ P!OwnSamples /\ P!GainSafe

(* Who an emergency is for hears it and nothing that it mutes, an interrupt is heard over
   the programme, and priority over who has none. *)
MixRight == part = "mix" => X!TypeOK /\ X!EmergencyAlone /\ X!InterruptHeard /\ X!PriorityHeard

(* No frame of a wrong length reaches the mixer or the loudspeaker, frames play once both
   ends agree on a codec, and the limiter turns both sides of a stereo frame down together. *)
CodecRight == part = "codec" => C!TypeOK /\ C!FramesFit /\ C!AgreedFramesPlay /\ C!LimitedTogether

(* The device plays the frames in order and both sides of a stereo frame together. *)
PlayedInOrder == part = "playback" => B!TypeOK /\ B!PlayedInOrder

(* Once everything has arrived, a client has the session as the server has it, and a panel
   what it shows and does of it. *)
CopyAgrees ==
  /\ part = "local" => L!TypeOK /\ L!CopyAgrees
  /\ part = "panel" => E!TypeOK /\ E!PanelAgrees

(* What a client does to its copy for a command is what the server makes of it. *)
GuessesRight == [][part = "local" => L!GuessRight]_partVars

(* A client that nobody can reach has been asked to end, and the run that is held is the
   one that the window shows. *)
ShellRight == part = "shell" => S!TypeOK /\ S!AbandonedAreAsked /\ S!HeldIsShown

(* The gate is open only after speech and closes with it, and the total of dropped frames
   covers the counts that were reported. *)
CaptureRight ==
  part = "capture" => K!TypeOK /\ K!GateFollowsSpeech /\ K!CountedOnce /\ K!TotalCoversCounts
=============================================================================
