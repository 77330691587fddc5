------------------------------ MODULE ServerParts ------------------------------
(* The parts of the server that do not share state in the models, side by side: a
   behaviour picks one of them and is a behaviour of its module, while the variables of the
   others are 0.  The locks are the module that this one extends; the others are instances,
   with constants and variables of their own where two modules use one name. *)
EXTENDS LockOrder

CONSTANTS
  Server, None,
  \* Alerts
  AlertClients, AlertTasks, AlertSenders, Announcements, AlertChannels, Listens, Heard, KeepInactive,
  Stride, Count, Frames, MaxAlerts, MaxVoices,
  \* Recording
  RecordedUsers, Admins, Engine, KeepRecent, KeepSegments, MaxClock, MaxStarts, MaxFrames,
  MaxSegments,
  \* Workflow
  Editable, EditableTemplates, EditableChannels, Requested, MaxRequests, MaxLevel,
  \* ControlSession
  Callers, CallConns, ButtonIds, NoUser, NoButton, ConfigSets, MAX_DIRECT_CALL_HISTORY, CallPairs,
  \* EmergencyOverride
  EmergencyUsers, EmergencyConns, Requests, Staged, EmergencyTargets, NoConn,
  \* Enrollment
  Uids, MaxUser, EnrollConns, Policy, AdminOps

VARIABLES
  part,   \* the part of the server that this behaviour is about
  alerts, nextId, nextVoice, voices, listening, alertsShown, alertTask, mute,
  clock, disk, starting, active, recent, jobs, segments, nextSegment, engineError,
  channels, presets, templates, clients, running, pressed, requests,
  talkConn, talk, log,
  emergency, conn, live, control, task, shown, missed,
  devices, desired, sessionUid, enrolling, admitted, offered

alertVars == <<alerts, nextId, nextVoice, voices, listening, alertsShown, alertTask, mute>>
recordingVars == <<clock, disk, starting, active, recent, jobs, segments, nextSegment, engineError>>
workflowVars == <<channels, presets, templates, clients, running, pressed, requests>>
callVars == <<talkConn, talk, log>>
emergencyVars == <<emergency, conn, live, control, task, shown, missed>>
enrollmentVars == <<devices, desired, sessionUid, enrolling, admitted, offered>>
partVars ==
  <<part, vars, alertVars, recordingVars, workflowVars, callVars, emergencyVars, enrollmentVars>>

A == INSTANCE Alerts WITH
  Users <- AlertClients, Tasks <- AlertTasks, Senders <- AlertSenders, Channels <- AlertChannels,
  control <- listening, shown <- alertsShown, task <- alertTask
R == INSTANCE Recording WITH
  Users <- RecordedUsers, nextId <- nextSegment, error <- engineError
W == INSTANCE Workflow WITH live <- running
C == INSTANCE ControlSession WITH
  Users <- Callers, Conns <- CallConns, conn <- talkConn, session <- talk
E == INSTANCE EmergencyOverride WITH
  Users <- EmergencyUsers, Conns <- EmergencyConns, Targets <- EmergencyTargets
N == INSTANCE Enrollment WITH Conns <- EnrollConns, session <- sessionUid, conn <- enrolling

-----------------------------------------------------------------------------
NoAlerts ==
  /\ alerts = 0 /\ nextId = 0 /\ nextVoice = 0 /\ voices = 0 /\ listening = 0 /\ alertsShown = 0
  /\ alertTask = 0 /\ mute = 0
NoRecording ==
  /\ clock = 0 /\ disk = 0 /\ starting = 0 /\ active = 0 /\ recent = 0 /\ jobs = 0 /\ segments = 0
  /\ nextSegment = 0 /\ engineError = 0
NoWorkflow ==
  /\ channels = 0 /\ presets = 0 /\ templates = 0 /\ clients = 0 /\ running = 0 /\ pressed = 0
  /\ requests = 0
NoCalls == talkConn = 0 /\ talk = 0 /\ log = 0
NoEmergencies ==
  emergency = 0 /\ conn = 0 /\ live = 0 /\ control = 0 /\ task = 0 /\ shown = 0 /\ missed = 0
NoEnrollment ==
  devices = 0 /\ desired = 0 /\ sessionUid = 0 /\ enrolling = 0 /\ admitted = 0 /\ offered = 0

PartsInit ==
  /\ part \in {"locks", "alerts", "recording", "workflow", "calls", "emergency", "enrollment"}
  /\ Init
  /\ IF part = "alerts" THEN A!Init ELSE NoAlerts
  /\ IF part = "recording" THEN R!Init ELSE NoRecording
  /\ IF part = "workflow" THEN W!Init ELSE NoWorkflow
  /\ IF part = "calls" THEN C!Init ELSE NoCalls
  /\ IF part = "emergency" THEN E!Init ELSE NoEmergencies
  /\ IF part = "enrollment" THEN N!Init ELSE NoEnrollment

PartsNext ==
  /\ UNCHANGED part
  /\ \/ /\ part = "locks" /\ Next
        /\ UNCHANGED <<alertVars, recordingVars, workflowVars, callVars, emergencyVars, enrollmentVars>>
     \/ /\ part = "alerts" /\ A!Next
        /\ UNCHANGED <<vars, recordingVars, workflowVars, callVars, emergencyVars, enrollmentVars>>
     \/ /\ part = "recording" /\ R!Next
        /\ UNCHANGED <<vars, alertVars, workflowVars, callVars, emergencyVars, enrollmentVars>>
     \/ /\ part = "workflow" /\ W!Next
        /\ UNCHANGED <<vars, alertVars, recordingVars, callVars, emergencyVars, enrollmentVars>>
     \/ /\ part = "calls" /\ C!Next
        /\ UNCHANGED <<vars, alertVars, recordingVars, workflowVars, emergencyVars, enrollmentVars>>
     \/ /\ part = "emergency" /\ E!Next
        /\ UNCHANGED <<vars, alertVars, recordingVars, workflowVars, callVars, enrollmentVars>>
     \/ /\ part = "enrollment" /\ N!Next
        /\ UNCHANGED <<vars, alertVars, recordingVars, workflowVars, callVars, emergencyVars>>

Parts == PartsInit /\ [][PartsNext]_partVars

-----------------------------------------------------------------------------
(* Who can answer an alert, or is the sender of one, sees it as the server has it, and
   sees nothing that the server has forgotten. *)
AlertsRight == part = "alerts" => A!TypeOK /\ A!AlertShown /\ A!SenderInformed

(* Every recorded frame has its line of metadata, and every client of a session its file,
   unless an error was reported or two starts shared a directory. *)
RecordingAgrees == part = "recording" => R!TypeOK /\ R!RecordingAgrees

(* Sessions run on what is desired, by whatever way it came; a restart loads the show that
   was running; and a client without warnings has no route that feeds back and an IFB block
   whose programme can be ducked. *)
WorkflowRight == part = "workflow" => W!TypeOK /\ W!SessionRunsDesired /\ W!RestartKeepsShow /\ W!QuietMeansSound

(* Caller and target agree on whether a call is active, whichever ways begin and end it;
   the target can call back the newest caller, and every active call is in its history. *)
HistoriesAgree == part = "calls" => C!TypeOK /\ C!HistoriesAgree /\ C!LastCallerIsNewest /\ C!ActiveCallHasEntry

(* An emergency that a client started has a connection that can still clear it, whichever
   connections replace each other or close. *)
NoOrphanEmergency == part = "emergency" => E!TypeOK /\ E!NoOrphanEmergency

(* Whatever overlaps, every registered client displays the emergency that is in force,
   and no other, that was greeted or told since it might have missed one. *)
EmergencyReachesPresent == part = "emergency" => E!EmergencyReachesPresent

(* No desired client is bound to a device that the server does not know, and no device is
   enrolled but by the admin's word or a client that was left for any device. *)
EnrollmentRight == part = "enrollment" => N!TypeOK /\ N!BindingHasDevice /\ N!EnrolledByOffer

(* A hello does not change the alias of a device that the server knows. *)
KnownUidKeepsAlias == [][part = "enrollment" => N!HelloKeepsAlias]_partVars
=============================================================================
