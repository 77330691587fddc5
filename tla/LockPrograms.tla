---------------------------- MODULE LockPrograms ----------------------------
(***************************************************************************)
(* What each handler of the server asks for: the locks of ServerState, in     *)
(* order, each with the locks that are still kept while it is asked for.      *)
(*                                                                         *)
(* The optional requests of a handler (a push that finds its client gone, an *)
(* early return) are all asked for here: that can only add waiting.           *)
(***************************************************************************)
EXTENDS Integers, Sequences

(* The rank of each lock: the order in which the handlers nest them. *)
Rank == [
  admin_state |-> 0, sessions |-> 1, control_clients |-> 2, sources |-> 3, virtual_sources |-> 4,
  health |-> 5, alerts |-> 6, emergency |-> 7, recording |-> 8, transcription |-> 9,
  model_downloads |-> 10, deepfilternet_model_dir |-> 11, deepfilternet_coreml_model_dir |-> 12,
  output_seq |-> 13, debug_audio_tx |-> 14]

Locks == DOMAIN Rank
Modes == {"read", "write"}
Request == [keep : SUBSET Locks, lock : Locks, mode : Modes]

ReadWith(keep, lock) == <<[keep |-> keep, lock |-> lock, mode |-> "read"]>>
WriteWith(keep, lock) == <<[keep |-> keep, lock |-> lock, mode |-> "write"]>>
Read(lock) == ReadWith({}, lock)
Write(lock) == WriteWith({}, lock)
(* prog, run by somebody who keeps some locks all the while *)
Keeping(keep, prog) == [i \in DOMAIN prog |-> [prog[i] EXCEPT !.keep = @ \cup keep]]

-----------------------------------------------------------------------------
(* What handlers are made of. *)

DesiredClient == Read("admin_state")
DesiredBaselineForUser == DesiredClient \o Read("sessions")
ConfigEventSnapshot ==
  Read("emergency") \o Read("sessions") \o ReadWith({"sessions"}, "alerts")
PushConfigUpdate == ConfigEventSnapshot \o Read("control_clients") \o Write("control_clients")
ChannelRostersForUser ==
  Read("admin_state") \o Read("sessions") \o ReadWith({"sessions"}, "health")
ResolveAlertRecipients == Read("sessions") \o ReadWith({"sessions"}, "control_clients")
CreateRuntimeAlert == Read("sessions") \o WriteWith({"sessions"}, "alerts")
CodecAvailableForUser == Read("sessions") \o ReadWith({"sessions"}, "control_clients")
ApplySendAlertEvent == ResolveAlertRecipients \o CreateRuntimeAlert \o PushConfigUpdate
ApplyDesiredClient == Write("admin_state") \o Write("sessions") \o PushConfigUpdate
RecordingStatusSnapshot == Read("recording") \o ReadWith({"recording"}, "transcription")
ModelCatalogSnapshot ==
  Read("model_downloads") \o Read("transcription") \o Read("deepfilternet_model_dir")
    \o Read("deepfilternet_coreml_model_dir")

\* fault: the queues before the users they belong to
StatusUnordered ==
  Read("emergency") \o Read("sources")
    \o ReadWith({"sources"}, "sessions") \o ReadWith({"sources", "sessions"}, "health")
StatusSnapshot ==
  Read("emergency") \o Read("sessions") \o ReadWith({"sessions"}, "sources")
    \o ReadWith({"sessions", "sources"}, "health")
    \o ReadWith({"sessions", "sources", "health"}, "alerts")
    \o ReadWith({"sessions", "sources", "health", "alerts"}, "recording")
    \o ReadWith({"sessions", "sources", "health", "alerts", "recording"}, "transcription")

(* The page keeps three locks while it looks at everything else, the models in
   the file system among them. *)
AdminStateSnapshot ==
  StatusSnapshot \o Read("admin_state") \o Read("sessions") \o ReadWith({"sessions"}, "alerts")
    \o ReadWith({"sessions", "alerts"}, "emergency")
    \o Keeping({"sessions", "alerts", "emergency"},
         RecordingStatusSnapshot \o Read("transcription") \o Read("deepfilternet_model_dir")
           \o ModelCatalogSnapshot)

BuildMixes ==
  Read("emergency") \o Write("sessions") \o WriteWith({"sessions"}, "sources")
    \o WriteWith({"sessions", "sources"}, "virtual_sources")

AudioUserIsEnrolled == Read("sessions") \o Read("admin_state")
RegisterAudioEndpoint == DesiredClient \o Write("sessions")
ProcessingConfigForUser == Read("sessions")
RecordIngestFrame == Read("sessions") \o Write("recording")
TranscribeIngestFrame == Write("transcription")
StoreSourceFrame == Write("sources") \o Write("health")

-----------------------------------------------------------------------------
(* The handlers. *)

Hello ==
  Write("admin_state") \o DesiredClient \o Write("sessions") \o Write("admin_state")
    \o Write("control_clients") \o ConfigEventSnapshot
Config == DesiredBaselineForUser \o CodecAvailableForUser \o ApplyDesiredClient
Talk == Write("sessions") \o PushConfigUpdate
Emergency == Read("sessions") \o Read("sessions") \o Write("emergency") \o PushConfigUpdate
Button ==
  DesiredBaselineForUser \o Write("sessions") \o Write("sessions") \o ApplySendAlertEvent
    \o Read("admin_state") \o ApplyDesiredClient
AckAlert == Write("alerts") \o PushConfigUpdate
DirectCall == Read("sessions") \o Write("sessions") \o PushConfigUpdate
CaptureHealth == Write("sessions") \o Write("health")
CleanUp ==
  Write("control_clients") \o Write("sessions") \o PushConfigUpdate \o Write("emergency")
    \o Read("sessions") \o PushConfigUpdate

AudioPacket ==
  AudioUserIsEnrolled \o Read("sessions") \o DesiredClient \o Read("debug_audio_tx")
    \o RegisterAudioEndpoint \o Write("sessions") \o ProcessingConfigForUser \o Write("health")
    \o RecordIngestFrame \o TranscribeIngestFrame \o StoreSourceFrame
MixTick ==
  BuildMixes \o Write("output_seq") \o Read("debug_audio_tx") \o Write("sessions") \o Write("health")
PushPresenceUpdates ==
  Read("control_clients") \o ChannelRostersForUser \o Read("sessions") \o Read("control_clients")
    \o Write("control_clients")

ApplyAnnouncementEvent ==
  ResolveAlertRecipients \o CreateRuntimeAlert \o Write("virtual_sources") \o PushConfigUpdate
UpdateDeviceEnrollment ==
  Write("admin_state") \o DesiredClient \o Write("sessions") \o PushConfigUpdate
StartRecording == Read("recording") \o Write("recording") \o RecordingStatusSnapshot
StopRecording == Write("recording") \o RecordingStatusSnapshot
TranscribeRecording ==
  Read("transcription") \o Read("transcription") \o Write("transcription") \o Read("sessions")
    \o Write("recording")
StartModelDownload ==
  Read("transcription") \o Read("deepfilternet_model_dir") \o Read("deepfilternet_coreml_model_dir")
    \o Write("model_downloads")

(* The answer to the admin is looked up in the list of alerts, and then its users. *)
AdminSendAlert ==
  ApplySendAlertEvent \o Read("alerts") \o ReadWith({"alerts"}, "sessions")

Program == [
  hello |-> Hello, config |-> Config, talk |-> Talk, emergency |-> Emergency, button |-> Button,
  send_alert |-> ApplySendAlertEvent, ack_alert |-> AckAlert, direct_call |-> DirectCall,
  capture_health |-> CaptureHealth, clean_up |-> CleanUp, audio_packet |-> AudioPacket,
  mix_tick |-> MixTick, presence |-> PushPresenceUpdates, status |-> StatusSnapshot,
  admin_state |-> AdminStateSnapshot, announcement |-> ApplyAnnouncementEvent,
  device |-> UpdateDeviceEnrollment, start_recording |-> StartRecording,
  stop_recording |-> StopRecording, transcribe_recording |-> TranscribeRecording,
  download |-> StartModelDownload, admin_send_alert |-> AdminSendAlert]

(* Whoever asks for a lock keeps only locks of a lower rank. *)
Ordered(handlers) ==
  \A h \in handlers : \A i \in DOMAIN Program[h] :
    \A l \in Program[h][i].keep : Rank[l] < Rank[Program[h][i].lock]
=============================================================================
