-------------------------- MODULE MCMediaAndClients --------------------------
(* MediaAndClients for TLC.  Two downloads at most of
   three models, two talkers that share a limit on jobs, one
   talker's frames go through engines that are late, a listener with an IFB block hears
   two talkers and an emergency, frames travel both ways while the codec changes, a
   device plays frames and cues, an operator and an admin change one session, a panel
   loses its Wi-Fi and its connection with keys down, two
   commands start and stop a client, and a callback captures while settings change. *)
EXTENDS MediaAndClients, TLC

CONSTANTS u1, u2, u3, c1, c2

TwoAndOne == (u1 :> 2 @@ u2 :> 1)

(* Processing: a gate before the neural engine; a normalizer that boosts more than it
   attenuates; and a pipeline of all engines that falls back, with a model that is
   missing. *)
Engine(mode, gate, pipeline, file, normalize, boost, attenuation) ==
  [mode |-> mode, raw |-> FALSE, isolation |-> FALSE, gate |-> gate, fallback |-> TRUE,
   model |-> file, pipeline |-> pipeline, normalize |-> normalize, target |-> -1,
   boost |-> boost, attenuation |-> attenuation]
SomeEngines == {
  Engine("enabled", TRUE, <<"deepfilternet">>, "a", FALSE, 0, 0),
  Engine("auto", FALSE, <<"deepfilternet">>, "b", TRUE, 2, 1),
  Engine("auto", TRUE, <<"webrtc", "rnnoise", "builtin">>, "none", TRUE, 1, 0)}

(* MixRules: u1 hears both channels and has an IFB block, u2 may have priority. *)
ListensTo == [u \in {u1, u2, u3} |-> IF u = u1 THEN {c1, c2} ELSE {c1}]
EmergenciesOfU2 == {[source |-> u2, to |-> {u1}, mute |-> m] : m \in BOOLEAN}

(* CodecPath: two sample rates up and down, stereo where the codec has it and where it
   has not, a codec that the client lacks; and every way in which a datagram is bad. *)
Codec(codec, profile, stereo) == [codec |-> codec, profile |-> profile, stereo |-> stereo]
SomeCodecs == {
  Codec("pcm48", "music_48", TRUE), Codec("pcm48", "speech_24_standard", FALSE),
  Codec("opus", "music_48", TRUE), Codec("opus", "speech_16_low", FALSE),
  Codec("pcm24", "speech_24_standard", TRUE)}
Datagram(magic, version, target, codec, bytes) ==
  [magic |-> magic, version |-> version, target |-> target, codec |-> codec,
   declared |-> 320, bytes |-> bytes, channels |-> 1, config |-> NoConfig]
StrayDatagrams == {
  Datagram("xx", 2, "channel", "pcm16", 320), Datagram("IC", 1, "channel", "pcm16", 320),
  Datagram("IC", 2, "other", "pcm16", 320), Datagram("IC", 2, "channel", "other", 320),
  Datagram("IC", 2, "channel", "pcm16", 319)}
MixedLevels == {<<1900, 760>>, <<0, 1000>>, <<400, 400>>}

(* Playback: cues that end within the buffer, and one that does not. *)
ShortCues == [Connected |-> 4, Disconnected |-> 5, Reconnecting |-> 3]

(* LocalApi: a key that is held and one that latches; an admin that mutes the client or
   takes a permission away. *)
TwoButtons == {
  [id |-> "push", mode |-> "momentary", channels |-> {2}, users |-> {}],
  [id |-> "latch", mode |-> "latching", channels |-> {}, users |-> {"p"}]}
Permissions == {"local_api", "channels", "codec", "talk_mode", "priority", "buttons"}
AdminPatches == {
  [mode |-> "muted", allow |-> Permissions \ {"talk_mode", "buttons"}],
  [allow |-> Permissions \ {"priority"}, tx |-> {3}, caller |-> "p", alerts |-> {"a"}]}

(* Esp32Panel: the admin takes the button that latches away, and gives it back. *)
PanelLists == {{"l"}, {}}

(* Capture: a profile that opens the gate at once, and the strictest one with processing
   off, so that the callback also sees the strictest one with the gate on, which nobody
   made.  A shout is speech to all profiles; a hum is quiet to all but the first, whose gate
   it leaves as it is. *)
Settings(profile, mode) == [profile |-> profile, mode |-> mode, vad |-> TRUE]
SomeSettings == {Settings("broadcast", "auto"), Settings("isolation", "disabled")}
Found(broadcast, voice, isolation) ==
  [raw |-> "speech", broadcast |-> broadcast, voice |-> voice, isolation |-> isolation]
SomeFrames == {
  Found("speech", "speech", "speech"), Found("noise", "quiet", "quiet")}

ASSUME ModelAssumption
ASSUME T!TranscriptionAssumption
ASSUME P!ProcessingAssumption
ASSUME X!MixAssumption
ASSUME B!CapacityAssumption
ASSUME L!LocalApiAssumption
ASSUME C!CodecAssumption
ASSUME E!PanelAssumption
ASSUME K!CaptureAssumption
=============================================================================
