------------------------------ MODULE CodecPath ------------------------------
(***************************************************************************)
(* What becomes of a frame between the client's microphone, the server's mixer   *)
(* and the client's speaker while the codec, the Opus profile and stereo are      *)
(* being changed: the server encodes on what its session has, the client reads    *)
(* on what it was last told, and only the codec travels with a packet.  Frames    *)
(* are counted in samples, payloads in bytes; what a sample is, only its level.   *)
(***************************************************************************)
EXTENDS Integers, Sequences, FiniteSetsExt

CONSTANTS
  Configs,     \* what the admin may ask for: [codec, profile, stereo]
  Supported,   \* codecs that the client supports
  OpusSizes,   \* bytes of an encoded Opus frame
  Strays,      \* datagrams that no peer sends
  Mixes,       \* levels of a mixed frame, left and right, in thousandths
  MaxChanges,  \* bound: changes of the configuration
  MaxFlight,   \* bound: packets on the way, in each direction
  None         \* no configuration, no decoder

-----------------------------------------------------------------------------
(* Rates and lengths (common). *)

Codecs == {"pcm16", "pcm24", "pcm48", "opus", "adpcm"}
Pcm == {"pcm16", "pcm24", "pcm48"}
Profiles == {"speech_16_low", "speech_24_standard", "speech_48_high", "music_48"}
MixRate == 48000

ProfileRate(profile) ==
  CASE profile = "speech_16_low" -> 16000 [] profile = "speech_24_standard" -> 24000
    [] OTHER -> 48000
Rate(codec) ==
  CASE codec \in {"pcm16", "adpcm"} -> 16000 [] codec = "pcm24" -> 24000
    [] codec = "pcm48" -> 48000 [] codec = "opus" -> ProfileRate("speech_24_standard")
FrameLen(rate) == (rate * 10) \div 1000
MixLen == FrameLen(MixRate)
Stereo(c) == c.stereo /\ c.codec \in {"pcm48", "opus"}
MaxPayload == 2 * 2 * MixLen

(* FrameResampler::process, PcmFrameResampler::process: a frame of the length that
   it was made for, or an error; resample_linear takes any. *)
Resampled(n, from, to) == IF from = to THEN n ELSE IF n = FrameLen(from) THEN FrameLen(to) ELSE None

-----------------------------------------------------------------------------
(* Packets.  samples is what an Opus payload stands for: 10 ms, mono or stereo. *)

Packet(target, codec, bytes, channels, config) ==
  [magic |-> "IC", version |-> 2, target |-> target, codec |-> codec, declared |-> bytes, bytes |-> bytes,
   channels |-> channels, config |-> config]

(* AudioPacket::decode *)
Readable(d) ==
  /\ d.magic = "IC" /\ d.version = 2
  /\ d.target \in {"channel", "direct", "mixed"}
  /\ d.codec \in Codecs
  /\ d.declared = d.bytes
IsRegistration(d) == d.target = "mixed" /\ d.bytes = 0

(* AudioEncoder, of the client: mono, at any codec but ADPCM *)
EncodedUp(enc, size) ==
  CASE enc.codec \in Pcm -> 2 * Resampled(MixLen, MixRate, Rate(enc.codec))
    [] enc.codec = "opus" -> size
    [] OTHER -> None

(* AudioDecoderBank, of the server: the codec is the packet's, the profile the
   session's; mono. *)
\* fault: the payload is taken as the session's codec
DecodedAtServerAs(d, session) ==
  IF session.codec \in Pcm /\ d.bytes = 2 * FrameLen(Rate(session.codec)) THEN MixLen
  ELSE IF session.codec = "opus" THEN MixLen ELSE None
DecodedAtServer(d, session) ==
  CASE d.codec \in Pcm ->
         IF d.bytes = 2 * FrameLen(Rate(d.codec))
         THEN Resampled(d.bytes \div 2, Rate(d.codec), MixRate) ELSE None
    [] d.codec = "opus" ->
         IF d.bytes = 0 THEN None
         ELSE LET n == FrameLen(ProfileRate(session.profile)) IN (n * MixRate) \div ProfileRate(session.profile)
    [] OTHER -> None

(* AudioEncoderBank, of the server *)
EncodedDown(codec, samples, channels, size) ==
  IF (channels = 2 /\ codec \notin {"pcm48", "opus"}) \/ samples # MixLen * channels THEN None ELSE
  CASE codec = "pcm48" /\ channels = 2 -> 2 * samples
    [] codec \in Pcm /\ channels = 1 -> 2 * Resampled(samples, MixRate, Rate(codec))
    [] codec = "opus" -> size
    [] OTHER -> None

(* run_until_shutdown_with_local_api: the client takes for stereo what its own
   configuration and the packet's codec allow. *)
ReceiveChannels(d, client) == IF Stereo(client) /\ d.codec \in {"pcm48", "opus"} THEN 2 ELSE 1

(* AudioDecoder::decode_with_channels, of the client.  An Opus decoder makes what it is asked for. *)
DecodedAtClient(d, channels) ==
  CASE d.codec \in Pcm ->
         IF (channels = 2 /\ d.codec # "pcm48") \/ d.bytes # 2 * channels * FrameLen(Rate(d.codec)) THEN None
         ELSE IF channels = 2 THEN d.bytes \div 2
         ELSE Resampled(d.bytes \div 2, Rate(d.codec), MixRate)
    [] d.codec = "opus" -> IF d.bytes = 0 THEN None ELSE MixLen * channels
    [] OTHER -> None

(* A configuration has a codec, a profile and stereo or not; nobody has ADPCM
   (codec_supported); an encoded frame is not empty and fits a packet; a stray datagram cannot be read. *)
ConfigType == [codec : Codecs, profile : Profiles, stereo : BOOLEAN]
CodecAssumption ==
  /\ Configs \subseteq ConfigType /\ Supported \subseteq Codecs \ {"adpcm"}
  /\ OpusSizes \subseteq 1..MaxPayload /\ Mixes \subseteq Nat \X Nat
  /\ \A d \in Strays : ~Readable(d)
  /\ None \notin Nat /\ None \notin Configs
  /\ {MaxChanges, MaxFlight} \subseteq Nat

-----------------------------------------------------------------------------
(* Mixing: the limiter (limit_frame, limit_stereo_frame) and pan_gains *)

Threshold == 950   \* LIMITER_THRESHOLD, 0.95
Panned(level, pan) ==   \* pan in percent, from -100 to 100
  IF pan < 0 THEN <<level, (level * (100 + pan)) \div 100>> ELSE <<(level * (100 - pan)) \div 100, level>>

Limited(mix) ==
  LET peak == Max({mix[1], mix[2]})
  IN IF peak > Threshold THEN [i \in 1..2 |-> (mix[i] * Threshold) \div peak] ELSE mix

-----------------------------------------------------------------------------
VARIABLES
  desired,   \* what is configured, or None
  session,   \* what the server's session runs on
  pushes,    \* configurations on the way to the client
  client,    \* what the client has
  encoder,   \* what the client's encoder was made for
  up,        \* packets on the way to the server
  down,      \* packets on the way to the client
  mixed,     \* samples of the frame that was last given to the mixer
  output,    \* levels of the last mixed frame, before and after the limiter
  playback,  \* the client's playback buffer: its layout, and samples of the last frame
  failed,    \* frames that the server could not encode
  changes    \* changes of the configuration so far

vars == <<desired, session, pushes, client, encoder, up, down, mixed, output, playback, failed, changes>>

Startup == [codec |-> "pcm16", profile |-> "speech_24_standard", stereo |-> FALSE]

Init ==
  /\ desired = None /\ session = Startup /\ pushes = <<>>
  /\ \E codec \in Codecs \ {"adpcm"} : client = [Startup EXCEPT !.codec = codec] /\ encoder = client
  /\ up = <<>> /\ down = <<>> /\ mixed = MixLen /\ output = [was |-> <<0, 0>>, is |-> <<0, 0>>]
  /\ playback = [channels |-> 1, samples |-> 0] /\ failed = 0 /\ changes = 0

(* apply_desired_to_session_fields: a codec that the client does not have is replaced *)
OnSession(c) == [c EXCEPT !.codec = IF c.codec \in Supported THEN c.codec ELSE "pcm16"]

Configure(c) ==
  /\ changes < MaxChanges /\ changes' = changes + 1
  /\ desired' = c /\ session' = OnSession(c) /\ pushes' = Append(pushes, c)
  /\ UNCHANGED <<client, encoder, up, down, mixed, output, playback, failed>>

ReadConfig ==
  /\ pushes # <<>> /\ client' = Head(pushes) /\ pushes' = Tail(pushes)
  /\ UNCHANGED <<desired, session, encoder, up, down, mixed, output, playback, failed, changes>>

(* the registration task, every two seconds *)
Register ==
  /\ Len(up) < MaxFlight
  /\ up' = Append(up, Packet("mixed", client.codec, 0, 1, client))
  /\ UNCHANGED <<desired, session, pushes, client, encoder, down, mixed, output, playback, failed, changes>>

(* the send task: a changed codec or profile takes a new encoder *)
Capture(size) ==
  /\ Len(up) < MaxFlight
  /\ encoder' = client
  /\ LET bytes == EncodedUp(encoder', size)
     IN up' = IF bytes = None THEN up ELSE Append(up, Packet("channel", client.codec, bytes, 1, client))
  /\ UNCHANGED <<desired, session, pushes, client, down, mixed, output, playback, failed, changes>>

Stray(d) ==
  /\ Len(up) < MaxFlight /\ up' = Append(up, d)
  /\ UNCHANGED <<desired, session, pushes, client, encoder, down, mixed, output, playback, failed, changes>>

(* run_audio_receiver *)
Receive ==
  /\ up # <<>> /\ up' = Tail(up)
  /\ LET d == Head(up)
         samples == DecodedAtServer(d, session)
     IN IF ~Readable(d) THEN UNCHANGED <<session, mixed>>
        ELSE IF IsRegistration(d)
        THEN /\ session' = IF desired = None THEN [session EXCEPT !.codec = d.codec] ELSE OnSession(desired)
             /\ UNCHANGED mixed
        ELSE /\ mixed' = IF samples = None THEN mixed ELSE samples
             /\ UNCHANGED session
  /\ UNCHANGED <<desired, pushes, client, encoder, down, output, playback, failed, changes>>

(* run_audio_mixer *)
Mix(mix, size) ==
  /\ Len(down) < MaxFlight
  /\ LET channels == IF Stereo(session) THEN 2 ELSE 1
         levels == IF channels = 2 THEN mix ELSE <<mix[1], mix[1]>>
         bytes == EncodedDown(session.codec, MixLen * channels, channels, size)
     IN /\ output' = [was |-> levels, is |-> Limited(levels)]
        /\ IF bytes = None \/ bytes > MaxPayload
           THEN failed' = 1 /\ UNCHANGED down
           ELSE /\ down' = Append(down, Packet("mixed", session.codec, bytes, channels, session))
                /\ UNCHANGED failed
  /\ UNCHANGED <<desired, session, pushes, client, encoder, up, mixed, playback, changes>>

(* the receive task *)
Hear ==
  /\ down # <<>> /\ down' = Tail(down)
  /\ LET d == Head(down)
         channels == ReceiveChannels(d, client)
         samples == DecodedAtClient(d, channels)
     IN playback' = IF samples = None THEN playback
                    ELSE [channels |-> channels, samples |-> samples]
  /\ UNCHANGED <<desired, session, pushes, client, encoder, up, mixed, output, failed, changes>>

Lose ==
  /\ \/ up # <<>> /\ up' = Tail(up) /\ UNCHANGED down
     \/ down # <<>> /\ down' = Tail(down) /\ UNCHANGED up
  /\ UNCHANGED <<desired, session, pushes, client, encoder, mixed, output, playback, failed, changes>>

Next ==
  \/ \E c \in Configs : Configure(c)
  \/ ReadConfig \/ Register \/ Receive \/ Hear \/ Lose
  \/ \E size \in OpusSizes : Capture(size) \/ \E mix \in Mixes : Mix(mix, size)
  \/ \E d \in Strays : Stray(d)

Spec == Init /\ [][Next]_vars

-----------------------------------------------------------------------------
(* Properties. *)

(* Every variable keeps its type. *)
TypeOK ==
  /\ {session.codec, client.codec} \subseteq Codecs /\ {session.profile, client.profile} \subseteq Profiles
  /\ Len(up) <= MaxFlight /\ Len(down) <= MaxFlight /\ changes <= MaxChanges

(* Whatever the configuration was when a frame was encoded and is when it is read, the
   mixer gets one whole frame or none and the speaker one whole frame of the layout
   that its buffer has; every mix can be encoded, and whatever a client
   sends is read, though its session may be another by now. *)
FramesFit ==
  /\ failed = 0
  /\ mixed = MixLen
  /\ playback.samples \in {0, MixLen * playback.channels}
  /\ \A i \in DOMAIN up : Readable(up[i]) /\ ~IsRegistration(up[i]) =>
       DecodedAtServer(up[i], session) = MixLen

(* No sound in stereo is played as mono or the other way round unless Opus does the
   conversion, and what was mixed under the configuration that the client
   has is always heard. *)
AgreedFramesPlay ==
  \A i \in DOMAIN down :
    LET d == down[i]
        channels == ReceiveChannels(d, client)
    IN /\ DecodedAtClient(d, channels) # None /\ d.codec # "opus" => channels = d.channels
       /\ d.config = OnSession(client) /\ d.config.codec = client.codec =>
            DecodedAtClient(d, channels) = MixLen * d.channels

(* The limiter keeps what it gives out below its threshold and a talker where
   he was panned to: both sides are turned down alike. *)
LimitedTogether ==
  /\ \A i \in 1..2 : output.is[i] <= Threshold
  /\ \A i, j \in 1..2 : output.was[i] >= 2 * output.was[j] => output.is[i] >= 2 * output.is[j]
=============================================================================
