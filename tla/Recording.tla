----------------------------- MODULE Recording -----------------------------
(***************************************************************************)
(* Recording sessions: a directory per session, named for the millisecond it  *)
(* was asked for in, with the metadata of all frames, one wav file per user,   *)
(* and the transcript segments appended while it is the active one.  A start    *)
(* makes the directory and the metadata file before it takes the lock that      *)
(* says whether a session is active.  A stop hands what was recorded to a task  *)
(* that transcribes it, while the next session may already run.                 *)
(***************************************************************************)
EXTENDS Integers, Sequences, FiniteSets

LOCAL INSTANCE Functions

CONSTANTS
  Users,
  Admins,       \* requests that start a recording at once
  Engine,       \* engine_mode: "builtin", "external" or "disabled"
  KeepRecent,   \* 20: sessions listed
  KeepSegments, \* 2000: transcript segments listed
  MaxClock,     \* bound: milliseconds
  MaxStarts,    \* bound: sessions asked for
  MaxFrames,    \* bound: frames of a session
  MaxSegments   \* bound: segments ever numbered

RecordingAssumption ==
  /\ Engine \in {"builtin", "external", "disabled"}
  /\ KeepRecent \in Nat \ {0} /\ KeepSegments \in Nat \ {0}
  /\ MaxClock \in Nat \ {0} /\ MaxStarts \in Nat /\ MaxFrames \in Nat /\ MaxSegments \in Nat

VARIABLES
  clock,     \* unix_time_ms()
  disk,      \* disk[ms]: the directory session-<ms>
  starting,  \* starting[a]: a start that has made its files
  active,    \* RecordingState.active, a set of at most one session
  recent,    \* RecordingState.recent
  jobs,      \* transcriptions of stopped sessions under way
  segments,  \* RecordingState.transcripts
  nextId,    \* next_transcript_id
  error      \* last_engine_error is set; nothing clears it

vars == <<clock, disk, starting, active, recent, jobs, segments, nextId, error>>

Stamps == 1..MaxClock
Last(seq, n) == IF Len(seq) > n THEN SubSeq(seq, Len(seq) - n + 1, Len(seq)) ELSE seq

Init ==
  /\ clock = 1
  /\ disk = [ms \in Stamps |-> [starts |-> 0, lines |-> <<>>, wav |-> [u \in Users |-> 0], segments |-> {}]]
  /\ starting = [a \in Admins |-> {}]
  /\ active = {} /\ recent = <<>> /\ jobs = {} /\ segments = <<>> /\ nextId = 1 /\ error = FALSE

-----------------------------------------------------------------------------
(* start_recording_session *)

Session(ms, transcribe, users) ==
  [ms |-> ms, transcribe |-> transcribe, users |-> users, writers |-> {}, contexts |-> {}, frames |-> 0]

(* The files first: File::create leaves nothing of a metadata file of that name. *)
MakeFiles(a, transcribe, users) ==
  /\ starting[a] = {} /\ SumFunction([ms \in Stamps |-> disk[ms].starts]) < MaxStarts
  /\ starting' = [starting EXCEPT ![a] = {Session(clock, transcribe, users)}]
  /\ disk' = [disk EXCEPT ![clock].starts = @ + 1, ![clock].lines = <<>>]
  /\ UNCHANGED <<clock, active, recent, jobs, segments, nextId, error>>

(* Then the lock.  Who finds a session active leaves its files behind. *)
Activate(a) ==
  /\ starting[a] # {}
  /\ active' = IF active = {} THEN starting[a] ELSE active
  /\ starting' = [starting EXCEPT ![a] = {}]
  /\ UNCHANGED <<clock, disk, recent, jobs, segments, nextId, error>>

-----------------------------------------------------------------------------
(* record_ingest_frame, of a decoded frame of u.  All of it is under the lock. *)

\* fault: a new file for every frame
OpenedAnew(s, u) == [s EXCEPT !.writers = {}, !.contexts = @ \cup {u}]
Opened(s, u) == [s EXCEPT !.contexts = @ \cup {u}]

Recorded(u, s, lines, fails) ==
  /\ disk' = [disk EXCEPT ![s.ms].wav[u] = (IF u \in s.writers THEN @ ELSE 0) + 1, ![s.ms].lines = lines]
  /\ active' = {[s EXCEPT !.writers = @ \cup {u}, !.frames = @ + 1]}
  /\ error' = (error \/ fails)

Frame(u) ==
  /\ \E now \in active :
       /\ u \in now.users /\ now.frames < MaxFrames
       /\ LET s == Opened(now, u) IN
            \/ Recorded(u, s, Append(disk[s.ms].lines, u), FALSE)
            \/ Recorded(u, s, disk[s.ms].lines, TRUE)    \* the metadata is not written
            \/ /\ active' = {s} /\ error' = TRUE         \* the samples are not written
               /\ UNCHANGED disk
  /\ UNCHANGED <<clock, starting, recent, jobs, segments, nextId>>

(* stop_recording_session, and the task that its handler spawns *)
Stop ==
  /\ active # {}
  /\ active' = {}
  /\ \E s \in active :
       /\ recent' = Last(Append(recent, [ms |-> s.ms, transcribe |-> s.transcribe,
                                         users |-> s.contexts, frames |-> s.frames]), KeepRecent)
       /\ jobs' = IF s.transcribe THEN jobs \cup {[ms |-> s.ms, users |-> s.contexts]} ELSE jobs
  /\ \/ UNCHANGED error
     \/ error' = TRUE   \* a file cannot be finished
  /\ UNCHANGED <<clock, disk, starting, segments, nextId>>

-----------------------------------------------------------------------------
(* append_transcript_segment: to the file of the session that is active now, and
   to the list, unless the file cannot be written. *)

AppendSegment(u, source, of, written) ==
  /\ nextId <= MaxSegments
  /\ nextId' = nextId + 1
  /\ active = {} => written
  /\ segments' = IF written
                 THEN Last(Append(segments, [id |-> nextId, user |-> u, source |-> source, of |-> of]), KeepSegments)
                 ELSE segments
  /\ disk' = IF written
             THEN [ms \in Stamps |-> IF \E s \in active : s.ms = ms
                                     THEN [disk[ms] EXCEPT !.segments = @ \cup {nextId}] ELSE disk[ms]]
             ELSE disk

(* A manual transcript of the admin, or the text of a live chunk. *)
AddTranscript(u, source) ==
  /\ \E written \in BOOLEAN : AppendSegment(u, source, 0, written)
  /\ UNCHANGED <<clock, starting, active, recent, jobs, error>>

(* run_recording_transcription, one user after the other: a user without a file is
   skipped, silence gives no text, and an engine that fails, or that does not run
   at all, ends the task. *)
Transcribe(job) ==
  /\ job \in jobs
  /\ LET u == CHOOSE v \in job.users : \A w \in job.users : TRUE
         rest == IF job.users = {} THEN {} ELSE {[job EXCEPT !.users = @ \ {u}]}
         Going(on) == jobs' = (jobs \ {job}) \cup (IF on THEN rest ELSE {})
     IN \/ /\ job.users = {} \/ Engine = "disabled"
           /\ Going(FALSE) /\ error' = (error \/ Engine = "disabled")
           /\ UNCHANGED <<disk, segments, nextId>>
        \/ /\ job.users # {} /\ Engine # "disabled"
           /\ \/ /\ Going(TRUE)    \* no file, or no text
                 /\ UNCHANGED <<disk, segments, nextId, error>>
              \/ /\ disk[job.ms].wav[u] > 0
                 /\ \E written \in BOOLEAN :
                      AppendSegment(u, "recording", job.ms, written) /\ Going(written)
                 /\ UNCHANGED error
              \/ /\ disk[job.ms].wav[u] > 0
                 /\ Going(FALSE)
                 /\ \E status \in BOOLEAN : error' = (error \/ (status /\ Engine = "external"))
                 /\ UNCHANGED <<disk, segments, nextId>>
  /\ UNCHANGED <<clock, starting, active, recent>>

Tick ==
  /\ clock < MaxClock /\ clock' = clock + 1
  /\ UNCHANGED <<disk, starting, active, recent, jobs, segments, nextId, error>>

Next ==
  \/ \E a \in Admins :
       \/ \E transcribe \in BOOLEAN, users \in {{u} : u \in Users} \cup {Users} : MakeFiles(a, transcribe, users)
       \/ Activate(a)
  \/ \E u \in Users : Frame(u) \/ AddTranscript(u, "manual")
  \/ Stop \/ Tick
  \/ \E job \in jobs : Transcribe(job)

Spec == Init /\ [][Next]_vars

-----------------------------------------------------------------------------
(* Properties. *)

(* Every variable keeps its type; the lists are bounded, and no segment is listed
   twice. *)
TypeOK ==
  /\ clock \in Stamps /\ nextId \in 1..(MaxSegments + 1) /\ error \in BOOLEAN
  /\ Cardinality(active) <= 1
  /\ \A s \in active \cup UNION {starting[a] : a \in Admins} :
       s \in [ms : Stamps, transcribe : BOOLEAN, users : SUBSET Users, writers : SUBSET Users,
              contexts : SUBSET Users, frames : 0..MaxFrames]
  /\ Len(recent) <= KeepRecent /\ Len(segments) <= KeepSegments
  /\ \A i, j \in DOMAIN segments : i < j => segments[i].id < segments[j].id

Lines(ms, u) == Cardinality({i \in DOMAIN disk[ms].lines : disk[ms].lines[i] = u})

(* "writes `metadata.jsonl` for per-frame client/target/codec context" and "one mono
   WAV per client" (README.md:450): as long as no error has been reported, the metadata of a session, stopped or not, has a
   line for every frame of every wav file, and lists every user that has one.  Left
   out are directories that two starts share: the second start empties the
   metadata of the first. *)
RecordingAgrees ==
  ~error =>
    \A s \in active \cup {recent[i] : i \in DOMAIN recent} :
      disk[s.ms].starts = 1 =>
        /\ \A u \in Users : disk[s.ms].wav[u] = Lines(s.ms, u)
        /\ s.frames = Len(disk[s.ms].lines)
        /\ {u \in Users : disk[s.ms].wav[u] > 0} =
             (IF s \in active THEN s.contexts ELSE s.users)
=============================================================================
