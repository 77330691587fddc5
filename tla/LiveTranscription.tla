-------------------------- MODULE LiveTranscription --------------------------
(***************************************************************************)
(* Live transcription in the server: the audio receiver cuts every user's     *)
(* speech into chunks and queues them as jobs, one worker task per user takes  *)
(* them one by one, waits for one of a limited number of permits, has the       *)
(* speech recognised and appends the text to the transcript.  Meanwhile the     *)
(* operator starts and stops it, selects models and changes the limit.        *)
(*                                                                         *)
(* The jobs of a user are numbered in the order in which they were spoken.    *)
(* A chunk is what its voiced frames are good for; the chunk that is being     *)
(* collected will be job made[u] + 1.  A job is stale when its speech ended     *)
(* too long ago by the server's reckoning, which counts the frames it received *)
(* from the time of the first: jobs go stale in order, and the chunk last.      *)
(* The mode and its stale window stay as they are while jobs wait.            *)
(***************************************************************************)
EXTENDS Naturals, Sequences, FiniteSets

CONSTANTS
  Users,
  Models,        \* the Whisper models of the model folder
  NoModel,
  Limits,        \* values of max_concurrent_jobs an operator asks for
  DefaultLimit,  \* LIVE_TRANSCRIPTION_DEFAULT_CONCURRENCY
  QueueLimit,    \* LIVE_TRANSCRIPTION_QUEUE_LIMIT
  Choices,       \* the sets of users an operator starts it for
  MaxJobs,       \* bound: MaxJobs[u] is how many jobs u makes
  MaxSchedulers  \* bound: how often the limit changes, and one

TranscriptionAssumption ==
  /\ NoModel \notin Models
  /\ Limits \cup {DefaultLimit} \subseteq Nat \ {0}
  /\ Choices \subseteq SUBSET Users
  /\ MaxJobs \in [Users -> Nat \ {0}]
  /\ {QueueLimit, MaxSchedulers} \subseteq Nat \ {0}

NoJob == 0
(* no frames, too few voiced frames for a job, enough of them *)
Chunk == {"empty", "short", "speech"}
Worker == [user : Users, at : {"ready", "queued", "permitted", "outdated", "heard", "written"},
           job : Nat, scheduler : 0..MaxSchedulers]

VARIABLES
  active, chosen,  \* whether it runs, and for whom
  model,           \* whisper_model, the selected one
  context,         \* whisper_context: the model that is loaded
  loading,         \* the model that a start request is loading, while it does
  starting,        \* a start request has an engine and has not set active yet
  schedulers,      \* the limit of every semaphore so far; the last is in use
  chunk,           \* chunk[u]: LiveTranscriptChunker
  late,            \* late[u]: the jobs up to this one are stale by now
  pending,         \* pending[u]: jobs that wait for the worker
  running,         \* worker_running
  workers,         \* the worker tasks
  made,            \* made[u]: how many jobs u has made
  dropped, stale, completed,  \* the counters of the status page
  missed,          \* history: jobs that ended without text and without a counter
  transcript       \* transcript[u]: the jobs whose text was appended

operator == <<active, chosen, model, context, loading, starting, schedulers>>
counters == <<dropped, stale, completed, missed>>
vars == <<operator, chunk, late, pending, running, workers, made, counters, transcript>>

Init ==
  /\ active = FALSE /\ chosen = Users
  /\ model \in Models /\ context = NoModel /\ loading = NoModel /\ starting = FALSE
  /\ schedulers = <<DefaultLimit>>
  /\ chunk = [u \in Users |-> "empty"]
  /\ late = [u \in Users |-> 0] /\ made = [u \in Users |-> 0]
  /\ pending = [u \in Users |-> <<>>] /\ transcript = [u \in Users |-> <<>>]
  /\ running = [u \in Users |-> FALSE] /\ workers = {}
  /\ dropped = [u \in Users |-> 0] /\ stale = [u \in Users |-> 0]
  /\ completed = [u \in Users |-> 0] /\ missed = [u \in Users |-> 0]

-----------------------------------------------------------------------------
(* The queue of a user. *)

(* live_transcription_job_is_stale *)
IsStale(u, job) == job <= late[u]
(* drop_stale_live_transcription_jobs, pop_next_live_transcription_job: jobs go stale in
   order, so those that go are the first of the queue. *)
StaleIn(u) == Cardinality({i \in 1..Len(pending[u]) : IsStale(u, pending[u][i])})
Fresh(u) == SubSeq(pending[u], StaleIn(u) + 1, Len(pending[u]))

Full(q) == Len(q) >= QueueLimit

Ready(u) == [user |-> u, at |-> "ready", job |-> NoJob, scheduler |-> 0]
\* fault: a worker is spawned for every job
SpawnedAlways(U) == workers \cup {Ready(u) : u \in U}
(* Users whose worker is not running get one. *)
Spawned(U) == workers \cup {Ready(u) : u \in {v \in U : ~running[v]}}

(* The jobs that U's chunks make are queued behind what is left of the queues,
   or dropped by those that are full. *)
Queue(U, left) ==
  LET refused == {u \in U : Full(left[u])}
      queued == U \ refused
  IN /\ made' = [u \in Users |-> IF u \in U THEN made[u] + 1 ELSE made[u]]
     /\ pending' = [u \in Users |-> IF u \in queued THEN Append(left[u], made[u] + 1)
                                    ELSE left[u]]
     /\ dropped' = [u \in Users |-> IF u \in refused THEN dropped[u] + 1 ELSE dropped[u]]
     /\ workers' = Spawned(queued)
     /\ running' = [u \in Users |-> running[u] \/ u \in queued]

-----------------------------------------------------------------------------
(* transcribe_ingest_frame, in its one critical section: the stale jobs of the
   user go, the frame is added to the chunk, and a chunk that ends becomes a
   job if it holds enough speech. *)

Heard(u) == active /\ u \in chosen
DropStale(u) == stale' = [stale EXCEPT ![u] = @ + StaleIn(u)]
(* The chunk is given up: its lateness is forgotten with it. *)
Forgotten(u) == IF late[u] > made[u] THEN made[u] ELSE late[u]

(* Silence that starts no chunk, or a frame that ends none. *)
IngestFrame(u) ==
  /\ Heard(u)
  /\ DropStale(u)
  /\ pending' = [pending EXCEPT ![u] = Fresh(u)]
  /\ \E c \in Chunk :
       /\ <<chunk[u], c>> \in {<<"empty", "empty">>, <<"empty", "short">>, <<"short", "short">>,
                               <<"short", "speech">>, <<"speech", "speech">>}
       /\ chunk' = [chunk EXCEPT ![u] = c]
  /\ UNCHANGED <<operator, late, running, workers, made, dropped, completed, missed, transcript>>

(* The chunk ends with too few voiced frames. *)
ChunkTooShort(u) ==
  /\ Heard(u) /\ chunk[u] = "short"
  /\ DropStale(u)
  /\ pending' = [pending EXCEPT ![u] = Fresh(u)]
  /\ chunk' = [chunk EXCEPT ![u] = "empty"]
  /\ late' = [late EXCEPT ![u] = Forgotten(u)]
  /\ UNCHANGED <<operator, running, workers, made, dropped, completed, missed, transcript>>

(* It ends with silence, or at its greatest length; then the overlap starts the
   next chunk with enough speech, as late as the one it is from. *)
ChunkEnds(u, keepOverlap) ==
  /\ Heard(u) /\ chunk[u] = "speech" /\ made[u] < MaxJobs[u]
  /\ DropStale(u)
  /\ Queue({u}, [pending EXCEPT ![u] = Fresh(u)])
  /\ chunk' = [chunk EXCEPT ![u] = IF keepOverlap THEN "speech" ELSE "empty"]
  /\ late' = [late EXCEPT ![u] = IF keepOverlap /\ @ > made[u] THEN @ + 1 ELSE @]
  /\ UNCHANGED <<operator, completed, missed, transcript>>

(* Time passes. *)
Age(u) ==
  /\ late[u] < made[u] + (IF chunk[u] = "empty" THEN 0 ELSE 1)
  /\ late' = [late EXCEPT ![u] = @ + 1]
  /\ UNCHANGED <<operator, chunk, pending, running, workers, made, counters, transcript>>

-----------------------------------------------------------------------------
(* The operator. *)

(* ensure_live_transcription_engine, which the end of a recording calls too:
   the model is read under one lock, loaded, and kept under another unless a
   context is there by then.  One request at a time. *)
LoadModel ==
  /\ loading = NoModel /\ ~starting /\ context = NoModel
  /\ loading' = model
  /\ UNCHANGED <<active, chosen, model, context, starting, schedulers, chunk, late, pending,
                 running, workers, made, counters, transcript>>
ModelLoaded ==
  /\ loading # NoModel
  /\ loading' = NoModel
  /\ \/ context' = (IF context = NoModel THEN loading ELSE context) /\ starting' \in BOOLEAN
     \/ UNCHANGED <<context, starting>>     \* the file does not load
  /\ UNCHANGED <<active, chosen, model, schedulers, chunk, late, pending, running, workers,
                 made, counters, transcript>>
ModelPresent ==
  /\ loading = NoModel /\ ~starting /\ context # NoModel
  /\ starting' = TRUE
  /\ UNCHANGED <<active, chosen, model, context, loading, schedulers, chunk, late, pending,
                 running, workers, made, counters, transcript>>

(* The rest of start_live_transcription.  Another limit is another semaphore;
   the permits of the one before stay with their jobs. *)
StartLive(users, limit) ==
  /\ starting
  /\ starting' = FALSE /\ active' = TRUE /\ chosen' = users
  /\ schedulers' = IF limit = schedulers[Len(schedulers)] THEN schedulers
                   ELSE Append(schedulers, limit)
  /\ Len(schedulers') <= MaxSchedulers
  /\ UNCHANGED <<model, context, loading, chunk, late, pending, running, workers, made,
                 counters, transcript>>

(* The users whose chunk is flushed into a job. *)
Flushed == {u \in Users : chunk[u] = "speech"}

(* stop_live_transcription does not look for stale jobs. *)
StopLive ==
  /\ active' = FALSE /\ chosen' = Users
  /\ \A u \in Flushed : made[u] < MaxJobs[u]
  /\ Queue(Flushed, pending)
  /\ chunk' = [u \in Users |-> IF u \in Flushed \/ chunk[u] = "short" THEN "empty" ELSE chunk[u]]
  /\ late' = [u \in Users |-> IF chunk[u] = "short" THEN Forgotten(u) ELSE late[u]]
  /\ UNCHANGED <<model, context, loading, starting, schedulers, stale, completed, missed,
                 transcript>>

SelectModel(m) ==
  /\ model' = m /\ context' = NoModel
  /\ UNCHANGED <<active, chosen, loading, starting, schedulers, chunk, late, pending, running,
                 workers, made, counters, transcript>>

-----------------------------------------------------------------------------
(* run_live_transcription_worker: w is the worker. *)

Becomes(w, after) == workers' = (workers \ {w}) \cup {after}
Ends(w) == workers' = workers \ {w} /\ running' = [running EXCEPT ![w.user] = FALSE]
Missed(w) == missed' = [missed EXCEPT ![w.user] = @ + 1]

(* pop_next_live_transcription_job finds nothing: the worker goes. *)
Retire(w) ==
  /\ w.at = "ready" /\ Fresh(w.user) = <<>>
  /\ DropStale(w.user)
  /\ pending' = [pending EXCEPT ![w.user] = <<>>]
  /\ Ends(w)
  /\ UNCHANGED <<operator, chunk, late, made, dropped, completed, missed, transcript>>

(* It has a job and no model is loaded: worker and job go. *)
RetireUnloaded(w) ==
  /\ w.at = "ready" /\ Fresh(w.user) # <<>> /\ context = NoModel
  /\ DropStale(w.user)
  /\ pending' = [pending EXCEPT ![w.user] = Tail(Fresh(w.user))]
  /\ Missed(w) /\ Ends(w)
  /\ UNCHANGED <<operator, chunk, late, made, dropped, completed, transcript>>

Take(w) ==
  /\ w.at = "ready" /\ Fresh(w.user) # <<>> /\ context # NoModel
  /\ DropStale(w.user)
  /\ pending' = [pending EXCEPT ![w.user] = Tail(Fresh(w.user))]
  /\ Becomes(w, [w EXCEPT !.at = "queued", !.job = Head(Fresh(w.user)),
                          !.scheduler = Len(schedulers)])
  /\ UNCHANGED <<operator, chunk, late, running, made, dropped, completed, missed, transcript>>

HasPermit(w) == w.at \in {"permitted", "outdated", "heard", "written"}
Free(s) == Cardinality({w \in workers : HasPermit(w) /\ w.scheduler = s}) < schedulers[s]

(* The permit is there, and the job is looked at again. *)
Acquire(w) ==
  /\ w.at = "queued" /\ Free(w.scheduler)
  /\ Becomes(w, [w EXCEPT !.at = IF IsStale(w.user, w.job) THEN "outdated" ELSE "permitted"])
  /\ UNCHANGED <<operator, chunk, late, pending, running, made, counters, transcript>>

(* The permit is given back at the end of the turn. *)
Again(w) == Ready(w.user)

CountStale(w) ==
  /\ w.at = "outdated"
  /\ stale' = [stale EXCEPT ![w.user] = @ + 1]
  /\ Becomes(w, Again(w))
  /\ UNCHANGED <<operator, chunk, late, pending, running, made, dropped, completed, missed,
                 transcript>>

(* The model hears something, or nothing, or fails. *)
Recognise(w) ==
  /\ w.at = "permitted"
  /\ \/ Becomes(w, [w EXCEPT !.at = "heard"]) /\ UNCHANGED missed
     \/ Becomes(w, Again(w)) /\ Missed(w)
  /\ UNCHANGED <<operator, chunk, late, pending, running, made, dropped, stale, completed,
                 transcript>>

(* append_transcript_segment, which fails when a recording's file does *)
AppendSegment(w) ==
  /\ w.at = "heard"
  /\ \/ /\ transcript' = [transcript EXCEPT ![w.user] = Append(@, w.job)]
        /\ Becomes(w, [w EXCEPT !.at = "written"]) /\ UNCHANGED missed
     \/ Becomes(w, Again(w)) /\ Missed(w) /\ UNCHANGED transcript
  /\ UNCHANGED <<operator, chunk, late, pending, running, made, dropped, stale, completed>>

CountCompleted(w) ==
  /\ w.at = "written"
  /\ completed' = [completed EXCEPT ![w.user] = @ + 1]
  /\ Becomes(w, Again(w))
  /\ UNCHANGED <<operator, chunk, late, pending, running, made, dropped, stale, missed,
                 transcript>>

-----------------------------------------------------------------------------
Ingest(u) == IngestFrame(u) \/ ChunkTooShort(u) \/ (\E keep \in BOOLEAN : ChunkEnds(u, keep))
Operator ==
  \/ LoadModel \/ ModelLoaded \/ ModelPresent \/ StopLive
  \/ \E users \in Choices, limit \in Limits : StartLive(users, limit)
  \/ \E m \in Models : SelectModel(m)
Step(w) == Retire(w) \/ RetireUnloaded(w) \/ Take(w) \/ Acquire(w) \/ CountStale(w)
           \/ Recognise(w) \/ AppendSegment(w) \/ CountCompleted(w)

Next ==
  \/ \E u \in Users : Ingest(u) \/ Age(u)
  \/ Operator
  \/ \E w \in workers : Step(w)

Spec == Init /\ [][Next]_vars

-----------------------------------------------------------------------------
(* Properties. *)

(* Every variable keeps its type, and no queue outgrows its limit. *)
TypeOK ==
  /\ active \in BOOLEAN /\ chosen \subseteq Users /\ starting \in BOOLEAN
  /\ model \in Models /\ {context, loading} \subseteq Models \cup {NoModel}
  /\ schedulers \in Seq(Limits \cup {DefaultLimit})
  /\ chunk \in [Users -> Chunk]
  /\ late \in [Users -> Nat] /\ made \in [Users -> Nat]
  /\ pending \in [Users -> Seq(Nat)]
  /\ \A u \in Users : Len(pending[u]) <= QueueLimit
  /\ running \in [Users -> BOOLEAN] /\ workers \subseteq Worker
  /\ \A f \in {dropped, stale, completed, missed} : f \in [Users -> Nat]
  /\ transcript \in [Users -> Seq(Nat)]

Of(u) == {w \in workers : w.user = u}
(* worker_running says whether a worker task of the user exists, and there is
   never a second one. *)
OneWorker == \A u \in Users : Cardinality(Of(u)) = IF running[u] THEN 1 ELSE 0

(* Every job is counted once as dropped, stale or completed, was missed, or is
   still under way, whoever dropped it where ("reports the counters", README). *)
JobsAccounted ==
  \A u \in Users :
    made[u] = dropped[u] + stale[u] + completed[u] + missed[u]
              + Len(pending[u]) + Cardinality({w \in Of(u) : w.job # NoJob})

(* A user's speech appears in the transcript in the order it was spoken, and no
   chunk of it twice. *)
TranscriptInOrder ==
  \A u \in Users : \A i, j \in DOMAIN transcript[u] :
    i < j => transcript[u][i] < transcript[u][j]

(* "stop live transcription and flush active speech chunks" (README): what was
   said before a stop does not turn up in the first chunk of the next start. *)
NothingLeftBehind == ~active => \A u \in Users : chunk[u] = "empty"

(* "A global live transcription job limit prevents too many Whisper jobs from
   running at once" (README): no more run than any limit so far allows. *)
GlobalJobLimit ==
  \E s \in DOMAIN schedulers : Cardinality({w \in workers : HasPermit(w)}) <= schedulers[s]

(* The model that is loaded is the one that is selected. *)
ContextIsSelected == context \in {model, NoModel}

(* "If transcription falls behind, the server drops stale ... backlog" (README):
   a chunk that ends with the frame that has just arrived is not stale yet. *)
BornFresh == [][\A u \in Users : made'[u] > made[u] => late'[u] < made'[u]]_vars

(* A worker is there as long as jobs wait. *)
WaitingIsServed == \A u \in Users : pending[u] # <<>> => running[u]
=============================================================================
