--------------------------- MODULE ModelDownload ---------------------------
(***************************************************************************)
(* Downloads of the models in the catalog.  A request puts the model on the    *)
(* list of downloads and spawns a task; the task streams the file next to its  *)
(* destination, checks what it received against the checksum, and renames it.  *)
(* On any error it removes the file and then reports the failure, after which  *)
(* the model can be asked for again.                                           *)
(*                                                                         *)
(* A file is what is at each of its positions.  A task that has opened a file   *)
(* goes on writing to it under whatever name it has by then.                   *)
(***************************************************************************)
EXTENDS Integers

CONSTANTS
  Models,     \* entries of the catalog; no two have the same file name
  Available,  \* those with a URL and a checksum
  Jobs,       \* download tasks that may run at once
  Chunks      \* pieces that a model is received in

ModelAssumption == "none" \notin Models /\ Available \subseteq Models /\ Chunks \in Nat \ {0}

VARIABLES
  status,  \* model_downloads: the state, or "none"
  temp,    \* .<filename>.download, a file or none
  dest,    \* <filename>
  job      \* job[j]: what a task is doing

vars == <<status, temp, dest, job>>

Positions == 1..Chunks
Bytes == {"good", "bad", "hole"}
NoFile == {}                                   \* a file is a set of one content
Empty == {[p \in Positions |-> "hole"]}
Complete(file) == \A content \in file : \A p \in Positions : content[p] = "good"

IdleJob == [step |-> "idle", model |-> "none", name |-> "none", received |-> 0, intact |-> TRUE]
QueuedJob(m) == [step |-> "queued", model |-> m, name |-> "none", received |-> 0, intact |-> TRUE]

Init ==
  /\ status = [m \in Models |-> "none"] /\ temp = [m \in Models |-> NoFile]
  /\ dest = [m \in Models |-> NoFile] /\ job = [j \in Jobs |-> IdleJob]

\* fault: a download that waits for its turn can be asked for again
BusyDownloading(s) == s = "downloading"
Busy(s) == s \in {"queued", "downloading"}

-----------------------------------------------------------------------------

(* start_model_download *)
Request(j, m) ==
  /\ job[j].step = "idle" /\ m \in Available /\ ~Busy(status[m])
  /\ status' = [status EXCEPT ![m] = "queued"]
  /\ job' = [job EXCEPT ![j] = QueuedJob(m)]
  /\ UNCHANGED <<temp, dest>>

At(j, step) == job[j].step = step
Goto(j, step) == job' = [job EXCEPT ![j].step = step]

(* download_model_task *)
Begin(j) ==
  /\ At(j, "queued") /\ Goto(j, "create")
  /\ status' = [status EXCEPT ![job[j].model] = "downloading"]
  /\ UNCHANGED <<temp, dest>>

(* download_model_file: File::create empties a file that is there. *)
CreateTemp(j) ==
  /\ At(j, "create")
  /\ temp' = [temp EXCEPT ![job[j].model] = Empty]
  /\ job' = [job EXCEPT ![j].step = "stream", ![j].name = "temp"]
  /\ UNCHANGED <<status, dest>>

Put(file, p, byte) == {[content EXCEPT ![p] = byte] : content \in file}

Receive(j, byte) ==
  /\ At(j, "stream") /\ job[j].received < Chunks
  /\ LET m == job[j].model
         p == job[j].received + 1
     IN /\ temp' = IF job[j].name = "temp" THEN [temp EXCEPT ![m] = Put(@, p, byte)] ELSE temp
        /\ dest' = IF job[j].name = "dest" THEN [dest EXCEPT ![m] = Put(@, p, byte)] ELSE dest
        /\ job' = [job EXCEPT ![j].received = p, ![j].intact = @ /\ byte = "good"]
  /\ UNCHANGED status

(* A directory, a request, the stream, a write or the rename fails. *)
Fail(j) ==
  /\ \E step \in {"create", "stream", "install"} : At(j, step)
  /\ Goto(j, "clean")
  /\ UNCHANGED <<status, temp, dest>>

(* The others that have the file of m open see it renamed or removed. *)
Renamed(jobs, m, name) ==
  [i \in Jobs |-> IF jobs[i].model = m /\ jobs[i].name = "temp" THEN [jobs[i] EXCEPT !.name = name] ELSE jobs[i]]

RemoveTemp(j, step) ==
  LET m == job[j].model IN
    /\ temp' = [temp EXCEPT ![m] = NoFile]
    /\ job' = Renamed([job EXCEPT ![j].step = step], m, "none")
    /\ UNCHANGED <<status, dest>>

(* The stream ends: the checksum of what was received decides. *)
\* fault: the number of bytes decides
IntactByLength(work) == work.received = Chunks
Intact(work) == work.intact /\ work.received = Chunks

Verify(j) ==
  /\ At(j, "stream")
  /\ \/ Intact(job[j]) /\ Goto(j, "install") /\ UNCHANGED <<status, temp, dest>>
     \/ ~Intact(job[j]) /\ RemoveTemp(j, "clean")

Install(j) ==
  /\ At(j, "install")
  /\ LET m == job[j].model IN
       \/ /\ temp[m] # NoFile
          /\ dest' = [dest EXCEPT ![m] = temp[m]] /\ temp' = [temp EXCEPT ![m] = NoFile]
          /\ job' = Renamed([job EXCEPT ![j].step = "installed"], m, "dest")
       \/ temp[m] = NoFile /\ Goto(j, "clean") /\ UNCHANGED <<temp, dest>>
  /\ UNCHANGED status

Clean(j) == At(j, "clean") /\ RemoveTemp(j, "failed")

Report(j) ==
  /\ job[j].step \in {"installed", "failed"}
  /\ status' = [status EXCEPT ![job[j].model] = job[j].step]
  /\ job' = [job EXCEPT ![j] = IdleJob]
  /\ UNCHANGED <<temp, dest>>

(* The server ends at any point and is started again. *)
Restart ==
  /\ status' = [m \in Models |-> "none"] /\ job' = [j \in Jobs |-> IdleJob]
  /\ UNCHANGED <<temp, dest>>

Work(j) ==
  \/ Begin(j) \/ CreateTemp(j) \/ (\E byte \in {"good", "bad"} : Receive(j, byte))
  \/ Fail(j) \/ Verify(j) \/ Install(j) \/ Clean(j) \/ Report(j)

Next == (\E j \in Jobs : (\E m \in Models : Request(j, m)) \/ Work(j)) \/ Restart

Spec == Init /\ [][Next]_vars

-----------------------------------------------------------------------------
(* Properties. *)

Files == SUBSET [Positions -> Bytes]
Steps == {"idle", "queued", "create", "stream", "install", "clean", "installed", "failed"}

JobType == [step : Steps, model : Models \cup {"none"}, name : {"temp", "dest", "none"},
          received : 0..Chunks, intact : BOOLEAN]

(* Every variable keeps its type. *)
TypeOK ==
  /\ status \in [Models -> {"none", "queued", "downloading", "installed", "failed"}]
  /\ temp \in [Models -> Files] /\ dest \in [Models -> Files]
  /\ job \in [Jobs -> JobType]

(* model_catalog_snapshot *)
Shown(m) ==
  IF Busy(status[m]) THEN "downloading"
  ELSE IF dest[m] # NoFile THEN "installed"
  ELSE IF status[m] = "failed" THEN "failed"
  ELSE IF m \notin Available THEN "unavailable" ELSE "missing"

(* What the "Hugging Face URL and SHA-256 checksum" of the catalog are for
   (docs/model-assets.md:19): whatever requests, failures, retries and restarts do,
   a model that the page shows as installed is the one with that checksum, from its
   first byte to its last. *)
DownloadedIsVerified == \A m \in Models : Shown(m) = "installed" => Complete(dest[m])

Works(j, m) == job[j].step # "idle" /\ job[j].model = m

(* A model that cannot be asked for, because it is being downloaded, has one task
   that will say how it ended, and a model that can be asked for has none that
   could still touch its files. *)
BusyHasOneJob ==
  \A m \in Models :
    /\ \A i, j \in Jobs : Works(i, m) /\ Works(j, m) => i = j
    /\ Busy(status[m]) <=> \E j \in Jobs : Works(j, m)
=============================================================================
