------------------------ MODULE MediaAndClientsProofs ------------------------
(***************************************************************************)
(* Proofs about the media path and the clients, the parts of MediaAndClients,  *)
(* for any values of their constants.                                         *)
(***************************************************************************)
EXTENDS MediaAndClients, FiniteSetTheorems, SequenceTheorems, TLAPS

-----------------------------------------------------------------------------
(* A step of the composition is a step of its part, or leaves its variables alone. *)
LEMMA PartsStep ==
  ASSUME [PartsNext]_partVars
  PROVE  /\ part' = part
         /\ part = "transcription" => [T!Next]_transcriptionVars
         /\ part = "processing" => [P!Next]_processingVars
         /\ part = "mix" => [X!Next]_mixVars
         /\ part = "codec" => [C!Next]_codecVars
         /\ part = "playback" => [B!Next]_playbackVars
         /\ part = "local" => [L!Next]_localVars
         /\ part = "panel" => [E!Next]_panelVars
         /\ part = "shell" => [S!Next]_shellVars
         /\ part = "capture" => [K!Next]_captureVars
BY DEF PartsNext, partVars

-----------------------------------------------------------------------------
(* Downloads. *)
(* A task that has received something intact has it in its file, which is open
   under its first name until it is installed or given up. *)
Writing(j) == job[j].step \in {"stream", "install"}

FileOfJob ==
  \A j \in Jobs :
    /\ Writing(j) => job[j].name = "temp" /\ temp[job[j].model] # NoFile
    /\ Writing(j) /\ job[j].intact =>
         \A content \in temp[job[j].model] : \A p \in 1..job[j].received : content[p] = "good"
    /\ job[j].step = "install" => job[j].intact /\ job[j].received = Chunks
    /\ job[j].step \in {"queued", "create"} => job[j].received = 0
    /\ job[j].step # "idle" => job[j].model \in Models

DestComplete == \A m \in Models : Complete(dest[m])

DownloadInv == TypeOK /\ BusyHasOneJob /\ FileOfJob /\ DestComplete

LEMMA DownloadInit == ModelAssumption /\ Init => DownloadInv
<1> SUFFICES ASSUME ModelAssumption, Init PROVE DownloadInv
  OBVIOUS
<1> USE DEF Init, IdleJob, NoFile, ModelAssumption
<1>1. TypeOK
  BY DEF TypeOK, Files, Steps, JobType
<1>2. BusyHasOneJob
  BY DEF BusyHasOneJob, Works, Busy
<1>3. FileOfJob
  BY DEF FileOfJob, Writing
<1>4. DestComplete
  BY DEF DestComplete, Complete
<1> QED BY <1>1, <1>2, <1>3, <1>4 DEF DownloadInv

-----------------------------------------------------------------------------
(* What a step of a task does to the tasks: it changes its own place, and what it
   calls the files of its model. *)

LEMMA EmptyType == Empty \in Files
BY DEF Empty, Files, Positions, Bytes

LEMMA PutType ==
  ASSUME ModelAssumption, NEW file \in Files, NEW p \in Positions, NEW byte \in Bytes
  PROVE  Put(file, p, byte) \in Files
<1>1. ASSUME NEW content \in file PROVE [content EXCEPT ![p] = byte] \in [Positions -> Bytes]
  BY DEF Files
<1> QED BY <1>1 DEF Put, Files

(* A request: the model was free, and so no task works on it. *)
LEMMA RequestKeepsDownloads ==
  ASSUME ModelAssumption, DownloadInv, NEW j \in Jobs, NEW m \in Models, Request(j, m)
  PROVE  DownloadInv'
<1> USE DEF DownloadInv, Request, ModelAssumption
<1>1. TypeOK'
  <2>1. QueuedJob(m) \in JobType
    BY DEF JobType, Steps, QueuedJob
  <2> QED BY <2>1 DEF TypeOK
<1>2. \A i \in Jobs : ~Works(i, m)
  BY DEF BusyHasOneJob
<1>3. BusyHasOneJob'
  <2>1. job'[j].step # "idle" /\ job'[j].model = m /\ \A i \in Jobs \ {j} : job'[i] = job[i]
    BY DEF TypeOK, QueuedJob
  <2>2. Busy(status[m])' /\ \A k \in Models \ {m} : status'[k] = status[k]
    BY DEF TypeOK, Busy
  <2> QED BY <1>2, <2>1, <2>2 DEF BusyHasOneJob, Works, Busy
<1>4. FileOfJob'
  BY DEF FileOfJob, Writing, TypeOK, QueuedJob
<1>5. DestComplete'
  BY DEF DestComplete
<1> QED BY <1>1, <1>3, <1>4, <1>5

(* A step of a task that leaves all files as they are, and goes on. *)
LEMMA PlainKeepsDownloads ==
  ASSUME ModelAssumption, DownloadInv, NEW j \in Jobs, Begin(j) \/ Fail(j)
  PROVE  DownloadInv'
<1> USE DEF DownloadInv, ModelAssumption
<1>1. job[j].step # "idle" /\ job[j].model \in Models
  BY DEF Begin, Fail, At, FileOfJob
<1>2. PICK step \in {"create", "clean"} :
        job' = [job EXCEPT ![j].step = step] /\ UNCHANGED <<temp, dest>>
  BY DEF Begin, Fail, Goto
<1>3. /\ Busy(status[job[j].model])
      /\ Busy(status'[job[j].model])
      /\ \A m \in Models \ {job[j].model} : status'[m] = status[m]
      /\ status' \in [Models -> {"none", "queued", "downloading", "installed", "failed"}]
  BY <1>1 DEF Begin, Fail, Busy, TypeOK, BusyHasOneJob, Works
<1>4. TypeOK'
  <2>1. [job[j] EXCEPT !.step = step] \in JobType
    BY ZenonT(60) DEF TypeOK, JobType, Steps
  <2> QED BY <1>2, <1>3, <2>1 DEF TypeOK
<1>5. BusyHasOneJob'
  <2>1. \A i \in Jobs : job'[i].model = job[i].model /\ (job'[i].step = "idle" <=> job[i].step = "idle")
    BY <1>1, <1>2 DEF TypeOK
  <2>2. \A i \in Jobs, m \in Models : Works(i, m)' <=> Works(i, m)
    BY <2>1 DEF Works
  <2>3. \A m \in Models : Busy(status[m])' <=> Busy(status[m])
    BY <1>3 DEF Busy
  <2> QED BY <2>2, <2>3 DEF BusyHasOneJob
<1>6. FileOfJob'
  <2>1. \A i \in Jobs \ {j} : job'[i] = job[i]
    BY <1>2 DEF TypeOK
  <2>2. /\ job'[j].step = step /\ job'[j].model = job[j].model /\ job'[j].received = job[j].received
    BY <1>2 DEF TypeOK, JobType
  <2>3. step = "create" => job[j].step = "queued"
    <3>1. Fail(j) => job'[j].step = "clean"
      BY DEF Fail, Goto, TypeOK, JobType
    <3> QED BY <2>2, <3>1 DEF Begin, At
  <2> QED BY <1>1, <1>2, <2>1, <2>2, <2>3 DEF FileOfJob, Writing
<1>7. DestComplete'
  BY <1>2 DEF DestComplete
<1> QED BY <1>4, <1>5, <1>6, <1>7

LEMMA Together ==
  ASSUME DownloadInv, NEW i \in Jobs, NEW j \in Jobs, job[i].step # "idle", job[i].model = job[j].model,
         job[j].step # "idle"
  PROVE  i = j
BY DEF DownloadInv, BusyHasOneJob, Works, FileOfJob

(* A step that goes on with the task of j, and may give other names to files. *)
LEMMA OneJobKept ==
  ASSUME DownloadInv, NEW j \in Jobs, job[j].step # "idle", UNCHANGED status,
         job'[j].step # "idle", job'[j].model = job[j].model,
         \A i \in Jobs \ {j} : job'[i].model = job[i].model /\ job'[i].step = job[i].step
  PROVE  BusyHasOneJob'
<1>1. \A i \in Jobs, m \in Models : Works(i, m)' <=> Works(i, m)
  BY DEF Works
<1> QED BY <1>1 DEF DownloadInv, BusyHasOneJob

LEMMA CreateKeepsDownloads ==
  ASSUME ModelAssumption, DownloadInv, NEW j \in Jobs, CreateTemp(j)
  PROVE  DownloadInv'
<1> USE DEF DownloadInv, ModelAssumption, CreateTemp, At
<1> DEFINE m == job[j].model
<1>1. m \in Models /\ job[j].step # "idle"
  BY DEF FileOfJob
<1>2. TypeOK'
  <2>1. [job[j] EXCEPT !.step = "stream", !.name = "temp"] \in JobType
    BY ZenonT(60) DEF TypeOK, JobType, Steps
  <2> QED BY <1>1, <2>1, EmptyType DEF TypeOK
<1>3. /\ job'[j].step = "stream" /\ job'[j].name = "temp" /\ job'[j].model = m
      /\ job'[j].received = job[j].received /\ job'[j].intact = job[j].intact
      /\ \A i \in Jobs \ {j} : job'[i] = job[i]
  BY DEF TypeOK, JobType
<1>4. BusyHasOneJob'
  BY <1>1, <1>3, OneJobKept
<1>5. FileOfJob'
  <2>1. ASSUME NEW i \in Jobs \ {j}, Writing(i) PROVE temp'[job[i].model] = temp[job[i].model]
    <3>1. job[i].model # m
      BY <1>1, <2>1, Together DEF Writing
    <3> QED BY <3>1 DEF TypeOK
  <2>2. temp'[m] = Empty /\ temp'[m] # NoFile
    BY <1>1 DEF TypeOK, Empty, NoFile
  <2>3. job[j].received = 0
    BY DEF FileOfJob
  <2>4. \A p \in 1..0 : FALSE
    OBVIOUS
  <2>5. ASSUME NEW i \in Jobs \ {j}, Writing(i) PROVE temp'[job'[i].model] = temp[job[i].model]
    BY <1>3, <2>1, <2>5
  <2>6. ASSUME NEW i \in Jobs \ {j}
        PROVE  job'[i] = job[i] /\ (Writing(i) => temp'[job[i].model] = temp[job[i].model])
    BY <1>3, <2>5
  <2>7. \A content \in temp'[m] : \A p \in 1..job'[j].received : content[p] = "good"
    BY <1>3, <2>3, <2>4
  <2>8. ASSUME NEW i \in Jobs
        PROVE  /\ Writing(i)' => job'[i].name = "temp" /\ temp'[job'[i].model] # NoFile
               /\ Writing(i)' /\ job'[i].intact =>
                    \A content \in temp'[job'[i].model] :
                      \A p \in 1..job'[i].received : content[p] = "good"
               /\ job'[i].step = "install" => job'[i].intact /\ job'[i].received = Chunks
               /\ job'[i].step \in {"queued", "create"} => job'[i].received = 0
               /\ job'[i].step # "idle" => job'[i].model \in Models
    <3> HIDE DEF m, CreateTemp
    <3>1. CASE i = j
      BY <1>1, <1>3, <2>2, <2>7, <3>1
    <3>2. CASE i # j
      <4>1. /\ Writing(i) => job[i].name = "temp" /\ temp[job[i].model] # NoFile
            /\ Writing(i) /\ job[i].intact =>
                 \A content \in temp[job[i].model] : \A p \in 1..job[i].received : content[p] = "good"
            /\ job[i].step = "install" => job[i].intact /\ job[i].received = Chunks
            /\ job[i].step \in {"queued", "create"} => job[i].received = 0
            /\ job[i].step # "idle" => job[i].model \in Models
        BY DEF FileOfJob
      <4>2. job'[i] = job[i] /\ (Writing(i)' <=> Writing(i))
        BY <2>6, <3>2 DEF Writing
      <4> QED BY <2>6, <3>2, <4>1, <4>2
    <3> QED BY <3>1, <3>2
  <2> QED BY <2>8 DEF FileOfJob
<1>6. DestComplete'
  BY DEF DestComplete
<1> QED BY <1>2, <1>4, <1>5, <1>6

LEMMA ReceiveKeepsDownloads ==
  ASSUME ModelAssumption, DownloadInv, NEW j \in Jobs, NEW byte \in {"good", "bad"}, Receive(j, byte)
  PROVE  DownloadInv'
<1> USE DEF DownloadInv, ModelAssumption
<1> DEFINE m == job[j].model
           p == job[j].received + 1
<1>1. /\ job[j].step = "stream" /\ m \in Models /\ job[j].name = "temp" /\ temp[m] \in Files
      /\ job[j].received \in Nat /\ job[j].received < Chunks
  BY DEF Receive, At, FileOfJob, Writing, TypeOK, JobType
<1>2. /\ temp' = [temp EXCEPT ![m] = Put(@, p, byte)] /\ dest' = dest /\ status' = status
      /\ job' = [job EXCEPT ![j].received = p, ![j].intact = @ /\ byte = "good"]
  BY <1>1 DEF Receive
<1>3. p \in Positions /\ byte \in Bytes /\ p \in 0..Chunks
  BY <1>1 DEF Positions, Bytes
<1>4. Put(temp[m], p, byte) \in Files
  BY <1>1, <1>3, PutType
<1>5. TypeOK'
  <2>1. [job[j] EXCEPT !.received = p, !.intact = @ /\ byte = "good"] \in JobType
    BY <1>3, ZenonT(60) DEF TypeOK, JobType
  <2> QED BY <1>1, <1>2, <1>4, <2>1 DEF TypeOK
<1>6. /\ job'[j].step = "stream" /\ job'[j].name = "temp" /\ job'[j].model = m
      /\ job'[j].received = p /\ (job'[j].intact => job[j].intact /\ byte = "good")
      /\ \A i \in Jobs \ {j} : job'[i] = job[i]
  BY <1>1, <1>2 DEF TypeOK, JobType
<1>7. BusyHasOneJob'
  BY <1>1, <1>2, <1>6, OneJobKept
<1>8. temp'[m] # NoFile /\ (job'[j].intact =>
        \A content \in temp'[m] : \A q \in 1..p : content[q] = "good")
  <2>1. temp'[m] = Put(temp[m], p, byte) /\ temp[m] # NoFile
    BY <1>1, <1>2 DEF TypeOK, FileOfJob, Writing
  <2>2. Put(temp[m], p, byte) # {}
    BY <2>1 DEF Put, NoFile
  <2>3. ASSUME job'[j].intact, NEW content \in temp'[m], NEW q \in 1..p
        PROVE  content[q] = "good"
    <3>1. PICK old \in temp[m] : content = [old EXCEPT ![p] = byte]
      BY <2>1 DEF Put
    <3>2. old \in [Positions -> Bytes]
      BY <1>1 DEF Files
    <3>3. CASE q = p
      BY <1>3, <1>6, <2>3, <3>1, <3>2, <3>3
    <3>4. CASE q # p
      <4>1. q \in 1..job[j].received /\ q \in Positions
        BY <1>1, <3>4 DEF Positions
      <4>2. old[q] = "good"
        BY <1>1, <1>6, <2>3, <4>1 DEF FileOfJob, Writing
      <4> QED BY <3>1, <3>2, <3>4, <4>1, <4>2
    <3> QED BY <3>3, <3>4
  <2> QED BY <2>1, <2>2, <2>3 DEF NoFile
<1>9. FileOfJob'
  <2>1. ASSUME NEW i \in Jobs \ {j}, Writing(i) PROVE temp'[job'[i].model] = temp[job[i].model]
    <3>1. job[i].model # m
      BY <1>1, <2>1, Together DEF Writing
    <3> QED BY <1>2, <1>6, <3>1 DEF TypeOK
  <2> QED BY <1>1, <1>6, <1>8, <2>1 DEF FileOfJob, Writing
<1>10. DestComplete'
  BY <1>2 DEF DestComplete
<1> QED BY <1>5, <1>7, <1>9, <1>10

(* Removing or renaming the file of a model concerns no other task. *)
LEMMA RenamedJobs ==
  ASSUME ModelAssumption, DownloadInv, NEW j \in Jobs, job[j].step # "idle", NEW step \in Steps, step # "idle",
         NEW name \in {"dest", "none"},
         job' = Renamed([job EXCEPT ![j].step = step], job[j].model, name)
  PROVE  /\ job' \in [Jobs -> JobType]
         /\ job'[j].step = step /\ job'[j].model = job[j].model
         /\ \A i \in Jobs \ {j} :
              /\ job'[i].step = job[i].step /\ job'[i].model = job[i].model
              /\ job'[i].received = job[i].received /\ job'[i].intact = job[i].intact
              /\ Writing(i) => job'[i] = job[i]
<1> USE DEF DownloadInv
<1> DEFINE next == [job EXCEPT ![j].step = step]
<1>1. next \in [Jobs -> JobType]
  <2>1. [job[j] EXCEPT !.step = step] \in JobType
    BY DEF TypeOK, JobType
  <2> QED BY <2>1 DEF TypeOK
<1>2. next[j].step = step /\ next[j].model = job[j].model /\ \A i \in Jobs \ {j} : next[i] = job[i]
  BY DEF TypeOK, JobType
<1> HIDE DEF next
<1>3. ASSUME NEW i \in Jobs
      PROVE  /\ job'[i] \in JobType /\ job'[i].step = next[i].step /\ job'[i].model = next[i].model
             /\ job'[i].received = next[i].received /\ job'[i].intact = next[i].intact
             /\ next[i].model # job[j].model => job'[i] = next[i]
  <2>1. job'[i] = IF next[i].model = job[j].model /\ next[i].name = "temp"
                  THEN [next[i] EXCEPT !.name = name] ELSE next[i]
    BY DEF Renamed, next
  <2>2. next[i] \in JobType
    BY <1>1
  <2> QED BY <2>1, <2>2 DEF JobType
<1>4. job' \in [Jobs -> JobType]
  BY <1>3 DEF Renamed
<1>5. ASSUME NEW i \in Jobs \ {j}, Writing(i) PROVE job'[i] = job[i]
  <2>1. job[i].model # job[j].model
    BY <1>5, Together DEF Writing
  <2> QED BY <1>2, <1>3, <2>1, ZenonT(60)
<1> QED BY ZenonT(60), <1>2, <1>3, <1>4, <1>5

LEMMA RemoveKeepsDownloads ==
  ASSUME ModelAssumption, DownloadInv, NEW j \in Jobs, job[j].step \in {"stream", "clean"},
         NEW step \in {"clean", "failed"}, RemoveTemp(j, step)
  PROVE  DownloadInv'
<1> USE DEF DownloadInv, ModelAssumption
<1> DEFINE m == job[j].model
<1>1. m \in Models /\ job[j].step # "idle" /\ step \in Steps
  BY DEF FileOfJob, Steps
<1>2. /\ temp' = [temp EXCEPT ![m] = NoFile] /\ UNCHANGED <<status, dest>>
      /\ job' = Renamed([job EXCEPT ![j].step = step], m, "none")
  BY DEF RemoveTemp
<1>3. /\ job' \in [Jobs -> JobType] /\ job'[j].step = step /\ job'[j].model = m
      /\ \A i \in Jobs \ {j} :
           /\ job'[i].step = job[i].step /\ job'[i].model = job[i].model
           /\ job'[i].received = job[i].received
           /\ Writing(i) => job'[i] = job[i]
  BY <1>1, <1>2, RenamedJobs, ZenonT(60)
<1>4. TypeOK'
  BY <1>1, <1>2, <1>3 DEF TypeOK, Files, NoFile
<1>5. BusyHasOneJob'
  BY <1>1, <1>2, <1>3, OneJobKept
<1>6. FileOfJob'
  <2>1. ASSUME NEW i \in Jobs \ {j}, Writing(i) PROVE temp'[job[i].model] = temp[job[i].model]
    <3>1. job[i].model # m
      BY <1>1, <2>1, Together DEF Writing
    <3> QED BY <1>2, <3>1 DEF TypeOK
  <2> QED BY <1>1, <1>3, <2>1 DEF FileOfJob, Writing
<1>7. DestComplete'
  BY <1>2 DEF DestComplete
<1> QED BY <1>4, <1>5, <1>6, <1>7

(* Only what was received whole and intact goes on to be installed. *)
LEMMA VerifyKeepsDownloads ==
  ASSUME ModelAssumption, DownloadInv, NEW j \in Jobs, Verify(j)
  PROVE  DownloadInv'
<1> USE DEF DownloadInv, ModelAssumption
<1>1. job[j].step = "stream" /\ job[j].model \in Models
  BY DEF Verify, At, FileOfJob
<1>2. CASE Intact(job[j]) /\ Goto(j, "install") /\ UNCHANGED <<status, temp, dest>>
  <2>1. [job[j] EXCEPT !.step = "install"] \in JobType
    BY ZenonT(60) DEF TypeOK, JobType, Steps
  <2>2. TypeOK'
    BY <1>2, <2>1 DEF TypeOK, Goto
  <2>3. /\ job'[j].step = "install" /\ job'[j].name = job[j].name /\ job'[j].model = job[j].model
        /\ job'[j].received = job[j].received /\ job'[j].intact = job[j].intact
        /\ \A i \in Jobs \ {j} : job'[i] = job[i]
    BY <1>2 DEF TypeOK, JobType, Goto
  <2>4. BusyHasOneJob'
    BY <1>1, <1>2, <2>3, OneJobKept
  <2>5. FileOfJob'
    <3>1. job[j].intact /\ job[j].received = Chunks /\ temp' = temp
      BY <1>2 DEF Intact
    <3>2. \A i \in Jobs : job'[i].step # "idle" => job'[i].model = job[i].model /\ job[i].step # "idle"
      BY <1>1, <2>3
    <3>3. \A i \in Jobs : Writing(i)' =>
            /\ Writing(i) /\ job'[i].name = job[i].name /\ job'[i].model = job[i].model
            /\ job'[i].received = job[i].received /\ job'[i].intact = job[i].intact
      BY <1>1, <2>3 DEF Writing
    <3>4. \A i \in Jobs : job'[i].step \in {"queued", "create"} => job'[i] = job[i]
      BY <2>3
    <3>5. ASSUME NEW i \in Jobs
          PROVE  /\ Writing(i)' => job'[i].name = "temp" /\ temp'[job'[i].model] # NoFile
                 /\ Writing(i)' /\ job'[i].intact =>
                      \A content \in temp'[job'[i].model] :
                        \A p \in 1..job'[i].received : content[p] = "good"
      BY <3>1, <3>3 DEF FileOfJob
    <3>6. ASSUME NEW i \in Jobs
          PROVE  /\ job'[i].step = "install" => job'[i].intact /\ job'[i].received = Chunks
                 /\ job'[i].step \in {"queued", "create"} => job'[i].received = 0
                 /\ job'[i].step # "idle" => job'[i].model \in Models
      <4>1. CASE i = j
        BY <1>1, <2>3, <3>1, <4>1
      <4>2. CASE i # j
        BY <2>3, <4>2 DEF FileOfJob
      <4> QED BY <4>1, <4>2
    <3> QED BY <3>5, <3>6 DEF FileOfJob
  <2>6. DestComplete'
    BY <1>2 DEF DestComplete
  <2> QED BY <2>2, <2>4, <2>5, <2>6
<1>3. CASE RemoveTemp(j, "clean")
  BY <1>1, <1>3, RemoveKeepsDownloads
<1> QED BY <1>2, <1>3 DEF Verify

LEMMA InstallKeepsDownloads ==
  ASSUME ModelAssumption, DownloadInv, NEW j \in Jobs, Install(j)
  PROVE  DownloadInv'
<1> USE DEF DownloadInv, ModelAssumption
<1> DEFINE m == job[j].model
<1>1. /\ job[j].step = "install" /\ m \in Models /\ temp[m] # NoFile /\ "installed" \in Steps
      /\ job[j].intact /\ job[j].received = Chunks
  BY DEF Install, At, FileOfJob, Writing, Steps
<1>2. /\ dest' = [dest EXCEPT ![m] = temp[m]] /\ temp' = [temp EXCEPT ![m] = NoFile]
      /\ job' = Renamed([job EXCEPT ![j].step = "installed"], m, "dest")
      /\ status' = status
  BY <1>1 DEF Install
<1>3. /\ job' \in [Jobs -> JobType] /\ job'[j].step = "installed" /\ job'[j].model = m
      /\ \A i \in Jobs \ {j} :
           /\ job'[i].step = job[i].step /\ job'[i].model = job[i].model
           /\ job'[i].received = job[i].received
           /\ Writing(i) => job'[i] = job[i]
  BY ZenonT(60), <1>1, <1>2, RenamedJobs
<1>4. TypeOK'
  BY <1>1, <1>2, <1>3 DEF TypeOK, Files, NoFile
<1>5. BusyHasOneJob'
  BY ZenonT(60), <1>1, <1>2, <1>3, OneJobKept
<1>6. FileOfJob'
  <2>1. ASSUME NEW i \in Jobs \ {j}, Writing(i) PROVE temp'[job[i].model] = temp[job[i].model]
    <3>1. job[i].model # m
      BY <1>1, <2>1, Together DEF Writing
    <3> QED BY <1>2, <3>1 DEF TypeOK
  <2> QED BY <1>1, <1>3, <2>1 DEF FileOfJob, Writing
<1>7. Complete(temp[m])
  BY <1>1 DEF FileOfJob, Writing, Complete, Positions
<1>8. DestComplete'
  BY <1>1, <1>2, <1>7 DEF DestComplete, Complete, TypeOK
<1> QED BY <1>4, <1>5, <1>6, <1>8

(* The last step of a task frees its model. *)
LEMMA ReportKeepsDownloads ==
  ASSUME ModelAssumption, DownloadInv, NEW j \in Jobs, Report(j)
  PROVE  DownloadInv'
<1> USE DEF DownloadInv, ModelAssumption, Report
<1> DEFINE m == job[j].model
<1>1. m \in Models /\ job[j].step # "idle"
  BY DEF FileOfJob
<1>2. IdleJob \in JobType /\ IdleJob.step = "idle"
  BY DEF IdleJob, JobType, Steps
<1>3. job'[j] = IdleJob /\ \A i \in Jobs \ {j} : job'[i] = job[i]
  BY DEF TypeOK
<1>4. TypeOK'
  BY <1>1, <1>2 DEF TypeOK
<1>5. BusyHasOneJob'
  <2>1. status'[m] \in {"installed", "failed"} /\ \A k \in Models \ {m} : status'[k] = status[k]
    BY <1>1 DEF TypeOK
  <2>2. ASSUME NEW i \in Jobs PROVE ~(job'[i].step # "idle" /\ job'[i].model = m)
    <3>1. CASE i = j
      BY <1>2, <1>3, <3>1
    <3>2. CASE i # j /\ job[i].step # "idle"
      <4>1. job[i].model # m
        BY <1>1, <3>2, Together
      <4> QED BY <1>3, <3>2, <4>1
    <3> QED BY <1>3, <3>1, <3>2
  <2>3. \A i \in Jobs, k \in Models \ {m} : Works(i, k)' <=> Works(i, k)
    BY <1>2, <1>3 DEF Works
  <2>4. ASSUME NEW k \in Models
        PROVE  /\ \A i, h \in Jobs : Works(i, k)' /\ Works(h, k)' => i = h
               /\ Busy(status'[k]) <=> \E i \in Jobs : Works(i, k)'
    <3>1. CASE k = m
      BY <2>1, <2>2, <3>1 DEF Works, Busy
    <3>2. CASE k # m
      BY <2>1, <2>3, <3>2 DEF BusyHasOneJob
    <3> QED BY <3>1, <3>2
  <2> QED BY <2>4 DEF BusyHasOneJob
<1>6. FileOfJob'
  BY <1>2, <1>3 DEF FileOfJob, Writing
<1>7. DestComplete'
  BY DEF DestComplete
<1> QED BY <1>4, <1>5, <1>6, <1>7

LEMMA RestartKeepsDownloads ==
  ASSUME ModelAssumption, DownloadInv, Restart
  PROVE  DownloadInv'
<1> USE DEF DownloadInv, ModelAssumption, Restart
<1>1. IdleJob \in JobType /\ IdleJob.step = "idle"
  BY DEF IdleJob, JobType, Steps
<1>2. TypeOK'
  BY <1>1 DEF TypeOK
<1>3. BusyHasOneJob'
  BY <1>1 DEF BusyHasOneJob, Works, Busy
<1>4. FileOfJob'
  BY <1>1 DEF FileOfJob, Writing
<1>5. DestComplete'
  BY DEF DestComplete
<1> QED BY <1>2, <1>3, <1>4, <1>5

LEMMA DownloadStep ==
  ASSUME ModelAssumption, DownloadInv, [Next]_vars
  PROVE  DownloadInv'
<1>1. CASE UNCHANGED vars
  BY <1>1 DEF vars, DownloadInv, TypeOK, BusyHasOneJob, Works, FileOfJob, Writing, DestComplete
<1>2. ASSUME NEW j \in Jobs, Work(j) PROVE DownloadInv'
  <2>1. CASE Clean(j)
    BY <2>1, RemoveKeepsDownloads DEF Clean, At
  <2> QED BY <1>2, <2>1, PlainKeepsDownloads, CreateKeepsDownloads, ReceiveKeepsDownloads, VerifyKeepsDownloads, InstallKeepsDownloads, ReportKeepsDownloads DEF Work
<1> QED BY <1>1, <1>2, RequestKeepsDownloads, RestartKeepsDownloads DEF Next

-----------------------------------------------------------------------------

(* For any catalog, any number of tasks and models of any size: what the page shows
   as installed is what the checksum of the catalog stands for. *)
THEOREM DownloadsVerified ==
  ASSUME ModelAssumption
  PROVE  Spec => []DownloadedIsVerified
<1>1. DownloadInv => DownloadedIsVerified
  BY DEF DownloadInv, DestComplete, DownloadedIsVerified
<1> QED BY DownloadInit, DownloadStep, <1>1, PTL DEF Spec

(* And a model is on its way exactly while one task works on it. *)
THEOREM DownloadsHaveOneJob ==
  ASSUME ModelAssumption
  PROVE  Spec => []BusyHasOneJob
<1>1. DownloadInv => BusyHasOneJob
  BY DEF DownloadInv
<1> QED BY DownloadInit, DownloadStep, <1>1, PTL DEF Spec

-----------------------------------------------------------------------------
(* The native shells. *)
(* A command that waits for a runtime, or has its local API, has a run. *)
StartsHaveRuns == \A c \in Callers : caller[c].at \in {"awaiting", "keeping"} => caller[c].run \in S!Runs

ShellInv == S!TypeOK /\ StartsHaveRuns /\ S!AbandonedAreAsked /\ S!HeldIsShown

LEMMA ShellInit == ASSUME S!Init PROVE ShellInv
BY DEF S!Init, ShellInv, S!TypeOK, StartsHaveRuns, S!AbandonedAreAsked, S!HeldIsShown, S!Idle, S!Unborn, S!None, S!Alive

(* What a command learns of the handle: a runtime that lives is never forgotten. *)
LEMMA RefreshedRight ==
  ASSUME ShellInv
  PROVE  /\ S!Refreshed.held \in S!Runs \cup {S!None}
         /\ S!Refreshed.phase \in {"stopped", "running", "failed"}
         /\ S!Refreshed.phase = "running" <=> S!Refreshed.held # S!None
         /\ \A r \in S!Runs : S!Alive(r) /\ heldRun = r => S!Refreshed.held = r
BY DEF ShellInv, S!TypeOK, S!Refreshed, S!Alive, S!Over, S!None, S!Runs

LEMMA RefreshedKeeps ==
  ASSUME ShellInv, NEW c \in Callers, S!Start(c) \/ S!Status(c)
  PROVE  ShellInv'
<1>1. /\ heldRun' = S!Refreshed.held /\ run' = run /\ shell' = shell
      /\ caller' = caller \/ (caller[c] = S!Idle /\ caller' = [caller EXCEPT ![c].at = "preparing"])
  BY DEF S!Start, S!Status
<1>2. /\ heldRun' \in S!Runs \cup {S!None} /\ phase' \in {"stopped", "starting", "running", "failed"}
      /\ phase' = "running" <=> heldRun' # S!None
  BY RefreshedRight DEF S!Start, S!Status
<1>3. S!TypeOK'
  BY <1>1, <1>2 DEF ShellInv, S!TypeOK
<1>4. StartsHaveRuns'
  BY <1>1 DEF ShellInv, S!TypeOK, StartsHaveRuns
<1>5. S!AbandonedAreAsked'
  <2> SUFFICES ASSUME NEW r \in S!Runs, S!Alive(r), ~run[r].asked
               PROVE  \/ heldRun' = r
                      \/ \E d \in Callers : caller'[d].at \in {"awaiting", "keeping"} /\ caller'[d].run = r
    BY <1>1 DEF S!AbandonedAreAsked, S!Alive
  <2>1. CASE heldRun = r
    BY <1>1, <2>1, RefreshedRight
  <2>2. CASE heldRun # r
    <3>1. PICK d \in Callers : caller[d].at \in {"awaiting", "keeping"} /\ caller[d].run = r
      BY <2>2 DEF ShellInv, S!AbandonedAreAsked
    <3> QED BY <1>1, <3>1 DEF ShellInv, S!TypeOK, S!Idle
  <2> QED BY <2>1, <2>2
<1> QED BY <1>2, <1>3, <1>4, <1>5 DEF ShellInv, S!HeldIsShown

LEMMA ThreadKeepsShell ==
  ASSUME ShellInv, NEW r \in S!Runs, S!Ready(r) \/ S!Greeted(r) \/ S!Fails(r) \/ S!Exits(r)
  PROVE  ShellInv'
<1> USE DEF ShellInv, S!Ready, S!Greeted, S!Fails, S!Exits
<1>1. S!TypeOK'
  BY DEF S!TypeOK
<1>2. StartsHaveRuns' /\ S!HeldIsShown'
  BY DEF StartsHaveRuns, S!HeldIsShown
<1>3. S!AbandonedAreAsked'
  BY DEF S!TypeOK, S!AbandonedAreAsked, S!Alive
<1> QED BY <1>1, <1>2, <1>3

LEMMA SpawnKeepsShell ==
  ASSUME ShellInv, NEW c \in Callers, S!Unprepared(c) \/ S!Spawn(c) \/ S!GotApi(c)
  PROVE  ShellInv'
<1> USE DEF ShellInv
<1>1. CASE S!Unprepared(c)
  <2> USE <1>1 DEF S!Unprepared
  <2>1. S!TypeOK'
    BY DEF S!TypeOK
  <2>2. StartsHaveRuns' /\ S!HeldIsShown'
    BY DEF S!TypeOK, StartsHaveRuns, S!HeldIsShown
  <2>3. S!AbandonedAreAsked'
    BY DEF S!TypeOK, S!AbandonedAreAsked, S!Alive
  <2> QED BY <2>1, <2>2, <2>3
<1>2. CASE S!Spawn(c)
  <2>1. PICK r \in S!Runs : /\ run[r] = S!Unborn /\ run' = [run EXCEPT ![r].at = "booting"]
                            /\ caller' = [caller EXCEPT ![c] = [at |-> "awaiting", run |-> r]]
    BY <1>2 DEF S!Spawn
  <2> USE <1>2, <2>1 DEF S!Spawn
  <2>2. S!TypeOK'
    BY DEF S!TypeOK
  <2>3. StartsHaveRuns' /\ S!HeldIsShown'
    BY DEF S!TypeOK, StartsHaveRuns, S!HeldIsShown
  <2>4. S!AbandonedAreAsked'
    BY DEF S!TypeOK, S!AbandonedAreAsked, S!Alive
  <2> QED BY <2>2, <2>3, <2>4
<1>3. CASE S!GotApi(c)
  <2> USE <1>3 DEF S!GotApi
  <2>1. S!TypeOK'
    BY DEF S!TypeOK
  <2>2. StartsHaveRuns' /\ S!HeldIsShown'
    BY DEF S!TypeOK, StartsHaveRuns, S!HeldIsShown
  <2>3. S!AbandonedAreAsked'
    BY DEF S!TypeOK, S!AbandonedAreAsked, S!Alive
  <2> QED BY <2>1, <2>2, <2>3
<1> QED BY <1>1, <1>2, <1>3

(* Asking a run to end changes nothing else, and lets go of it. *)
LEMMA AskedRight ==
  ASSUME S!TypeOK, NEW r \in S!Runs \cup {S!None}
  PROVE  /\ S!Asked(run, r) \in [S!Runs -> [at : {"unborn", "booting", "greeting", "looping", "exited", "failed"},
                                        told : BOOLEAN, asked : BOOLEAN]]
         /\ \A s \in S!Runs : /\ S!Asked(run, r)[s].at = run[s].at
                              /\ run[s].asked \/ s = r => S!Asked(run, r)[s].asked
<1>1. CASE r = S!None
  BY <1>1 DEF S!TypeOK, S!Asked, S!None, S!Runs
<1>2. CASE r # S!None
  <2>1. r \in S!Runs /\ S!Asked(run, r) = [run EXCEPT ![r].asked = TRUE]
    BY <1>2 DEF S!Asked
  <2>2. S!Asked(run, r) \in [S!Runs -> [at : {"unborn", "booting", "greeting", "looping", "exited", "failed"},
                                       told : BOOLEAN, asked : BOOLEAN]]
    BY <2>1, ZenonT(60) DEF S!TypeOK
  <2>3. ASSUME NEW s \in S!Runs
        PROVE  S!Asked(run, r)[s].at = run[s].at /\ (run[s].asked \/ s = r => S!Asked(run, r)[s].asked)
    <3>1. CASE s = r
      BY <2>1, <3>1 DEF S!TypeOK
    <3>2. CASE s # r
      BY <2>1, <3>2 DEF S!TypeOK
    <3> QED BY <3>1, <3>2
  <2> QED BY <2>2, <2>3
<1> QED BY <1>1, <1>2

(* Giving up, failing, keeping and stopping: whatever run is let go of is asked. *)
LEMMA ReleaseKeepsShell ==
  ASSUME ShellInv, NEW c \in Callers,
         S!NativeGivesUp(c) \/ S!MobileGivesUp(c) \/ S!Failure(c) \/ S!Keep(c) \/ S!Stop(c) \/ S!Joined(c)
  PROVE  ShellInv'
<1>1. CASE S!NativeGivesUp(c) \/ S!MobileGivesUp(c)
  <2> DEFINE s == caller[c].run
  <2>1. /\ s \in S!Runs /\ run' = S!Asked(run, s) /\ UNCHANGED <<shell, phase, heldRun>>
        /\ caller' = [caller EXCEPT ![c] = [at |-> "failing", run |-> S!None]]
    BY <1>1 DEF S!NativeGivesUp, S!MobileGivesUp, ShellInv, StartsHaveRuns
  <2>2. S!TypeOK'
    BY <2>1, AskedRight DEF ShellInv, S!TypeOK
  <2>3. StartsHaveRuns' /\ S!HeldIsShown'
    BY <2>1 DEF ShellInv, S!TypeOK, StartsHaveRuns, S!HeldIsShown
  <2>4. S!AbandonedAreAsked'
    <3>1. \A q \in S!Runs : run'[q].at = run[q].at /\ (run[q].asked \/ q = s => run'[q].asked)
      <4>1. S!TypeOK /\ s \in S!Runs \cup {S!None} /\ run' = S!Asked(run, s)
        BY <2>1 DEF ShellInv
      <4> HIDE DEF s
      <4>2. \A q \in S!Runs : /\ S!Asked(run, s)[q].at = run[q].at
                              /\ run[q].asked \/ q = s => S!Asked(run, s)[q].asked
        BY <4>1, AskedRight
      <4> QED BY <4>1, <4>2, Zenon
    <3>2. caller \in [Callers -> [at : {"idle", "preparing", "awaiting", "keeping", "failing", "joining"},
                                 run : S!Runs \cup {S!None}]]
      BY DEF ShellInv, S!TypeOK
    <3> SUFFICES ASSUME NEW q \in S!Runs, S!Alive(q)', ~run'[q].asked
                 PROVE  \/ heldRun' = q
                        \/ \E d \in Callers : caller'[d].at \in {"awaiting", "keeping"} /\ caller'[d].run = q
      BY DEF S!AbandonedAreAsked
    <3>3. S!Alive(q) /\ ~run[q].asked /\ q # s
      BY <3>1 DEF S!Alive
    <3>4. CASE heldRun = q
      BY <2>1, <3>4
    <3>5. CASE heldRun # q
      <4>1. PICK d \in Callers : caller[d].at \in {"awaiting", "keeping"} /\ caller[d].run = q
        BY <3>3, <3>5 DEF ShellInv, S!AbandonedAreAsked
      <4>2. d # c
        BY <3>3, <4>1
      <4> QED BY <2>1, <3>2, <4>1, <4>2
    <3> QED BY <3>4, <3>5
  <2> QED BY <2>2, <2>3, <2>4 DEF ShellInv
<1>2. CASE S!Failure(c) \/ S!Keep(c) \/ S!Stop(c)
  <2>1. /\ run' = S!Asked(run, heldRun) /\ shell' = shell
        /\ heldRun' = S!None \/ (S!Keep(c) /\ heldRun' = caller[c].run)
        /\ \A d \in Callers \ {c} : caller'[d] = caller[d]
        /\ caller'[c].at \notin {"awaiting", "keeping"}
    BY <1>2 DEF S!Failure, S!Keep, S!Stop, S!Dropped, S!Cleared, ShellInv, S!TypeOK, S!Idle
  <2>2. caller' \in [Callers ->
           [at : {"idle", "preparing", "awaiting", "keeping", "failing", "joining"},
            run : S!Runs \cup {S!None}]]
    BY <1>2 DEF S!Failure, S!Keep, S!Stop, ShellInv, S!TypeOK, S!Idle
  <2>3. S!Keep(c) => caller[c].run \in S!Runs /\ caller[c].at = "keeping"
    BY DEF S!Keep, ShellInv, StartsHaveRuns
  <2>4. S!TypeOK'
    BY <1>2, <2>1, <2>2, <2>3, AskedRight DEF S!Failure, S!Keep, S!Stop, ShellInv, S!TypeOK
  <2>5. StartsHaveRuns'
    BY <2>1 DEF ShellInv, StartsHaveRuns
  <2>6. S!HeldIsShown'
    BY <1>2, <2>3 DEF S!Failure, S!Keep, S!Stop, S!Cleared, S!HeldIsShown, S!None, S!Runs
  <2>7. S!AbandonedAreAsked'
    <3> SUFFICES ASSUME NEW r \in S!Runs, S!Alive(r)', ~run'[r].asked
                 PROVE  \/ heldRun' = r
                        \/ \E d \in Callers : caller'[d].at \in {"awaiting", "keeping"} /\ caller'[d].run = r
      BY DEF S!AbandonedAreAsked
    <3>0. \A q \in S!Runs : run'[q].at = run[q].at /\ (run[q].asked \/ q = heldRun => run'[q].asked)
      <4>1. S!TypeOK /\ heldRun \in S!Runs \cup {S!None} /\ run' = S!Asked(run, heldRun)
        BY <2>1 DEF ShellInv, S!TypeOK
      <4>2. \A q \in S!Runs : /\ S!Asked(run, heldRun)[q].at = run[q].at
                              /\ run[q].asked \/ q = heldRun => S!Asked(run, heldRun)[q].asked
        BY <4>1, AskedRight
      <4> QED BY <4>1, <4>2, Zenon
    <3>1. S!Alive(r) /\ ~run[r].asked /\ heldRun # r
      BY <3>0 DEF S!Alive
    <3>2. PICK d \in Callers : caller[d].at \in {"awaiting", "keeping"} /\ caller[d].run = r
      BY <3>1 DEF ShellInv, S!AbandonedAreAsked
    <3>3. CASE d = c
      BY <1>2, <3>2, <3>3 DEF S!Failure, S!Keep, S!Stop, S!Idle
    <3>4. CASE d # c
      BY <2>1, <3>2, <3>4
    <3> QED BY <3>3, <3>4
  <2> QED BY <2>4, <2>5, <2>6, <2>7 DEF ShellInv
<1>3. CASE S!Joined(c)
  <2> USE <1>3 DEF S!Joined, ShellInv, S!Idle
  <2>1. S!TypeOK'
    BY DEF S!TypeOK
  <2>2. StartsHaveRuns' /\ S!HeldIsShown'
    BY DEF S!TypeOK, StartsHaveRuns, S!HeldIsShown
  <2>3. S!AbandonedAreAsked'
    BY DEF S!TypeOK, S!AbandonedAreAsked, S!Alive
  <2> QED BY <2>1, <2>2, <2>3
<1> QED BY <1>1, <1>2, <1>3

LEMMA ShellStep == ASSUME ShellInv, [S!Next]_shellVars PROVE ShellInv'
<1>1. CASE UNCHANGED shellVars
  BY <1>1 DEF shellVars, ShellInv, S!TypeOK, StartsHaveRuns, S!AbandonedAreAsked, S!HeldIsShown, S!Alive
<1> QED BY <1>1, RefreshedKeeps, ThreadKeepsShell, SpawnKeepsShell, ReleaseKeepsShell DEF S!Next

(* A client that no call holds and no window shows has been asked to end, and the run that is
   held is the one that the window shows, whatever calls start, stop and fail together
   (clients/app and bridge-app). *)
THEOREM ShellsAskClients == Parts => []ShellRight
<1>1. PartsInit => (part = "shell" => ShellInv)
  BY ShellInit DEF PartsInit
<1>2. (part = "shell" => ShellInv) /\ [PartsNext]_partVars => (part = "shell" => ShellInv)'
  BY ShellStep, PartsStep
<1>3. (part = "shell" => ShellInv) => ShellRight
  BY DEF ShellRight, ShellInv
<1> QED BY <1>1, <1>2, <1>3, PTL DEF Parts

-----------------------------------------------------------------------------
(* The microphone. *)
(* What the health task holds of the drops, and that the callback holds one only while it
   records it. *)
CountsRight ==
  /\ K!CountedOnce
  /\ K!TotalCoversCounts
  /\ at = "samples" => ~offerDropped
  /\ health.at = "idle" => health.count = 0
  /\ health.at = "sent" => told.sum + told.lost + health.count <= health.total

DropsCaptured == drops <= captured

(* The gate has counted the last frames that were speech. *)
RunRight ==
  /\ speechGate.speech <= Len(gateHeard)
  /\ \A k \in (Len(gateHeard) - speechGate.speech + 1)..Len(gateHeard) : gateHeard[k].loud = "speech"
  /\ \/ speechGate.speech = Len(gateHeard)
     \/ gateHeard[Len(gateHeard) - speechGate.speech].loud # "speech"

HeardFrames == [profile : K!Profiles, loud : K!Loudness]
CaptureTypes ==
  /\ K!TypeOK
  /\ told \in [sum : Nat, lost : Nat, total : Nat, reports : Nat]
  /\ gateHeard \in Seq(HeardFrames)
CaptureInv == CaptureTypes /\ CountsRight /\ DropsCaptured /\ RunRight /\ K!GateFollowsSpeech

LEMMA GateParams ==
  K!OpenFrames \in [K!Profiles -> Nat \ {0}] /\ K!HoldFrames \in [K!Profiles -> Nat]
BY DEF K!OpenFrames, K!HoldFrames, K!Profiles

LEMMA CaptureInit == ASSUME K!CaptureAssumption, K!Init PROVE CaptureInv
<1> USE DEF K!CaptureAssumption, K!Init, K!Shut, K!Idle
<1>1. CaptureTypes
  <2>1. speechGate \in [open : BOOLEAN, speech : Nat, hold : Nat]
    OBVIOUS
  <2>4. /\ sendQueue \in 0..CaptureQueueLimit /\ {captured, drops, unreported} \subseteq 0..MaxCaptured
    OBVIOUS
  <2>6. health \in [at : {"idle", "taken", "sent"}, count : Nat, total : Nat]
    OBVIOUS
  <2>5. K!TypeOK
    BY <2>1, <2>4, <2>6 DEF K!TypeOK
  <2>2. gateHeard \in Seq(HeardFrames)
    OBVIOUS
  <2>3. told \in [sum : Nat, lost : Nat, total : Nat, reports : Nat]
    OBVIOUS
  <2> QED BY <2>2, <2>3, <2>5 DEF CaptureTypes
<1>2. CountsRight /\ DropsCaptured
  BY DEF CountsRight, K!CountedOnce, K!TotalCoversCounts, DropsCaptured
<1>3. RunRight
  BY DEF RunRight
<1>4. K!GateFollowsSpeech
  BY DEF K!GateFollowsSpeech
<1> QED BY <1>1, <1>2, <1>3, <1>4 DEF CaptureInv

(* The gate: one more frame, under any profile. *)
LEMMA GateStep ==
  ASSUME CaptureTypes, RunRight, K!GateFollowsSpeech, NEW loud \in K!Loudness, NEW p \in K!Profiles,
         speechGate' = K!Gated(speechGate, loud, p),
         gateHeard' = Append(gateHeard, [profile |-> p, loud |-> loud])
  PROVE  /\ speechGate' \in [open : BOOLEAN, speech : Nat, hold : Nat]
         /\ gateHeard' \in Seq(HeardFrames)
         /\ RunRight' /\ K!GateFollowsSpeech'
<1> DEFINE s == speechGate.speech
           o == K!OpenFrames[p]
           H == K!HoldFrames[p]
           Want(i) == K!OpenFrames[gateHeard[i].profile]
<1>1. PICK n \in Nat : n = Len(gateHeard)
  BY DEF CaptureTypes
<1>2. /\ Len(gateHeard') = n + 1 /\ gateHeard' \in Seq(HeardFrames)
      /\ gateHeard'[n + 1] = [profile |-> p, loud |-> loud]
      /\ \A k \in 1..n : gateHeard'[k] = gateHeard[k] /\ gateHeard[k] \in HeardFrames
  <2>1. PICK f \in HeardFrames : f = [profile |-> p, loud |-> loud]
    BY DEF HeardFrames
  <2>2. gateHeard \in Seq(HeardFrames) /\ gateHeard' = Append(gateHeard, f)
    BY <2>1 DEF CaptureTypes
  <2> QED BY <1>1, <2>1, <2>2
<1>3. /\ o \in Nat \ {0} /\ H \in Nat
      /\ \A i \in 1..n : Want(i) \in Nat \ {0}
  BY <1>2, GateParams DEF HeardFrames
<1>4. speechGate \in [open : BOOLEAN, speech : Nat, hold : Nat]
  BY DEF CaptureTypes, K!TypeOK
<1>5. /\ speechGate' \in [open : BOOLEAN, speech : Nat, hold : Nat]
      /\ speechGate'.speech = IF loud = "speech" THEN s + 1 ELSE 0
      /\ speechGate'.open = IF loud = "speech" THEN speechGate.open \/ s + 1 >= o
                            ELSE speechGate.open /\ loud = "noise"
  <2>1. /\ s \in Nat /\ speechGate.hold \in Nat /\ speechGate.open \in BOOLEAN
    BY <1>4
  <2>2. CASE loud = "speech"
    <3>1. speechGate' = [speech |-> s + 1, open |-> speechGate.open \/ s + 1 >= o,
                         hold |-> IF s + 1 >= o THEN H ELSE speechGate.hold]
      BY <2>2 DEF K!Gated
    <3>2. PICK open \in BOOLEAN, hold \in Nat :
            /\ open = (speechGate.open \/ s + 1 >= o)
            /\ hold = IF s + 1 >= o THEN H ELSE speechGate.hold
      BY <1>3, <2>1
    <3>3. speechGate' = [speech |-> s + 1, open |-> open, hold |-> hold]
      BY <3>1, <3>2
    <3>4. /\ speechGate' \in [open : BOOLEAN, speech : Nat, hold : Nat]
          /\ speechGate'.speech = s + 1 /\ speechGate'.open = open
      BY <2>1, <3>3
    <3> QED BY Zenon, <2>2, <3>2, <3>4
  <2>3. CASE loud # "speech"
    <3>1. speechGate' = [speech |-> 0, open |-> speechGate.open /\ loud = "noise",
                         hold |-> IF speechGate.hold > 0 /\ loud = "noise"
                                  THEN speechGate.hold - 1 ELSE speechGate.hold]
      BY <2>3 DEF K!Gated
    <3> QED BY <2>1, <2>3, <3>1
  <2> QED BY <2>2, <2>3
<1>6. /\ s \in Nat /\ s <= n
      /\ \A k \in (n - s + 1)..n : gateHeard[k].loud = "speech"
      /\ s = n \/ gateHeard[n - s].loud # "speech"
  BY <1>1, <1>4 DEF RunRight
<1>7. gateHeard'[n + 1].loud = loud /\ gateHeard'[n + 1].profile = p
  BY <1>2
<1> HIDE DEF s, o, H
<1>8. RunRight'
  <2>1. CASE loud = "speech"
    <3>1. PICK t \in Nat : t = s + 1 /\ speechGate'.speech = t
      BY <1>5, <1>6, <2>1
    <3>2. PICK m \in Nat : m = n + 1 /\ Len(gateHeard') = m
      BY <1>2
    <3>3. t <= m /\ m - t = n - s
      BY <1>6, <3>1, <3>2
    <3>4. ASSUME NEW k \in (m - t + 1)..m PROVE gateHeard'[k].loud = "speech"
      <4>1. CASE k = n + 1
        BY <1>7, <2>1, <4>1
      <4>2. CASE k # n + 1
        <5>1. k \in (n - s + 1)..n /\ k \in 1..n
          BY <1>6, <3>2, <3>3, <3>4, <4>2
        <5> QED BY <1>2, <1>6, <5>1
      <4> QED BY <4>1, <4>2
    <3>5. t = m \/ gateHeard'[m - t].loud # "speech"
      <4>1. CASE s = n
        BY <3>1, <3>2, <4>1
      <4>2. CASE s # n
        <5>1. n - s \in 1..n
          BY <1>6, <4>2
        <5> QED BY <1>2, <1>6, <3>3, <4>2, <5>1
      <4> QED BY <4>1, <4>2
    <3> QED BY <3>1, <3>2, <3>3, <3>4, <3>5 DEF RunRight
  <2>2. CASE loud # "speech"
    BY <1>2, <1>5, <1>7, <2>2 DEF RunRight
  <2> QED BY <2>1, <2>2
<1>9. ASSUME NEW i \in 1..n PROVE K!Opens(i)' <=> K!Opens(i)
  <2>1. gateHeard'[i] = gateHeard[i] /\ Want(i) \in Nat \ {0}
    BY <1>2, <1>3
  <2>2. PICK w \in Nat \ {0} : w = K!OpenFrames[gateHeard[i].profile]
    BY <2>1
  <2>3. ASSUME i >= w, NEW j \in (i - w + 1)..i PROVE gateHeard'[j] = gateHeard[j]
    <3>1. j \in 1..n
      BY <2>3, <1>9
    <3> QED BY <1>2, <3>1
  <2>4. K!Opens(i) <=> i >= w /\ \A j \in (i - w + 1)..i : gateHeard[j].loud = "speech"
    BY <2>2 DEF K!Opens
  <2>5. K!Opens(i)' <=> i >= w /\ \A j \in (i - w + 1)..i : gateHeard'[j].loud = "speech"
    BY <2>1, <2>2 DEF K!Opens
  <2> QED BY <2>3, <2>4, <2>5
<1> PICK m \in Nat : m = n + 1
  OBVIOUS
<1>10. K!Opens(m)' <=> loud = "speech" /\ s + 1 >= o
  <2>1. K!Opens(m)' <=> m >= o /\ \A j \in (m - o + 1)..m : gateHeard'[j].loud = "speech"
    <3>1. K!OpenFrames[gateHeard'[m].profile] = o
      BY <1>7 DEF o
    <3> QED BY <3>1 DEF K!Opens
  <2>2. ASSUME loud = "speech", s + 1 >= o, NEW j \in (m - o + 1)..m
        PROVE  gateHeard'[j].loud = "speech"
    <3>1. CASE j = n + 1
      BY <1>7, <2>2, <3>1
    <3>2. CASE j # n + 1
      <4>1. j \in (n - s + 1)..n /\ j \in 1..n
        BY <1>3, <1>6, <2>2, <3>2
      <4> QED BY <1>2, <1>6, <4>1
    <3> QED BY <3>1, <3>2
  <2>3. s + 1 >= o => m >= o
    BY <1>3, <1>6
  <2>4. ASSUME loud = "speech", ~(s + 1 >= o), m >= o,
               \A j \in (m - o + 1)..m : gateHeard'[j].loud = "speech"
        PROVE  FALSE
    <3>1. n - s \in (m - o + 1)..m /\ n - s \in 1..n /\ s # n
      BY <1>3, <1>6, <2>4
    <3> QED BY <1>2, <1>6, <2>4, <3>1
  <2>5. ASSUME \A j \in (m - o + 1)..m : gateHeard'[j].loud = "speech"
        PROVE  loud = "speech"
    <3>1. m \in (m - o + 1)..m
      BY <1>3
    <3> QED BY <1>7, <2>5, <3>1
  <2> QED BY <2>1, <2>2, <2>3, <2>4, <2>5
<1>11. (\E i \in 1..(n + 1) : K!Opens(i)' /\ \A j \in i..(n + 1) : gateHeard'[j].loud # "quiet")
       <=> \/ loud = "speech" /\ s + 1 >= o
           \/ loud # "quiet" /\ \E i \in 1..n : K!Opens(i) /\ \A j \in i..n : gateHeard[j].loud # "quiet"
  <2>1. ASSUME loud = "speech", s + 1 >= o
        PROVE  \E i \in 1..(n + 1) : K!Opens(i)' /\ \A j \in i..(n + 1) : gateHeard'[j].loud # "quiet"
    <3>1. m \in 1..(n + 1)
      OBVIOUS
    <3>2. ASSUME NEW j \in m..(n + 1) PROVE gateHeard'[j].loud # "quiet"
      <4>1. j = n + 1
        OBVIOUS
      <4> QED BY <1>7, <2>1, <4>1
    <3>3. K!Opens(m)'
      BY <1>10, <2>1
    <3> QED BY Zenon, <3>1, <3>2, <3>3
  <2>2. ASSUME loud # "quiet", NEW i \in 1..n, K!Opens(i), \A j \in i..n : gateHeard[j].loud # "quiet"
        PROVE  \E k \in 1..(n + 1) : K!Opens(k)' /\ \A j \in k..(n + 1) : gateHeard'[j].loud # "quiet"
    <3>1. K!Opens(i)' /\ i \in 1..(n + 1)
      BY <1>9, <2>2
    <3>2. ASSUME NEW j \in i..(n + 1) PROVE gateHeard'[j].loud # "quiet"
      <4>1. CASE j = n + 1
        BY <1>7, <2>2, <4>1
      <4>2. CASE j # n + 1
        <5>1. j \in i..n /\ j \in 1..n
          BY <4>2
        <5> QED BY <1>2, <2>2, <5>1
      <4> QED BY <4>1, <4>2
    <3> QED BY <3>1, <3>2
  <2>3. ASSUME NEW i \in 1..(n + 1), K!Opens(i)', \A j \in i..(n + 1) : gateHeard'[j].loud # "quiet"
        PROVE  \/ loud = "speech" /\ s + 1 >= o
               \/ /\ loud # "quiet"
                  /\ \E k \in 1..n : K!Opens(k) /\ \A j \in k..n : gateHeard[j].loud # "quiet"
    <3>1. CASE i = m
      BY <1>10, <2>3, <3>1
    <3>2. CASE i # m
      <4>1. i \in 1..n /\ n + 1 \in i..(n + 1)
        BY <3>2
      <4>2. K!Opens(i) /\ loud # "quiet"
        BY <1>7, <1>9, <2>3, <4>1
      <4>3. ASSUME NEW j \in i..n PROVE gateHeard[j].loud # "quiet"
        <5>1. j \in 1..n /\ j \in i..(n + 1)
          BY <4>1
        <5> QED BY <1>2, <2>3, <5>1
      <4> QED BY <4>1, <4>2, <4>3
    <3> QED BY <3>1, <3>2
  <2> QED
    <3> HIDE DEF K!Opens
    <3> QED BY Zenon, <2>1, <2>2, <2>3
<1>12. speechGate.open <=> \E i \in 1..n : K!Opens(i) /\ \A j \in i..n : gateHeard[j].loud # "quiet"
  BY <1>1 DEF K!GateFollowsSpeech
<1>13. speechGate'.open <=> (loud = "speech" /\ s + 1 >= o) \/ (loud # "quiet" /\ speechGate.open)
  <2>1. loud # "speech" => (loud = "noise" <=> loud # "quiet")
    BY DEF K!Loudness
  <2> QED BY <1>4, <1>5, <2>1
<1>14. K!GateFollowsSpeech'
  <2>1. speechGate'.open <=>
          \E i \in 1..(n + 1) : K!Opens(i)' /\ \A j \in i..(n + 1) : gateHeard'[j].loud # "quiet"
    BY Zenon, <1>11, <1>12, <1>13
  <2> QED BY Zenon, <1>2, <2>1 DEF K!GateFollowsSpeech
<1> QED BY <1>2, <1>5, <1>8, <1>14

(* The actions that leave the gate alone. *)
LEMMA GateAlone ==
  ASSUME RunRight, K!GateFollowsSpeech, UNCHANGED <<speechGate, gateHeard>>
  PROVE  RunRight' /\ K!GateFollowsSpeech'
<1>1. RunRight'
  BY DEF RunRight
<1>2. K!GateFollowsSpeech'
  BY DEF K!GateFollowsSpeech, K!Opens
<1> QED BY <1>1, <1>2

(* Settings and the send task. *)
LEMMA SettingsKeepCapture ==
  ASSUME K!CaptureAssumption, CaptureInv, K!Configure \/ K!StoreBegins \/ K!StoreEnds PROVE CaptureInv'
<1> USE DEF K!Configure, K!StoreBegins, K!StoreEnds, K!capturing, K!reporting
<1>1. CaptureTypes'
  BY DEF CaptureInv, CaptureTypes, K!TypeOK
<1>2. CountsRight' /\ DropsCaptured'
  BY DEF CaptureInv, CountsRight, K!CountedOnce, K!TotalCoversCounts, DropsCaptured
<1>3. RunRight' /\ K!GateFollowsSpeech'
  BY GateAlone DEF CaptureInv
<1> QED BY <1>1, <1>2, <1>3 DEF CaptureInv

LEMMA SendingKeepsCapture ==
  ASSUME K!CaptureAssumption, CaptureInv, K!Take \/ K!SendFails \/ K!Wake PROVE CaptureInv'
<1> USE DEF K!Take, K!SendFails, K!Wake, K!capturing, K!reporting, K!settingUp
<1>1. CaptureTypes'
  <2>1. sendQueue' \in 0..CaptureQueueLimit
    BY SMTT(30) DEF CaptureInv, CaptureTypes, K!TypeOK, K!CaptureAssumption
  <2> QED BY <2>1 DEF CaptureInv, CaptureTypes, K!TypeOK
<1>2. CountsRight' /\ DropsCaptured'
  BY DEF CaptureInv, CountsRight, K!CountedOnce, K!TotalCoversCounts, DropsCaptured
<1>3. RunRight' /\ K!GateFollowsSpeech'
  BY GateAlone DEF CaptureInv
<1> QED BY <1>1, <1>2, <1>3 DEF CaptureInv

(* The reports. *)
LEMMA ReportsKeepCapture ==
  ASSUME K!CaptureAssumption, CaptureInv, K!TakeCount \/ K!ReadTotal \/ K!Arrives \/ K!Refused
  PROVE  CaptureInv'
<1> USE DEF K!settingUp, K!capturing
<1>0. /\ told \in [sum : Nat, lost : Nat, total : Nat, reports : Nat]
      /\ health \in [at : {"idle", "taken", "sent"}, count : Nat, total : Nat]
      /\ MaxCaptured \in Nat
      /\ drops \in Nat /\ unreported \in Nat /\ captured \in Nat /\ offerDropped \in BOOLEAN
  BY DEF CaptureInv, CaptureTypes, K!TypeOK, K!CaptureAssumption
<1>1. ASSUME told' \in [sum : Nat, lost : Nat, total : Nat, reports : Nat],
             health' \in [at : {"idle", "taken", "sent"}, count : Nat, total : Nat],
             unreported' \in {unreported, 0}, CountsRight',
             UNCHANGED <<captureConfig, settings, storing, at, captured, offerDropped, gateHeard,
                         speechGate, drops, sendQueue, sender>>
      PROVE  CaptureInv'
  <2>1. CaptureTypes'
    <3>1. unreported' \in 0..MaxCaptured
      BY <1>0, <1>1 DEF CaptureInv, CaptureTypes, K!TypeOK
    <3> QED BY <1>1, <3>1 DEF CaptureInv, CaptureTypes, K!TypeOK
  <2>2. RunRight' /\ K!GateFollowsSpeech'
    BY <1>1, GateAlone DEF CaptureInv
  <2> QED BY <1>1, <2>1, <2>2 DEF CaptureInv, DropsCaptured
<1>2. CASE K!TakeCount
  <2>1. /\ health' = [at |-> "taken", count |-> unreported, total |-> 0]
        /\ unreported' = 0
        /\ told' = [told EXCEPT !.reports = @ + 1]
    BY <1>2 DEF K!TakeCount, K!Left
  <2>2. /\ told'.sum = told.sum /\ told'.lost = told.lost /\ told'.total = told.total
        /\ told' \in [sum : Nat, lost : Nat, total : Nat, reports : Nat]
    BY <1>0, <2>1
  <2>3. CountsRight'
    BY <1>0, <1>2, <2>1, <2>2
       DEF CaptureInv, CountsRight, K!CountedOnce, K!TotalCoversCounts, K!TakeCount
  <2> QED BY <1>0, <1>1, <1>2, <2>1, <2>2, <2>3 DEF K!TakeCount
<1>3. CASE K!ReadTotal
  <2>1. health' = [at |-> "sent", count |-> health.count, total |-> drops] /\ told' = told
    BY <1>0, <1>3 DEF K!ReadTotal
  <2>2. told.sum + told.lost + health.count <= drops
    BY <1>0 DEF CaptureInv, CountsRight, K!CountedOnce
  <2>3. CountsRight'
    BY <1>0, <1>3, <2>1, <2>2
       DEF CaptureInv, CountsRight, K!CountedOnce, K!TotalCoversCounts, K!ReadTotal
  <2> QED BY <1>0, <1>1, <1>3, <2>1, <2>3 DEF K!ReadTotal
<1>4. CASE K!Arrives
  <2>1. /\ health.at = "sent" /\ health' = [at |-> "idle", count |-> 0, total |-> 0]
        /\ told' = [told EXCEPT !.sum = @ + told.lost + health.count, !.lost = 0, !.total = health.total]
    BY <1>4 DEF K!Arrives, K!Idle
  <2>2. /\ told'.sum = told.sum + told.lost + health.count /\ told'.lost = 0
        /\ told'.total = health.total
        /\ told' \in [sum : Nat, lost : Nat, total : Nat, reports : Nat]
    <3>1. told' = [sum |-> told.sum + told.lost + health.count, lost |-> 0, total |-> health.total,
                   reports |-> told.reports]
      BY <1>0, <2>1
    <3>2. told.sum + told.lost + health.count \in Nat
      BY <1>0
    <3> QED BY <1>0, <3>1, <3>2
  <2>3. CountsRight'
    BY <1>0, <1>4, <2>1, <2>2
       DEF CaptureInv, CountsRight, K!CountedOnce, K!TotalCoversCounts, K!Arrives
  <2> QED BY <1>0, <1>1, <1>4, <2>1, <2>2, <2>3 DEF K!Arrives
<1>5. CASE K!Refused
  <2>1. /\ health.at = "sent" /\ health' = [at |-> "idle", count |-> 0, total |-> 0]
        /\ told' = [told EXCEPT !.lost = @ + health.count]
    BY <1>5 DEF K!Refused, K!Idle
  <2>2. /\ told'.sum = told.sum /\ told'.lost = told.lost + health.count
        /\ told'.total = told.total
        /\ told' \in [sum : Nat, lost : Nat, total : Nat, reports : Nat]
    BY <1>0, <2>1
  <2>3. CountsRight'
    BY <1>0, <1>5, <2>1, <2>2
       DEF CaptureInv, CountsRight, K!CountedOnce, K!TotalCoversCounts, K!Refused
  <2> QED BY <1>0, <1>1, <1>5, <2>1, <2>2, <2>3 DEF K!Refused
<1> QED BY <1>2, <1>3, <1>4, <1>5

(* The callback. *)
LEMMA RecordKeepsCapture ==
  ASSUME K!CaptureAssumption, CaptureInv, K!Record PROVE CaptureInv'
<1> USE DEF K!settingUp, K!reporting
<1>0. /\ told \in [sum : Nat, lost : Nat, total : Nat, reports : Nat]
      /\ health \in [at : {"idle", "taken", "sent"}, count : Nat, total : Nat]
      /\ MaxCaptured \in Nat /\ offerDropped \in BOOLEAN
      /\ drops \in 0..MaxCaptured /\ unreported \in 0..MaxCaptured /\ captured \in 0..MaxCaptured
  BY DEF CaptureInv, CaptureTypes, K!TypeOK, K!CaptureAssumption
<1>1. /\ unreported' = (IF offerDropped THEN unreported + 1 ELSE unreported) /\ ~offerDropped'
      /\ UNCHANGED <<drops, told, health, captured>>
  BY DEF K!Record
<1>2. drops = told.sum + told.lost + health.count + unreported + (IF offerDropped THEN 1 ELSE 0)
  BY DEF CaptureInv, CountsRight, K!CountedOnce
<1>3. unreported' \in 0..MaxCaptured
  BY <1>0, <1>1, <1>2
<1>4. CaptureTypes'
  BY <1>0, <1>3 DEF CaptureInv, CaptureTypes, K!TypeOK, K!Record
<1>5. K!CountedOnce'
  BY <1>0, <1>1, <1>2 DEF K!CountedOnce
<1>6. CountsRight' /\ DropsCaptured'
  BY <1>1, <1>5 DEF CaptureInv, CountsRight, K!TotalCoversCounts, DropsCaptured
<1>7. RunRight' /\ K!GateFollowsSpeech'
  BY GateAlone DEF CaptureInv, K!Record
<1> QED BY <1>4, <1>6, <1>7 DEF CaptureInv

LEMMA OfferKeepsCapture ==
  ASSUME K!CaptureAssumption, CaptureInv, K!Offer PROVE CaptureInv'
<1> USE DEF K!settingUp, K!reporting
<1>0. /\ told \in [sum : Nat, lost : Nat, total : Nat, reports : Nat]
      /\ health \in [at : {"idle", "taken", "sent"}, count : Nat, total : Nat]
      /\ MaxCaptured \in Nat /\ CaptureQueueLimit \in Nat /\ sendQueue \in 0..CaptureQueueLimit
      /\ drops \in 0..MaxCaptured /\ unreported \in 0..MaxCaptured /\ captured \in 0..MaxCaptured
      /\ speechGate \in [open : BOOLEAN, speech : Nat, hold : Nat]
      /\ gateHeard \in Seq(HeardFrames)
  BY DEF CaptureInv, CaptureTypes, K!TypeOK, K!CaptureAssumption
<1>1. PICK frame \in CaptureFrames, seen \in K!Seen :
        /\ speechGate' = K!Processed(speechGate, frame, seen)
        /\ gateHeard' = IF K!Gates(seen)
                        THEN Append(gateHeard, [profile |-> seen.profile, loud |-> frame[seen.profile]])
                        ELSE gateHeard
  BY DEF K!Offer
<1>2. seen.profile \in K!Profiles /\ frame[seen.profile] \in K!Loudness
  <2>1. /\ storing.profile \in K!Profiles /\ settings.profile \in K!Profiles
        /\ frame \in [K!Profiles -> K!Loudness]
    BY DEF CaptureInv, CaptureTypes, K!TypeOK, K!CaptureAssumption
  <2>2. seen.profile \in {storing.profile, settings.profile}
    BY DEF K!Seen, K!Fields
  <2> QED BY <2>1, <2>2
<1>3. /\ speechGate' \in [open : BOOLEAN, speech : Nat, hold : Nat]
      /\ gateHeard' \in Seq(HeardFrames) /\ RunRight' /\ K!GateFollowsSpeech'
  <2>1. CASE K!Gates(seen)
    <3>1. /\ speechGate' = K!Gated(speechGate, frame[seen.profile], seen.profile)
          /\ gateHeard' = Append(gateHeard, [profile |-> seen.profile, loud |-> frame[seen.profile]])
      BY <1>1, <2>1 DEF K!Processed
    <3> QED BY <1>2, <3>1, GateStep DEF CaptureInv
  <2>2. CASE ~K!Gates(seen)
    <3>1. speechGate' = speechGate /\ gateHeard' = gateHeard
      BY <1>1, <2>2 DEF K!Processed
    <3> QED BY <1>0, <3>1, GateAlone DEF CaptureInv
  <2> QED BY <2>1, <2>2
<1>4. /\ offerDropped' \in BOOLEAN /\ sendQueue' \in 0..CaptureQueueLimit
      /\ drops' = IF offerDropped' THEN drops + 1 ELSE drops
  <2>1. offerDropped' = (sendQueue = CaptureQueueLimit)
    BY DEF K!Offer, K!Full
  <2>2. CASE sendQueue = CaptureQueueLimit
    BY <1>0, <2>1, <2>2 DEF K!Offer
  <2>3. CASE sendQueue # CaptureQueueLimit
    BY <1>0, <2>1, <2>3 DEF K!Offer
  <2> QED BY <2>2, <2>3
<1>5. /\ captured' = captured + 1 /\ captured < MaxCaptured /\ at = "samples" /\ at' = "record"
      /\ UNCHANGED <<captureConfig, settings, storing, unreported, sender, health, told>>
  BY DEF K!Offer
<1>6. drops' \in 0..MaxCaptured /\ DropsCaptured' /\ captured' \in 0..MaxCaptured
  BY <1>0, <1>4, <1>5 DEF CaptureInv, DropsCaptured
<1>7. CaptureTypes'
  BY <1>0, <1>3, <1>4, <1>5, <1>6 DEF CaptureInv, CaptureTypes, K!TypeOK
<1>8. CountsRight'
  <2>1. ~offerDropped /\ drops = told.sum + told.lost + health.count + unreported
    BY <1>0, <1>5 DEF CaptureInv, CountsRight, K!CountedOnce
  <2>2. K!CountedOnce'
    BY <1>0, <1>4, <1>5, <2>1 DEF K!CountedOnce
  <2> QED BY <1>5, <2>2 DEF CaptureInv, CountsRight, K!TotalCoversCounts
<1> QED BY <1>3, <1>6, <1>7, <1>8 DEF CaptureInv

LEMMA CaptureStep == ASSUME K!CaptureAssumption, CaptureInv, [K!Next]_captureVars PROVE CaptureInv'
<1>1. CASE K!Next
  BY <1>1, SettingsKeepCapture, SendingKeepsCapture, ReportsKeepCapture, RecordKeepsCapture,
     OfferKeepsCapture DEF K!Next
<1>2. CASE UNCHANGED captureVars
  <2> USE <1>2 DEF captureVars
  <2>1. CaptureTypes'
    BY DEF CaptureInv, CaptureTypes, K!TypeOK
  <2>2. CountsRight' /\ DropsCaptured'
    BY DEF CaptureInv, CountsRight, K!CountedOnce, K!TotalCoversCounts, DropsCaptured
  <2>3. RunRight' /\ K!GateFollowsSpeech'
    BY GateAlone DEF CaptureInv
  <2> QED BY <2>1, <2>2, <2>3 DEF CaptureInv
<1> QED BY <1>1, <1>2

(* The gate of the microphone is open exactly while a run of speech that opened it, counted
   by the profile that each frame was processed under, has not been followed by a frame that
   was quiet to its own profile, through changes of the profile and the mixtures of two
   settings that the callback sees; each drop is counted once, the ones that refused
   reports took with them included; and the total that arrives covers all the counts up to it
   (clients/desktop). *)
THEOREM GateAndDropsAreRight == ASSUME K!CaptureAssumption PROVE Parts => []CaptureRight
<1>1. PartsInit => (part = "capture" => CaptureInv)
  BY CaptureInit DEF PartsInit
<1>2. (part = "capture" => CaptureInv) /\ [PartsNext]_partVars => (part = "capture" => CaptureInv)'
  BY CaptureStep, PartsStep
<1>3. (part = "capture" => CaptureInv) => CaptureRight
  BY DEF CaptureRight, CaptureInv, CaptureTypes, CountsRight
<1> QED BY <1>1, <1>2, <1>3, PTL DEF Parts

-----------------------------------------------------------------------------
(* The mix rules. *)
(* What the listeners hear of the frames F. *)
MixOf(F) ==
  [l \in MixUsers |->
    {[frame |-> f, ducks |-> X!Ducks(l, F, f)] : f \in {g \in F : X!Reaches(l, F, g) /\ ~X!Muted(l, g)}}]

MixTypes ==
  /\ ifb \in [program : SUBSET Channels, interrupt : SUBSET Channels]
  /\ ifb.program \cap ifb.interrupt = {}
  /\ tx \in [Talkers -> Talking] /\ priority \subseteq Privileged /\ calls \subseteq MixUsers \X MixUsers
  /\ emergency = {} \/ \E e \in Emergencies : emergency = {e}

(* What is heard was mixed under the configuration that is still in force: what a press,
   a call or an emergency changes, it changes between two ticks. *)
HeardIsMixed == heard = X!Silence \/ \E F : heard = MixOf(F)

MixInv == MixTypes /\ HeardIsMixed

LEMMA MixInit == ASSUME X!MixAssumption, X!Init PROVE MixInv
BY DEF X!MixAssumption, X!Init, MixInv, MixTypes, HeardIsMixed, X!Normalized

(* A change of the configuration meets no mix that has not been sent. *)
LEMMA ChangeStep == ASSUME X!MixAssumption, MixInv, X!Change PROVE MixInv'
<1> USE DEF X!MixAssumption, MixInv, MixTypes, HeardIsMixed
<1>1. heard = X!Silence /\ (heard' = heard => HeardIsMixed')
  BY DEF X!Change, X!Silence
<1>2. ASSUME NEW program \in SUBSET Channels, NEW interrupt \in SUBSET Channels, X!SetIfb(program, interrupt)
      PROVE  MixInv'
  BY <1>1, <1>2 DEF X!SetIfb, X!Normalized
<1>3. ASSUME NEW u \in Talkers, NEW targets \in Talking, X!Talk(u, targets)
      PROVE  MixInv'
  <2>1. tx' \in [Talkers -> Talking] /\ calls' \subseteq calls
    BY <1>3 DEF X!Talk
  <2> QED BY <1>1, <1>3, <2>1 DEF X!Talk
<1>4. ASSUME NEW u \in Talkers, NEW to \in MixUsers \ {u}, X!Call(u, to)
      PROVE  MixInv'
  <2>1. u \in MixUsers
    OBVIOUS
  <2>2. calls' \subseteq MixUsers \X MixUsers
    BY <1>4, <2>1 DEF X!Call
  <2> QED BY <1>1, <1>4, <2>2 DEF X!Call
<1>5. ASSUME NEW e \in {{}} \cup {{x} : x \in Emergencies}, X!Emergency(e)
      PROVE  MixInv'
  BY <1>1, <1>5 DEF X!Emergency
<1> QED BY <1>1, <1>2, <1>3, <1>4, <1>5 DEF X!Change

LEMMA MixStep == ASSUME X!MixAssumption, MixInv, [X!Next]_mixVars PROVE MixInv'
<1>1. CASE X!Change
  BY <1>1, ChangeStep
<1>2. ASSUME NEW F, X!Mix(F) PROVE MixInv'
  <2>1. MixTypes' /\ heard' = MixOf(F)
    BY <1>2 DEF X!Mix, MixOf, MixInv, MixTypes
  <2>2. MixOf(F)' = MixOf(F)
    BY <1>2 DEF X!Mix, MixOf, X!Reaches, X!Muted, X!Ducks, X!Overridden, X!Sends, X!DuckedByPriority, X!HasPriority,
         X!PriorityChannels, X!OnChannel, X!IfbActive, X!Ifb, X!Normalized, X!DirectDuck
  <2> QED BY <2>1, <2>2 DEF MixInv, HeardIsMixed
<1>3. CASE X!Tick
  BY <1>2, <1>3 DEF X!Tick
<1>4. CASE X!SendMixes
  BY <1>4 DEF X!SendMixes, MixInv, MixTypes, HeardIsMixed, X!Silence
<1>5. CASE UNCHANGED mixVars
  <2>1. ASSUME NEW F PROVE MixOf(F)' = MixOf(F)
    BY <1>5 DEF mixVars, MixOf, X!Reaches, X!Muted, X!Ducks, X!Overridden, X!Sends, X!DuckedByPriority, X!HasPriority,
         X!PriorityChannels, X!OnChannel, X!IfbActive, X!Ifb, X!Normalized, X!DirectDuck
  <2> QED BY <1>5, <2>1 DEF mixVars, MixInv, MixTypes, HeardIsMixed, X!Silence
<1> QED BY <1>1, <1>3, <1>4, <1>5 DEF X!Next

(* What a listener hears of a mix, and what of it is ducked. *)
LEMMA HeardOf ==
  ASSUME NEW F, heard = MixOf(F), NEW l \in MixUsers
  PROVE  /\ X!Heard(l) = {f \in F : X!Reaches(l, F, f) /\ ~X!Muted(l, f)}
         /\ \A r \in X!Reasons : X!DuckedBy(l, r) = {f \in X!Heard(l) : r \in X!Ducks(l, F, f)}
<1> DEFINE G == {f \in F : X!Reaches(l, F, f) /\ ~X!Muted(l, f)}
           D(f) == X!Ducks(l, F, f)
<1>1. heard[l] = {[frame |-> f, ducks |-> D(f)] : f \in G}
  BY DEF MixOf
<1> HIDE DEF G, D
<1>2. \A h \in heard[l] : h.frame \in G /\ h.ducks = D(h.frame)
  BY <1>1
<1>3. ASSUME NEW f \in G PROVE \E h \in heard[l] : h.frame = f
  <2>1. [frame |-> f, ducks |-> D(f)] \in heard[l]
    BY <1>1
  <2> QED BY <2>1
<1>4. X!Heard(l) = G
  BY <1>2, <1>3 DEF X!Heard
<1>5. ASSUME NEW r PROVE X!DuckedBy(l, r) = {f \in G : r \in D(f)}
  BY <1>2, <1>3 DEF X!DuckedBy
<1> QED BY <1>4, <1>5 DEF G, D

(* The module's own Cardinality and the library's are one. *)
LEMMA SameCount == ASSUME NEW set PROVE X!Cardinality(set) = Cardinality(set)
BY DEF X!Cardinality, Cardinality

LEMMA MixIsRight == ASSUME X!MixAssumption, MixInv
                    PROVE  X!TypeOK /\ X!EmergencyAlone /\ X!InterruptHeard /\ X!PriorityHeard
<1> USE DEF MixInv, X!MixAssumption
<1>1. ASSUME NEW l \in MixUsers, heard = X!Silence PROVE X!Heard(l) = {} /\ \A r : X!DuckedBy(l, r) = {}
  BY <1>1 DEF X!Silence, X!Heard, X!DuckedBy
<1>2. X!TypeOK
  <2>1. Cardinality(emergency) <= 1
    <3>1. CASE emergency = {}
      BY <3>1, FS_EmptySet, SameCount
    <3>2. ASSUME NEW e, emergency = {e} PROVE Cardinality(emergency) = 1
      BY <3>2, FS_Singleton, SameCount
    <3>3. emergency = {} \/ \E e : emergency = {e}
      BY DEF MixTypes
    <3> QED BY <3>1, <3>2, <3>3
  <2>2. ASSUME NEW l \in MixUsers, NEW h \in heard[l] PROVE h.frame.user # l /\ h.ducks \subseteq X!Reasons
    BY <2>2 DEF HeardIsMixed, MixOf, X!Silence, X!Reaches, X!Ducks
  <2> QED BY <2>1, <2>2, SameCount DEF X!TypeOK, MixTypes
<1>3. ASSUME NEW F, heard = MixOf(F), NEW l \in MixUsers, NEW f \in X!Heard(l),
             NEW e \in emergency, e.mute, l \in e.to
      PROVE  f.user = e.source /\ f.target = Mixed
  <2>1. X!Reaches(l, F, f) /\ ~X!Muted(l, f)
    BY <1>3, HeardOf
  <2>2. f.target = Mixed
    BY <1>3, <2>1 DEF X!Muted, X!Overridden
  <2>3. \E x \in emergency : x.source = f.user
    BY <2>1, <2>2 DEF X!Reaches
  <2> QED BY <2>2, <2>3 DEF MixTypes
<1>4. X!EmergencyAlone
  BY <1>1, <1>3 DEF X!EmergencyAlone, HeardIsMixed, MixTypes
<1>5. ASSUME NEW F, heard = MixOf(F), NEW l \in MixUsers, NEW f \in X!DuckedBy(l, "ifb")
      PROVE  /\ f.target \in X!Ifb(l).program
             /\ \E g \in X!Heard(l) \ X!DuckedBy(l, "ifb") : g.target \in X!Ifb(l).interrupt
  <2>1. f \in X!Heard(l) /\ X!IfbActive(l, F) /\ f.target \in X!Ifb(l).program
    BY <1>5, HeardOf DEF X!Reasons, X!Ducks
  <2>2. PICK g \in F : X!OnChannel(l, g, X!Ifb(l).interrupt) /\ X!Sends(F, g)
    BY <2>1 DEF X!IfbActive
  <2>3. X!Ifb(l).program \subseteq Channels /\ X!Ifb(l).program \cap X!Ifb(l).interrupt = {}
    BY DEF X!Ifb, MixTypes, X!Normalized
  <2>4. ~\E e \in emergency : X!Overridden(l) /\ e.mute
    BY <1>5, <2>1, <2>3, HeardOf DEF X!Muted
  <2>5. g \in X!Heard(l) /\ g.target \in X!Ifb(l).interrupt
    BY <1>5, <2>2, <2>4, HeardOf DEF X!OnChannel, X!Reaches, X!Muted
  <2>6. g \notin X!DuckedBy(l, "ifb")
    BY <1>5, <2>3, <2>5, HeardOf DEF X!Reasons, X!Ducks
  <2> QED BY <2>1, <2>5, <2>6
<1>6. X!InterruptHeard
  BY <1>1, <1>5 DEF X!InterruptHeard, HeardIsMixed
<1>7. ASSUME NEW F, heard = MixOf(F), NEW l \in MixUsers, NEW f \in X!DuckedBy(l, "priority")
      PROVE  \E g \in X!Heard(l) \ X!DuckedBy(l, "priority") : g.target = f.target
  <2>1. f \in X!Heard(l) /\ X!DuckedByPriority(l, F, f)
    BY <1>7, HeardOf DEF X!Reasons, X!Ducks
  <2>2. PICK g \in F : X!OnChannel(l, g, Channels) /\ X!Sends(F, g) /\ X!HasPriority(F, g) /\ g.target = f.target
    BY <2>1 DEF X!DuckedByPriority, X!PriorityChannels
  <2>3. ~\E e \in emergency : X!Overridden(l) /\ e.mute
    BY <1>7, <2>1, <2>2, HeardOf DEF X!Muted, X!OnChannel
  <2>4. g \in X!Heard(l)
    BY <1>7, <2>2, <2>3, HeardOf DEF X!OnChannel, X!Reaches, X!Muted
  <2>5. g \notin X!DuckedBy(l, "priority")
    BY <1>7, <2>2, HeardOf DEF X!Reasons, X!Ducks, X!DuckedByPriority
  <2> QED BY <2>2, <2>4, <2>5
<1>8. ASSUME NEW F, heard = MixOf(F), NEW l \in MixUsers, NEW f \in X!Heard(l), NEW g \in X!Heard(l),
             f.target = g.target, f.target \in Channels, g.user \in priority, f.user \in Talkers \ priority
      PROVE  f \in X!DuckedBy(l, "priority")
  <2>1. g.user # Virtual /\ f.user # Virtual
    BY <1>8 DEF MixTypes
  <2>2. g \in F /\ X!Reaches(l, F, g)
    BY <1>8, HeardOf
  <2>3. X!OnChannel(l, g, Channels) /\ X!Sends(F, g)
    BY <1>8, <2>2 DEF X!Reaches, X!OnChannel
  <2>4. X!DuckedByPriority(l, F, f)
    BY <1>8, <2>1, <2>2, <2>3 DEF X!DuckedByPriority, X!PriorityChannels, X!HasPriority
  <2> QED BY <1>8, <2>4, HeardOf DEF X!Reasons, X!Ducks
<1>9. X!PriorityHeard
  BY <1>1, <1>7, <1>8 DEF X!PriorityHeard, HeardIsMixed
<1> QED BY <1>2, <1>4, <1>6, <1>9

(* For any users, channels and emergencies: who is reached by an emergency that mutes hears
   its source alone, an interrupt that ducks the programme is heard above it, and who has
   priority is heard over who has none (build_mixes). *)
THEOREM ListenersHearTheRules == ASSUME X!MixAssumption PROVE Parts => []MixRight
<1>1. PartsInit => (part = "mix" => MixInv)
  BY MixInit DEF PartsInit
<1>2. (part = "mix" => MixInv) /\ [PartsNext]_partVars => (part = "mix" => MixInv)'
  BY MixStep, PartsStep
<1>3. (part = "mix" => MixInv) => MixRight
  BY MixIsRight DEF MixRight
<1> QED BY <1>1, <1>2, <1>3, PTL DEF Parts

-----------------------------------------------------------------------------
(* The playback buffer. *)
Sample == [of : B!Cues \cup {"audio"}, at : Nat, side : {"left", "right", "both"}]

(* Samples in the layout of n channels: one after the other, or left and right in turn,
   of one and the same frame. *)
InPairs(b) ==
  /\ Len(b) % 2 = 0
  /\ \A i \in 1..Len(b) :
       IF i % 2 = 0 THEN b[i].side = "right"
       ELSE /\ b[i].side = "left" /\ b[i + 1].side = "right"
            /\ b[i + 1].of = b[i].of /\ b[i + 1].at = b[i].at
LaidOut(b, n) ==
  /\ b \in Seq(Sample)
  /\ n = 1 => \A i \in 1..Len(b) : b[i].side = "both"
  /\ n = 2 => InPairs(b)

Ordered(b) ==
  \A i, j \in 1..Len(b) : i < j /\ b[i].of = "audio" /\ b[j].of = "audio" => b[i].at <= b[j].at
(* No sample of s is of a later frame than a sample of b. *)
Before(s, b) == \A i \in 1..Len(b) : s.of = "audio" /\ b[i].of = "audio" => s.at <= b[i].at

BufferTypes ==
  /\ channels \in {1, 2} /\ arrived \in 0..MaxPlayed /\ linkChanges \in 0..MaxEvents
  /\ Len(buffer) <= B!Capacity /\ LaidOut(buffer, channels)
  /\ events \in Seq(B!Cues) /\ Len(events) <= EventQueue
  /\ cues \in Seq(B!Cues) /\ Len(cues) <= EventQueue /\ pageStatus \in B!Cues
BufferOrder ==
  /\ Ordered(buffer)
  /\ \A i \in 1..Len(buffer) : buffer[i].of = "audio" => buffer[i].at <= arrived

(* What the device has taken: both sides of one sample, and nothing later than what is
   taken next. *)
Pair(p) ==
  /\ p[1].of = p[2].of /\ p[1].at = p[2].at
  /\ <<p[1].side, p[2].side>> \in {<<"both", "both">>, <<"left", "right">>}
Taken(p, b, f) ==
  /\ Pair(p)
  /\ p[1] \in Sample \cup {B!Silence} /\ (p[1].of = "audio" => p[1].at <= f)
  /\ Before(p[1], b)
DeviceRight ==
  /\ Taken(current, buffer, arrived)
  /\ coming # <<>> =>
       /\ Taken(coming, buffer, arrived)
       /\ current[1].of = "audio" /\ coming[1].of = "audio" => current[1].at <= coming[1].at

PlaybackInv == BufferTypes /\ BufferOrder /\ DeviceRight

LEMMA Parity ==
  ASSUME NEW i \in Nat, NEW k \in Nat, k % 2 = 0
  PROVE  /\ (i + k) % 2 = 0 <=> i % 2 = 0
         /\ k <= i => ((i - k) % 2 = 0 <=> i % 2 = 0)
         /\ i % 2 # 0 /\ i <= k => i + 1 <= k
OBVIOUS

LEMMA WithoutFront ==
  ASSUME NEW s \in Seq(Sample), NEW n \in 0..Len(s)
  PROVE  LET t == SubSeq(s, n + 1, Len(s))
         IN /\ t \in Seq(Sample) /\ Len(t) = Len(s) - n
            /\ \A i \in 1..Len(t) : i + n \in 1..Len(s) /\ t[i] = s[i + n]
<1> DEFINE t == SubSeq(s, n + 1, Len(s))
<1>1. Len(s) \in Nat /\ n \in Nat /\ n <= Len(s) /\ n + 1 \in 1..(Len(s) + 1)
  OBVIOUS
<1>2. t \in Seq(Sample)
  BY <1>1
<1>3. Len(t) = Len(s) - n
  BY <1>1
<1>4. ASSUME NEW i \in 1..(Len(s) - n) PROVE i + n \in 1..Len(s) /\ t[i] = s[i + n]
  <2>1. i + n \in 1..Len(s) /\ (n + 1) + i - 1 = i + n
    BY <1>1
  <2> QED BY <1>1, <2>1
<1> HIDE DEF t
<1>5. \A i \in 1..Len(t) : i + n \in 1..Len(s) /\ t[i] = s[i + n]
  BY <1>3, <1>4
<1> QED BY <1>2, <1>3, <1>5 DEF t

(* Samples in a layout stay in it when others of the layout come behind them, and when
   whole frames are taken from the front. *)
LEMMA LaidOutJoin ==
  ASSUME NEW a, NEW b, NEW n \in {1, 2}, LaidOut(a, n), LaidOut(b, n)
  PROVE  LaidOut(a \o b, n)
<1> DEFINE c == a \o b
<1>1. /\ a \in Seq(Sample) /\ b \in Seq(Sample) /\ c \in Seq(Sample) /\ Len(c) = Len(a) + Len(b)
      /\ Len(a) \in Nat /\ Len(b) \in Nat
  BY DEF LaidOut
<1>2. /\ \A i \in 1..Len(a) : c[i] = a[i]
      /\ \A i \in 1..Len(c) : i > Len(a) => i - Len(a) \in 1..Len(b) /\ c[i] = b[i - Len(a)]
  BY <1>1
<1> HIDE DEF c
<1>3. ASSUME n = 1, NEW i \in 1..Len(c) PROVE c[i].side = "both"
  <2>1. /\ \A j \in 1..Len(a) : a[j].side = "both"
        /\ \A j \in 1..Len(b) : b[j].side = "both"
    BY <1>3 DEF LaidOut
  <2>2. CASE i \in 1..Len(a)
    BY <1>2, <2>1, <2>2
  <2>3. CASE i > Len(a)
    BY <1>2, <2>1, <2>3
  <2> QED BY <1>1, <2>2, <2>3
<1>4. ASSUME n = 2 PROVE InPairs(c)
  <2>1. InPairs(a) /\ InPairs(b)
    BY <1>4 DEF LaidOut
  <2>2. Len(c) % 2 = 0 /\ Len(a) % 2 = 0
    <3>1. Len(a) % 2 = 0 /\ Len(b) % 2 = 0
      BY <2>1 DEF InPairs
    <3>2. (Len(a) + Len(b)) % 2 = 0
      BY <1>1, <3>1, Parity
    <3> QED BY <1>1, <3>1, <3>2
  <2>3. ASSUME NEW i \in 1..Len(a)
        PROVE  IF i % 2 = 0 THEN c[i].side = "right"
               ELSE /\ c[i].side = "left" /\ c[i + 1].side = "right"
                    /\ c[i + 1].of = c[i].of /\ c[i + 1].at = c[i].at
    <3>1. c[i] = a[i] /\ (i % 2 # 0 => i + 1 \in 1..Len(a) /\ c[i + 1] = a[i + 1])
      BY <1>1, <1>2, <2>2
    <3> QED BY <2>1, <3>1 DEF InPairs
  <2>4. ASSUME NEW i \in 1..Len(c), i > Len(a)
        PROVE  IF i % 2 = 0 THEN c[i].side = "right"
               ELSE /\ c[i].side = "left" /\ c[i + 1].side = "right"
                    /\ c[i + 1].of = c[i].of /\ c[i + 1].at = c[i].at
    <3> DEFINE j == i - Len(a)
    <3>1. j \in 1..Len(b) /\ c[i] = b[j] /\ (j % 2 = 0 <=> i % 2 = 0)
      <4>1. i \in Nat /\ Len(a) \in Nat /\ Len(a) <= i /\ Len(a) % 2 = 0
        BY <1>1, <2>2, <2>4
      <4>2. j % 2 = 0 <=> i % 2 = 0
        BY <4>1, Parity
      <4>3. j \in 1..Len(b)
        BY <1>1, <2>4, <4>1, SMTT(30)
      <4> QED BY <1>2, <2>4, <4>2, <4>3
    <3>2. i % 2 # 0 => j + 1 \in 1..Len(b) /\ c[i + 1] = b[j + 1]
      <4>1. ASSUME i % 2 # 0 PROVE i + 1 \in 1..Len(c) /\ i + 1 > Len(a) /\ (i + 1) - Len(a) = j + 1
        BY <1>1, <2>2, <2>4, <4>1, SMTT(30)
      <4> QED BY <1>2, <4>1
    <3> HIDE DEF j
    <3> QED BY <2>1, <3>1, <3>2 DEF InPairs
  <2> QED BY <1>1, <2>2, <2>3, <2>4 DEF InPairs
<1> QED BY <1>1, <1>3, <1>4 DEF LaidOut, c

LEMMA LaidOutDrop ==
  ASSUME NEW b, NEW n \in {1, 2}, LaidOut(b, n), NEW k \in Nat, k <= Len(b), n = 2 => k % 2 = 0
  PROVE  LaidOut(SubSeq(b, k + 1, Len(b)), n)
<1> DEFINE c == SubSeq(b, k + 1, Len(b))
<1>1. b \in Seq(Sample) /\ Len(b) \in Nat
  BY DEF LaidOut
<1>2. /\ c \in Seq(Sample) /\ Len(c) = Len(b) - k
      /\ \A i \in 1..Len(c) : i + k \in 1..Len(b) /\ c[i] = b[i + k]
  BY <1>1, WithoutFront
<1> HIDE DEF c
<1>3. ASSUME n = 1, NEW i \in 1..Len(c) PROVE c[i].side = "both"
  <2>1. \A j \in 1..Len(b) : b[j].side = "both"
    BY <1>3 DEF LaidOut
  <2> QED BY <1>2, <2>1
<1>4. ASSUME n = 2 PROVE InPairs(c)
  <2>1. InPairs(b) /\ k % 2 = 0
    BY <1>4 DEF LaidOut
  <2>2. Len(c) % 2 = 0 /\ Len(c) \in Nat
    <3>1. Len(b) % 2 = 0
      BY <2>1 DEF InPairs
    <3>2. Len(b) \in Nat /\ k \in Nat /\ k <= Len(b) /\ k % 2 = 0
      BY <1>1, <2>1
    <3>3. (Len(b) - k) % 2 = 0 /\ Len(b) - k \in Nat
      BY <3>1, <3>2, Parity
    <3> QED BY <1>2, <3>3
  <2>3. ASSUME NEW i \in 1..Len(c)
        PROVE  IF i % 2 = 0 THEN c[i].side = "right"
               ELSE /\ c[i].side = "left" /\ c[i + 1].side = "right"
                    /\ c[i + 1].of = c[i].of /\ c[i + 1].at = c[i].at
    <3>1. i + k \in 1..Len(b) /\ c[i] = b[i + k] /\ ((i + k) % 2 = 0 <=> i % 2 = 0)
      <4>1. i \in Nat /\ k \in Nat /\ k % 2 = 0
        BY <2>1
      <4>2. (i + k) % 2 = 0 <=> i % 2 = 0
        BY <4>1, Parity
      <4> QED BY <1>2, <4>2
    <3>2. i % 2 # 0 => i + 1 \in 1..Len(c) /\ c[i + 1] = b[(i + k) + 1]
      <4>1. ASSUME i % 2 # 0 PROVE i + 1 \in 1..Len(c) /\ (i + 1) + k = (i + k) + 1
        <5>1. i + 1 <= Len(c)
          BY <2>2, <4>1, Parity
        <5> QED BY <2>2, <5>1
      <4>2. ASSUME i + 1 \in 1..Len(c) PROVE c[i + 1] = b[(i + 1) + k]
        BY <1>2, <4>2
      <4> QED BY <4>1, <4>2
    <3> QED BY <2>1, <3>1, <3>2, ZenonT(60) DEF InPairs
  <2> QED BY <2>2, <2>3 DEF InPairs
<1> QED BY <1>2, <1>3, <1>4 DEF LaidOut, c

LEMMA FrameLaidOut ==
  ASSUME NEW e \in B!Cues \cup {"audio"}, NEW k \in Nat, NEW n \in {1, 2}
  PROVE  LaidOut(B!Frame(e, k, n), n) /\ Len(B!Frame(e, k, n)) = n
<1>1. CASE n = 1
  BY <1>1 DEF B!Frame, B!Sides, LaidOut, Sample
<1>2. CASE n = 2
  BY <1>2 DEF B!Frame, B!Sides, LaidOut, InPairs, Sample
<1> QED BY <1>1, <1>2

LEMMA CueLaidOut ==
  ASSUME B!CapacityAssumption, NEW e \in B!Cues, NEW n \in {1, 2}
  PROVE  LaidOut(B!Cue(e, n), n)
<1> DEFINE len == CueLen[e]
           c == B!Cue(e, n)
<1>1. len \in Nat
  BY DEF B!CapacityAssumption
<1> HIDE DEF len
<1>2. CASE n = 1
  <2>1. c = [k \in 1..len |-> [of |-> e, at |-> k, side |-> "both"]]
    <3>1. c = [k \in 1..(len * 1) |-> [of |-> e, at |-> (k + 1 - 1) \div 1, side |-> B!Sides(1)[((k - 1) % 1) + 1]]]
      BY <1>2 DEF B!Cue, len
    <3>2. ASSUME NEW k \in 1..len
          PROVE  (k + 1 - 1) \div 1 = k /\ B!Sides(1)[((k - 1) % 1) + 1] = "both"
      <4>1. (k + 1 - 1) \div 1 = k /\ ((k - 1) % 1) + 1 = 1
        BY <1>1
      <4> QED BY <4>1 DEF B!Sides
    <3>3. len * 1 = len
      BY <1>1
    <3> QED BY <3>1, <3>2, <3>3
  <2> HIDE DEF c
  <2>2. \A k \in 1..len : [of |-> e, at |-> k, side |-> "both"] \in Sample
    BY <1>1 DEF Sample
  <2>3. c \in Seq(Sample) /\ Len(c) = len
    BY <1>1, <2>1, <2>2
  <2>4. \A k \in 1..len : c[k].side = "both"
    BY <2>1
  <2> QED BY <1>2, <2>3, <2>4 DEF LaidOut, c
<1>3. CASE n = 2
  <2>1. c = [k \in 1..(len * 2) |->
               [of |-> e, at |-> (k + 1) \div 2, side |-> IF k % 2 = 0 THEN "right" ELSE "left"]]
    BY <1>1, <1>3 DEF B!Cue, B!Sides, len
  <2>2. c \in Seq(Sample) /\ Len(c) = len * 2
    BY <1>1, <2>1 DEF Sample
  <2>3. InPairs(c)
    <3>1. Len(c) % 2 = 0 /\ Len(c) \in Nat
      BY <1>1, <2>2
    <3>2. ASSUME NEW i \in 1..Len(c), i % 2 # 0
          PROVE  i + 1 \in 1..Len(c) /\ (i + 1) % 2 = 0 /\ (i + 2) \div 2 = (i + 1) \div 2
      BY <3>1, <3>2
    <3>3. \A i \in 1..Len(c) : /\ c[i].of = e /\ c[i].at = (i + 1) \div 2
                              /\ c[i].side = IF i % 2 = 0 THEN "right" ELSE "left"
      <4> HIDE DEF c
      <4>1. ASSUME NEW i \in 1..(len * 2)
            PROVE  c[i] = [of |-> e, at |-> (i + 1) \div 2, side |-> IF i % 2 = 0 THEN "right" ELSE "left"]
        BY <2>1
      <4>2. ASSUME NEW i \in 1..(len * 2)
            PROVE  /\ c[i].of = e /\ c[i].at = (i + 1) \div 2
                   /\ c[i].side = IF i % 2 = 0 THEN "right" ELSE "left"
        <5> DEFINE s == IF i % 2 = 0 THEN "right" ELSE "left"
                   a == (i + 1) \div 2
        <5>1. c[i] = [of |-> e, at |-> a, side |-> s]
          BY <4>1
        <5> HIDE DEF s, a
        <5>2. c[i].of = e /\ c[i].at = a /\ c[i].side = s
          BY <5>1
        <5> QED BY <5>2 DEF s, a
      <4> QED BY <2>2, <4>2
    <3>4. ASSUME NEW i \in 1..Len(c), i % 2 # 0
          PROVE  /\ c[i].side = "left" /\ c[i + 1].side = "right"
                 /\ c[i + 1].of = c[i].of /\ c[i + 1].at = c[i].at
      <4>1. (i + 1) + 1 = i + 2
        BY <3>1
      <4> QED BY <3>2, <3>3, <3>4, <4>1
    <3> QED BY <3>1, <3>3, <3>4 DEF InPairs
  <2> QED BY <1>3, <2>2, <2>3 DEF LaidOut
<1> QED BY <1>2, <1>3

LEMMA PlaybackInit == ASSUME B!CapacityAssumption, B!Init PROVE PlaybackInv
<1> USE DEF B!CapacityAssumption, B!Init
<1>1. BufferTypes
  BY DEF BufferTypes, LaidOut, InPairs, B!Cues, B!Capacity
<1>2. BufferOrder
  BY DEF BufferOrder, Ordered
<1>3. DeviceRight
  BY DEF DeviceRight, Taken, Pair, Before, B!Silence
<1> QED BY <1>1, <1>2, <1>3 DEF PlaybackInv

(* What is put behind the buffer is in its layout and no earlier than what is there. *)
LEMMA PushStep ==
  ASSUME B!CapacityAssumption, BufferTypes, BufferOrder, DeviceRight,
         NEW samples, NEW n \in {1, 2}, LaidOut(samples, n), B!Push(samples, n),
         arrived' \in 0..MaxPlayed, arrived <= arrived', UNCHANGED B!device,
         Ordered(samples),
         \A i \in 1..Len(samples) : samples[i].of = "audio" => samples[i].at = arrived' /\ arrived < arrived'
  PROVE  /\ channels' \in {1, 2} /\ Len(buffer') <= B!Capacity /\ LaidOut(buffer', channels')
         /\ BufferOrder' /\ DeviceRight'
<1> DEFINE kept == IF n = channels THEN buffer ELSE <<>>
           all == kept \o samples
           excess == IF Len(all) > B!Capacity THEN Len(all) - B!Capacity ELSE 0
<1>0. B!Capacity \in Nat /\ B!Capacity % 2 = 0 /\ MaxPlayed \in Nat /\ arrived \in Nat /\ arrived' \in Nat
  BY SMTT(30) DEF B!CapacityAssumption, B!Capacity, BufferTypes
<1>1. LaidOut(kept, n) /\ kept \in Seq(Sample) /\ Len(kept) <= Len(buffer)
  <2>1. LaidOut(<<>>, n)
    BY DEF LaidOut, InPairs
  <2>2. buffer \in Seq(Sample) /\ Len(buffer) \in Nat /\ LaidOut(buffer, channels)
    BY DEF BufferTypes, LaidOut
  <2> QED BY <2>1, <2>2
<1>2. LaidOut(all, n)
  BY <1>1, LaidOutJoin
<1>3. /\ all \in Seq(Sample) /\ Len(all) = Len(kept) + Len(samples)
      /\ \A i \in 1..Len(kept) : all[i] = kept[i] /\ kept[i] = buffer[i] /\ i \in 1..Len(buffer)
      /\ \A i \in 1..Len(all) : i > Len(kept) => i - Len(kept) \in 1..Len(samples) /\ all[i] = samples[i - Len(kept)]
  BY <1>1 DEF LaidOut, BufferTypes
<1>4. buffer' = SubSeq(all, excess + 1, Len(all)) /\ channels' = n
  BY DEF B!Push
<1>5. /\ Len(kept) \in Nat /\ Len(samples) \in Nat /\ Len(all) \in Nat
      /\ \A i \in 1..Len(samples) : samples[i] \in Sample
      /\ \A i \in 1..Len(buffer) : buffer[i] \in Sample
  BY <1>1 DEF LaidOut, BufferTypes
<1> HIDE DEF kept, all
<1>6. excess \in Nat /\ excess <= Len(all) /\ (n = 2 => excess % 2 = 0)
  <2>1. n = 2 => Len(all) % 2 = 0
    BY <1>2 DEF LaidOut, InPairs
  <2>2. Len(all) > B!Capacity => (Len(all) - B!Capacity) \in Nat
    BY <1>0, <1>5
  <2>3. ASSUME n = 2, Len(all) > B!Capacity PROVE (Len(all) - B!Capacity) % 2 = 0
    BY <1>0, <1>5, <2>1, <2>3, Parity, SMTT(30)
  <2>4. 0 % 2 = 0 /\ 0 <= Len(all)
    BY <1>5
  <2>5. CASE Len(all) > B!Capacity
    <3>1. excess = Len(all) - B!Capacity
      BY <2>5
    <3> QED BY <1>0, <1>5, <2>2, <2>3, <2>5, <3>1
  <2>6. CASE ~(Len(all) > B!Capacity)
    <3>1. excess = 0
      BY <2>6
    <3> QED BY <2>4, <3>1
  <2> QED BY <2>5, <2>6
<1>7. /\ buffer' \in Seq(Sample) /\ Len(buffer') = Len(all) - excess
      /\ \A i \in 1..Len(buffer') : i + excess \in 1..Len(all) /\ buffer'[i] = all[i + excess]
  <2>1. all \in Seq(Sample) /\ excess \in 0..Len(all)
    BY <1>3, <1>5, <1>6
  <2> HIDE DEF excess
  <2> QED BY <1>4, <2>1, WithoutFront
<1>8. Len(buffer') <= B!Capacity
  BY SMTT(40), <1>0, <1>5, <1>7
<1>9. LaidOut(buffer', channels')
  BY <1>2, <1>4, <1>6, LaidOutDrop
<1>10. Ordered(all) /\ \A i \in 1..Len(all) : all[i].of = "audio" => all[i].at <= arrived'
  <2>1. ASSUME NEW i \in 1..Len(kept) PROVE all[i] = buffer[i] /\ (all[i].of = "audio" => all[i].at <= arrived /\ all[i].at \in Nat)
    BY <1>3, <1>5 DEF BufferOrder, Sample
  <2>2. ASSUME NEW i \in 1..Len(all), i > Len(kept), all[i].of = "audio" PROVE all[i].at = arrived' /\ arrived < arrived'
    BY SMTT(40), <1>3, <2>2
  <2>3. ASSUME NEW i \in 1..Len(all), all[i].of = "audio" PROVE all[i].at <= arrived'
    BY SMTT(40), <1>0, <1>5, <2>1, <2>2, <2>3
  <2>4. ASSUME NEW i \in 1..Len(all), NEW j \in 1..Len(all), i < j, all[i].of = "audio", all[j].of = "audio"
        PROVE  all[i].at <= all[j].at
    <3>1. CASE j \in 1..Len(kept)
      <4>1. i \in 1..Len(kept)
        BY <1>5, <2>4, <3>1
      <4> QED BY <1>3, <2>4, <3>1, <4>1 DEF BufferOrder, Ordered
    <3>2. CASE j > Len(kept)
      BY <2>2, <2>3, <2>4, <3>2
    <3> QED BY <1>5, <3>1, <3>2
  <2> QED BY <2>3, <2>4 DEF Ordered
<1>11. BufferOrder'
  <2>1. \A i \in 1..Len(buffer') : buffer'[i].of = "audio" => buffer'[i].at <= arrived'
    BY <1>7, <1>10
  <2>2. ASSUME NEW i \in 1..Len(buffer'), NEW j \in 1..Len(buffer'), i < j, buffer'[i].of = "audio", buffer'[j].of = "audio"
        PROVE  buffer'[i].at <= buffer'[j].at
    <3>1. i + excess < j + excess
      BY <1>6, <2>2
    <3> QED BY <1>7, <1>10, <2>2, <3>1 DEF Ordered
  <2> QED BY <2>1, <2>2 DEF BufferOrder, Ordered
<1>12. ASSUME NEW p, Taken(p, buffer, arrived) PROVE Taken(p, buffer', arrived')
  <2>1. p[1].of = "audio" => p[1].at \in Nat /\ p[1].at <= arrived
    BY <1>12 DEF Taken, Sample, B!Silence
  <2>2. ASSUME NEW i \in 1..Len(all), p[1].of = "audio", all[i].of = "audio" PROVE p[1].at <= all[i].at
    <3>1. CASE i \in 1..Len(kept)
      BY <1>3, <1>12, <2>2, <3>1 DEF Taken, Before
    <3>2. CASE i > Len(kept)
      BY SMTT(40), <1>0, <1>3, <2>1, <2>2, <3>2
    <3> QED BY <1>5, <3>1, <3>2
  <2>3. ASSUME p[1].of = "audio" PROVE Before(p[1], buffer')
    BY <1>7, <2>2, <2>3 DEF Before
  <2>4. Before(p[1], buffer') /\ (p[1].of = "audio" => p[1].at <= arrived')
    BY <1>0, <2>1, <2>3 DEF Before
  <2> QED BY <1>12, <2>4 DEF Taken, Pair
<1>13. DeviceRight'
  BY <1>12 DEF DeviceRight, B!device
<1> QED BY <1>4, <1>8, <1>9, <1>11, <1>13

LEMMA CueStep ==
  ASSUME B!CapacityAssumption, BufferTypes, BufferOrder, DeviceRight, NEW e \in B!Cues, B!PlayCue(e),
         UNCHANGED <<B!device, arrived>>
  PROVE  /\ channels' \in {1, 2} /\ Len(buffer') <= B!Capacity /\ LaidOut(buffer', channels')
         /\ BufferOrder' /\ DeviceRight'
<1>1. channels \in {1, 2} /\ arrived \in 0..MaxPlayed /\ arrived \in Nat
  BY DEF BufferTypes, B!CapacityAssumption
<1>2. LaidOut(B!Cue(e, channels), channels)
  BY <1>1, CueLaidOut
<1>3. \A i \in 1..Len(B!Cue(e, channels)) : B!Cue(e, channels)[i].of # "audio"
  <2>1. B!Cue(e, channels) \in Seq(Sample)
    BY <1>2 DEF LaidOut
  <2>2. CueLen[e] * channels \in Nat
    BY <1>1 DEF B!CapacityAssumption
  <2>3. \A i \in 1..(CueLen[e] * channels) : B!Cue(e, channels)[i].of = e
    BY DEF B!Cue
  <2>4. Len(B!Cue(e, channels)) = CueLen[e] * channels
    BY <2>2 DEF B!Cue
  <2> QED BY <2>3, <2>4 DEF B!Cues
<1>4. Ordered(B!Cue(e, channels))
  BY <1>3 DEF Ordered
<1> QED BY <1>1, <1>2, <1>3, <1>4, PushStep DEF B!PlayCue

LEMMA ReceiveStep ==
  ASSUME B!CapacityAssumption, PlaybackInv, NEW n \in 1..2, B!Receive(n) PROVE PlaybackInv'
<1> USE DEF PlaybackInv
<1>1. /\ n \in {1, 2} /\ arrived \in 0..MaxPlayed /\ arrived \in Nat /\ MaxPlayed \in Nat
      /\ arrived' = arrived + 1 /\ arrived' \in 0..MaxPlayed /\ arrived' \in Nat
  BY DEF BufferTypes, B!CapacityAssumption, B!Receive
<1> DEFINE f == B!Frame("audio", arrived', n)
<1>2. LaidOut(f, n) /\ Len(f) = n
  BY <1>1, FrameLaidOut
<1>3. \A i \in 1..Len(f) : f[i].at = arrived'
  BY <1>1, <1>2 DEF B!Frame
<1> HIDE DEF f
<1>4. Ordered(f)
  BY <1>1, <1>3 DEF Ordered
<1>5. B!Push(f, n) /\ UNCHANGED B!device
  BY DEF B!Receive, f
<1>6. /\ channels' \in {1, 2} /\ Len(buffer') <= B!Capacity /\ LaidOut(buffer', channels')
      /\ BufferOrder' /\ DeviceRight'
  BY <1>1, <1>2, <1>3, <1>4, <1>5, PushStep
<1> QED BY <1>1, <1>6 DEF BufferTypes, B!Receive, B!link

(* The queues of events, while the buffer stays. *)
LEMMA LinkStep ==
  ASSUME B!CapacityAssumption, PlaybackInv, B!Connect \/ B!ConnectFails \/ B!Disconnect \/ B!ShowStatus
  PROVE  PlaybackInv'
<1> USE DEF PlaybackInv
<1>1. UNCHANGED <<buffer, channels, B!device, arrived>>
  BY DEF B!Connect, B!ConnectFails, B!Disconnect, B!Change, B!ShowStatus
<1>2. BufferOrder' /\ DeviceRight'
  BY <1>1 DEF BufferOrder, Ordered, DeviceRight, Taken, Pair, Before, B!device
<1>3. /\ EventQueue \in Nat /\ MaxEvents \in Nat /\ events \in Seq(B!Cues) /\ cues \in Seq(B!Cues)
      /\ Len(events) <= EventQueue /\ Len(cues) <= EventQueue /\ pageStatus \in B!Cues /\ linkChanges \in 0..MaxEvents
  BY DEF B!CapacityAssumption, BufferTypes
<1>4. /\ events' \in Seq(B!Cues) /\ Len(events') <= EventQueue /\ cues' \in Seq(B!Cues) /\ Len(cues') <= EventQueue
      /\ pageStatus' \in B!Cues /\ linkChanges' \in 0..MaxEvents
  <2>1. ASSUME NEW up, NEW new \in Seq(B!Cues), B!Change(up, new)
        PROVE  /\ events' \in Seq(B!Cues) /\ Len(events') <= EventQueue /\ cues' \in Seq(B!Cues) /\ Len(cues') <= EventQueue
               /\ pageStatus' \in B!Cues /\ linkChanges' \in 0..MaxEvents
    <3> DEFINE all == events \o new
               m == IF Len(all) > EventQueue THEN EventQueue ELSE Len(all)
    <3>1. all \in Seq(B!Cues) /\ Len(all) \in Nat
      BY <1>3
    <3>2. events' = SubSeq(all, 1, m)
      BY <2>1 DEF B!Change, B!Notified
    <3> HIDE DEF all
    <3>3. m \in Nat /\ m <= Len(all) /\ m <= EventQueue
      BY <1>3, <3>1
    <3> HIDE DEF m
    <3>4. events' \in Seq(B!Cues) /\ Len(events') = m
      BY <3>1, <3>2, <3>3
    <3> QED BY <1>3, <2>1, <3>3, <3>4 DEF B!Change
  <2>2. /\ <<"Connected">> \in Seq(B!Cues) /\ <<"Reconnecting">> \in Seq(B!Cues)
        /\ <<"Disconnected", "Reconnecting">> \in Seq(B!Cues)
    BY DEF B!Cues
  <2>3. CASE B!Connect \/ B!ConnectFails \/ B!Disconnect
    BY <2>1, <2>2, <2>3 DEF B!Connect, B!ConnectFails, B!Disconnect
  <2>4. CASE B!ShowStatus
    <3>1. events # <<>> /\ Head(events) \in B!Cues
      BY <1>3, <2>4 DEF B!ShowStatus
    <3> QED BY <1>3, <2>4, <3>1 DEF B!ShowStatus
  <2> QED BY <2>3, <2>4
<1> QED BY <1>1, <1>2, <1>4 DEF BufferTypes, LaidOut, InPairs

LEMMA CueTaskStep ==
  ASSUME B!CapacityAssumption, PlaybackInv, B!TakeEvent \/ B!RepeatCue PROVE PlaybackInv'
<1> USE DEF PlaybackInv
<1>1. CASE B!TakeEvent
  <2>1. cues \in Seq(B!Cues) /\ cues # <<>> /\ Head(cues) \in B!Cues
    BY <1>1 DEF B!TakeEvent, BufferTypes
  <2>2. cues' \in Seq(B!Cues) /\ Len(cues') <= EventQueue
    BY <1>1, <2>1 DEF B!TakeEvent, BufferTypes, B!CapacityAssumption
  <2>3. /\ channels' \in {1, 2} /\ Len(buffer') <= B!Capacity /\ LaidOut(buffer', channels')
        /\ BufferOrder' /\ DeviceRight'
    <3>1. CASE B!PlayCue(Head(cues))
      BY <1>1, <2>1, <3>1, CueStep DEF B!TakeEvent
    <3>2. CASE UNCHANGED <<buffer, channels, started, cut>>
      BY <1>1, <3>2 DEF B!TakeEvent, BufferTypes, BufferOrder, Ordered, DeviceRight, Taken, Pair, Before, B!device,
           LaidOut, InPairs
    <3> QED BY <1>1, <3>1, <3>2 DEF B!TakeEvent
  <2> QED BY <1>1, <2>2, <2>3 DEF B!TakeEvent, BufferTypes
<1>2. CASE B!RepeatCue
  <2>1. /\ channels' \in {1, 2} /\ Len(buffer') <= B!Capacity /\ LaidOut(buffer', channels')
        /\ BufferOrder' /\ DeviceRight'
    BY <1>2, CueStep DEF B!RepeatCue, B!Cues
  <2> QED BY <1>2, <2>1 DEF B!RepeatCue, BufferTypes, B!link
<1> QED BY <1>1, <1>2

(* The device takes whole frames from the front. *)
LEMMA PlayStep == ASSUME B!CapacityAssumption, PlaybackInv, B!Play PROVE PlaybackInv'
<1> USE DEF PlaybackInv
<1>1. /\ buffer \in Seq(Sample) /\ Len(buffer) \in Nat /\ LaidOut(buffer, channels) /\ channels \in {1, 2}
      /\ \A i \in 1..Len(buffer) : buffer[i] \in Sample
  BY DEF BufferTypes, LaidOut
<1>2. UNCHANGED <<channels, arrived, B!link>> /\ buffer' = B!Rest
  BY DEF B!Play
<1>3. ASSUME B!Popped # <<>>
      PROVE  /\ Taken(B!Popped, buffer, arrived) /\ Len(buffer) >= channels /\ B!Popped[1] = buffer[1]
  <2>1. Len(buffer) > 0 /\ 1 \in 1..Len(buffer)
    BY <1>1, <1>3 DEF B!Popped
  <2>2. ASSUME channels = 1 PROVE Pair(B!Popped) /\ B!Popped = <<buffer[1], buffer[1]>>
    BY <1>1, <1>3, <2>1, <2>2 DEF B!Popped, Pair, LaidOut
  <2>3. ASSUME channels = 2 PROVE Pair(B!Popped) /\ B!Popped = <<buffer[1], buffer[2]>> /\ Len(buffer) >= 2
    <3>1. InPairs(buffer) /\ Len(buffer) >= 2
      BY <1>1, <2>1, <2>3 DEF LaidOut, InPairs
    <3>2. B!Popped = <<buffer[1], buffer[2]>>
      BY <1>1, <1>3, <2>3, <3>1 DEF B!Popped
    <3>3. /\ buffer[1].side = "left" /\ buffer[2].side = "right"
          /\ buffer[1].of = buffer[2].of /\ buffer[1].at = buffer[2].at
      BY <1>1, <2>1, <3>1 DEF InPairs
    <3> QED BY <3>1, <3>2, <3>3 DEF Pair
  <2>4. B!Popped[1] = buffer[1] /\ Pair(B!Popped) /\ Len(buffer) >= channels
    BY <1>1, <2>1, <2>2, <2>3
  <2>5. Before(buffer[1], buffer)
    BY <1>1, <2>1 DEF Before, BufferOrder, Ordered, Sample
  <2> QED BY <1>1, <2>1, <2>4, <2>5 DEF Taken, BufferOrder
<1>4. /\ LaidOut(buffer', channels) /\ Len(buffer') <= Len(buffer)
      /\ \A i \in 1..Len(buffer') : \E j \in 1..Len(buffer) : buffer'[i] = buffer[j]
      /\ Ordered(buffer')
  <2>1. CASE B!Popped = <<>>
    BY <1>1, <1>2, <2>1 DEF B!Rest, BufferOrder
  <2>2. CASE B!Popped # <<>>
    <3>1. buffer' = SubSeq(buffer, channels + 1, Len(buffer)) /\ channels <= Len(buffer) /\ channels \in Nat
      BY <1>1, <1>2, <1>3, <2>2 DEF B!Rest
    <3>2. LaidOut(buffer', channels)
      BY <1>1, <3>1, LaidOutDrop
    <3>3. /\ Len(buffer') = Len(buffer) - channels
          /\ \A i \in 1..Len(buffer') : i + channels \in 1..Len(buffer) /\ buffer'[i] = buffer[i + channels]
      BY <1>1, <3>1
    <3>4. Ordered(buffer')
      BY <1>1, <3>1, <3>3 DEF BufferOrder, Ordered
    <3> QED BY <1>1, <3>1, <3>2, <3>3, <3>4
  <2> QED BY <2>1, <2>2
<1>5. BufferTypes'
  <2>1. B!Capacity \in Nat /\ Len(buffer') \in Nat
    BY <1>4 DEF B!CapacityAssumption, B!Capacity, LaidOut
  <2> QED BY <1>1, <1>2, <1>4, <2>1 DEF BufferTypes, B!link
<1>6. BufferOrder'
  BY <1>2, <1>4 DEF BufferOrder
<1>7. ASSUME NEW p, Taken(p, buffer, arrived) PROVE Taken(p, buffer', arrived')
  <2>1. Before(p[1], buffer')
    BY <1>4, <1>7 DEF Taken, Before
  <2> QED BY <1>2, <1>7, <2>1 DEF Taken, Pair
<1>8. ASSUME NEW p, Taken(p, buffer, arrived), NEW q, Taken(q, buffer, arrived), q[1] = buffer[1], Len(buffer) > 0,
             p[1].of = "audio", q[1].of = "audio"
      PROVE  p[1].at <= q[1].at
  BY <1>1, <1>8 DEF Taken, Before
<1>9. Taken(<<B!Silence, B!Silence>>, buffer, arrived)
  BY DEF Taken, Pair, Before, B!Silence
<1>10. DeviceRight'
  <2>1. CASE coming = <<>>
    <3> DEFINE p == IF B!Popped = <<>> THEN <<B!Silence, B!Silence>> ELSE B!Popped
    <3>1. current' = p /\ coming' = p
      BY <2>1 DEF B!Play
    <3>2. Taken(p, buffer', arrived')
      BY <1>3, <1>7, <1>9
    <3>3. p[1].of = "audio" => p[1].at \in Nat
      BY <3>2 DEF Taken, Sample, B!Silence
    <3> HIDE DEF p
    <3> QED BY <3>1, <3>2, <3>3 DEF DeviceRight
  <2>2. CASE coming # <<>>
    <3>1. current' = coming /\ coming' = IF B!Popped = <<>> THEN coming ELSE B!Popped
      BY <2>2 DEF B!Play
    <3>2. Taken(coming, buffer, arrived) /\ Taken(coming', buffer, arrived)
      BY <1>3, <2>2, <3>1 DEF DeviceRight
    <3>3. current'[1].of = "audio" /\ coming'[1].of = "audio" => current'[1].at <= coming'[1].at
      <4>1. CASE B!Popped = <<>>
        BY <3>1, <3>2, <4>1 DEF Taken, Sample, B!Silence
      <4>2. CASE B!Popped # <<>>
        BY <1>1, <1>3, <1>8, <3>1, <3>2, <4>2
      <4> QED BY <4>1, <4>2
    <3>4. Taken(current', buffer', arrived') /\ Taken(coming', buffer', arrived')
      BY <1>7, <3>1, <3>2
    <3> QED BY <3>3, <3>4 DEF DeviceRight
  <2> QED BY <2>1, <2>2
<1> QED BY <1>5, <1>6, <1>10

LEMMA PlaybackStep == ASSUME B!CapacityAssumption, PlaybackInv, [B!Next]_playbackVars PROVE PlaybackInv'
<1>1. CASE UNCHANGED playbackVars
  BY <1>1 DEF playbackVars, PlaybackInv, BufferTypes, BufferOrder, Ordered, DeviceRight, Taken, Pair, Before, LaidOut, InPairs
<1> QED BY <1>1, ReceiveStep, LinkStep, CueTaskStep, PlayStep DEF B!Next

LEMMA PlaybackIsRight == ASSUME B!CapacityAssumption, PlaybackInv PROVE B!TypeOK /\ B!PlayedInOrder
<1> USE DEF PlaybackInv
<1>1. B!TypeOK
  BY DEF BufferTypes, B!TypeOK, B!CapacityAssumption
<1>2. /\ buffer \in Seq(Sample) /\ LaidOut(buffer, channels) /\ channels \in {1, 2} /\ DOMAIN buffer = 1..Len(buffer)
  BY DEF BufferTypes, LaidOut
<1>3. \A pair \in {current, coming} \ {<<>>} :
        pair[1].of = pair[2].of /\ pair[1].at = pair[2].at /\ <<pair[1].side, pair[2].side>> \in {<<"both", "both">>, <<"left", "right">>}
  BY DEF DeviceRight, Taken, Pair
<1>4. \A i \in DOMAIN buffer : buffer[i].side \in {B!Sides(channels)[k] : k \in 1..channels}
  <2>1. CASE channels = 1
    BY <1>2, <2>1 DEF LaidOut, B!Sides
  <2>2. ASSUME channels = 2, NEW i \in 1..Len(buffer) PROVE buffer[i].side \in {B!Sides(channels)[k] : k \in 1..channels}
    <3>1. buffer[i].side \in {"left", "right"}
      BY <1>2, <2>2 DEF LaidOut, InPairs
    <3>2. B!Sides(channels)[1] = "left" /\ B!Sides(channels)[2] = "right" /\ 1 \in 1..channels /\ 2 \in 1..channels
      BY <2>2 DEF B!Sides
    <3> QED BY <3>1, <3>2
  <2> QED BY <1>2, <2>1, <2>2
<1> QED BY <1>1, <1>2, <1>3, <1>4 DEF B!PlayedInOrder, BufferOrder, Ordered, DeviceRight, Taken, Before

(* For any even capacity, any prebuffer and any cues: the device plays both sides of one and
   the same sample, and no frame after a later one, whatever was trimmed, cleared or put
   between (PlaybackBuffer, OutputAdapter::next_stereo). *)
THEOREM DevicePlaysInOrder == ASSUME B!CapacityAssumption PROVE Parts => []PlayedInOrder
<1>1. PartsInit => (part = "playback" => PlaybackInv)
  BY PlaybackInit DEF PartsInit
<1>2. (part = "playback" => PlaybackInv) /\ [PartsNext]_partVars => (part = "playback" => PlaybackInv)'
  BY PlaybackStep, PartsStep
<1>3. (part = "playback" => PlaybackInv) => PlayedInOrder
  BY PlaybackIsRight DEF PlayedInOrder
<1> QED BY <1>1, <1>2, <1>3, PTL DEF Parts

-----------------------------------------------------------------------------
(* The processing of a frame. *)
Job == Nat \X (1..MaxProcessed)
Reply == Nat \X (1..MaxProcessed) \X BOOLEAN
WorkerType ==
  [key : EngineModels, state : {"loading", "gone", "ready", "broken"}, requests : Seq(Job),
   work : SUBSET Job, answers : Seq(Reply), next : Nat]
Gate == [open : BOOLEAN, hold : 0..GateHoldFrames]
Receiving ==
  [user : ProcessedUsers, frame : 1..MaxProcessed, samples : 1..MaxProcessed, c : EngineConfigs, left : Seq(P!Engines),
   open : BOOLEAN, ran : BOOLEAN, id : Nat]

(* The frames that are with a worker or on the way, each with the number it was sent under. *)
InFlight(w) ==
  {w.requests[i] : i \in 1..Len(w.requests)} \cup w.work
  \cup {<<w.answers[i][1], w.answers[i][2]>> : i \in 1..Len(w.answers)}

(* A worker has not seen the next number, and its queues are within their limit. *)
Numbered(w) ==
  /\ w \in WorkerType /\ Len(w.requests) <= QueueFrames /\ Len(w.answers) <= QueueFrames
  /\ \A task \in InFlight(w) : task[1] < w.next
(* What is under way with the number that the receiver waits for is its own frame. *)
Carries(w, r) == r.id # 0 => \A task \in InFlight(w) : task[1] = r.id => task[2] = r.samples

ProcessingTypes ==
  /\ processing \in [ProcessedUsers -> EngineConfigs] /\ received \in [ProcessedUsers -> 0..MaxProcessed]
  /\ vad \in [ProcessedUsers -> Gate] /\ gain \in [ProcessedUsers -> SUBSET Int]
  /\ DOMAIN worker = ProcessedUsers
WorkersRight == \A u \in ProcessedUsers : \A w \in worker[u] : Numbered(w)
ReceiverRight ==
  \A r \in receiver :
    /\ r \in Receiving /\ r.samples = r.frame
    /\ r.id # 0 => r.left # <<>>
    /\ \A w \in worker[r.user] : Carries(w, r)

ProcessingInv == ProcessingTypes /\ WorkersRight /\ ReceiverRight /\ P!GainSafe

LEMMA Larger ==
  ASSUME NEW a \in Int, NEW b \in Int
  PROVE  P!Max({a, b}) \in {a, b} /\ P!Max({a, b}) >= a /\ P!Max({a, b}) >= b
<1>1. \E x \in {a, b} : \A y \in {a, b} : x >= y
  <2>1. CASE a >= b
    BY <2>1
  <2>2. CASE b >= a
    BY <2>2
  <2> QED BY <2>1, <2>2
<1> QED BY <1>1 DEF P!Max

LEMMA Smaller ==
  ASSUME NEW a \in Int, NEW b \in Int
  PROVE  P!Min({a, b}) \in {a, b} /\ P!Min({a, b}) <= a /\ P!Min({a, b}) <= b
<1>1. \E x \in {a, b} : \A y \in {a, b} : x <= y
  <2>1. CASE a >= b
    BY <2>1
  <2>2. CASE b >= a
    BY <2>2
  <2> QED BY <2>1, <2>2
<1> QED BY <1>1 DEF P!Min

(* What is applied is within the limits and keeps the peak below full scale. *)
LEMMA AppliedIsSafe ==
  ASSUME NEW c, c.boost \in Nat, c.attenuation \in Nat, NEW g \in Int, NEW peak \in Int, peak <= 0
  PROVE  /\ P!Applied(c, g, peak) \in (-c.attenuation)..c.boost
         /\ P!Applied(c, g, peak) + peak <= 0
<1> DEFINE x == P!Min({-peak, c.boost})
           y == P!Min({g, x})
           z == P!Max({y, -c.attenuation})
<1>1. x \in Int /\ x <= -peak /\ x <= c.boost
  <2>1. -peak \in Int /\ c.boost \in Int
    OBVIOUS
  <2> QED BY <2>1, Smaller
<1> HIDE DEF x
<1>2. y \in Int /\ y <= x
  BY <1>1, Smaller
<1> HIDE DEF y
<1>3. z \in {y, -c.attenuation} /\ z >= -c.attenuation
  <2>1. -c.attenuation \in Int
    OBVIOUS
  <2> QED BY <1>2, <2>1, Larger
<1>4. P!Applied(c, g, peak) = z
  BY DEF P!Applied, x, y
<1> HIDE DEF z
<1> QED BY <1>1, <1>2, <1>3, <1>4

LEMMA ClampIsInt == ASSUME NEW x \in Int, NEW lo \in Int, NEW hi \in Int PROVE P!Clamp(x, lo, hi) \in Int
<1>1. P!Min({x, hi}) \in Int
  BY Smaller
<1> QED BY <1>1, Larger DEF P!Clamp

-----------------------------------------------------------------------------
(* What a worker does to the frames that are under way. *)

LEMMA FewerInFlight ==
  ASSUME NEW w, Numbered(w), NEW x \in WorkerType, InFlight(x) \subseteq InFlight(w), x.next >= w.next,
         Len(x.requests) <= QueueFrames, Len(x.answers) <= QueueFrames
  PROVE  Numbered(x) /\ \A r : Carries(w, r) => Carries(x, r)
<1>1. \A task \in InFlight(x) : task[1] \in Nat /\ task[1] < w.next
  <2>1. \A task \in InFlight(w) : task \in Job
    <3>1. ASSUME NEW i \in 1..Len(w.answers) PROVE <<w.answers[i][1], w.answers[i][2]>> \in Job
      <4>1. w.answers \in Seq(Reply)
        BY DEF Numbered, WorkerType
      <4>2. w.answers[i] \in Reply
        BY <4>1
      <4> QED BY <4>2 DEF Reply, Job
    <3>2. w.requests \in Seq(Job) /\ w.work \subseteq Job
      BY DEF Numbered, WorkerType
    <3> QED BY <3>1, <3>2 DEF InFlight
  <2> QED BY <2>1 DEF Numbered, Job
<1>2. w.next \in Nat /\ x.next \in Nat
  BY DEF Numbered, WorkerType
<1>3. Numbered(x)
  BY <1>1, <1>2 DEF Numbered
<1> QED BY <1>3 DEF Carries

LEMMA WorkUpdate ==
  ASSUME NEW w \in WorkerType, NEW wk \in SUBSET Job, NEW rq \in Seq(Job)
  PROVE  [w EXCEPT !.work = wk, !.requests = rq] \in WorkerType
BY DEF WorkerType

LEMMA ReplyUpdate ==
  ASSUME NEW w \in WorkerType, NEW wk \in SUBSET Job, NEW an \in Seq(Reply)
  PROVE  [w EXCEPT !.work = wk, !.answers = an] \in WorkerType
BY DEF WorkerType

LEMMA AnswersUpdate ==
  ASSUME NEW w \in WorkerType, NEW an \in Seq(Reply)
  PROVE  [w EXCEPT !.answers = an] \in WorkerType
BY DEF WorkerType

LEMMA RequestUpdate ==
  ASSUME NEW w \in WorkerType, NEW rq \in Seq(Job), NEW n \in Nat
  PROVE  [w EXCEPT !.requests = rq, !.next = n] \in WorkerType
BY DEF WorkerType

LEMMA LoadInFlight ==
  ASSUME NEW w, Numbered(w), NEW state \in {"ready", "broken"}
  PROVE  LET x == [w EXCEPT !.state = state]
         IN Numbered(x) /\ \A r : Carries(w, r) => Carries(x, r)
<1> DEFINE x == [w EXCEPT !.state = state]
<1>1. x \in WorkerType /\ x.requests = w.requests /\ x.work = w.work /\ x.answers = w.answers /\ x.next = w.next
  BY DEF Numbered, WorkerType
<1>2. x.next >= w.next /\ Len(x.requests) <= QueueFrames /\ Len(x.answers) <= QueueFrames
  BY <1>1 DEF Numbered, WorkerType
<1>3. InFlight(x) \subseteq InFlight(w)
  BY <1>1 DEF InFlight
<1> HIDE DEF x
<1>4. Numbered(x) /\ \A r : Carries(w, r) => Carries(x, r)
  BY <1>1, <1>2, <1>3, FewerInFlight
<1> QED BY <1>4 DEF x

LEMMA TakeInFlight ==
  ASSUME P!ProcessingAssumption, NEW w, Numbered(w), w.requests # <<>>
  PROVE  LET x == [w EXCEPT !.work = {Head(w.requests)}, !.requests = Tail(@)]
         IN Numbered(x) /\ \A r : Carries(w, r) => Carries(x, r)
<1> DEFINE x == [w EXCEPT !.work = {Head(w.requests)}, !.requests = Tail(@)]
           q == w.requests
<1>1. q \in Seq(Job) /\ Len(q) \in Nat /\ Len(q) <= QueueFrames /\ QueueFrames \in Nat
  BY DEF Numbered, WorkerType, P!ProcessingAssumption
<1>2. /\ Tail(q) \in Seq(Job) /\ Len(Tail(q)) = Len(q) - 1 /\ Head(q) = q[1] /\ 1 \in 1..Len(q)
      /\ \A i \in 1..Len(Tail(q)) : Tail(q)[i] = q[i + 1] /\ i + 1 \in 1..Len(q)
  BY <1>1
<1>3. x.requests = Tail(q) /\ x.work = {q[1]} /\ x.answers = w.answers /\ x.next = w.next
  BY <1>2 DEF Numbered, WorkerType
<1>4. x \in WorkerType
  <2>1. w \in WorkerType /\ {Head(q)} \in SUBSET Job /\ Tail(q) \in Seq(Job)
    BY <1>1, <1>2 DEF Numbered
  <2> QED BY <2>1, WorkUpdate
<1>5. InFlight(x) \subseteq InFlight(w)
  BY <1>2, <1>3 DEF InFlight
<1>6. x.next >= w.next /\ Len(x.requests) <= QueueFrames /\ Len(x.answers) <= QueueFrames
  BY <1>1, <1>2, <1>3 DEF Numbered, WorkerType
<1> HIDE DEF x
<1>7. Numbered(x) /\ \A r : Carries(w, r) => Carries(x, r)
  BY <1>3, <1>4, <1>5, <1>6, FewerInFlight
<1> QED BY <1>7 DEF x

LEMMA AnswerInFlight ==
  ASSUME P!ProcessingAssumption, NEW w, Numbered(w), NEW task \in w.work, NEW ok \in BOOLEAN,
         Len(w.answers) < QueueFrames
  PROVE  LET x == [w EXCEPT !.work = {}, !.answers = Append(@, <<task[1], task[2], ok>>)]
         IN Numbered(x) /\ \A r : Carries(w, r) => Carries(x, r)
<1> DEFINE x == [w EXCEPT !.work = {}, !.answers = Append(@, <<task[1], task[2], ok>>)]
           q == w.answers
           a == <<task[1], task[2], ok>>
<1>1. q \in Seq(Reply) /\ Len(q) \in Nat /\ QueueFrames \in Nat /\ task \in Job
  BY DEF Numbered, WorkerType, P!ProcessingAssumption
<1>2. a \in Reply /\ <<a[1], a[2]>> = task
  BY <1>1 DEF Reply, Job
<1>3. x.requests = w.requests /\ x.work = {} /\ x.answers = Append(q, a) /\ x.next = w.next
  BY DEF Numbered, WorkerType
<1>4. x \in WorkerType
  <2>1. w \in WorkerType /\ {} \in SUBSET Job /\ Append(q, a) \in Seq(Reply)
    BY <1>1, <1>2 DEF Numbered
  <2> QED BY <2>1, ReplyUpdate
<1> HIDE DEF a
<1>5. /\ Append(q, a) \in Seq(Reply) /\ Len(Append(q, a)) = Len(q) + 1
      /\ \A i \in 1..Len(q) : Append(q, a)[i] = q[i]
      /\ Append(q, a)[Len(q) + 1] = a
  BY <1>1, <1>2
<1> HIDE DEF x
<1>6. InFlight(x) \subseteq InFlight(w)
  <2>1. ASSUME NEW i \in 1..Len(x.answers)
        PROVE  <<x.answers[i][1], x.answers[i][2]>> \in InFlight(w)
    <3>1. CASE i = Len(q) + 1
      BY <1>2, <1>3, <1>5, <3>1 DEF InFlight
    <3>2. CASE i \in 1..Len(q)
      BY <1>3, <1>5, <3>2 DEF InFlight
    <3>3. i = Len(q) + 1 \/ i \in 1..Len(q)
      <4>1. Len(x.answers) = Len(q) + 1
        BY <1>3, <1>5
      <4> QED BY <1>1, <4>1
    <3> QED BY <3>1, <3>2, <3>3
  <2> QED BY <1>3, <2>1 DEF InFlight
<1>7. x.next >= w.next /\ Len(x.requests) <= QueueFrames /\ Len(x.answers) <= QueueFrames
  BY <1>1, <1>3, <1>5 DEF Numbered, WorkerType
<1>8. Numbered(x) /\ \A r : Carries(w, r) => Carries(x, r)
  BY <1>3, <1>4, <1>6, <1>7, FewerInFlight
<1> QED BY <1>8 DEF x, a

LEMMA ReadInFlight ==
  ASSUME P!ProcessingAssumption, NEW w, Numbered(w), w.answers # <<>>
  PROVE  LET x == [w EXCEPT !.answers = Tail(@)]
         IN /\ Numbered(x) /\ \A r : Carries(w, r) => Carries(x, r)
            /\ <<Head(w.answers)[1], Head(w.answers)[2]>> \in InFlight(w)
<1> DEFINE x == [w EXCEPT !.answers = Tail(@)]
           q == w.answers
<1>1. q \in Seq(Reply) /\ Len(q) \in Nat /\ Len(q) <= QueueFrames /\ QueueFrames \in Nat
  BY DEF Numbered, WorkerType, P!ProcessingAssumption
<1>2. /\ Tail(q) \in Seq(Reply) /\ Len(Tail(q)) = Len(q) - 1 /\ Head(q) = q[1] /\ 1 \in 1..Len(q)
      /\ \A i \in 1..Len(Tail(q)) : Tail(q)[i] = q[i + 1] /\ i + 1 \in 1..Len(q)
  BY <1>1
<1>3. x.requests = w.requests /\ x.work = w.work /\ x.answers = Tail(q) /\ x.next = w.next
  BY DEF Numbered, WorkerType
<1>4. x \in WorkerType
  <2>1. w \in WorkerType /\ Tail(q) \in Seq(Reply)
    BY <1>2 DEF Numbered
  <2> QED BY <2>1, AnswersUpdate
<1> HIDE DEF x
<1>5. InFlight(x) \subseteq InFlight(w)
  <2>1. ASSUME NEW i \in 1..Len(x.answers)
        PROVE  <<x.answers[i][1], x.answers[i][2]>> \in InFlight(w)
    BY <1>2, <1>3 DEF InFlight
  <2> QED BY <1>3, <2>1 DEF InFlight
<1>6. x.next >= w.next /\ Len(x.requests) <= QueueFrames /\ Len(x.answers) <= QueueFrames
  BY <1>1, <1>2, <1>3 DEF Numbered, WorkerType
<1>7. Numbered(x) /\ \A r : Carries(w, r) => Carries(x, r)
  BY <1>3, <1>4, <1>5, <1>6, FewerInFlight
<1>8. <<Head(q)[1], Head(q)[2]>> \in InFlight(w)
  BY <1>2 DEF InFlight
<1> QED BY <1>7, <1>8 DEF x

(* The worker that a frame finds, without what came too late for the frames before. *)
LEMMA FoundWorker ==
  ASSUME P!ProcessingAssumption, ProcessingTypes, WorkersRight, NEW r \in Receiving, P!HasModel(r),
         NEW found \in P!Workers(r)
  PROVE  Numbered(P!Drained(found))
<1> DEFINE w == found
           x == P!Drained(found)
<1>1. Numbered(w)
  <2>1. CASE found \in worker[r.user]
    BY <2>1 DEF WorkersRight, Receiving
  <2>2. ASSUME NEW state \in {"loading", "gone"}, found = P!NewWorker(P!Key(r.c), state) PROVE Numbered(w)
    <3>1. P!Key(r.c) \in EngineModels
      BY DEF P!Key, P!HasModel, Receiving, P!ProcessingAssumption
    <3>2. /\ w.requests = <<>> /\ w.work = {} /\ w.answers = <<>> /\ w.next = 1
          /\ w \in WorkerType
      BY <2>2, <3>1 DEF P!NewWorker, WorkerType
    <3>3. InFlight(w) = {}
      BY <3>2 DEF InFlight
    <3> QED BY <3>2, <3>3 DEF Numbered, P!ProcessingAssumption
  <2> QED BY <2>1, <2>2 DEF P!Workers
<1>2. x.requests = w.requests /\ x.work = w.work /\ x.answers = <<>> /\ x.next = w.next /\ x \in WorkerType
  <2>1. w \in WorkerType /\ <<>> \in Seq(Reply)
    BY <1>1 DEF Numbered
  <2>2. x \in WorkerType
    BY <2>1, AnswersUpdate DEF P!Drained
  <2>3. x.requests = w.requests /\ x.work = w.work /\ x.answers = <<>> /\ x.next = w.next
    BY <2>1 DEF P!Drained, WorkerType
  <2> QED BY <2>2, <2>3
<1>3. InFlight(x) \subseteq InFlight(w)
  BY <1>2 DEF InFlight
<1>4. x.next >= w.next /\ Len(x.requests) <= QueueFrames /\ Len(x.answers) <= QueueFrames
  <2>1. w.next \in Nat /\ Len(<<>>) = 0 /\ QueueFrames \in Nat
    BY <1>1 DEF Numbered, WorkerType, P!ProcessingAssumption
  <2>2. Len(w.requests) <= QueueFrames
    BY <1>1 DEF Numbered
  <2> HIDE DEF x
  <2> QED BY <1>2, <2>1, <2>2
<1> HIDE DEF x
<1>5. Numbered(x)
  BY <1>1, <1>2, <1>3, <1>4, FewerInFlight
<1> QED BY <1>5 DEF x

LEMMA SkipInFlight ==
  ASSUME NEW w, Numbered(w) PROVE Numbered([w EXCEPT !.next = @ + 1])
<1> DEFINE x == [w EXCEPT !.next = @ + 1]
<1>1. /\ x.requests = w.requests /\ x.work = w.work /\ x.answers = w.answers /\ x.next = w.next + 1
      /\ x \in WorkerType /\ w.next \in Nat
  BY SMTT(40) DEF Numbered, WorkerType
<1>2. InFlight(x) \subseteq InFlight(w)
  BY <1>1 DEF InFlight
<1>3. Len(x.requests) <= QueueFrames /\ Len(x.answers) <= QueueFrames /\ x.next >= w.next
  BY <1>1 DEF Numbered
<1> HIDE DEF x
<1>4. Numbered(x)
  BY <1>1, <1>2, <1>3, FewerInFlight
<1> QED BY <1>4 DEF x

LEMMA SendInFlight ==
  ASSUME P!ProcessingAssumption, NEW w, Numbered(w), Len(w.requests) < QueueFrames, NEW n \in 1..MaxProcessed
  PROVE  LET x == [w EXCEPT !.requests = Append(@, <<w.next, n>>), !.next = @ + 1]
         IN /\ Numbered(x)
            /\ \A task \in InFlight(x) : task[1] = w.next => task[2] = n
<1> DEFINE x == [w EXCEPT !.requests = Append(@, <<w.next, n>>), !.next = @ + 1]
           q == w.requests
           a == <<w.next, n>>
<1>1. q \in Seq(Job) /\ Len(q) \in Nat /\ QueueFrames \in Nat /\ w.next \in Nat
  BY DEF Numbered, WorkerType, P!ProcessingAssumption
<1>2. a \in Job /\ a[1] = w.next /\ a[2] = n
  BY <1>1 DEF Job
<1>3. x.requests = Append(q, a) /\ x.work = w.work /\ x.answers = w.answers /\ x.next = w.next + 1
  BY DEF Numbered, WorkerType
<1>4. x \in WorkerType
  <2>1. w \in WorkerType /\ Append(q, a) \in Seq(Job) /\ w.next + 1 \in Nat
    BY <1>1, <1>2 DEF Numbered
  <2> QED BY <2>1, RequestUpdate
<1> HIDE DEF a
<1>5. /\ Append(q, a) \in Seq(Job) /\ Len(Append(q, a)) = Len(q) + 1
      /\ \A i \in 1..Len(q) : Append(q, a)[i] = q[i]
      /\ Append(q, a)[Len(q) + 1] = a
  BY <1>1, <1>2
<1> HIDE DEF x
<1>6. \A task \in InFlight(x) : task \in InFlight(w) \/ task = a
  <2>1. ASSUME NEW i \in 1..Len(x.requests) PROVE x.requests[i] \in InFlight(w) \/ x.requests[i] = a
    <3>1. CASE i = Len(q) + 1
      BY <1>3, <1>5, <3>1
    <3>2. CASE i \in 1..Len(q)
      BY <1>3, <1>5, <3>2 DEF InFlight
    <3> QED BY <1>1, <1>3, <1>5, <3>1, <3>2
  <2> QED BY <1>3, <2>1 DEF InFlight
<1>7. \A task \in InFlight(w) : task[1] \in Nat /\ task[1] < w.next
  <2>1. \A task \in InFlight(w) : task[1] \in Nat
    <3>1. \A i \in 1..Len(w.answers) : w.answers[i] \in Reply
      BY DEF Numbered, WorkerType
    <3>2. \A task \in Job : task[1] \in Nat
      BY DEF Job
    <3>3. \A b \in Reply : b[1] \in Nat
      BY DEF Reply
    <3>4. w.requests \in Seq(Job) /\ w.work \subseteq Job
      BY DEF Numbered, WorkerType
    <3> QED BY <3>1, <3>2, <3>3, <3>4 DEF InFlight
  <2> QED BY <2>1 DEF Numbered
<1>8. \A task \in InFlight(x) : task[1] < x.next
  BY <1>1, <1>2, <1>3, <1>6, <1>7
<1>9. \A task \in InFlight(x) : task[1] = w.next => task[2] = n
  BY <1>1, <1>2, <1>6, <1>7
<1>10. Len(x.requests) <= QueueFrames /\ Len(x.answers) <= QueueFrames
  BY <1>1, <1>3, <1>5 DEF Numbered
<1>11. Numbered(x)
  BY <1>4, <1>8, <1>10 DEF Numbered
<1> QED BY <1>9, <1>11 DEF x, a

-----------------------------------------------------------------------------
LEMMA ProcessingInit == ASSUME P!ProcessingAssumption, P!Init PROVE ProcessingInv
<1>1. ProcessingTypes
  BY DEF P!ProcessingAssumption, P!Init, ProcessingTypes, Gate
<1>2. WorkersRight /\ ReceiverRight /\ P!GainSafe
  BY DEF P!Init, WorkersRight, ReceiverRight, P!GainSafe
<1> QED BY <1>1, <1>2 DEF ProcessingInv

(* A frame of its own samples that waits for no answer. *)
Owned(r) == r \in Receiving /\ r.samples = r.frame /\ r.id = 0
Free == \A r \in receiver : Owned(r)

LEMMA AdvanceOwned ==
  ASSUME NEW r \in Receiving, r.samples = r.frame, r.left # <<>>, NEW open \in BOOLEAN, NEW ran \in BOOLEAN,
         P!Advance(r, open, ran)
  PROVE  Free'
<1> DEFINE left == Tail(r.left)
           done == r.ran \/ ran
           x == [r EXCEPT !.left = left, !.open = open, !.ran = done, !.id = 0]
<1>1. left \in Seq(P!Engines) /\ done \in BOOLEAN
  BY DEF Receiving
<1>2. receiver' = {x}
  BY DEF P!Advance
<1> HIDE DEF left, done
<1>3. x \in Receiving
  BY <1>1 DEF Receiving
<1>4. x.samples = x.frame /\ x.id = 0
  BY DEF Receiving
<1> HIDE DEF x
<1> QED BY <1>2, <1>3, <1>4 DEF Free, Owned

LEMMA GatedIsGate ==
  ASSUME P!ProcessingAssumption, NEW g \in Gate, NEW speech \in BOOLEAN, NEW above \in BOOLEAN,
         NEW x \in P!Gated(g, speech, above)
  PROVE  x \in Gate
<1>1. g.open \in BOOLEAN /\ g.hold \in 0..GateHoldFrames /\ GateHoldFrames \in Nat
  BY DEF Gate, P!ProcessingAssumption
<1>2. [open |-> TRUE, hold |-> GateHoldFrames] \in Gate
  BY <1>1 DEF Gate
<1>3. ASSUME g.hold > 0 PROVE [g EXCEPT !.hold = @ - 1] \in Gate
  <2>1. g.hold - 1 \in 0..GateHoldFrames
    BY <1>1, <1>3
  <2> QED BY <2>1 DEF Gate
<1>4. [g EXCEPT !.open = FALSE] \in Gate
  BY DEF Gate
<1>5. CASE speech
  BY <1>2, <1>5 DEF P!Gated
<1>6. CASE ~speech /\ above
  BY <1>1, <1>3, <1>6 DEF P!Gated
<1>7. CASE ~speech /\ ~above
  BY <1>4, <1>7 DEF P!Gated
<1> QED BY <1>5, <1>6, <1>7

LEMMA BuiltinOwned ==
  ASSUME P!ProcessingAssumption, ProcessingTypes, NEW r \in Receiving, r.samples = r.frame, r.left # <<>>, P!Builtin(r)
  PROVE  Free' /\ vad' \in [ProcessedUsers -> Gate]
<1>1. CASE P!CleanupEnabled(r.c) /\ r.c.gate
  <2>1. PICK speech \in BOOLEAN, above \in BOOLEAN : \E g \in P!Gated(vad[r.user], speech, above) :
               vad' = [vad EXCEPT ![r.user] = g] /\ P!Advance(r, g.open, TRUE)
    BY <1>1 DEF P!Builtin
  <2>2. PICK g \in P!Gated(vad[r.user], speech, above) :
               vad' = [vad EXCEPT ![r.user] = g] /\ P!Advance(r, g.open, TRUE)
    BY <2>1
  <2>3. vad[r.user] \in Gate
    BY DEF ProcessingTypes, Receiving
  <2>4. g \in Gate
    BY <2>3, GatedIsGate
  <2>5. g.open \in BOOLEAN
    BY <2>4 DEF Gate
  <2>6. Free'
    BY <2>2, <2>5, AdvanceOwned
  <2>7. vad' \in [ProcessedUsers -> Gate]
    BY <2>2, <2>4 DEF ProcessingTypes
  <2> QED BY <2>6, <2>7
<1>2. CASE ~(P!CleanupEnabled(r.c) /\ r.c.gate)
  BY <1>2, AdvanceOwned DEF P!Builtin, ProcessingTypes
<1> QED BY <1>1, <1>2

LEMMA FallbackOwned ==
  ASSUME P!ProcessingAssumption, ProcessingTypes, NEW r \in Receiving, r.samples = r.frame, r.left # <<>>, P!Fallback(r)
  PROVE  Free' /\ vad' \in [ProcessedUsers -> Gate]
<1>1. CASE r.c.fallback
  BY <1>1, BuiltinOwned DEF P!Fallback
<1>2. CASE ~r.c.fallback
  BY <1>2, AdvanceOwned DEF P!Fallback, ProcessingTypes
<1> QED BY <1>1, <1>2

LEMMA FreeIsRight == ASSUME Free' PROVE ReceiverRight'
BY DEF Free, Owned, ReceiverRight, Carries

(* The stages that ask no worker. *)
LEMMA StageStep ==
  ASSUME P!ProcessingAssumption, ProcessingInv, NEW r \in receiver, P!BuiltinStage(r) \/ P!WebRtcStage(r) \/ P!RnNoiseStage(r)
  PROVE  ProcessingInv'
<1> USE DEF ProcessingInv
<1>1. r \in Receiving /\ r.samples = r.frame /\ r.left # <<>>
  BY DEF ReceiverRight, P!BuiltinStage, P!WebRtcStage, P!RnNoiseStage, P!At
<1>2. UNCHANGED <<processing, received, gain, worker, levelled>>
  BY DEF P!BuiltinStage, P!WebRtcStage, P!RnNoiseStage
<1>3. Free' /\ vad' \in [ProcessedUsers -> Gate]
  <2>1. CASE P!BuiltinStage(r)
    BY <1>1, <2>1, BuiltinOwned DEF P!BuiltinStage
  <2>2. CASE P!WebRtcStage(r)
    BY <1>1, <2>2, FallbackOwned, AdvanceOwned DEF P!WebRtcStage, ProcessingTypes
  <2>3. CASE P!RnNoiseStage(r)
    <3>1. [open |-> TRUE, hold |-> GateHoldFrames] \in Gate
      BY DEF Gate, P!ProcessingAssumption
    <3>2. CASE P!Fallback(r) \/ P!Builtin(r)
      BY <1>1, <3>2, FallbackOwned, BuiltinOwned
    <3>3. ASSUME P!Advance(r, TRUE, TRUE), vad' = vad \/ vad' = [vad EXCEPT ![r.user] = [open |-> TRUE, hold |-> GateHoldFrames]]
          PROVE  Free' /\ vad' \in [ProcessedUsers -> Gate]
      BY <1>1, <3>1, <3>3, AdvanceOwned DEF ProcessingTypes
    <3> QED BY <2>3, <3>2, <3>3 DEF P!RnNoiseStage
  <2> QED BY <2>1, <2>2, <2>3
<1>4. ProcessingTypes' /\ WorkersRight' /\ P!GainSafe'
  BY <1>2, <1>3 DEF ProcessingTypes, WorkersRight, P!GainSafe
<1> QED BY <1>3, <1>4, FreeIsRight

LEMMA NeuralStep ==
  ASSUME P!ProcessingAssumption, ProcessingInv, NEW r \in receiver, P!DeepFilterNetStage(r)
  PROVE  ProcessingInv'
<1> USE DEF ProcessingInv
<1>1. r \in Receiving /\ r.samples = r.frame /\ r.left # <<>> /\ r.user \in ProcessedUsers /\ r.samples \in 1..MaxProcessed
  BY ZenonT(60) DEF ReceiverRight, P!DeepFilterNetStage, P!At, Receiving
<1>2. UNCHANGED <<processing, received, gain, levelled>> /\ P!GainSafe'
  BY DEF P!DeepFilterNetStage, P!GainSafe
<1>3. CASE ~P!HasModel(r) /\ P!Fallback(r) /\ UNCHANGED worker
  <2>1. Free' /\ vad' \in [ProcessedUsers -> Gate]
    BY <1>1, <1>3, FallbackOwned
  <2> QED BY <1>2, <1>3, <2>1, FreeIsRight DEF ProcessingTypes, WorkersRight
<1>4. ASSUME NEW found \in P!Workers(r), P!HasModel(r),
             worker' = [worker EXCEPT ![r.user] = {[P!Drained(found) EXCEPT !.next = @ + 1]}], P!Fallback(r)
      PROVE  ProcessingInv'
  <2> DEFINE x == [P!Drained(found) EXCEPT !.next = @ + 1]
  <2>1. Numbered(x)
    BY <1>1, <1>4, FoundWorker, SkipInFlight
  <2>2. worker' = [worker EXCEPT ![r.user] = {x}]
    BY <1>4
  <2> HIDE DEF x
  <2>3. WorkersRight' /\ DOMAIN worker' = ProcessedUsers
    BY <2>1, <2>2 DEF WorkersRight, ProcessingTypes
  <2>4. Free' /\ vad' \in [ProcessedUsers -> Gate]
    BY <1>1, <1>4, FallbackOwned
  <2> QED BY <1>2, <2>3, <2>4, FreeIsRight DEF ProcessingTypes
<1>5. ASSUME NEW found \in P!Workers(r), P!HasModel(r), NEW w, w = P!Drained(found), Len(w.requests) < QueueFrames,
             worker' = [worker EXCEPT ![r.user] =
               {[w EXCEPT !.requests = Append(@, <<w.next, r.samples>>), !.next = @ + 1]}],
             receiver' = {[r EXCEPT !.id = w.next]}, UNCHANGED vad
      PROVE  ProcessingInv'
  <2> DEFINE x == [w EXCEPT !.requests = Append(@, <<w.next, r.samples>>), !.next = @ + 1]
             y == [r EXCEPT !.id = w.next]
  <2>1. Numbered(w)
    BY <1>1, <1>5, FoundWorker
  <2>2. Numbered(x) /\ \A task \in InFlight(x) : task[1] = w.next => task[2] = r.samples
    BY <1>1, <1>5, <2>1, SendInFlight
  <2>3. worker' = [worker EXCEPT ![r.user] = {x}] /\ receiver' = {y}
    BY <1>5
  <2>4. w.next \in Nat
    BY <2>1 DEF Numbered, WorkerType
  <2>5. /\ y \in Receiving /\ y.samples = r.samples /\ y.frame = r.frame /\ y.user = r.user /\ y.id = w.next
        /\ y.left = r.left
    BY <1>1, <2>4 DEF Receiving
  <2> HIDE DEF x, y
  <2>6. WorkersRight' /\ DOMAIN worker' = ProcessedUsers
    BY <2>2, <2>3 DEF WorkersRight, ProcessingTypes
  <2>7. worker'[r.user] = {x}
    BY <1>1, <2>3 DEF ProcessingTypes
  <2>8. Carries(x, y)
    BY <2>2, <2>5 DEF Carries
  <2>9. ReceiverRight'
    BY <1>1, <2>3, <2>5, <2>7, <2>8 DEF ReceiverRight
  <2> QED BY <1>2, <1>5, <2>6, <2>9 DEF ProcessingTypes
<1> QED BY <1>3, <1>4, <1>5, ZenonT(60) DEF P!DeepFilterNetStage

LEMMA AnswerStep ==
  ASSUME P!ProcessingAssumption, ProcessingInv, NEW r \in receiver, P!TakeAnswer(r) \/ P!TimeOut(r)
  PROVE  ProcessingInv'
<1> USE DEF ProcessingInv
<1>1. r \in Receiving /\ r.samples = r.frame /\ r.user \in ProcessedUsers /\ r.left # <<>> /\ r.id # 0
  BY DEF ReceiverRight, Receiving, P!TakeAnswer, P!TimeOut
<1>2. UNCHANGED <<processing, received, gain, levelled>> /\ P!GainSafe'
  BY DEF P!TakeAnswer, P!TimeOut, P!GainSafe
<1>3. CASE P!TimeOut(r)
  <2>1. Free' /\ vad' \in [ProcessedUsers -> Gate]
    BY <1>1, <1>3, FallbackOwned DEF P!TimeOut
  <2> QED BY <1>2, <1>3, <2>1, FreeIsRight DEF P!TimeOut, ProcessingTypes, WorkersRight
<1>4. CASE P!TakeAnswer(r)
  <2> DEFINE a(w) == Head(w.answers)
  <2>1. PICK w \in worker[r.user] :
          /\ w.answers # <<>>
          /\ worker' = [worker EXCEPT ![r.user] = {[w EXCEPT !.answers = Tail(@)]}]
          /\ \/ ~P!Mine(a(w), r.id) /\ UNCHANGED <<receiver, vad>>
             \/ P!Mine(a(w), r.id) /\ ~a(w)[3] /\ P!Fallback(r)
             \/ /\ P!Mine(a(w), r.id) /\ a(w)[3]
                /\ \E open \in BOOLEAN : P!Advance([r EXCEPT !.samples = a(w)[2]], open, TRUE)
                /\ UNCHANGED vad
    BY <1>4 DEF P!TakeAnswer
  <2> DEFINE x == [w EXCEPT !.answers = Tail(@)]
  <2>2. Numbered(w) /\ Carries(w, r)
    BY <1>1 DEF WorkersRight, ReceiverRight
  <2>3. /\ Numbered(x) /\ (\A q : Carries(w, q) => Carries(x, q))
        /\ <<a(w)[1], a(w)[2]>> \in InFlight(w)
    BY <2>1, <2>2, ReadInFlight
  <2>4. worker' = [worker EXCEPT ![r.user] = {x}]
    BY <2>1
  <2> HIDE DEF x
  <2>5. WorkersRight' /\ DOMAIN worker' = ProcessedUsers
    BY <2>3, <2>4 DEF WorkersRight, ProcessingTypes
  <2>6. CASE UNCHANGED <<receiver, vad>>
    <3>1. ASSUME NEW q \in receiver, NEW v \in worker'[q.user] PROVE Carries(v, q)
      <4>1. CASE q.user = r.user
        <5>1. v = x
          BY <1>1, <2>4, <3>1, <4>1 DEF ProcessingTypes
        <5>2. Carries(w, q)
          BY <4>1 DEF ReceiverRight
        <5> QED BY <2>3, <5>1, <5>2
      <4>2. CASE q.user # r.user
        <5>1. v \in worker[q.user]
          BY <2>4, <3>1, <4>2 DEF ReceiverRight, Receiving, ProcessingTypes
        <5> QED BY <5>1 DEF ReceiverRight
      <4> QED BY <4>1, <4>2
    <3>2. ReceiverRight'
      BY <2>6, <3>1 DEF ReceiverRight
    <3> QED BY <1>2, <2>5, <2>6, <3>2 DEF ProcessingTypes
  <2>7. CASE P!Fallback(r)
    <3>1. Free' /\ vad' \in [ProcessedUsers -> Gate]
      BY <1>1, <2>7, FallbackOwned
    <3> QED BY <1>2, <2>5, <3>1, FreeIsRight DEF ProcessingTypes
  <2>8. ASSUME P!Mine(a(w), r.id), NEW open \in BOOLEAN, P!Advance([r EXCEPT !.samples = a(w)[2]], open, TRUE), UNCHANGED vad
        PROVE  ProcessingInv'
    <3> DEFINE s == a(w)[2]
               y == [r EXCEPT !.samples = s]
    <3>1. s = r.samples
      BY <1>1, <2>2, <2>3, <2>8 DEF P!Mine, Carries
    <3> HIDE DEF s
    <3>2. y \in Receiving /\ y.samples = y.frame /\ y.left # <<>>
      BY <1>1, <3>1 DEF Receiving
    <3>3. P!Advance(y, open, TRUE)
      BY <2>8 DEF s
    <3> HIDE DEF y
    <3>4. Free'
      BY <3>2, <3>3, AdvanceOwned
    <3> QED BY <1>2, <2>5, <2>8, <3>4, FreeIsRight DEF ProcessingTypes
  <2> QED BY <2>1, <2>6, <2>7, <2>8
<1> QED BY <1>3, <1>4

LEMMA WorksStep ==
  ASSUME ProcessingInv, NEW u \in ProcessedUsers, NEW w \in worker[u], NEW x, P!Works(u, w, x),
         Numbered(x), \A r : Carries(w, r) => Carries(x, r)
  PROVE  ProcessingInv'
<1> USE DEF ProcessingInv
<1>1. worker' = [worker EXCEPT ![u] = {x}] /\ UNCHANGED <<processing, received, vad, gain, receiver, levelled>>
  BY DEF P!Works
<1>2. WorkersRight' /\ ProcessingTypes' /\ P!GainSafe'
  BY <1>1 DEF WorkersRight, ProcessingTypes, P!GainSafe
<1>3. ASSUME NEW q \in receiver, NEW v \in worker'[q.user] PROVE Carries(v, q)
  <2>1. CASE q.user = u
    <3>1. v = x /\ Carries(w, q)
      BY <1>1, <1>3, <2>1 DEF ProcessingTypes, ReceiverRight
    <3> QED BY <3>1
  <2>2. CASE q.user # u
    <3>1. v \in worker[q.user]
      BY <1>1, <1>3, <2>2 DEF ReceiverRight, Receiving, ProcessingTypes
    <3> QED BY <3>1 DEF ReceiverRight
  <2> QED BY <2>1, <2>2
<1>4. ReceiverRight'
  BY <1>1, <1>3 DEF ReceiverRight
<1> QED BY <1>2, <1>4

LEMMA WorkerStep ==
  ASSUME P!ProcessingAssumption, ProcessingInv, NEW u \in ProcessedUsers, P!Load(u) \/ P!Take(u) \/ P!Answer(u)
  PROVE  ProcessingInv'
<1>1. \A w \in worker[u] : Numbered(w)
  BY DEF ProcessingInv, WorkersRight
<1>2. CASE P!Load(u)
  BY <1>1, <1>2, LoadInFlight, WorksStep DEF P!Load
<1>3. CASE P!Take(u)
  BY <1>1, <1>3, TakeInFlight, WorksStep DEF P!Take
<1>4. CASE P!Answer(u)
  BY <1>1, <1>4, AnswerInFlight, WorksStep DEF P!Answer
<1> QED BY <1>2, <1>3, <1>4

LEMMA PacketStep ==
  ASSUME P!ProcessingAssumption, ProcessingInv, NEW u \in ProcessedUsers, NEW pcm48 \in BOOLEAN, NEW loud \in BOOLEAN,
         P!Receive(u, pcm48, loud)
  PROVE  ProcessingInv'
<1> USE DEF ProcessingInv
<1>1. /\ UNCHANGED <<processing, vad, gain, worker, levelled>>
      /\ received' = [received EXCEPT ![u] = @ + 1]
  BY DEF P!Receive
<1>2. received[u] \in Nat /\ MaxProcessed \in Nat /\ received[u] + 1 \in 1..MaxProcessed
  BY DEF P!Receive, ProcessingTypes, P!ProcessingAssumption
<1>3. ProcessingTypes'
  BY <1>1, <1>2 DEF ProcessingTypes
<1>4. ASSUME NEW x \in receiver' PROVE Owned(x)
  <2> DEFINE c == processing[u]
             n == received[u] + 1
  <2>1. c \in EngineConfigs /\ c.pipeline \in Seq(P!Engines)
    BY DEF ProcessingTypes, P!ProcessingAssumption
  <2>2. n \in 1..MaxProcessed
    BY <1>2
  <2>3. x = [user |-> u, frame |-> n, samples |-> n, c |-> c, left |-> c.pipeline, open |-> loud, ran |-> FALSE, id |-> 0]
    BY <1>4 DEF P!Receive
  <2> HIDE DEF c, n
  <2> QED BY <2>1, <2>2, <2>3 DEF Owned, Receiving
<1>5. WorkersRight' /\ P!GainSafe' /\ Free'
  BY <1>1, <1>4 DEF WorkersRight, P!GainSafe, Free
<1> QED BY <1>3, <1>5, FreeIsRight

LEMMA DoneStep ==
  ASSUME P!ProcessingAssumption, ProcessingInv, NEW r \in receiver, P!Done(r)
  PROVE  ProcessingInv'
<1> USE DEF ProcessingInv
<1>1. receiver' = {} /\ UNCHANGED <<processing, received, vad, worker>>
  BY DEF P!Done
<1>2. r \in Receiving /\ r.user \in ProcessedUsers /\ r.c \in EngineConfigs
  BY DEF ReceiverRight, Receiving
<1>3. /\ r.c.boost \in Nat /\ r.c.attenuation \in Nat /\ r.c.target \in P!Levels /\ P!Levels \subseteq Int
      /\ -r.c.attenuation \in Int /\ r.c.boost \in Int
  BY <1>2 DEF P!ProcessingAssumption, P!Levels
<1>4. ASSUME NEW rms \in P!Levels, NEW peak \in rms..0, P!Normalize(r, rms, peak)
      PROVE  gain' \in [ProcessedUsers -> SUBSET Int] /\ P!GainSafe'
  <2> DEFINE want == P!Desired(r.c, rms)
  <2>1. want \in Int
    <3>2. r.c.target \in Int /\ rms \in Int
      BY <1>3
    <3>1. r.c.target - rms \in Int
      BY <3>2
    <3> QED BY <1>3, <3>1, ClampIsInt DEF P!Desired
  <2> HIDE DEF want
  <2>2. PICK next \in P!Towards(r.user, want) :
          LET g == P!Clamp(next, -r.c.attenuation, r.c.boost)
          IN /\ gain' = [gain EXCEPT ![r.user] = {g}]
             /\ levelled' = {[applied |-> P!Applied(r.c, g, peak), peak |-> peak,
                              boost |-> r.c.boost, attenuation |-> r.c.attenuation]}
    BY <1>4 DEF P!Normalize, want
  <2>3. next \in Int
    <3>1. ASSUME NEW g \in gain[r.user], next \in P!Min({g, want})..P!Max({g, want}) PROVE next \in Int
      BY <3>1
    <3>2. \/ \E g \in gain[r.user] : next \in P!Min({g, want})..P!Max({g, want})
          \/ gain[r.user] = {} /\ next = want
      <4> DEFINE near == {P!Min({g, want})..P!Max({g, want}) : g \in gain[r.user]}
                 far == IF gain[r.user] = {} THEN {want} ELSE {}
      <4>1. next \in (UNION near) \cup far
        <5>1. next \in P!Towards(r.user, want)
          BY <2>2
        <5> QED BY <5>1 DEF P!Towards
      <4>2. ASSUME next \in UNION near PROVE \E g \in gain[r.user] : next \in P!Min({g, want})..P!Max({g, want})
        <5>1. PICK s \in near : next \in s
          BY <4>2
        <5>2. \A x \in near : \E g \in gain[r.user] : x = P!Min({g, want})..P!Max({g, want})
          OBVIOUS
        <5> HIDE DEF near
        <5> QED BY <5>1, <5>2
      <4>3. ASSUME next \in far PROVE gain[r.user] = {} /\ next = want
        BY <4>3
      <4> HIDE DEF near, far
      <4> QED BY <4>1, <4>2, <4>3
    <3> QED BY <2>1, <3>1, <3>2
  <2> DEFINE g == P!Clamp(next, -r.c.attenuation, r.c.boost)
             app == P!Applied(r.c, g, peak)
  <2>4. g \in Int
    BY <1>3, <2>3, ClampIsInt
  <2>5. /\ gain' = [gain EXCEPT ![r.user] = {g}]
        /\ levelled' = {[applied |-> app, peak |-> peak, boost |-> r.c.boost, attenuation |-> r.c.attenuation]}
    BY <2>2
  <2>6. app \in (-r.c.attenuation)..r.c.boost /\ app + peak <= 0
    <3>1. peak \in Int /\ peak <= 0
      BY <1>3, <1>4
    <3> HIDE DEF g
    <3> QED BY <1>3, <2>4, <3>1, AppliedIsSafe
  <2> HIDE DEF g, app
  <2> QED BY <1>2, <2>4, <2>5, <2>6 DEF P!GainSafe, ProcessingTypes
<1>5. gain' \in [ProcessedUsers -> SUBSET Int] /\ P!GainSafe'
  BY <1>4 DEF P!Done, P!GainSafe, ProcessingTypes
<1> QED BY <1>1, <1>5 DEF ProcessingTypes, WorkersRight, ReceiverRight

LEMMA ProcessingStep == ASSUME P!ProcessingAssumption, ProcessingInv, [P!Next]_processingVars PROVE ProcessingInv'
<1>1. CASE UNCHANGED processingVars
  BY <1>1 DEF processingVars, ProcessingInv, ProcessingTypes, WorkersRight, ReceiverRight, P!GainSafe
<1>2. ASSUME NEW u \in ProcessedUsers, NEW c \in EngineConfigs, P!Configure(u, c) PROVE ProcessingInv'
  BY <1>2 DEF P!Configure, ProcessingInv, ProcessingTypes, WorkersRight, ReceiverRight, P!GainSafe
<1>3. ASSUME NEW r \in receiver, P!Stage(r) PROVE ProcessingInv'
  BY <1>3, StageStep, NeuralStep DEF P!Stage
<1> QED BY <1>1, <1>2, <1>3, PacketStep, WorkerStep, AnswerStep, DoneStep DEF P!Next

LEMMA ProcessingIsRight == ASSUME P!ProcessingAssumption, ProcessingInv PROVE P!TypeOK /\ P!OwnSamples /\ P!GainSafe
<1> USE DEF ProcessingInv
<1>1. \A r \in receiver : r.user \in ProcessedUsers /\ r.samples \in 1..MaxProcessed /\ r.left \in Seq(P!Engines) /\ r.samples = r.frame
  BY DEF ReceiverRight, Receiving
<1>2. ASSUME NEW u \in ProcessedUsers
      PROVE  /\ vad[u] \in [open : BOOLEAN, hold : 0..GateHoldFrames] /\ gain[u] \subseteq Int
             /\ \A w \in worker[u] :
                  /\ w.state \in {"loading", "gone", "ready", "broken"} /\ w.key \in EngineModels
                  /\ Len(w.requests) <= QueueFrames /\ Len(w.answers) <= QueueFrames
  <2>1. vad[u] \in Gate /\ gain[u] \subseteq Int
    BY DEF ProcessingTypes
  <2>2. ASSUME NEW w \in worker[u]
        PROVE  /\ w.state \in {"loading", "gone", "ready", "broken"} /\ w.key \in EngineModels
               /\ Len(w.requests) <= QueueFrames /\ Len(w.answers) <= QueueFrames
    BY <2>2 DEF WorkersRight, Numbered, WorkerType
  <2> QED BY <2>1, <2>2 DEF Gate
<1> QED BY <1>1, <1>2 DEF P!TypeOK, P!OwnSamples, ProcessingTypes

(* For any engines, models and queue lengths: a frame leaves the noise reduction with its own
   samples, however late the answers come and whatever is configured meanwhile, and leveling
   stays within its limits and below full scale (AudioProcessorBank, normalize_input_level). *)
THEOREM FramesKeepTheirSamples == ASSUME P!ProcessingAssumption PROVE Parts => []ProcessingRight
<1>1. PartsInit => (part = "processing" => ProcessingInv)
  BY ProcessingInit DEF PartsInit
<1>2. (part = "processing" => ProcessingInv) /\ [PartsNext]_partVars => (part = "processing" => ProcessingInv)'
  BY ProcessingStep, PartsStep
<1>3. (part = "processing" => ProcessingInv) => ProcessingRight
  BY ProcessingIsRight DEF ProcessingRight
<1> QED BY <1>1, <1>2, <1>3, PTL DEF Parts

-----------------------------------------------------------------------------
(* The copy of the session. *)
(* The copy is a record of what is shown and of the last mode that was not mute. *)
HasFields(r, fields) == r = [f \in fields |-> r[f]]
CopyType == HasFields(local, {"shown", "last"})

IsSeq(q) == Len(q) \in Nat /\ q = [i \in 1..Len(q) |-> q[i]]
QueuesAreSeqs == IsSeq(controlQueue) /\ IsSeq(wire) /\ IsSeq(localDown)

(* One caller waits at a time, and its request is in the channel, or on the socket, or
   the answer is on the way back. *)
Asks(q) == {i \in 1..Len(q) : q[i].by # "nobody"}
AskedBy(q, w) == \A i \in Asks(q) : q[i].by = w.by
Alone(q) == \A i, j \in Asks(q) : i = j
Caller(w) == HasFields(w, {"by", "left", "sent"}) /\ w.by # "nobody" /\ w.sent \in BOOLEAN
OneCaller == \A w \in waiting : Caller(w) /\ \A v \in waiting : v = w
OneRequest ==
  /\ Alone(controlQueue) /\ Alone(wire) /\ Alone(localDown)
  /\ Asks(controlQueue) # {} => Asks(wire) = {} /\ Asks(localDown) = {}
  /\ Asks(wire) # {} => Asks(localDown) = {}
NotSent == \A w \in waiting : ~w.sent
NobodyAsks == Asks(controlQueue) = {} /\ Asks(wire) = {} /\ Asks(localDown) = {}
WhoAsks ==
  /\ NotSent => NobodyAsks
  /\ \A w \in waiting : AskedBy(controlQueue, w) /\ AskedBy(wire, w) /\ AskedBy(localDown, w)

(* The last update on the way has the session as it is.  Without one, and with nothing
   else on the way, the copy has it, unless the server has refused something since. *)
Updates(q) == {i \in 1..Len(q) : q[i].kind = "update"}
LastHas(q, s) == \A i \in Updates(q) : (\A j \in Updates(q) : j <= i) => q[i].session = s
Kinds(q) == \A i \in 1..Len(q) : q[i].kind = IF q[i].by = "nobody" THEN "update" ELSE "answer"
DownRight == Kinds(localDown) /\ LastHas(localDown, serverSession) /\ (~localLink => wire = <<>> /\ localDown = <<>>)
NothingAsked == controlQueue = <<>> /\ wire = <<>> /\ Updates(localDown) = {} /\ \A w \in waiting : w.sent
CopyRight == ~ended /\ localLink /\ ~copyStale /\ NothingAsked => local.shown = serverSession

(* Every command that guesses does so about something that the server handles alike. *)
Guessed == {"talk", "mode", "codec", "button", "call", "reply", "ack", "cancel", "raise"}
TogglesKnown == \A m \in toggling : m.op \in Guessed

LocalInv == TogglesKnown /\ CopyType /\ QueuesAreSeqs /\ OneCaller /\ OneRequest /\ WhoAsks /\ DownRight /\ CopyRight

LEMMA AppendedSeq == ASSUME NEW q, NEW e, IsSeq(q)
  PROVE /\ IsSeq(Append(q, e)) /\ Len(Append(q, e)) = Len(q) + 1
        /\ \A i \in 1..Len(q) : Append(q, e)[i] = q[i]
        /\ Append(q, e)[Len(q) + 1] = e /\ q \o <<e>> = Append(q, e) /\ q \o <<>> = q
<1> DEFINE Items == {q[i] : i \in 1..Len(q)} \cup {e}
<1>1. q \in Seq(Items) /\ e \in Items
  BY DEF IsSeq
<1>2. Append(q, e) \in Seq(Items) /\ Len(Append(q, e)) = Len(q) + 1 /\ Len(q) \in Nat
  BY <1>1
<1> HIDE DEF Items
<1>3. IsSeq(Append(q, e))
  <2> DEFINE r == Append(q, e)
  <2>1. r \in [1..Len(r) -> Items] /\ Len(r) \in Nat
    BY <1>2, LenProperties
  <2> QED BY <2>1 DEF IsSeq
<1>4. \A i \in 1..Len(q) : Append(q, e)[i] = q[i]
  BY <1>1
<1>5. Append(q, e)[Len(q) + 1] = e
  BY <1>1
<1>6. q \o <<>> = q
  BY <1>1
<1>7. q \o <<e>> = Append(q, e)
  BY <1>1
<1> QED BY <1>2, <1>3, <1>4, <1>5, <1>6, <1>7

LEMMA RestOfSeq == ASSUME NEW q, IsSeq(q), q # <<>>
  PROVE /\ IsSeq(Tail(q)) /\ Len(q) >= 1 /\ Len(Tail(q)) = Len(q) - 1
        /\ \A i \in 1..Len(Tail(q)) : Tail(q)[i] = q[i + 1] /\ i + 1 \in 1..Len(q)
        /\ Head(q) = q[1] /\ 1 \in 1..Len(q)
<1> DEFINE Items == {q[i] : i \in 1..Len(q)}
<1>1. q \in Seq(Items) /\ Len(q) \in Nat
  BY DEF IsSeq
<1> HIDE DEF Items
<1>2. Len(q) >= 1
  BY <1>1
<1>3. Tail(q) \in Seq(Items) /\ Len(Tail(q)) = Len(q) - 1
  BY <1>1, <1>2
<1>4. IsSeq(Tail(q))
  <2>1. Tail(q) \in [1..Len(Tail(q)) -> Items] /\ Len(Tail(q)) \in Nat
    BY <1>3, LenProperties
  <2> QED BY <2>1 DEF IsSeq
<1>5. \A i \in 1..Len(Tail(q)) : Tail(q)[i] = q[i + 1] /\ i + 1 \in 1..Len(q)
  BY <1>1, <1>2, <1>3
<1>6. Head(q) = q[1]
  BY <1>1, <1>2
<1> QED BY <1>1, <1>2, <1>3, <1>4, <1>5, <1>6

LEMMA NothingInEmpty == IsSeq(<<>>) /\ Asks(<<>>) = {} /\ Updates(<<>>) = {}
<1>1. Len(<<>>) = 0 /\ 1..0 = {}
  OBVIOUS
<1>2. <<>> = [i \in 1..0 |-> <<>>[i]]
  OBVIOUS
<1> QED BY <1>1, <1>2 DEF IsSeq, Asks, Updates

LEMMA AppendedAsks == ASSUME NEW q, NEW e, IsSeq(q)
  PROVE /\ e.by = "nobody" => Asks(Append(q, e)) = Asks(q)
        /\ e.by # "nobody" => Asks(Append(q, e)) = Asks(q) \cup {Len(q) + 1}
        /\ e.by = "nobody" /\ Alone(q) => Alone(Append(q, e))
        /\ Asks(q) = {} => Alone(Append(q, e))
        /\ \A w : AskedBy(q, w) /\ e.by \in {w.by, "nobody"} => AskedBy(Append(q, e), w)
<1>1. Len(q) \in Nat
  BY DEF IsSeq
<1>2. e.by = "nobody" => Asks(Append(q, e)) = Asks(q)
  BY AppendedSeq, <1>1 DEF Asks
<1>3. e.by # "nobody" => Asks(Append(q, e)) = Asks(q) \cup {Len(q) + 1}
  BY AppendedSeq, <1>1 DEF Asks
<1>4. e.by = "nobody" /\ Alone(q) => Alone(Append(q, e))
  BY <1>2 DEF Alone
<1>5. Asks(q) = {} => Alone(Append(q, e))
  BY <1>2, <1>3 DEF Alone
<1>6. \A i \in Asks(q) : Append(q, e)[i] = q[i]
  BY AppendedSeq DEF Asks
<1>7. \A w : AskedBy(q, w) /\ e.by \in {w.by, "nobody"} => AskedBy(Append(q, e), w)
  <2> TAKE w
  <2> HAVE AskedBy(q, w) /\ e.by \in {w.by, "nobody"}
  <2>1. \A i \in Asks(q) : Append(q, e)[i].by = w.by
      BY <1>6 DEF AskedBy
  <2>2. CASE e.by = "nobody"
    BY <1>2, <2>1, <2>2 DEF AskedBy
  <2>3. CASE e.by # "nobody"
    <3>1. Append(q, e)[Len(q) + 1].by = w.by
      BY <2>3, AppendedSeq
    <3> QED BY <1>3, <2>1, <2>3, <3>1 DEF AskedBy
  <2> QED BY <2>2, <2>3
<1> QED BY <1>2, <1>3, <1>4, <1>5, <1>7

LEMMA RestAsks == ASSUME NEW q, IsSeq(q), q # <<>>
  PROVE /\ Asks(q) = {} => Asks(Tail(q)) = {} /\ Head(q).by = "nobody"
        /\ Alone(q) => Alone(Tail(q))
        /\ Alone(q) /\ Head(q).by # "nobody" => Asks(Tail(q)) = {}
        /\ \A w : AskedBy(q, w) => AskedBy(Tail(q), w) /\ Head(q).by \in {w.by, "nobody"}
<1>1. Len(q) \in Nat /\ Len(Tail(q)) \in Nat
  BY RestOfSeq DEF IsSeq
<1>2. \A i \in Asks(Tail(q)) : i \in Nat /\ i >= 1 /\ i + 1 \in Asks(q) /\ Tail(q)[i] = q[i + 1]
  BY <1>1, RestOfSeq DEF Asks
<1>3. Head(q).by # "nobody" => 1 \in Asks(q)
  BY <1>1, RestOfSeq DEF Asks
<1>4. Alone(q) => Alone(Tail(q))
  BY <1>2 DEF Alone
<1>5. Alone(q) /\ Head(q).by # "nobody" => Asks(Tail(q)) = {}
  BY <1>2, <1>3 DEF Alone
<1>6. \A w : AskedBy(q, w) => AskedBy(Tail(q), w) /\ Head(q).by \in {w.by, "nobody"}
  BY <1>2, <1>3, RestOfSeq DEF AskedBy
<1>7. Asks(q) = {} => Asks(Tail(q)) = {} /\ Head(q).by = "nobody"
  BY <1>2, <1>3
<1> QED BY <1>4, <1>5, <1>6, <1>7

LEMMA AppendedUpdates == ASSUME NEW q, NEW e, IsSeq(q)
  PROVE /\ e.kind = "update" => Updates(Append(q, e)) # {} /\ LastHas(Append(q, e), e.session)
        /\ e.kind # "update" => Updates(Append(q, e)) = Updates(q) /\ \A s : LastHas(q, s) => LastHas(Append(q, e), s)
        /\ Kinds(q) /\ (e.kind = IF e.by = "nobody" THEN "update" ELSE "answer") => Kinds(Append(q, e))
<1>1. Len(q) \in Nat
  BY DEF IsSeq
<1>2. e.kind = "update" => Updates(Append(q, e)) = Updates(q) \cup {Len(q) + 1}
  BY <1>1, AppendedSeq DEF Updates
<1>3. e.kind # "update" => Updates(Append(q, e)) = Updates(q)
  BY <1>1, AppendedSeq DEF Updates
<1>4. \A i \in Updates(q) : i \in Nat /\ i <= Len(q) /\ Append(q, e)[i] = q[i]
  BY <1>1, AppendedSeq DEF Updates
<1>5. e.kind = "update" => LastHas(Append(q, e), e.session)
  BY <1>1, <1>2, <1>4, AppendedSeq DEF LastHas
<1>6. e.kind # "update" => \A s : LastHas(q, s) => LastHas(Append(q, e), s)
  BY <1>3, <1>4 DEF LastHas
<1>7. Kinds(q) /\ (e.kind = IF e.by = "nobody" THEN "update" ELSE "answer") => Kinds(Append(q, e))
  BY <1>1, AppendedSeq DEF Kinds
<1> QED BY <1>2, <1>3, <1>5, <1>6, <1>7

LEMMA RestUpdates == ASSUME NEW q, IsSeq(q), q # <<>>, NEW s, LastHas(q, s), Kinds(q)
  PROVE /\ LastHas(Tail(q), s) /\ Kinds(Tail(q))
        /\ Head(q).kind = "update" /\ Updates(Tail(q)) = {} => Head(q).session = s
        /\ Head(q).kind # "update" /\ Updates(Tail(q)) = {} => Updates(q) = {} /\ Head(q).by # "nobody"
<1>1. Len(q) \in Nat /\ Len(Tail(q)) \in Nat /\ Len(q) >= 1 /\ Len(Tail(q)) = Len(q) - 1
  BY RestOfSeq DEF IsSeq
<1>2. \A i \in 1..Len(Tail(q)) : Tail(q)[i] = q[i + 1] /\ i + 1 \in 1..Len(q) /\ i \in Nat /\ i >= 1
  BY <1>1, RestOfSeq
<1>3. Kinds(Tail(q))
  BY <1>2 DEF Kinds
<1>4. \A i \in Updates(Tail(q)) : i + 1 \in Updates(q) /\ i \in Nat /\ i >= 1 /\ Tail(q)[i] = q[i + 1]
  BY <1>2 DEF Updates
<1>5. \A k \in Updates(q) : k = 1 \/ (k - 1 \in Updates(Tail(q)) /\ k \in Nat)
  <2> SUFFICES ASSUME NEW k \in Updates(q), k # 1 PROVE k - 1 \in Updates(Tail(q)) /\ k \in Nat
    OBVIOUS
  <2>1. k \in 1..Len(q) /\ k - 1 \in 1..Len(Tail(q)) /\ (k - 1) + 1 = k
    BY <1>1 DEF Updates
  <2> QED BY <2>1, <1>2 DEF Updates
<1>6. LastHas(Tail(q), s)
  <2> SUFFICES ASSUME NEW i \in Updates(Tail(q)), \A j \in Updates(Tail(q)) : j <= i
               PROVE Tail(q)[i].session = s
    BY DEF LastHas
  <2>1. \A k \in Updates(q) : k <= i + 1
    <3> TAKE k \in Updates(q)
    <3>1. CASE k = 1
      BY <3>1, <1>4
    <3>2. CASE k - 1 \in Updates(Tail(q)) /\ k \in Nat
      BY <3>2, <1>4
    <3> QED BY <3>1, <3>2, <1>5
  <2> QED BY <2>1, <1>4 DEF LastHas
<1>7. Head(q).kind = "update" /\ Updates(Tail(q)) = {} => Head(q).session = s
  <2>1. Head(q).kind = "update" => 1 \in Updates(q)
    BY RestOfSeq DEF Updates
  <2>2. Updates(Tail(q)) = {} => \A k \in Updates(q) : k <= 1
    BY <1>5
  <2> QED BY <2>1, <2>2, RestOfSeq DEF LastHas
<1>8. Head(q).kind # "update" /\ Updates(Tail(q)) = {} => Updates(q) = {}
  BY <1>5, RestOfSeq DEF Updates
<1>9. Head(q).kind # "update" => Head(q).by # "nobody"
  BY RestOfSeq DEF Kinds
<1> QED BY <1>3, <1>6, <1>7, <1>8, <1>9

(* The copy: each change is an EXCEPT, or a whole session. *)
LEMMA CopyWithMode == ASSUME NEW mode, CopyType
  PROVE LET c == L!WithMode(local, mode)
        IN HasFields(c, {"shown", "last"}) /\ c.shown = [local.shown EXCEPT !.mode = mode]
BY DEF L!WithMode, CopyType, HasFields

LEMMA CopyAfterGuess == ASSUME NEW m, CopyType PROVE HasFields(L!ExpectedCopy(m), {"shown", "last"})
<1>1. CASE m.op = "mode"
  <2>1. L!ExpectedCopy(m) = L!WithMode(local, m.mode) \/ L!ExpectedCopy(m) = [L!WithMode(local, m.mode) EXCEPT !.shown.talk = FALSE]
    BY <1>1 DEF L!ExpectedCopy
  <2> DEFINE c == L!WithMode(local, m.mode)
  <2>2. HasFields(c, {"shown", "last"})
    BY CopyWithMode
  <2> HIDE DEF c
  <2>3. HasFields([c EXCEPT !.shown.talk = FALSE], {"shown", "last"})
    BY <2>2 DEF HasFields
  <2> QED BY <2>1, <2>2, <2>3 DEF c
<1>2. CASE m.op # "mode"
  BY <1>2, ZenonT(60) DEF L!ExpectedCopy, CopyType, HasFields
<1> QED BY <1>1, <1>2

LEMMA CopyTaken == ASSUME NEW s, CopyType PROVE HasFields(L!Taken(s), {"shown", "last"}) /\ L!Taken(s).shown = s
<1> DEFINE c == L!WithMode(local, s.mode)
<1>1. HasFields(c, {"shown", "last"})
  BY CopyWithMode
<1>2. L!Taken(s) = [c EXCEPT !.shown = s]
  BY DEF L!Taken
<1> HIDE DEF c
<1> QED BY <1>1, <1>2 DEF HasFields

LEMMA CopyTypeStep == ASSUME CopyType, L!Next PROVE CopyType'
<1>1. CASE L!MobileCommand \/ L!FinishToggle
  <2>1. local' = local \/ \E m : local' = L!ExpectedCopy(m)
    BY <1>1 DEF L!MobileCommand, L!FinishToggle, L!Queue
  <2> QED BY <2>1, CopyAfterGuess DEF CopyType
<1>2. CASE L!TerminalCommand
  <2>1. CASE \E m : local' = L!ExpectedCopy(m)
    BY <2>1, CopyAfterGuess DEF CopyType
  <2>2. CASE \E mode : local' = L!WithMode(local, mode)
    BY <2>2, CopyWithMode DEF CopyType
  <2>3. CASE \E route : local' = [local EXCEPT !.shown.tx = route]
    BY <2>3 DEF CopyType, HasFields
  <2>4. CASE local' = local
    BY <2>4 DEF CopyType
  <2> QED BY <1>2, <2>1, <2>2, <2>3, <2>4 DEF L!TerminalCommand
<1>3. CASE L!Read
  <2>1. local' = local \/ HasFields(local', {"shown", "last"})
    BY <1>3, CopyTaken DEF L!Read
  <2> QED BY <2>1 DEF CopyType
<1>4. CASE L!Drop
  BY <1>4, Zenon DEF L!Drop, CopyType, HasFields
<1>5. CASE L!LookAtCopy \/ L!Request \/ L!PutConfig \/ L!Send \/ L!Hotkey \/ L!Transmit \/ L!Serve \/ L!FailFast \/ L!Reconnect \/ L!OthersChange
  BY <1>5, Zenon DEF L!LookAtCopy, L!Request, L!PutConfig, L!Send, L!Hotkey, L!Transmit, L!Serve, L!FailFast, L!Reconnect, L!OthersChange, CopyType
<1> QED BY <1>1, <1>2, <1>3, <1>4, <1>5 DEF L!Next

(* What a step does to the channel, the socket and the caller. *)
FromNobody(m) == [msg |-> m, by |-> "nobody"]
Queued == \E m : controlQueue' = Append(controlQueue, FromNobody(m)) /\ UNCHANGED <<wire, localDown, waiting>>
AllSame == UNCHANGED <<controlQueue, wire, localDown, waiting>>
Asked == \E by, msgs : /\ by # "nobody" /\ waiting = {} /\ waiting' = {[by |-> by, left |-> msgs, sent |-> FALSE]}
                       /\ UNCHANGED <<controlQueue, wire, localDown>>

LEMMA CommandMoves ==
  ASSUME L!MobileCommand \/ L!LookAtCopy \/ L!FinishToggle \/ L!Request \/ L!PutConfig \/ L!TerminalCommand \/ L!Hotkey
  PROVE  Queued \/ AllSame \/ Asked
<1>1. \A m : L!Queue(m) => Queued \/ AllSame
  BY DEF L!Queue, Queued, AllSame, FromNobody
<1>2. \A by, msgs : by # "nobody" /\ L!Ask(by, msgs) => Asked
  BY DEF L!Ask, Asked
<1>3. CASE L!MobileCommand \/ L!FinishToggle
  BY <1>1, <1>3 DEF L!MobileCommand, L!FinishToggle, AllSame
<1>4. CASE L!LookAtCopy
  BY <1>4 DEF L!LookAtCopy, AllSame
<1>5. CASE L!Hotkey
  BY <1>5 DEF L!Hotkey, Queued, FromNobody
<1>6. CASE L!Request
  BY <1>2, <1>6 DEF L!Request
<1>7. CASE L!PutConfig
  BY <1>2, <1>7 DEF L!PutConfig
<1>8. CASE L!TerminalCommand
  <2>1. \E msgs : L!Ask("terminal", msgs)
    BY <1>8 DEF L!TerminalCommand
  <2> QED BY <1>2, <2>1
<1> QED BY <1>3, <1>4, <1>5, <1>6, <1>7, <1>8

LEMMA ServeAppends == ASSUME IsSeq(localDown), L!Serve
  PROVE LET by == Head(wire).by
            result == L!Handled(serverSession, Head(wire).msg)
            updated == IF result.ok THEN Append(localDown, L!Pushed(serverSession')) ELSE localDown
        IN /\ IsSeq(updated)
           /\ localDown' = IF by = "nobody" THEN updated ELSE Append(updated, [kind |-> "answer", by |-> by, ok |-> result.ok])
           /\ ~result.ok => serverSession' = serverSession
<1> DEFINE by == Head(wire).by
           result == L!Handled(serverSession, Head(wire).msg)
           updated == IF result.ok THEN Append(localDown, L!Pushed(serverSession')) ELSE localDown
<1>1. IsSeq(updated) /\ updated = localDown \o (IF result.ok THEN <<L!Pushed(serverSession')>> ELSE <<>>)
  BY AppendedSeq, ZenonT(60)
<1>2. localDown' = updated \o L!Answer(by, result.ok)
  BY <1>1 DEF L!Serve
<1>3. L!Answer(by, result.ok) = IF by = "nobody" THEN <<>> ELSE <<[kind |-> "answer", by |-> by, ok |-> result.ok]>>
  BY DEF L!Answer
<1>4. ~result.ok => serverSession' = serverSession
  <2>1. serverSession' = result.session
    BY DEF L!Serve
  <2>2. \A s, m : ~L!Handled(s, m).ok => L!Handled(s, m).session = s
    BY DEF L!Handled, L!Refused, L!Done, L!CallAtServer
  <2> QED BY <2>1, <2>2
<1> HIDE DEF updated
<1>5. \A e : updated \o <<e>> = Append(updated, e) /\ updated \o <<>> = updated
  BY <1>1, AppendedSeq
<1>6. localDown' = IF by = "nobody" THEN updated ELSE Append(updated, [kind |-> "answer", by |-> by, ok |-> result.ok])
  <2>1. CASE by = "nobody"
    BY <1>2, <1>3, <1>5, <2>1
  <2>2. CASE by # "nobody"
    <3>1. L!Answer(by, result.ok) = <<[kind |-> "answer", by |-> by, ok |-> result.ok]>>
      BY <1>3, <2>2
    <3> HIDE DEF result, by
    <3>2. localDown' = Append(updated, [kind |-> "answer", by |-> by, ok |-> result.ok])
      BY <1>2, <1>5, <3>1
    <3> QED BY <2>2, <3>2
  <2> QED BY <2>1, <2>2
<1> QED BY <1>1, <1>4, <1>6 DEF updated

LEMMA SeqsStep == ASSUME QueuesAreSeqs, L!Next PROVE QueuesAreSeqs'
<1> USE DEF QueuesAreSeqs
<1>1. CASE Queued \/ AllSame \/ Asked
  BY <1>1, AppendedSeq DEF Queued, AllSame, Asked
<1>2. CASE L!Send
  BY <1>2, AppendedSeq DEF L!Send
<1>3. CASE L!Transmit
  BY <1>3, AppendedSeq, RestOfSeq DEF L!Transmit
<1>4. CASE L!Serve
  <2>1. IsSeq(localDown')
    <3>1. \E q, e : IsSeq(q) /\ (localDown' = q \/ localDown' = Append(q, e))
      BY <1>4, ServeAppends
    <3> QED BY <3>1, AppendedSeq
  <2> QED BY <1>4, <2>1, RestOfSeq DEF L!Serve
<1>5. CASE L!Read
  BY <1>5, RestOfSeq DEF L!Read
<1>6. CASE L!Drop
  BY <1>6, NothingInEmpty DEF L!Drop
<1>7. CASE L!FailFast
  BY <1>7, RestOfSeq DEF L!FailFast
<1>8. CASE L!Reconnect
  <2>1. localDown' = Append(<<>>, L!Pushed(serverSession))
    BY <1>8 DEF L!Reconnect
  <2> QED BY <1>8, <2>1, NothingInEmpty, AppendedSeq DEF L!Reconnect
<1>9. CASE L!OthersChange
  BY <1>9, AppendedSeq DEF L!OthersChange
<1> QED BY <1>1, <1>2, <1>3, <1>4, <1>5, <1>6, <1>7, <1>8, <1>9, CommandMoves DEF L!Next

(* Who waits, and where the request is. *)
CallerInv == OneCaller /\ OneRequest /\ WhoAsks

LEMMA CallerChanged == ASSUME NEW w, Caller(w)
  PROVE /\ LET u == [w EXCEPT !.sent = TRUE] IN Caller(u) /\ u.by = w.by /\ u.sent
        /\ LET u == [w EXCEPT !.left = Tail(@), !.sent = FALSE] IN Caller(u) /\ u.by = w.by /\ ~u.sent
BY DEF Caller, HasFields

LEMMA AnswerTaken == ASSUME NEW by, NEW ok, OneCaller, L!Answered(by, ok)
  PROVE OneCaller' /\ (by # "nobody" => NotSent') /\ (by = "nobody" => waiting' = waiting)
                   /\ \A w \in waiting' : \E v \in waiting : w.by = v.by
<1>1. CASE by = "nobody"
  BY <1>1 DEF L!Answered, OneCaller, Caller
<1>2. CASE by # "nobody"
  <2>1. \A v \in waiting : LET w == [v EXCEPT !.left = Tail(@), !.sent = FALSE]
                           IN Caller(w) /\ w.by = v.by /\ ~w.sent
    BY CallerChanged DEF OneCaller
  <2>2. \A w \in waiting' : \E v \in waiting : w = [v EXCEPT !.left = Tail(@), !.sent = FALSE]
    BY <1>2 DEF L!Answered
  <2>3. \A v, w \in waiting' : v = w
    BY <2>2 DEF OneCaller
  <2>4. \A w \in waiting' : Caller(w) /\ ~w.sent /\ \E v \in waiting : w.by = v.by
    <3> TAKE w \in waiting'
    <3>1. PICK v \in waiting : w = [v EXCEPT !.left = Tail(@), !.sent = FALSE]
      BY <2>2
    <3> QED BY <2>1, <3>1
  <2>5. OneCaller'
    BY <2>3, <2>4 DEF OneCaller
  <2>6. NotSent'
    BY <2>4 DEF NotSent
  <2> QED BY <1>2, <2>4, <2>5, <2>6
<1> QED BY <1>1, <1>2

LEMMA CallerStep == ASSUME QueuesAreSeqs, CallerInv, ~localLink => wire = <<>> /\ localDown = <<>>, Kinds(localDown), L!Next PROVE CallerInv'
<1> USE DEF QueuesAreSeqs, CallerInv
<1>1. CASE Queued
  <2>1. PICK m : controlQueue' = Append(controlQueue, FromNobody(m)) /\ UNCHANGED <<wire, localDown, waiting>>
    BY <1>1 DEF Queued
  <2>2. FromNobody(m).by = "nobody"
    BY DEF FromNobody
  <2> HIDE DEF FromNobody
  <2>3. Asks(controlQueue') = Asks(controlQueue) /\ Alone(controlQueue') /\ \A w : AskedBy(controlQueue, w) => AskedBy(controlQueue', w)
    BY <2>1, <2>2, AppendedAsks DEF OneRequest
  <2> QED BY <2>1, <2>3 DEF OneCaller, OneRequest, WhoAsks, NotSent, NobodyAsks
<1>2. CASE AllSame
  BY <1>2 DEF AllSame, OneCaller, OneRequest, WhoAsks, NotSent, NobodyAsks
<1>3. CASE Asked
  <2>1. PICK by, msgs : /\ by # "nobody" /\ waiting = {} /\ waiting' = {[by |-> by, left |-> msgs, sent |-> FALSE]}
                        /\ UNCHANGED <<controlQueue, wire, localDown>>
    BY <1>3 DEF Asked
  <2>2. NobodyAsks /\ NobodyAsks'
    BY <2>1 DEF WhoAsks, NotSent, NobodyAsks
  <2>3. OneCaller'
    <3>1. Caller([by |-> by, left |-> msgs, sent |-> FALSE])
      BY <2>1 DEF Caller, HasFields
    <3> QED BY <2>1, <3>1 DEF OneCaller
  <2> QED BY <2>1, <2>2, <2>3 DEF OneRequest, WhoAsks, NobodyAsks, AskedBy
<1>4. CASE L!Send
  <2>1. PICK w \in waiting : ~w.sent /\ controlQueue' = Append(controlQueue, [msg |-> Head(w.left), by |-> w.by])
    BY <1>4 DEF L!Send
  <2>2. waiting' = {[v EXCEPT !.sent = TRUE] : v \in waiting} /\ wire' = wire /\ localDown' = localDown
    BY <1>4 DEF L!Send
  <2>3. \A v \in waiting : v = w /\ Caller(v)
    BY DEF OneCaller
  <2>4. NobodyAsks
    BY <2>1, <2>3 DEF WhoAsks, NotSent
  <2>5. waiting' = {[w EXCEPT !.sent = TRUE]}
    BY <2>2, <2>3
  <2>6. LET u == [w EXCEPT !.sent = TRUE] IN Caller(u) /\ u.by = w.by /\ u.sent
    BY <2>3, CallerChanged
  <2>7. OneCaller'
    BY <2>5, <2>6 DEF OneCaller
  <2>8. Alone(controlQueue') /\ AskedBy(controlQueue', w) /\ Alone(wire') /\ Alone(localDown') /\ Asks(wire') = {} /\ Asks(localDown') = {}
    <3>1. [msg |-> Head(w.left), by |-> w.by].by = w.by
      OBVIOUS
    <3>2. AskedBy(controlQueue, w)
      BY DEF WhoAsks
    <3> QED BY <2>1, <2>2, <2>4, <3>1, <3>2, AppendedAsks DEF NobodyAsks, OneRequest
  <2> QED BY <2>5, <2>6, <2>7, <2>8 DEF OneRequest, WhoAsks, NotSent, AskedBy
<1>5. CASE L!Transmit
  <2>1. controlQueue # <<>> /\ wire' = Append(wire, Head(controlQueue)) /\ controlQueue' = Tail(controlQueue) /\ waiting' = waiting /\ localDown' = localDown
    BY <1>5 DEF L!Transmit
  <2>2. OneCaller'
    BY <2>1 DEF OneCaller
  <2>3. CASE Head(controlQueue).by = "nobody"
    <3>1. Alone(controlQueue') /\ Alone(wire') /\ Asks(wire') = Asks(wire) /\ (Asks(controlQueue) = {} => Asks(controlQueue') = {})
      BY <2>1, <2>3, AppendedAsks, RestAsks DEF OneRequest
    <3>2. \A w \in waiting : AskedBy(controlQueue', w) /\ AskedBy(wire', w)
      BY <2>1, <2>3, AppendedAsks, RestAsks DEF WhoAsks
    <3> QED BY <2>1, <2>2, <3>1, <3>2 DEF OneRequest, WhoAsks, NotSent, NobodyAsks
  <2>4. CASE Head(controlQueue).by # "nobody"
    <3>1. Asks(controlQueue) # {}
      BY <2>1, <2>4, RestAsks
    <3>2. Asks(wire) = {} /\ Asks(localDown) = {} /\ ~NotSent
      BY <3>1 DEF OneRequest, WhoAsks, NobodyAsks
    <3>3. Asks(controlQueue') = {} /\ Alone(controlQueue') /\ Alone(wire')
      BY <2>1, <2>4, <3>2, AppendedAsks, RestAsks DEF OneRequest
    <3>4. \A w \in waiting : AskedBy(controlQueue', w) /\ AskedBy(wire', w)
      BY <2>1, AppendedAsks, RestAsks DEF WhoAsks
    <3> QED BY <2>1, <2>2, <3>2, <3>3, <3>4 DEF OneRequest, WhoAsks, NotSent
  <2> QED BY <2>3, <2>4
<1>6. CASE L!Serve
  <2> DEFINE by == Head(wire).by
             result == L!Handled(serverSession, Head(wire).msg)
             updated == IF result.ok THEN Append(localDown, L!Pushed(serverSession')) ELSE localDown
             answer == [kind |-> "answer", by |-> by, ok |-> result.ok]
  <2>1. wire # <<>> /\ wire' = Tail(wire) /\ controlQueue' = controlQueue /\ waiting' = waiting
    BY <1>6 DEF L!Serve
  <2>2. IsSeq(updated) /\ localDown' = IF by = "nobody" THEN updated ELSE Append(updated, answer)
    BY <1>6, ServeAppends
  <2>3. Asks(updated) = Asks(localDown) /\ Alone(updated) /\ \A w : AskedBy(localDown, w) => AskedBy(updated, w)
    BY AppendedAsks DEF L!Pushed, OneRequest
  <2>4. OneCaller'
    BY <2>1 DEF OneCaller
  <2>5. answer.by = by
    OBVIOUS
  <2> HIDE DEF updated, answer
  <2>6. CASE by = "nobody"
    <3>1. Alone(wire') /\ (Asks(wire) = {} => Asks(wire') = {}) /\ \A w : AskedBy(wire, w) => AskedBy(wire', w)
      BY <2>1, RestAsks DEF OneRequest
    <3> QED BY <2>1, <2>2, <2>3, <2>4, <2>6, <3>1 DEF OneRequest, WhoAsks, NotSent, NobodyAsks
  <2>7. CASE by # "nobody"
    <3>1. Asks(wire) # {}
      BY <2>1, <2>7, RestAsks
    <3>2. Asks(controlQueue) = {} /\ Asks(localDown) = {} /\ ~NotSent
      BY <3>1 DEF OneRequest, WhoAsks, NobodyAsks
    <3>3. Asks(wire') = {} /\ Alone(wire') /\ Alone(localDown')
      BY <2>1, <2>2, <2>3, <2>5, <2>7, <3>2, AppendedAsks, RestAsks DEF OneRequest
    <3>4. \A w \in waiting : AskedBy(wire', w) /\ AskedBy(localDown', w)
      BY <2>1, <2>2, <2>3, <2>5, <2>7, AppendedAsks, RestAsks DEF WhoAsks
    <3> QED BY <2>1, <2>4, <3>2, <3>3, <3>4 DEF OneRequest, WhoAsks, NotSent
  <2> QED BY <2>6, <2>7
<1>7. CASE L!Read
  <2>1. localDown # <<>> /\ localDown' = Tail(localDown) /\ controlQueue' = controlQueue /\ wire' = wire
    BY <1>7 DEF L!Read
  <2>2. Alone(localDown') /\ (Asks(localDown) = {} => Asks(localDown') = {}) /\ \A w : AskedBy(localDown, w) => AskedBy(localDown', w)
    BY <2>1, RestAsks DEF OneRequest
  <2>3. CASE Head(localDown).kind = "update"
    BY <1>7, <2>1, <2>2, <2>3 DEF L!Read, OneCaller, OneRequest, WhoAsks, NotSent, NobodyAsks
  <2>4. CASE Head(localDown).kind # "update"
    <3>1. L!Answered(Head(localDown).by, Head(localDown).ok)
      BY <1>7, <2>4 DEF L!Read
    <3>2. Head(localDown).by # "nobody"
      BY <2>1, <2>4, RestOfSeq DEF Kinds
    <3>3. Asks(localDown) # {} /\ Asks(localDown') = {}
      BY <2>1, <3>2, RestAsks DEF OneRequest
    <3>4. Asks(controlQueue') = {} /\ Asks(wire') = {}
      BY <2>1, <3>3 DEF OneRequest
    <3>5. OneCaller'
      BY <3>1, AnswerTaken
    <3> QED BY <2>1, <2>2, <3>3, <3>4, <3>5 DEF OneRequest, WhoAsks, NobodyAsks, AskedBy
  <2> QED BY <2>3, <2>4
<1>8. CASE L!Drop
  <2>1. controlQueue' = controlQueue /\ Asks(wire') = {} /\ Asks(localDown') = {}
    BY <1>8, NothingInEmpty DEF L!Drop
  <2>2. CASE \E w \in waiting : w.sent /\ \A i \in DOMAIN controlQueue : controlQueue[i].by # w.by
    <3>1. PICK w \in waiting : \A i \in DOMAIN controlQueue : controlQueue[i].by # w.by
      BY <2>2
    <3>2. Asks(controlQueue) = {}
      <4>1. DOMAIN controlQueue = 1..Len(controlQueue)
        BY DEF IsSeq
      <4> QED BY <3>1, <4>1 DEF WhoAsks, AskedBy, Asks
    <3>3. \E v \in waiting : L!Answered(v.by, FALSE)
      BY <1>8, <2>2 DEF L!Drop
    <3>4. OneCaller'
      BY <3>3, AnswerTaken
    <3> QED BY <2>1, <3>2, <3>4 DEF OneRequest, WhoAsks, NobodyAsks, AskedBy, Alone
  <2>3. CASE waiting' = waiting
    BY <2>1, <2>3 DEF OneCaller, OneRequest, WhoAsks, NotSent, NobodyAsks, AskedBy, Alone
  <2> QED BY <1>8, <2>2, <2>3 DEF L!Drop
<1>9. CASE L!FailFast
  <2>1. controlQueue # <<>> /\ controlQueue' = Tail(controlQueue) /\ wire' = wire /\ localDown' = localDown /\ wire = <<>> /\ localDown = <<>>
    BY <1>9 DEF L!FailFast
  <2>2. Asks(wire) = {} /\ Asks(localDown) = {}
    BY <2>1, NothingInEmpty
  <2>3. L!Answered(Head(controlQueue).by, FALSE)
    BY <1>9 DEF L!FailFast
  <2>4. Alone(controlQueue') /\ (Asks(controlQueue) = {} => Asks(controlQueue') = {}) /\ \A w : AskedBy(controlQueue, w) => AskedBy(controlQueue', w)
    BY <2>1, RestAsks DEF OneRequest
  <2>5. OneCaller'
    BY <2>3, AnswerTaken
  <2>6. CASE Head(controlQueue).by = "nobody"
    <3>1. waiting' = waiting
      BY <2>3, <2>6, AnswerTaken
    <3> QED BY <2>1, <2>2, <2>4, <2>5, <3>1 DEF OneRequest, WhoAsks, NotSent, NobodyAsks
  <2>7. CASE Head(controlQueue).by # "nobody"
    <3>1. Asks(controlQueue') = {}
      BY <2>1, <2>7, RestAsks DEF OneRequest
    <3> QED BY <2>1, <2>2, <2>5, <3>1 DEF OneRequest, WhoAsks, NobodyAsks, AskedBy, Alone
  <2> QED BY <2>6, <2>7
<1>10. CASE L!Reconnect
  <2>1. controlQueue' = controlQueue /\ wire' = wire /\ waiting' = waiting /\ localDown' = Append(<<>>, L!Pushed(serverSession)) /\ localDown = <<>>
    BY <1>10 DEF L!Reconnect
  <2>2. Asks(localDown') = {} /\ Asks(localDown) = {}
    BY <2>1, NothingInEmpty, AppendedAsks DEF L!Pushed
  <2> QED BY <2>1, <2>2 DEF OneCaller, OneRequest, WhoAsks, NotSent, NobodyAsks, AskedBy, Alone
<1>11. CASE L!OthersChange
  <2>1. controlQueue' = controlQueue /\ wire' = wire /\ waiting' = waiting /\ (localDown' = localDown \/ localDown' = Append(localDown, L!Pushed(serverSession')))
    BY <1>11 DEF L!OthersChange
  <2>2. Asks(localDown') = Asks(localDown) /\ Alone(localDown') /\ \A w : AskedBy(localDown, w) => AskedBy(localDown', w)
    <3>1. L!Pushed(serverSession').by = "nobody"
      BY DEF L!Pushed
    <3>2. CASE localDown' = localDown
      BY <3>2 DEF OneRequest, AskedBy, Asks, Alone
    <3>3. CASE localDown' = Append(localDown, L!Pushed(serverSession'))
      <4> DEFINE e == L!Pushed(serverSession')
      <4>1. e.by = "nobody" /\ localDown' = Append(localDown, e)
        BY <3>1, <3>3
      <4> HIDE DEF e
      <4> QED BY <4>1, AppendedAsks DEF OneRequest
    <3> QED BY <2>1, <3>2, <3>3
  <2> QED BY <2>1, <2>2 DEF OneCaller, OneRequest, WhoAsks, NotSent, NobodyAsks
<1> QED BY <1>1, <1>2, <1>3, <1>4, <1>5, <1>6, <1>7, <1>8, <1>9, <1>10, <1>11, CommandMoves DEF L!Next

(* What a step does to the session and to the updates on the way. *)
LEMMA DownStep == ASSUME QueuesAreSeqs, DownRight, L!Next PROVE DownRight'
<1> USE DEF QueuesAreSeqs
<1>1. CASE L!MobileCommand \/ L!LookAtCopy \/ L!FinishToggle \/ L!Request \/ L!PutConfig \/ L!TerminalCommand \/ L!Hotkey \/ L!Send
  <2>1. UNCHANGED <<serverSession, localLink, wire, localDown>>
    BY <1>1 DEF L!MobileCommand, L!LookAtCopy, L!FinishToggle, L!Request, L!PutConfig, L!TerminalCommand, L!Hotkey, L!Send, L!Queue, L!Ask
  <2> QED BY <2>1 DEF DownRight
<1>2. CASE L!Transmit
  BY <1>2 DEF L!Transmit, DownRight
<1>3. CASE L!Serve
  <2> DEFINE by == Head(wire).by
             result == L!Handled(serverSession, Head(wire).msg)
             updated == IF result.ok THEN Append(localDown, L!Pushed(serverSession')) ELSE localDown
             answer == [kind |-> "answer", by |-> by, ok |-> result.ok]
  <2>1. /\ IsSeq(updated) /\ localDown' = IF by = "nobody" THEN updated ELSE Append(updated, answer)
        /\ ~result.ok => serverSession' = serverSession
    BY <1>3, ServeAppends
  <2>2. Kinds(updated) /\ LastHas(updated, serverSession')
    <3>1. CASE result.ok
      <4>1. L!Pushed(serverSession').kind = "update" /\ L!Pushed(serverSession').by = "nobody" /\ L!Pushed(serverSession').session = serverSession'
        BY DEF L!Pushed
      <4> QED BY <3>1, <4>1, AppendedUpdates DEF DownRight
    <3>2. CASE ~result.ok
      BY <2>1, <3>2 DEF DownRight
    <3> QED BY <3>1, <3>2
  <2>3. answer.kind = "answer" /\ answer.by = by
    OBVIOUS
  <2> HIDE DEF updated, answer
  <2>4. Kinds(localDown') /\ LastHas(localDown', serverSession')
    <3>1. CASE by = "nobody"
      BY <2>1, <2>2, <3>1
    <3>2. CASE by # "nobody"
      BY <2>1, <2>2, <2>3, <3>2, AppendedUpdates
    <3> QED BY <3>1, <3>2
  <2>5. localLink
    <3>1. wire # <<>>
      BY <1>3 DEF L!Serve
    <3> QED BY <3>1 DEF DownRight
  <2> QED BY <1>3, <2>4, <2>5 DEF L!Serve, DownRight
<1>4. CASE L!Read
  <2>1. localDown # <<>> /\ localDown' = Tail(localDown) /\ serverSession' = serverSession /\ localLink' = localLink
    BY <1>4 DEF L!Read
  <2>2. LastHas(localDown', serverSession') /\ Kinds(localDown')
    BY <2>1, RestUpdates DEF DownRight
  <2> QED BY <2>1, <2>2 DEF DownRight
<1>5. CASE L!Drop
  <2>1. wire' = <<>> /\ localDown' = <<>>
    BY <1>5 DEF L!Drop
  <2>2. Kinds(localDown') /\ LastHas(localDown', serverSession')
    BY <2>1 DEF Kinds, LastHas, Updates
  <2> QED BY <2>1, <2>2 DEF DownRight
<1>6. CASE L!FailFast
  BY <1>6 DEF L!FailFast, DownRight
<1>7. CASE L!Reconnect
  <2>1. localDown' = Append(<<>>, L!Pushed(serverSession)) /\ serverSession' = serverSession /\ localLink' = TRUE
    BY <1>7 DEF L!Reconnect
  <2>2. L!Pushed(serverSession).kind = "update" /\ L!Pushed(serverSession).by = "nobody" /\ L!Pushed(serverSession).session = serverSession
    BY DEF L!Pushed
  <2>3. Kinds(<<>>)
    BY DEF Kinds
  <2>4. Kinds(localDown') /\ LastHas(localDown', serverSession')
    BY <2>1, <2>2, <2>3, NothingInEmpty, AppendedUpdates
  <2> QED BY <2>1, <2>4 DEF DownRight
<1>8. CASE L!OthersChange
  <2>1. localLink' = localLink /\ wire' = wire
    BY <1>8 DEF L!OthersChange
  <2>2. CASE localLink
    <3>1. localDown' = Append(localDown, L!Pushed(serverSession'))
      BY <1>8, <2>2 DEF L!OthersChange
    <3>2. L!Pushed(serverSession').kind = "update" /\ L!Pushed(serverSession').by = "nobody" /\ L!Pushed(serverSession').session = serverSession'
      BY DEF L!Pushed
    <3>3. Kinds(localDown') /\ LastHas(localDown', serverSession')
      BY <3>1, <3>2, AppendedUpdates DEF DownRight
    <3> QED BY <2>1, <2>2, <3>3 DEF DownRight
  <2>3. CASE ~localLink
    <3>1. localDown' = localDown /\ localDown = <<>>
      BY <1>8, <2>3 DEF L!OthersChange, DownRight
    <3>2. Kinds(localDown') /\ LastHas(localDown', serverSession')
      BY <3>1 DEF Kinds, LastHas, Updates
    <3> QED BY <2>1, <3>1, <3>2 DEF DownRight
  <2> QED BY <2>2, <2>3
<1> QED BY <1>1, <1>2, <1>3, <1>4, <1>5, <1>6, <1>7, <1>8 DEF L!Next

(* A message that is queued, or a copy that has changed without one. *)
LEMMA NotEmptied == ASSUME NEW q, NEW e, IsSeq(q) PROVE Append(q, e) # <<>>
<1>1. Len(Append(q, e)) = Len(q) + 1 /\ Len(q) \in Nat
  BY AppendedSeq DEF IsSeq
<1> QED BY <1>1

LEMMA CopyStep == ASSUME L!LocalApiAssumption, LocalInv, L!Next PROVE CopyRight'
<1> USE DEF LocalInv, QueuesAreSeqs
<1>1. CASE L!MobileCommand \/ L!FinishToggle
  <2>1. CASE \E m : L!Queue(m)
    <3>1. CASE Len(controlQueue) < QueueSize
      <4>1. controlQueue' # <<>>
        BY <2>1, <3>1, NotEmptied DEF L!Queue
      <4> QED BY <4>1 DEF CopyRight, NothingAsked
    <3>2. CASE ~(Len(controlQueue) < QueueSize)
      <4>1. controlQueue' = controlQueue /\ controlQueue # <<>>
        BY <2>1, <3>2 DEF L!Queue, L!LocalApiAssumption
      <4> QED BY <4>1 DEF CopyRight, NothingAsked
    <3> QED BY <3>1, <3>2
  <2>2. CASE UNCHANGED <<serverSession, local, localLink, controlQueue, wire, localDown, waiting, ended, copyStale>>
    BY <2>2 DEF CopyRight, NothingAsked
  <2> QED BY <1>1, <2>1, <2>2 DEF L!MobileCommand, L!FinishToggle
<1>2. CASE L!LookAtCopy
  BY <1>2 DEF L!LookAtCopy, CopyRight, NothingAsked
<1>3. CASE L!Hotkey
  <2>1. controlQueue' # <<>>
    BY <1>3, NotEmptied DEF L!Hotkey
  <2> QED BY <2>1 DEF CopyRight, NothingAsked
<1>4. CASE L!Send
  <2>1. controlQueue' # <<>>
    BY <1>4, NotEmptied DEF L!Send
  <2> QED BY <2>1 DEF CopyRight, NothingAsked
<1>5. CASE L!Request \/ L!PutConfig \/ L!TerminalCommand
  <2>1. \E by, msgs : waiting' = {[by |-> by, left |-> msgs, sent |-> FALSE]}
    BY <1>5 DEF L!Request, L!PutConfig, L!TerminalCommand, L!Ask
  <2>2. \E w \in waiting' : ~w.sent
    BY <2>1
  <2> QED BY <2>2 DEF CopyRight, NothingAsked
<1>6. CASE L!Transmit
  <2>1. wire' # <<>>
    BY <1>6, NotEmptied DEF L!Transmit
  <2> QED BY <2>1 DEF CopyRight, NothingAsked
<1>7. CASE L!Serve
  <2> DEFINE by == Head(wire).by
             result == L!Handled(serverSession, Head(wire).msg)
             updated == IF result.ok THEN Append(localDown, L!Pushed(serverSession')) ELSE localDown
             answer == [kind |-> "answer", by |-> by, ok |-> result.ok]
  <2>1. CASE ~result.ok
    <3>1. copyStale'
      BY <1>7, <2>1 DEF L!Serve
    <3> QED BY <3>1 DEF CopyRight
  <2>2. CASE result.ok
    <3>1. IsSeq(updated) /\ localDown' = IF by = "nobody" THEN updated ELSE Append(updated, answer)
      BY <1>7, ServeAppends
    <3>2. Updates(updated) # {}
      <4>1. L!Pushed(serverSession').kind = "update"
        BY DEF L!Pushed
      <4> QED BY <2>2, <4>1, AppendedUpdates
    <3>3. answer.kind # "update"
      OBVIOUS
    <3> HIDE DEF updated, answer
    <3>4. Updates(localDown') # {}
      <4>1. CASE by = "nobody"
        BY <3>1, <3>2, <4>1
      <4>2. CASE by # "nobody"
        BY <3>1, <3>2, <3>3, <4>2, AppendedUpdates
      <4> QED BY <4>1, <4>2
    <3> QED BY <3>4 DEF CopyRight, NothingAsked
  <2> QED BY <2>1, <2>2
<1>8. CASE L!Read
  <2>1. localDown # <<>> /\ localDown' = Tail(localDown) /\ serverSession' = serverSession /\ localLink' = localLink /\ controlQueue' = controlQueue /\ wire' = wire
    BY <1>8 DEF L!Read
  <2>2. CASE Head(localDown).kind = "update"
    <3>1. local'.shown = Head(localDown).session
      BY <1>8, <2>2, CopyTaken DEF L!Read
    <3>2. Updates(localDown') = {} => Head(localDown).session = serverSession
      BY <2>1, <2>2, RestUpdates DEF DownRight
    <3> QED BY <2>1, <3>1, <3>2 DEF CopyRight, NothingAsked
  <2>3. CASE Head(localDown).kind # "update"
    <3>1. local' = local /\ copyStale' = copyStale /\ L!Answered(Head(localDown).by, Head(localDown).ok)
      BY <1>8, <2>3 DEF L!Read
    <3>2. Head(localDown).by # "nobody" /\ (Updates(localDown') = {} => Updates(localDown) = {})
      <4>1. Head(localDown).by # "nobody"
        BY <2>1, <2>3, RestOfSeq DEF DownRight, Kinds
      <4>2. Updates(localDown') = {} => Updates(localDown) = {}
        BY <2>1, <2>3, RestUpdates DEF DownRight
      <4> QED BY <4>1, <4>2
    <3>3. \A w \in waiting : w.sent
      <4>1. ~NotSent
        BY <2>1, <3>2, RestAsks DEF WhoAsks, NobodyAsks
      <4> QED BY <4>1 DEF NotSent, OneCaller
    <3>4. ended => ended'
      BY <3>1 DEF L!Answered
    <3> QED BY <2>1, <3>1, <3>2, <3>3, <3>4 DEF CopyRight, NothingAsked
  <2> QED BY <2>2, <2>3
<1>9. CASE L!Drop \/ L!FailFast
  <2>1. ~localLink'
    BY <1>9 DEF L!Drop, L!FailFast
  <2> QED BY <2>1 DEF CopyRight
<1>10. CASE L!Reconnect
  <2>1. localDown' = Append(<<>>, L!Pushed(serverSession))
    BY <1>10 DEF L!Reconnect
  <2>2. Updates(localDown') # {}
    BY <2>1, NothingInEmpty, AppendedUpdates DEF L!Pushed
  <2> QED BY <2>2 DEF CopyRight, NothingAsked
<1>11. CASE L!OthersChange
  <2>1. CASE localLink
    <3>1. localDown' = Append(localDown, L!Pushed(serverSession'))
      BY <1>11, <2>1 DEF L!OthersChange
    <3>2. Updates(localDown') # {}
      BY <3>1, AppendedUpdates DEF L!Pushed
    <3> QED BY <3>2 DEF CopyRight, NothingAsked
  <2>2. CASE ~localLink
    BY <1>11, <2>2 DEF L!OthersChange, CopyRight
  <2> QED BY <2>1, <2>2
<1> QED BY <1>1, <1>2, <1>3, <1>4, <1>5, <1>6, <1>7, <1>8, <1>9, <1>10, <1>11 DEF L!Next

(* A guess from the copy is what the server makes of the session. *)
LEMMA GuessIsHandled ==
  ASSUME CopyType, local.shown = serverSession, NEW m, m.op \in Guessed, L!Handled(serverSession, m).ok
  PROVE  L!Shown(L!ExpectedCopy(m).shown, m) = L!Shown(L!Handled(serverSession, m).session, m)
<1> DEFINE guess == L!ExpectedCopy(m)
           result == L!Handled(serverSession, m)
<1>2. CASE m.op = "talk"
  <2>1. guess.shown = [serverSession EXCEPT !.talk = m.active] /\ result.session = [serverSession EXCEPT !.talk = m.active]
    BY <1>2 DEF L!ExpectedCopy, L!Handled, L!Done, CopyType, HasFields
  <2> QED BY <1>2, <2>1 DEF L!Shown
<1>3. CASE m.op = "mode"
  <2>1. result.session = [serverSession EXCEPT !.mode = m.mode]
    BY <1>3 DEF L!Handled, L!Done, L!Refused
  <2>2. guess.shown = IF m.mode = "muted" THEN [[serverSession EXCEPT !.mode = m.mode] EXCEPT !.talk = FALSE] ELSE [serverSession EXCEPT !.mode = m.mode]
    <3> DEFINE c == L!WithMode(local, m.mode)
    <3>1. HasFields(c, {"shown", "last"}) /\ c.shown = [serverSession EXCEPT !.mode = m.mode]
      BY CopyWithMode
    <3>2. guess = IF m.mode = "muted" THEN [c EXCEPT !.shown.talk = FALSE] ELSE c
      BY <1>3 DEF L!ExpectedCopy
    <3> HIDE DEF c
    <3>3. [c EXCEPT !.shown.talk = FALSE].shown = [c.shown EXCEPT !.talk = FALSE]
      BY <3>1 DEF HasFields
    <3> QED BY <3>1, <3>2, <3>3
  <2>3. \A s : [[s EXCEPT !.talk = FALSE] EXCEPT !.talk = FALSE] = [s EXCEPT !.talk = FALSE]
    BY ZenonT(60)
  <2> QED BY <1>3, <2>1, <2>2, <2>3, ZenonT(60) DEF L!Shown
<1>4. CASE m.op = "codec"
  <2>1. guess.shown = [serverSession EXCEPT !.codec = m.codec] /\ result.session = [serverSession EXCEPT !.codec = m.codec]
    BY <1>4 DEF L!ExpectedCopy, L!Handled, L!Done, L!Refused, CopyType, HasFields
  <2> QED BY <1>4, <2>1 DEF L!Shown
<1>5. CASE m.op = "button"
  <2> DEFINE held == L!HeldWith(serverSession.held, m.button, L!Becomes(m.button, m.button.id \in serverSession.held, m.pressed))
  <2>1. guess.shown = [serverSession EXCEPT !.held = held]
    BY <1>5 DEF L!ExpectedCopy, CopyType, HasFields
  <2>2. result.session = [serverSession EXCEPT !.held = held]
    BY <1>5 DEF L!Handled, L!Done, L!Refused, L!Becomes, L!NowActive
  <2> QED BY <1>5, <2>1, <2>2 DEF L!Shown
<1>6. CASE m.op = "call"
  <2> DEFINE asked == L!CallsWith(serverSession.calls, m.to, m.active, m.duck)
  <2>1. guess.shown = [serverSession EXCEPT !.calls = asked]
    BY <1>6 DEF L!ExpectedCopy, CopyType, HasFields
  <2>2. result.session = [serverSession EXCEPT !.calls = asked]
    BY <1>6 DEF L!Handled, L!CallAtServer, L!Done, L!Refused
  <2> QED BY <1>6, <2>1, <2>2 DEF L!Shown
<1>7. CASE m.op = "reply"
  <2> DEFINE asked == L!CallsWith(serverSession.calls, serverSession.caller, m.active, m.duck)
  <2>1. guess.shown = [serverSession EXCEPT !.calls = asked]
    BY <1>7 DEF L!ExpectedCopy, L!Copy, CopyType, HasFields
  <2>2. result.session = [serverSession EXCEPT !.calls = asked]
    BY <1>7 DEF L!Handled, L!CallAtServer, L!Done, L!Refused
  <2> QED BY <1>7, <2>1, <2>2 DEF L!Shown
<1>8. CASE m.op = "ack"
  <2>1. guess.shown = [serverSession EXCEPT !.alerts = @ \ {m.alert}] /\ result.session = [serverSession EXCEPT !.alerts = @ \ {m.alert}]
    BY <1>8 DEF L!ExpectedCopy, L!Handled, L!Done, L!Refused, CopyType, HasFields
  <2> QED BY <1>8, <2>1 DEF L!Shown
<1>9. CASE m.op = "cancel"
  BY <1>9 DEF L!Handled, L!Refused
<1>10. CASE m.op = "raise"
  <2>1. guess = local /\ result.session = serverSession
    BY <1>10 DEF L!ExpectedCopy, L!Handled, L!Done
  <2> QED BY <1>10, <2>1 DEF L!Shown
<1> QED BY <1>2, <1>3, <1>4, <1>5, <1>6, <1>7, <1>8, <1>9, <1>10 DEF Guessed

LEMMA CommandsGuessed == \A m \in L!Commands \cup L!Toggles : m.op \in Guessed
<1>1. \A m \in L!Toggles : m.op \in Guessed
  BY DEF L!Toggles, L!Talk, L!Call, L!Reply, Guessed
<1>2. ASSUME NEW m \in L!Commands PROVE m.op \in Guessed
  <2> DEFINE modes == {L!Talk(a) : a \in BOOLEAN} \cup {L!Mode(mode) : mode \in L!TalkModes} \cup {L!Mode(L!Unmuted)}
             presses == {[op |-> "codec", codec |-> c] : c \in LocalCodecs}
                          \cup {[op |-> "button", button |-> b, pressed |-> p] : b \in LocalButtons, p \in BOOLEAN}
             asked == {L!Call(p, TRUE, d) : p \in Peers, d \in BOOLEAN} \cup {L!Call(p, FALSE, FALSE) : p \in Peers}
             notices == {[op |-> op, alert |-> a] : op \in {"ack", "cancel"}, a \in Alerts} \cup {[op |-> "raise"]}
             replies == {L!Reply(a, FALSE) : a \in BOOLEAN}
  <2>1. m \in modes => m.op \in Guessed
    BY DEF L!Talk, L!Mode, Guessed
  <2>2. m \in presses => m.op \in Guessed
    BY DEF Guessed
  <2>3. m \in asked => m.op \in Guessed
    BY DEF L!Call, Guessed
  <2>4. m \in replies => m.op \in Guessed
    BY DEF L!Reply, Guessed
  <2>5. m \in notices => m.op \in Guessed
    BY DEF Guessed
  <2>6. m \in modes \/ m \in presses \/ m \in asked \/ m \in replies \/ m \in notices
    BY DEF L!Commands, L!Talk, L!Mode, L!Call, L!Reply
  <2> HIDE DEF modes, presses, asked, replies, notices
  <2> QED BY <2>1, <2>2, <2>3, <2>4, <2>5, <2>6
<1> QED BY <1>1, <1>2

LEMMA TogglesGuessed == ASSUME TogglesKnown, L!Next PROVE TogglesKnown'
<1>1. toggling' \subseteq toggling \cup L!Toggles
  BY Zenon DEF L!Next, L!MobileCommand, L!LookAtCopy, L!FinishToggle, L!Request, L!PutConfig, L!TerminalCommand, L!Send, L!Hotkey, L!Ask,
         L!Transmit, L!Serve, L!Read, L!Drop, L!FailFast, L!Reconnect, L!OthersChange
<1> QED BY <1>1, CommandsGuessed, SMTT(30) DEF TogglesKnown

LEMMA LocalInit == L!Init => LocalInv
<1> SUFFICES ASSUME L!Init PROVE LocalInv
  OBVIOUS
<1> USE DEF L!Init
<1>1. CopyType
  BY DEF CopyType, HasFields
<1>2. QueuesAreSeqs
  BY NothingInEmpty DEF QueuesAreSeqs
<1>3. OneCaller /\ OneRequest /\ WhoAsks
  BY NothingInEmpty DEF OneCaller, OneRequest, WhoAsks, NobodyAsks, Alone
<1>4. DownRight
  BY DEF DownRight, Kinds, LastHas, Updates
<1>5. CopyRight
  BY DEF CopyRight
<1>6. TogglesKnown
  BY DEF TogglesKnown
<1> QED BY <1>1, <1>2, <1>3, <1>4, <1>5, <1>6 DEF LocalInv

LEMMA LocalStep == ASSUME L!LocalApiAssumption, LocalInv, [L!Next]_localVars PROVE LocalInv'
<1>1. CASE L!Next
  <2>1. CallerInv'
    BY <1>1, CallerStep DEF LocalInv, CallerInv, DownRight
  <2> QED BY <1>1, <2>1, TogglesGuessed, CopyTypeStep, SeqsStep, DownStep, CopyStep DEF LocalInv, CallerInv
<1>2. CASE UNCHANGED localVars
  BY <1>2 DEF localVars, LocalInv, TogglesKnown, CopyType, HasFields, QueuesAreSeqs, OneCaller, OneRequest, WhoAsks, NotSent, NobodyAsks,
              DownRight, CopyRight, NothingAsked
<1> QED BY <1>1, <1>2

LEMMA GuessStep == ASSUME L!LocalApiAssumption, LocalInv, L!Next PROVE L!GuessRight
<1> SUFFICES ASSUME L!MobileCommand \/ L!FinishToggle, L!Quiet, ~copyStale, controlQueue' # controlQueue, L!Handled(serverSession, controlQueue'[1].msg).ok
             PROVE  LET m == controlQueue'[1].msg
                    IN L!Shown(local'.shown, m) = L!Shown(L!Handled(serverSession, m).session, m)
  BY DEF L!GuessRight
<1>1. PICK m : m.op \in Guessed /\ L!Queue(m)
  BY CommandsGuessed DEF L!MobileCommand, L!FinishToggle, LocalInv, TogglesKnown
<1>2. controlQueue = <<>> /\ waiting = {} /\ CopyType /\ local.shown = serverSession
  <2>1. controlQueue = <<>> /\ wire = <<>> /\ localDown = <<>> /\ waiting = {} /\ ~ended /\ localLink
    BY DEF L!Quiet
  <2>2. NothingAsked
    BY <2>1, NothingInEmpty DEF NothingAsked
  <2> QED BY <2>1, <2>2 DEF LocalInv, CopyRight
<1>3. local' = L!ExpectedCopy(m) /\ controlQueue' = Append(controlQueue, [msg |-> m, by |-> "nobody"])
  BY <1>1 DEF L!Queue
<1>4. controlQueue'[1].msg = m
  <2>1. controlQueue' = <<[msg |-> m, by |-> "nobody"]>>
    BY <1>2, <1>3
  <2> QED BY <2>1
<1> QED BY <1>1, <1>2, <1>3, <1>4, GuessIsHandled

(* For any buttons, users, permissions and bounds: a command that is queued while nothing is on
   the way changes the client's copy into what the server makes of the session, unless it
   refuses, whatever was lost, refused or changed by others before (LocalClientApi, apply_control). *)
THEOREM CommandsGuessRight == ASSUME L!LocalApiAssumption PROVE Parts => GuessesRight
<1>1. PartsInit => (part = "local" => LocalInv)
  BY LocalInit DEF PartsInit
<1>2. (part = "local" => LocalInv) /\ [PartsNext]_partVars => (part = "local" => LocalInv)'
  BY LocalStep, PartsStep
<1>3. (part = "local" => LocalInv) /\ [PartsNext]_partVars
        => [part = "local" => L!GuessRight]_partVars
  <2> SUFFICES ASSUME part = "local", LocalInv, PartsNext PROVE L!GuessRight
    OBVIOUS
  <2> QED BY GuessStep DEF PartsNext
<1> QED BY <1>1, <1>2, <1>3, PTL DEF Parts, GuessesRight

-----------------------------------------------------------------------------
(* Live transcription. *)
(* What the clauses about cardinalities say, one worker at a time. *)
OneEach ==
  /\ \A v, w \in workers : v.user = w.user => v = w
  /\ \A u \in TranscribedUsers : running[u] <=> \E w \in workers : w.user = u
AtWork(u) == \E w \in workers : w.user = u /\ w.job # T!NoJob
UnderWay(u) == IF AtWork(u) THEN 1 ELSE 0
Counted(u, queued, gone) == made[u] = dropped[u] + gone + completed[u] + missed[u] + queued + UnderWay(u)

(* A worker has a job unless it looks for one. *)
WorkersHaveJobs ==
  /\ \A w \in workers : w.job = T!NoJob <=> w.at = "ready"
  /\ Len(schedulers) \in 1..MaxSchedulers

(* Of a user's jobs those in the transcript were spoken first, then the one that the
   worker has, then those that wait, and all of them have been made. *)
Increasing(q) == \A i, j \in 1..Len(q) : i < j => q[i] < q[j]
Within(q, low, high) == \A i \in 1..Len(q) : low < q[i] /\ q[i] <= high
Spoken(u, q) ==
  /\ Increasing(q) /\ Within(q, 0, made[u])
  /\ Increasing(transcript[u]) /\ Within(transcript[u], 0, made[u])
  /\ \A k \in 1..Len(transcript[u]) : Within(q, transcript[u][k], made[u])
  /\ \A w \in workers : w.user = u /\ w.job # T!NoJob =>
       /\ 0 < w.job /\ w.job <= made[u] /\ Within(q, w.job, made[u])
       /\ \A k \in 1..Len(transcript[u]) :
            transcript[u][k] < w.job \/ (w.at = "written" /\ transcript[u][k] = w.job)
JobRight(u) == Counted(u, Len(pending[u]), stale[u]) /\ Spoken(u, pending[u])
JobsRight == OneEach /\ \A u \in TranscribedUsers : JobRight(u)

TranscriptionInv == T!TypeOK /\ WorkersHaveJobs /\ JobsRight /\ T!NothingLeftBehind

LEMMA FreshIsRest == ASSUME NEW q \in Seq(Nat), NEW n \in 0..Len(q)
  PROVE LET r == SubSeq(q, n + 1, Len(q))
        IN /\ r \in Seq(Nat) /\ Len(r) = Len(q) - n /\ Len(r) \in Nat
           /\ \A i \in 1..Len(r) : i + n \in 1..Len(q) /\ r[i] = q[i + n]
<1> DEFINE r == SubSeq(q, n + 1, Len(q))
<1>1. Len(q) \in Nat /\ n \in Nat /\ \A i \in (n + 1)..Len(q) : q[i] \in Nat
  OBVIOUS
<1>2. /\ r \in Seq(Nat) /\ Len(r) = IF n + 1 <= Len(q) THEN Len(q) - (n + 1) + 1 ELSE 0
      /\ \A i \in 1..(Len(q) - (n + 1) + 1) : r[i] = q[(n + 1) + i - 1]
  BY <1>1, SubSeqProperties
<1> HIDE DEF r
<1>3. Len(r) = Len(q) - n
  BY <1>1, <1>2
<1>4. \A i \in 1..Len(r) : i + n \in 1..Len(q) /\ r[i] = q[i + n]
  BY <1>1, <1>2, <1>3
<1> QED BY <1>1, <1>2, <1>3, <1>4 DEF r

(* The module's own Cardinality and the library's are one. *)
LEMMA SameNumber == ASSUME NEW set PROVE T!Cardinality(set) = Cardinality(set)
BY DEF T!Cardinality, Cardinality

LEMMA SomeAreStale == ASSUME T!TypeOK, NEW u \in TranscribedUsers PROVE T!StaleIn(u) \in 0..Len(pending[u])
<1> DEFINE places == 1..Len(pending[u])
           gone == {i \in places : T!IsStale(u, pending[u][i])}
<1>1. Len(pending[u]) \in Nat
  BY DEF T!TypeOK
<1>2. IsFiniteSet(places) /\ Cardinality(places) = Len(pending[u])
  BY <1>1, FS_Interval
<1>3. gone \in SUBSET places
  OBVIOUS
<1> HIDE DEF places, gone
<1>4. IsFiniteSet(gone) /\ Cardinality(gone) <= Cardinality(places)
  BY <1>2, <1>3, FS_Subset
<1>5. Cardinality(gone) \in Nat
  BY <1>4, FS_CardinalityType
<1>6. T!StaleIn(u) = Cardinality(gone)
  BY SameNumber DEF T!StaleIn, gone, places
<1> QED BY <1>1, <1>2, <1>4, <1>5, <1>6

(* The jobs that stay are those from some place in the queue on. *)
LEMMA FreshJobs == ASSUME T!TypeOK, NEW u \in TranscribedUsers
  PROVE /\ T!Fresh(u) \in Seq(Nat) /\ Len(T!Fresh(u)) \in Nat /\ T!StaleIn(u) \in Nat
        /\ Len(pending[u]) = Len(T!Fresh(u)) + T!StaleIn(u)
        /\ \A i \in 1..Len(T!Fresh(u)) : i + T!StaleIn(u) \in 1..Len(pending[u]) /\ T!Fresh(u)[i] = pending[u][i + T!StaleIn(u)]
<1>1. pending[u] \in Seq(Nat) /\ Len(pending[u]) \in Nat
  BY DEF T!TypeOK
<1>2. T!StaleIn(u) \in 0..Len(pending[u])
  BY SomeAreStale
<1> DEFINE q == pending[u]
           n == T!StaleIn(u)
           r == SubSeq(q, n + 1, Len(q))
<1>3. q \in Seq(Nat) /\ n \in 0..Len(q) /\ T!Fresh(u) = r
  BY <1>1, <1>2 DEF T!Fresh
<1> HIDE DEF q, n
<1>4. /\ r \in Seq(Nat) /\ Len(r) = Len(q) - n /\ Len(r) \in Nat
      /\ \A i \in 1..Len(r) : i + n \in 1..Len(q) /\ r[i] = q[i + n]
  BY <1>3, FreshIsRest
<1> HIDE DEF r
<1>5. n \in Nat /\ Len(q) \in Nat
  BY <1>1, <1>3 DEF q
<1>6. Len(q) = Len(r) + n
  BY <1>4, <1>5
<1> QED BY <1>3, <1>4, <1>5, <1>6 DEF q, n

LEMMA RestIncreases == ASSUME NEW q, NEW r, NEW n \in Nat, Len(q) \in Nat, Len(r) \in Nat,
                              \A i \in 1..Len(r) : i + n \in 1..Len(q) /\ r[i] = q[i + n]
  PROVE /\ Increasing(q) => Increasing(r)
        /\ \A low, high : Within(q, low, high) => Within(r, low, high)
<1>1. Increasing(q) => Increasing(r)
  BY DEF Increasing
<1>2. \A low, high : Within(q, low, high) => Within(r, low, high)
  BY DEF Within
<1> QED BY <1>1, <1>2

LEMMA FreshInOrder == ASSUME T!TypeOK, NEW u \in TranscribedUsers, Spoken(u, pending[u]) PROVE Spoken(u, T!Fresh(u))
<1>1. Len(pending[u]) \in Nat
  BY DEF T!TypeOK
<1>2. /\ Increasing(pending[u]) => Increasing(T!Fresh(u))
      /\ \A low, high : Within(pending[u], low, high) => Within(T!Fresh(u), low, high)
  BY <1>1, FreshJobs, RestIncreases
<1> QED BY <1>2 DEF Spoken

LEMMA NoneInOrder == ASSUME NEW u, NEW q, Spoken(u, q) PROVE Spoken(u, <<>>)
BY DEF Spoken, Increasing, Within

LEMMA HeadOfJobs == ASSUME NEW q \in Seq(Nat), q # <<>>
  PROVE /\ Head(q) \in Nat /\ Tail(q) \in Seq(Nat) /\ Len(q) \in Nat /\ Len(q) >= 1 /\ Len(Tail(q)) = Len(q) - 1
        /\ Head(q) = q[1] /\ \A i \in 1..Len(Tail(q)) : i + 1 \in 1..Len(q) /\ Tail(q)[i] = q[i + 1]
<1>1. Len(q) \in Nat /\ Len(q) >= 1
  OBVIOUS
<1>2. Tail(q) \in Seq(Nat) /\ Len(Tail(q)) = Len(q) - 1 /\ Head(q) = q[1] /\ Head(q) \in Nat
  BY <1>1
<1>3. \A i \in 1..Len(Tail(q)) : i + 1 \in 1..Len(q) /\ Tail(q)[i] = q[i + 1]
  BY <1>1, <1>2
<1> QED BY <1>1, <1>2, <1>3

LEMMA AppendOfJob == ASSUME NEW q \in Seq(Nat), NEW number \in Nat
  PROVE /\ Append(q, number) \in Seq(Nat) /\ Len(Append(q, number)) = Len(q) + 1 /\ Len(q) \in Nat
        /\ \A i \in 1..Len(Append(q, number)) : Append(q, number)[i] = IF i <= Len(q) THEN q[i] ELSE number
<1>1. Append(q, number) \in Seq(Nat) /\ Len(Append(q, number)) = Len(q) + 1 /\ Len(q) \in Nat
  OBVIOUS
<1>2. \A i \in 1..(Len(q) + 1) : Append(q, number)[i] = IF i <= Len(q) THEN q[i] ELSE number
  OBVIOUS
<1> QED BY <1>1, <1>2

LEMMA AppendIncreases == ASSUME NEW q \in Seq(Nat), NEW number \in Nat, Increasing(q), NEW bound \in Nat, Within(q, 0, bound)
  PROVE /\ bound < number => Increasing(Append(q, number))
        /\ \A low, high \in Nat : Within(q, low, bound) /\ bound <= high /\ low < number /\ number <= high =>
             Within(Append(q, number), low, high)
<1> DEFINE r == Append(q, number)
<1>1. /\ Len(r) = Len(q) + 1 /\ Len(q) \in Nat
      /\ \A i \in 1..Len(r) : r[i] = IF i <= Len(q) THEN q[i] ELSE number
  BY AppendOfJob
<1>2. \A i \in 1..Len(q) : q[i] \in Nat
  OBVIOUS
<1> HIDE DEF r
<1>3. bound < number => Increasing(r)
  <2> SUFFICES ASSUME bound < number, NEW i \in 1..Len(r), NEW j \in 1..Len(r), i < j PROVE r[i] < r[j]
    BY DEF Increasing
  <2>1. i <= Len(q) /\ i \in 1..Len(q)
    BY <1>1
  <2>2. CASE j <= Len(q)
    BY <1>1, <2>1, <2>2 DEF Increasing
  <2>3. CASE ~(j <= Len(q))
    <3>1. r[i] = q[i] /\ r[j] = number /\ q[i] <= bound
      BY <1>1, <2>1, <2>3 DEF Within
    <3> QED BY <1>2, <2>1, <3>1
  <2> QED BY <2>2, <2>3
<1>4. ASSUME NEW low \in Nat, NEW high \in Nat, Within(q, low, bound), bound <= high, low < number, number <= high
      PROVE  Within(r, low, high)
  <2> SUFFICES ASSUME NEW i \in 1..Len(r) PROVE low < r[i] /\ r[i] <= high
    BY DEF Within
  <2>1. CASE i <= Len(q)
    <3>1. i \in 1..Len(q) /\ r[i] = q[i]
      BY <1>1, <2>1
    <3>2. low < q[i] /\ q[i] <= bound
      BY <1>4, <3>1 DEF Within
    <3> QED BY <1>2, <1>4, <3>1, <3>2
  <2>2. CASE ~(i <= Len(q))
    <3>1. r[i] = number
      BY <1>1, <2>2
    <3> QED BY <1>4, <3>1
  <2> QED BY <2>1, <2>2
<1> QED BY <1>3, <1>4 DEF r


(* Who works after a step. *)
LEMMA WorkerBecomes == ASSUME OneEach, NEW w \in workers, NEW after, after.user = w.user,
                              T!Becomes(w, after), running' = running
  PROVE /\ OneEach'
        /\ \A v \in workers' : v = after \/ (v \in workers /\ v.user # w.user)
        /\ AtWork(w.user) <=> w.job # T!NoJob
        /\ AtWork(w.user)' <=> after.job # T!NoJob
        /\ \A u \in TranscribedUsers : u # w.user => (AtWork(u)' <=> AtWork(u))
<1>1. workers' = (workers \ {w}) \cup {after}
  BY DEF T!Becomes
<1>2. \A v \in workers : v.user = w.user => v = w
  BY DEF OneEach
<1>3. \A v \in workers' : v = after \/ (v \in workers /\ v.user # w.user)
  BY <1>1, <1>2
<1>4. after \in workers' /\ \A v \in workers : v.user # w.user => v \in workers'
  BY <1>1
<1>5. OneEach'
  <2>1. \A v1, v2 \in workers' : v1.user = v2.user => v1 = v2
    BY <1>3 DEF OneEach
  <2>2. \A u \in TranscribedUsers : (\E v \in workers' : v.user = u) <=> \E v \in workers : v.user = u
    BY <1>3, <1>4
  <2> QED BY <2>1, <2>2 DEF OneEach
<1>6. AtWork(w.user) <=> w.job # T!NoJob
  BY <1>2 DEF AtWork
<1>7. AtWork(w.user)' <=> after.job # T!NoJob
  BY <1>3, <1>4 DEF AtWork
<1>8. \A u \in TranscribedUsers : u # w.user => (AtWork(u)' <=> AtWork(u))
  BY <1>3, <1>4 DEF AtWork
<1> QED BY <1>3, <1>5, <1>6, <1>7, <1>8

LEMMA WorkerEnds == ASSUME T!TypeOK, OneEach, NEW w \in workers, T!Ends(w)
  PROVE /\ OneEach' /\ running' \in [TranscribedUsers -> BOOLEAN]
        /\ \A v \in workers' : v \in workers /\ v.user # w.user
        /\ AtWork(w.user) <=> w.job # T!NoJob
        /\ ~AtWork(w.user)'
        /\ \A u \in TranscribedUsers : u # w.user => (AtWork(u)' <=> AtWork(u))
<1>1. workers' = workers \ {w} /\ running' = [running EXCEPT ![w.user] = FALSE]
  BY DEF T!Ends
<1>2. \A v \in workers : v.user = w.user => v = w
  BY DEF OneEach
<1>3. \A v \in workers' : v \in workers /\ v.user # w.user
  BY <1>1, <1>2
<1>4. \A v \in workers : v.user # w.user => v \in workers'
  BY <1>1
<1>5. running \in [TranscribedUsers -> BOOLEAN] /\ w.user \in TranscribedUsers
  BY DEF T!TypeOK, T!Worker
<1>6. running' \in [TranscribedUsers -> BOOLEAN] /\ \A u \in TranscribedUsers : running'[u] = IF u = w.user THEN FALSE ELSE running[u]
  BY <1>1, <1>5
<1>7. OneEach'
  <2>1. \A v1, v2 \in workers' : v1.user = v2.user => v1 = v2
    BY <1>3 DEF OneEach
  <2>2. \A u \in TranscribedUsers : (\E v \in workers' : v.user = u) <=> (u # w.user /\ \E v \in workers : v.user = u)
    BY <1>3, <1>4
  <2>3. \A u \in TranscribedUsers : running[u] <=> \E v \in workers : v.user = u
    BY DEF OneEach
  <2>4. \A u \in TranscribedUsers : running'[u] <=> \E v \in workers' : v.user = u
    BY <1>6, <2>2, <2>3
  <2> QED BY <2>1, <2>4 DEF OneEach
<1>8. AtWork(w.user) <=> w.job # T!NoJob
  BY <1>2 DEF AtWork
<1>9. ~AtWork(w.user)' /\ \A u \in TranscribedUsers : u # w.user => (AtWork(u)' <=> AtWork(u))
  BY <1>3, <1>4 DEF AtWork
<1> QED BY <1>3, <1>6, <1>7, <1>8, <1>9

LEMMA ReadyHas == \A u : T!Ready(u).user = u /\ T!Ready(u).at = "ready" /\ T!Ready(u).job = T!NoJob /\ T!Ready(u).scheduler = 0
BY DEF T!Ready

LEMMA ReadyIsWorker == ASSUME T!TranscriptionAssumption, NEW u \in TranscribedUsers PROVE T!Ready(u) \in T!Worker
<1>1. 0 \in 0..MaxSchedulers
  BY DEF T!TranscriptionAssumption
<1> QED BY <1>1 DEF T!Ready, T!Worker, T!NoJob

LEMMA WorkersSpawned == ASSUME T!TypeOK, OneEach, NEW U \in SUBSET TranscribedUsers, workers' = T!Spawned(U),
                               running' = [u \in TranscribedUsers |-> running[u] \/ u \in U]
  PROVE /\ OneEach' /\ running' \in [TranscribedUsers -> BOOLEAN]
        /\ \A v \in workers' : v \in workers \/ \E u \in TranscribedUsers : v = T!Ready(u)
        /\ \A u \in TranscribedUsers : AtWork(u)' <=> AtWork(u)
<1>1. \A v : v \in workers' <=> (v \in workers \/ \E u \in U : ~running[u] /\ v = T!Ready(u))
  BY DEF T!Spawned
<1>2. \A u \in TranscribedUsers : running[u] <=> \E v \in workers : v.user = u
  BY DEF OneEach
<1>3. \A v \in workers : v.user \in TranscribedUsers
  BY DEF T!TypeOK, T!Worker
<1>4. \A u \in TranscribedUsers : running'[u] = (running[u] \/ u \in U)
  OBVIOUS
<1>5. running' \in [TranscribedUsers -> BOOLEAN]
  BY DEF T!TypeOK
<1>6. \A v1, v2 \in workers' : v1.user = v2.user => v1 = v2
  BY <1>1, <1>2, <1>3, ReadyHas DEF OneEach
<1>7. ASSUME NEW u \in TranscribedUsers PROVE running'[u] <=> \E v \in workers' : v.user = u
  <2>1. ASSUME running'[u] PROVE \E v \in workers' : v.user = u
    <3>1. CASE running[u]
      BY <1>1, <1>2, <3>1
    <3>2. CASE ~running[u]
      <4>1. u \in U /\ T!Ready(u) \in workers'
        BY <1>1, <1>4, <2>1, <3>2
      <4> QED BY <4>1, ReadyHas
    <3> QED BY <3>1, <3>2
  <2>2. ASSUME NEW v \in workers', v.user = u PROVE running'[u]
    <3>1. CASE v \in workers
      BY <1>2, <1>4, <2>2, <3>1
    <3>2. CASE v \notin workers
      <4>1. PICK x \in U : v = T!Ready(x)
        BY <1>1, <3>2
      <4>2. x = u
        BY <2>2, <4>1, ReadyHas
      <4> QED BY <1>4, <4>2
    <3> QED BY <3>1, <3>2
  <2> QED BY <2>1, <2>2
<1>8. ASSUME NEW u \in TranscribedUsers PROVE AtWork(u)' <=> AtWork(u)
  BY <1>1, ReadyHas DEF AtWork
<1>9. OneEach'
  BY <1>6, <1>7 DEF OneEach
<1> QED BY <1>1, <1>5, <1>8, <1>9

(* What keeps the order: a user's jobs stay in their places, and the worker keeps its own. *)
LEMMA OrderStays == ASSUME NEW u, NEW q, Spoken(u, q), pending'[u] = q, made'[u] = made[u], transcript'[u] = transcript[u],
                           \A v \in workers' : v.user = u /\ v.job # T!NoJob =>
                             \E w \in workers : w.user = u /\ w.job = v.job /\ (w.at = "written" => v.at = "written")
  PROVE Spoken(u, pending[u])'
<1>1. /\ Increasing(q) /\ Within(q, 0, made[u])
      /\ Increasing(transcript[u]) /\ Within(transcript[u], 0, made[u])
      /\ \A k \in 1..Len(transcript[u]) : Within(q, transcript[u][k], made[u])
  BY DEF Spoken
<1>2. ASSUME NEW v \in workers', v.user = u, v.job # T!NoJob
      PROVE  /\ 0 < v.job /\ v.job <= made[u] /\ Within(q, v.job, made[u])
             /\ \A k \in 1..Len(transcript[u]) :
                  transcript[u][k] < v.job \/ (v.at = "written" /\ transcript[u][k] = v.job)
  <2>1. PICK w \in workers : w.user = u /\ w.job = v.job /\ (w.at = "written" => v.at = "written")
    BY <1>2
  <2> QED BY <1>2, <2>1 DEF Spoken
<1> QED BY <1>1, <1>2 DEF Spoken, Increasing, Within

LEMMA WorkerKept == ASSUME NEW u, NEW v \in workers', v \in workers, v.user = u
  PROVE \E w \in workers : w.user = u /\ w.job = v.job /\ (w.at = "written" => v.at = "written")
OBVIOUS

(* The next job comes after all others, whether it is queued or refused. *)
LEMMA NextJobInOrder ==
  ASSUME T!TypeOK, NEW u \in TranscribedUsers, NEW q \in Seq(Nat), Spoken(u, q), made'[u] = made[u] + 1, transcript'[u] = transcript[u],
         pending'[u] = q \/ pending'[u] = Append(q, made[u] + 1),
         \A v \in workers' : v.user = u => v \in workers \/ v.job = T!NoJob
  PROVE Spoken(u, pending[u])'
<1> DEFINE m == made[u]
           r == pending'[u]
           t == transcript[u]
<1>1. m \in Nat /\ t \in Seq(Nat) /\ m + 1 \in Nat
  BY DEF T!TypeOK
<1>2. /\ Increasing(q) /\ Within(q, 0, m) /\ Increasing(t) /\ Within(t, 0, m)
      /\ \A k \in 1..Len(t) : Within(q, t[k], m)
  BY DEF Spoken
<1>3. \A i \in 1..Len(t) : t[i] \in Nat /\ 0 < t[i] /\ t[i] <= m
  BY <1>1, <1>2 DEF Within
<1>4. \A i \in 1..Len(q) : q[i] \in Nat
  OBVIOUS
<1>5. Increasing(r)
  <2> HIDE DEF m
  <2>1. m < m + 1
    BY <1>1
  <2>2. m < m + 1 => Increasing(Append(q, m + 1))
    BY <1>1, <1>2, AppendIncreases
  <2> QED BY <1>2, <2>1, <2>2 DEF m
<1>6. ASSUME NEW low \in Nat, Within(q, low, m), low <= m PROVE Within(r, low, m + 1)
  <2>1. CASE r = q
    BY <1>1, <1>4, <1>6, <2>1 DEF Within
  <2>2. CASE r = Append(q, m + 1)
    <3>1. Within(q, low, m) /\ m <= m + 1 /\ low < m + 1 /\ m + 1 <= m + 1 => Within(Append(q, m + 1), low, m + 1)
      BY <1>1, <1>2, AppendIncreases
    <3> QED BY <1>1, <1>6, <2>2, <3>1
  <2> QED BY <2>1, <2>2
<1>7. Within(r, 0, m + 1)
  BY <1>1, <1>2, <1>6
<1>8. Within(t, 0, m + 1)
  BY <1>1, <1>3 DEF Within
<1>9. \A k \in 1..Len(t) : Within(r, t[k], m + 1)
  BY <1>2, <1>3, <1>6
<1>10. ASSUME NEW v \in workers', v.user = u, v.job # T!NoJob
       PROVE  /\ 0 < v.job /\ v.job <= m + 1 /\ Within(r, v.job, m + 1)
              /\ \A k \in 1..Len(t) : t[k] < v.job \/ (v.at = "written" /\ t[k] = v.job)
  <2>1. v \in workers /\ v.job \in Nat
    BY <1>10 DEF T!TypeOK, T!Worker
  <2>2. /\ 0 < v.job /\ v.job <= m /\ Within(q, v.job, m)
        /\ \A k \in 1..Len(t) : t[k] < v.job \/ (v.at = "written" /\ t[k] = v.job)
    BY <1>10, <2>1 DEF Spoken
  <2>3. Within(r, v.job, m + 1)
    BY <1>6, <2>1, <2>2
  <2> QED BY <1>1, <2>1, <2>2, <2>3
<1>11. made'[u] = m + 1 /\ transcript'[u] = t
  OBVIOUS
<1> HIDE DEF m, t
<1> QED BY <1>2, <1>5, <1>7, <1>8, <1>9, <1>10, <1>11 DEF Spoken, Increasing, Within

LEMMA JobsUnmoved == ASSUME JobsRight, UNCHANGED <<pending, running, workers, made, T!counters, transcript>>
  PROVE JobsRight'
<1>1. OneEach'
  BY DEF JobsRight, OneEach
<1>2. \A u \in TranscribedUsers : Counted(u, Len(pending[u]), stale[u])'
  BY DEF JobsRight, JobRight, Counted, UnderWay, AtWork, T!counters
<1>3. \A u \in TranscribedUsers : Spoken(u, pending[u])'
  BY DEF JobsRight, JobRight, Spoken, Increasing, Within
<1> QED BY <1>1, <1>2, <1>3 DEF JobsRight, JobRight

LEMMA NumbersOf == ASSUME T!TypeOK, NEW u \in TranscribedUsers
  PROVE /\ made[u] \in Nat /\ dropped[u] \in Nat /\ stale[u] \in Nat /\ completed[u] \in Nat /\ missed[u] \in Nat
        /\ pending[u] \in Seq(Nat) /\ Len(pending[u]) \in Nat /\ Len(pending[u]) <= JobQueueLimit
        /\ transcript[u] \in Seq(Nat) /\ UnderWay(u) \in {0, 1} /\ late[u] \in Nat
BY DEF T!TypeOK, UnderWay

(* The jobs that go stale in the queue change places in the count. *)
LEMMA StaleCounted ==
  ASSUME T!TypeOK, NEW u \in TranscribedUsers, made[u] = dropped[u] + stale[u] + completed[u] + missed[u] + Len(pending[u]) + UnderWay(u)
  PROVE made[u] = dropped[u] + (stale[u] + T!StaleIn(u)) + completed[u] + missed[u] + Len(T!Fresh(u)) + UnderWay(u)
<1> DEFINE m == made[u]
           d == dropped[u]
           g == stale[u]
           c == completed[u]
           n == missed[u]
           q == Len(pending[u])
           b == UnderWay(u)
           gone == T!StaleIn(u)
           left == Len(T!Fresh(u))
<1>1. m \in Nat /\ d \in Nat /\ g \in Nat /\ c \in Nat /\ n \in Nat /\ q \in Nat
  BY NumbersOf
<1>2. b \in {0, 1}
  BY NumbersOf
<1>3. gone \in Nat /\ left \in Nat /\ q = left + gone
  BY FreshJobs
<1>4. m = d + g + c + n + q + b
  OBVIOUS
<1>5. m = d + (g + gone) + c + n + left + b
  <2> HIDE DEF m, d, g, c, n, q, b, gone, left
  <2> QED BY <1>1, <1>2, <1>3, <1>4
<1> QED BY <1>5

(* A user of whom a step changes nothing. *)
LEMMA OthersRight == ASSUME NEW u \in TranscribedUsers, JobRight(u), AtWork(u)' <=> AtWork(u),
                            \A v \in workers' : v.user = u => v \in workers \/ v.job = T!NoJob,
                            pending'[u] = pending[u], made'[u] = made[u], dropped'[u] = dropped[u],
                            stale'[u] = stale[u], completed'[u] = completed[u], missed'[u] = missed[u],
                            transcript'[u] = transcript[u]
  PROVE JobRight(u)'
<1>1. Counted(u, Len(pending[u]), stale[u])'
  BY DEF JobRight, Counted, UnderWay
<1>2. Spoken(u, pending[u])'
  BY OrderStays DEF JobRight
<1> QED BY <1>1, <1>2 DEF JobRight

LEMMA StaleTyped == ASSUME T!TypeOK, NEW u \in TranscribedUsers, T!DropStale(u)
  PROVE stale' \in [TranscribedUsers -> Nat] /\ \A v \in TranscribedUsers : stale'[v] = IF v = u THEN stale[u] + T!StaleIn(u) ELSE stale[v]
<1>1. stale \in [TranscribedUsers -> Nat]
  BY DEF T!TypeOK
<1>2. T!StaleIn(u) \in Nat
  BY FreshJobs
<1>3. stale' = [stale EXCEPT ![u] = @ + T!StaleIn(u)]
  BY DEF T!DropStale
<1> QED BY <1>1, <1>2, <1>3

(* u's stale jobs go. *)
LEMMA StaleGo == ASSUME T!TranscriptionAssumption, T!TypeOK, JobsRight, NEW u \in TranscribedUsers, T!DropStale(u),
                        pending' = [pending EXCEPT ![u] = T!Fresh(u)],
                        UNCHANGED <<running, workers, made, dropped, completed, missed, transcript>>
  PROVE /\ JobsRight' /\ pending' \in [TranscribedUsers -> Seq(Nat)] /\ stale' \in [TranscribedUsers -> Nat]
        /\ \A v \in TranscribedUsers : Len(pending'[v]) <= JobQueueLimit
<1>1. /\ T!Fresh(u) \in Seq(Nat) /\ Len(T!Fresh(u)) \in Nat /\ T!StaleIn(u) \in Nat
      /\ Len(pending[u]) = Len(T!Fresh(u)) + T!StaleIn(u)
  BY FreshJobs
<1>2. pending' \in [TranscribedUsers -> Seq(Nat)] /\ \A v \in TranscribedUsers : pending'[v] = IF v = u THEN T!Fresh(u) ELSE pending[v]
  BY <1>1 DEF T!TypeOK
<1>3. stale' \in [TranscribedUsers -> Nat] /\ \A v \in TranscribedUsers : stale'[v] = IF v = u THEN stale[u] + T!StaleIn(u) ELSE stale[v]
  BY StaleTyped
<1>4. JobQueueLimit \in Nat
  BY DEF T!TranscriptionAssumption
<1>5. \A v \in TranscribedUsers : Len(pending'[v]) <= JobQueueLimit
  <2> TAKE v \in TranscribedUsers
  <2>1. Len(pending[v]) \in Nat /\ Len(pending[v]) <= JobQueueLimit
    BY NumbersOf
  <2>2. CASE v = u
    BY <1>1, <1>2, <1>4, <2>1, <2>2
  <2>3. CASE v # u
    BY <1>2, <2>1, <2>3
  <2> QED BY <2>2, <2>3
<1>6. OneEach'
  BY DEF JobsRight, OneEach
<1>7. JobRight(u)'
  <2>1. Counted(u, Len(pending[u]), stale[u])'
    <3>1. UnderWay(u)' = UnderWay(u)
      BY DEF UnderWay, AtWork
    <3>2. made[u] = dropped[u] + stale[u] + completed[u] + missed[u] + Len(pending[u]) + UnderWay(u)
      BY DEF JobsRight, JobRight, Counted
    <3>3. made[u] = dropped[u] + (stale[u] + T!StaleIn(u)) + completed[u] + missed[u] + Len(T!Fresh(u)) + UnderWay(u)
      BY <3>2, StaleCounted
    <3> QED BY <1>2, <1>3, <3>1, <3>3 DEF Counted
  <2>2. Spoken(u, T!Fresh(u))
    BY FreshInOrder DEF JobsRight, JobRight
  <2>3. pending'[u] = T!Fresh(u) /\ made'[u] = made[u] /\ transcript'[u] = transcript[u] /\ workers' = workers
    BY <1>2
  <2>4. Spoken(u, pending[u])'
    BY <2>2, <2>3, OrderStays
  <2> QED BY <2>1, <2>4 DEF JobRight
<1>8. ASSUME NEW v \in TranscribedUsers, v # u PROVE JobRight(v)'
  <2>1. pending'[v] = pending[v] /\ stale'[v] = stale[v]
    BY <1>2, <1>3, <1>8
  <2>2. (AtWork(v)' <=> AtWork(v)) /\ JobRight(v)
    BY DEF AtWork, JobsRight
  <2> QED BY <2>1, <2>2, OthersRight
<1> QED BY <1>2, <1>3, <1>5, <1>6, <1>7, <1>8 DEF JobsRight

(* Jobs are made. *)
LEMMA JobsQueued ==
  ASSUME T!TranscriptionAssumption, T!TypeOK, OneEach, WorkersHaveJobs, NEW U \in SUBSET TranscribedUsers,
         NEW left \in [TranscribedUsers -> Seq(Nat)], NEW gone \in [TranscribedUsers -> Nat], stale' = gone,
         \A u \in TranscribedUsers : Counted(u, Len(left[u]), gone[u]) /\ Spoken(u, left[u]) /\ Len(left[u]) <= JobQueueLimit,
         T!Queue(U, left), UNCHANGED <<completed, missed, transcript>>
  PROVE /\ JobsRight' /\ pending' \in [TranscribedUsers -> Seq(Nat)] /\ \A v \in TranscribedUsers : Len(pending'[v]) <= JobQueueLimit
        /\ made' \in [TranscribedUsers -> Nat] /\ dropped' \in [TranscribedUsers -> Nat] /\ running' \in [TranscribedUsers -> BOOLEAN]
        /\ workers' \subseteq T!Worker /\ \A v \in workers' : v.job = T!NoJob <=> v.at = "ready"
<1> DEFINE full == {u \in U : T!Full(left[u])}
           accepted == U \ full
<1>1. /\ made' = [u \in TranscribedUsers |-> IF u \in U THEN made[u] + 1 ELSE made[u]]
      /\ pending' = [u \in TranscribedUsers |-> IF u \in accepted THEN Append(left[u], made[u] + 1) ELSE left[u]]
      /\ dropped' = [u \in TranscribedUsers |-> IF u \in full THEN dropped[u] + 1 ELSE dropped[u]]
      /\ workers' = T!Spawned(accepted)
      /\ running' = [u \in TranscribedUsers |-> running[u] \/ u \in accepted]
  BY DEF T!Queue
<1>2. \A u \in U : u \in full <=> Len(left[u]) >= JobQueueLimit
  BY DEF T!Full
<1>3. accepted \in SUBSET TranscribedUsers /\ \A u : u \in accepted <=> u \in U /\ u \notin full
  OBVIOUS
<1> HIDE DEF full, accepted
<1>4. /\ OneEach' /\ running' \in [TranscribedUsers -> BOOLEAN]
      /\ \A v \in workers' : v \in workers \/ \E u \in TranscribedUsers : v = T!Ready(u)
      /\ \A u \in TranscribedUsers : AtWork(u)' <=> AtWork(u)
  BY <1>1, <1>3, WorkersSpawned
<1>5. workers' \subseteq T!Worker /\ \A v \in workers' : v.job = T!NoJob <=> v.at = "ready"
  BY <1>4, ReadyHas, ReadyIsWorker DEF T!TypeOK, WorkersHaveJobs
<1>6. made' \in [TranscribedUsers -> Nat] /\ dropped' \in [TranscribedUsers -> Nat] /\ JobQueueLimit \in Nat
  BY <1>1, NumbersOf DEF T!TranscriptionAssumption
<1>7. ASSUME NEW u \in TranscribedUsers
      PROVE  pending'[u] \in Seq(Nat) /\ Len(pending'[u]) <= JobQueueLimit /\ JobRight(u)'
  <2>1. /\ left[u] \in Seq(Nat) /\ Len(left[u]) \in Nat /\ Len(left[u]) <= JobQueueLimit /\ gone[u] \in Nat
        /\ Counted(u, Len(left[u]), gone[u]) /\ Spoken(u, left[u])
    OBVIOUS
  <2>2. \A v \in workers' : v.user = u => v \in workers \/ v.job = T!NoJob
    BY <1>4, ReadyHas
  <2>3. UnderWay(u)' = UnderWay(u)
    BY <1>4 DEF UnderWay
  <2>4. transcript'[u] = transcript[u] /\ completed'[u] = completed[u] /\ missed'[u] = missed[u] /\ stale'[u] = gone[u]
    OBVIOUS
  <2>5. made[u] = dropped[u] + gone[u] + completed[u] + missed[u] + Len(left[u]) + UnderWay(u)
    BY <2>1 DEF Counted
  <2>0. /\ made[u] \in Nat /\ dropped[u] \in Nat /\ completed[u] \in Nat /\ missed[u] \in Nat
        /\ UnderWay(u) \in Nat /\ gone[u] \in Nat /\ Len(left[u]) \in Nat
    BY NumbersOf
  <2> DEFINE m == made[u]
             d == dropped[u]
             g == gone[u]
             c == completed[u]
             n == missed[u]
             q == Len(left[u])
             b == UnderWay(u)
  <2>01. m \in Nat /\ d \in Nat /\ g \in Nat /\ c \in Nat /\ n \in Nat /\ q \in Nat /\ b \in Nat /\ m = d + g + c + n + q + b
    BY <2>0, <2>5
  <2>02. m + 1 = (d + 1) + g + c + n + q + b /\ m + 1 = d + g + c + n + (q + 1) + b
    <3> HIDE DEF m, d, g, c, n, q, b
    <3> QED BY <2>01
  <2>6. CASE u \notin U
    <3>1. pending'[u] = left[u] /\ made'[u] = made[u] /\ dropped'[u] = dropped[u]
      BY <1>1, <1>3, <2>6 DEF full
    <3>2. Counted(u, Len(pending[u]), stale[u])'
      BY <2>3, <2>4, <2>5, <3>1 DEF Counted
    <3>3. Spoken(u, pending[u])'
      BY <2>1, <2>2, <2>4, <3>1, OrderStays
    <3> QED BY <2>1, <3>1, <3>2, <3>3 DEF JobRight
  <2>7. CASE u \in full
    <3>1. pending'[u] = left[u] /\ made'[u] = made[u] + 1 /\ dropped'[u] = dropped[u] + 1
      BY <1>1, <1>3, <2>7 DEF full
    <3>2. made[u] + 1 = (dropped[u] + 1) + gone[u] + completed[u] + missed[u] + Len(left[u]) + UnderWay(u)
      BY <2>02
    <3>3. Counted(u, Len(pending[u]), stale[u])'
      BY <2>3, <2>4, <3>1, <3>2 DEF Counted
    <3>4. Spoken(u, pending[u])'
      BY <2>1, <2>2, <2>4, <3>1, NextJobInOrder
    <3> QED BY <2>1, <3>1, <3>3, <3>4 DEF JobRight
  <2>8. CASE u \in accepted
    <3>1. pending'[u] = Append(left[u], made[u] + 1) /\ made'[u] = made[u] + 1 /\ dropped'[u] = dropped[u] /\ ~(Len(left[u]) >= JobQueueLimit)
      BY <1>1, <1>2, <1>3, <2>8
    <3>2. pending'[u] \in Seq(Nat) /\ Len(pending'[u]) = Len(left[u]) + 1
      BY <2>1, <3>1, NumbersOf, AppendOfJob
    <3>3. made[u] + 1 = dropped[u] + gone[u] + completed[u] + missed[u] + (Len(left[u]) + 1) + UnderWay(u)
      BY <2>02
    <3>4. Counted(u, Len(pending[u]), stale[u])'
      BY <2>3, <2>4, <3>1, <3>2, <3>3 DEF Counted
    <3>5. Spoken(u, pending[u])'
      BY <2>1, <2>2, <2>4, <3>1, NextJobInOrder
    <3>6. Len(left[u]) + 1 <= JobQueueLimit
      BY <1>6, <2>1, <3>1
    <3> QED BY <3>2, <3>4, <3>5, <3>6 DEF JobRight
  <2> QED BY <1>3, <2>6, <2>7, <2>8
<1>8. pending' \in [TranscribedUsers -> Seq(Nat)]
  BY <1>1, <1>7
<1> QED BY <1>4, <1>5, <1>6, <1>7, <1>8 DEF JobsRight

-----------------------------------------------------------------------------
(* The audio receiver and the operator. *)

LEMMA IngestFrameStep == ASSUME T!TranscriptionAssumption, TranscriptionInv, NEW u \in TranscribedUsers, T!IngestFrame(u) PROVE TranscriptionInv'
<1>1. T!TypeOK /\ WorkersHaveJobs /\ JobsRight /\ T!NothingLeftBehind
  BY DEF TranscriptionInv
<1>2. /\ JobsRight' /\ pending' \in [TranscribedUsers -> Seq(Nat)] /\ stale' \in [TranscribedUsers -> Nat]
      /\ \A v \in TranscribedUsers : Len(pending'[v]) <= JobQueueLimit
  BY <1>1, StaleGo DEF T!IngestFrame
<1>3. chunk' \in [TranscribedUsers -> T!Chunk]
  BY <1>1 DEF T!IngestFrame, T!TypeOK, T!Chunk
<1>4. T!TypeOK' /\ WorkersHaveJobs'
  <2>1. UNCHANGED <<T!operator, late, running, workers, made, dropped, completed, missed, transcript>>
    BY DEF T!IngestFrame
  <2> QED BY <1>1, <1>2, <1>3, <2>1 DEF T!TypeOK, WorkersHaveJobs, T!operator
<1>5. T!NothingLeftBehind'
  BY DEF T!IngestFrame, T!Heard, T!operator, T!NothingLeftBehind
<1> QED BY <1>2, <1>4, <1>5 DEF TranscriptionInv

LEMMA ForgottenIsNat == ASSUME T!TypeOK, NEW u \in TranscribedUsers PROVE T!Forgotten(u) \in Nat
BY DEF T!TypeOK, T!Forgotten

LEMMA ChunkTooShortStep == ASSUME T!TranscriptionAssumption, TranscriptionInv, NEW u \in TranscribedUsers, T!ChunkTooShort(u) PROVE TranscriptionInv'
<1>1. T!TypeOK /\ WorkersHaveJobs /\ JobsRight /\ T!NothingLeftBehind
  BY DEF TranscriptionInv
<1>2. /\ JobsRight' /\ pending' \in [TranscribedUsers -> Seq(Nat)] /\ stale' \in [TranscribedUsers -> Nat]
      /\ \A v \in TranscribedUsers : Len(pending'[v]) <= JobQueueLimit
  BY <1>1, StaleGo DEF T!ChunkTooShort
<1>3. chunk' \in [TranscribedUsers -> T!Chunk] /\ late' \in [TranscribedUsers -> Nat]
  BY <1>1, ForgottenIsNat DEF T!ChunkTooShort, T!TypeOK, T!Chunk
<1>4. T!TypeOK' /\ WorkersHaveJobs'
  <2>1. UNCHANGED <<T!operator, running, workers, made, dropped, completed, missed, transcript>>
    BY DEF T!ChunkTooShort
  <2> QED BY <1>1, <1>2, <1>3, <2>1 DEF T!TypeOK, WorkersHaveJobs, T!operator
<1>5. T!NothingLeftBehind'
  BY DEF T!ChunkTooShort, T!Heard, T!operator, T!NothingLeftBehind
<1> QED BY <1>2, <1>4, <1>5 DEF TranscriptionInv

LEMMA ChunkEndsStep == ASSUME T!TranscriptionAssumption, TranscriptionInv, NEW u \in TranscribedUsers, NEW keep \in BOOLEAN, T!ChunkEnds(u, keep)
  PROVE TranscriptionInv'
<1> DEFINE left == [pending EXCEPT ![u] = T!Fresh(u)]
           gone == [stale EXCEPT ![u] = @ + T!StaleIn(u)]
<1>1. T!TypeOK /\ WorkersHaveJobs /\ JobsRight /\ T!NothingLeftBehind
  BY DEF TranscriptionInv
<1>2. /\ T!Fresh(u) \in Seq(Nat) /\ Len(T!Fresh(u)) \in Nat /\ T!StaleIn(u) \in Nat
      /\ Len(pending[u]) = Len(T!Fresh(u)) + T!StaleIn(u)
  BY <1>1, FreshJobs
<1>3. left \in [TranscribedUsers -> Seq(Nat)] /\ \A v \in TranscribedUsers : left[v] = IF v = u THEN T!Fresh(u) ELSE pending[v]
  BY <1>1, <1>2 DEF T!TypeOK
<1>4. gone \in [TranscribedUsers -> Nat] /\ \A v \in TranscribedUsers : gone[v] = IF v = u THEN stale[u] + T!StaleIn(u) ELSE stale[v]
  BY <1>1, <1>2 DEF T!TypeOK
<1>5. stale' = gone /\ T!Queue({u}, left) /\ UNCHANGED <<completed, missed, transcript>>
  BY DEF T!ChunkEnds, T!DropStale
<1> HIDE DEF left, gone
<1>6. ASSUME NEW v \in TranscribedUsers PROVE Counted(v, Len(left[v]), gone[v]) /\ Spoken(v, left[v]) /\ Len(left[v]) <= JobQueueLimit
  <2>1. Counted(v, Len(pending[v]), stale[v]) /\ Spoken(v, pending[v]) /\ Len(pending[v]) <= JobQueueLimit
    BY <1>1, NumbersOf DEF JobsRight, JobRight
  <2>2. CASE v # u
    BY <1>3, <1>4, <2>1, <2>2
  <2>3. CASE v = u
    <3>1. Spoken(u, left[u])
      BY <1>1, <1>3, <2>1, <2>3, FreshInOrder
    <3>2. Len(left[u]) <= JobQueueLimit
      <4>1. JobQueueLimit \in Nat
        BY DEF T!TranscriptionAssumption
      <4> QED BY <1>2, <1>3, <2>1, <2>3, <4>1
    <3>3. Counted(u, Len(left[u]), gone[u])
      <4>1. made[u] = dropped[u] + stale[u] + completed[u] + missed[u] + Len(pending[u]) + UnderWay(u)
        BY <2>1, <2>3 DEF Counted
      <4>2. made[u] = dropped[u] + (stale[u] + T!StaleIn(u)) + completed[u] + missed[u] + Len(T!Fresh(u)) + UnderWay(u)
        BY <1>1, <4>1, StaleCounted
      <4> QED BY <1>3, <1>4, <4>2 DEF Counted
    <3> QED BY <2>3, <3>1, <3>2, <3>3
  <2> QED BY <2>2, <2>3
<1>7. /\ JobsRight' /\ pending' \in [TranscribedUsers -> Seq(Nat)] /\ \A v \in TranscribedUsers : Len(pending'[v]) <= JobQueueLimit
      /\ made' \in [TranscribedUsers -> Nat] /\ dropped' \in [TranscribedUsers -> Nat] /\ running' \in [TranscribedUsers -> BOOLEAN]
      /\ workers' \subseteq T!Worker /\ \A v \in workers' : v.job = T!NoJob <=> v.at = "ready"
  <2>1. OneEach
    BY <1>1 DEF JobsRight
  <2> QED BY <1>1, <1>3, <1>4, <1>5, <1>6, <2>1, JobsQueued
<1>8. chunk' \in [TranscribedUsers -> T!Chunk] /\ late' \in [TranscribedUsers -> Nat]
  BY <1>1 DEF T!ChunkEnds, T!TypeOK, T!Chunk
<1>9. T!TypeOK' /\ WorkersHaveJobs'
  <2>1. UNCHANGED <<T!operator, completed, missed, transcript>>
    BY DEF T!ChunkEnds
  <2>2. stale' \in [TranscribedUsers -> Nat]
    BY <1>4, <1>5
  <2>3. T!TypeOK'
    BY <1>1, <1>7, <1>8, <2>1, <2>2 DEF T!TypeOK, T!operator
  <2>4. WorkersHaveJobs'
    BY <1>1, <1>7, <2>1 DEF WorkersHaveJobs, T!operator
  <2> QED BY <2>3, <2>4
<1>10. T!NothingLeftBehind'
  BY DEF T!ChunkEnds, T!Heard, T!operator, T!NothingLeftBehind
<1> QED BY <1>7, <1>9, <1>10 DEF TranscriptionInv

LEMMA AgeStep == ASSUME TranscriptionInv, NEW u \in TranscribedUsers, T!Age(u) PROVE TranscriptionInv'
<1>1. T!TypeOK /\ WorkersHaveJobs /\ JobsRight /\ T!NothingLeftBehind
  BY DEF TranscriptionInv
<1>2. late' \in [TranscribedUsers -> Nat]
  BY <1>1 DEF T!Age, T!TypeOK
<1>3. T!TypeOK' /\ WorkersHaveJobs' /\ T!NothingLeftBehind'
  BY <1>1, <1>2 DEF T!TypeOK, WorkersHaveJobs, T!NothingLeftBehind, T!Age, T!operator, T!counters
<1>4. JobsRight'
  BY <1>1, JobsUnmoved DEF T!Age
<1> QED BY <1>3, <1>4 DEF TranscriptionInv

LEMMA StopLiveStep == ASSUME T!TranscriptionAssumption, TranscriptionInv, T!StopLive PROVE TranscriptionInv'
<1>1. T!TypeOK /\ WorkersHaveJobs /\ JobsRight /\ T!NothingLeftBehind
  BY DEF TranscriptionInv
<1>2. \A u \in TranscribedUsers : Counted(u, Len(pending[u]), stale[u]) /\ Spoken(u, pending[u]) /\ Len(pending[u]) <= JobQueueLimit
  BY <1>1, NumbersOf DEF JobsRight, JobRight
<1>3. /\ JobsRight' /\ pending' \in [TranscribedUsers -> Seq(Nat)] /\ \A v \in TranscribedUsers : Len(pending'[v]) <= JobQueueLimit
      /\ made' \in [TranscribedUsers -> Nat] /\ dropped' \in [TranscribedUsers -> Nat] /\ running' \in [TranscribedUsers -> BOOLEAN]
      /\ workers' \subseteq T!Worker /\ \A v \in workers' : v.job = T!NoJob <=> v.at = "ready"
  <2>1. T!Flushed \in SUBSET TranscribedUsers /\ pending \in [TranscribedUsers -> Seq(Nat)] /\ stale \in [TranscribedUsers -> Nat] /\ OneEach
    BY <1>1 DEF T!Flushed, T!TypeOK, JobsRight
  <2>2. T!Queue(T!Flushed, pending) /\ stale' = stale /\ UNCHANGED <<completed, missed, transcript>>
    BY DEF T!StopLive
  <2> QED BY <1>1, <1>2, <2>1, <2>2, JobsQueued
<1>4. chunk' \in [TranscribedUsers -> T!Chunk] /\ late' \in [TranscribedUsers -> Nat]
  BY <1>1, ForgottenIsNat DEF T!StopLive, T!TypeOK, T!Chunk
<1>5. T!TypeOK' /\ WorkersHaveJobs'
  <2>1. /\ active' = FALSE /\ chosen' = TranscribedUsers
        /\ UNCHANGED <<model, context, loading, starting, schedulers, stale, completed, missed, transcript>>
    BY DEF T!StopLive
  <2> QED BY <1>1, <1>3, <1>4, <2>1, ZenonT(60) DEF T!TypeOK, WorkersHaveJobs
<1>6. T!NothingLeftBehind'
  <2> SUFFICES ASSUME NEW u \in TranscribedUsers PROVE chunk'[u] = "empty"
    BY DEF T!NothingLeftBehind
  <2>1. chunk[u] \in T!Chunk
    BY <1>1 DEF T!TypeOK
  <2>2. chunk'[u] = IF chunk[u] = "speech" \/ chunk[u] = "short" THEN "empty" ELSE chunk[u]
    BY DEF T!StopLive, T!Flushed
  <2> QED BY <2>1, <2>2 DEF T!Chunk
<1> QED BY <1>3, <1>5, <1>6 DEF TranscriptionInv

LEMMA OperatorStep == ASSUME T!TranscriptionAssumption, TranscriptionInv, T!Operator PROVE TranscriptionInv'
<1>1. T!TypeOK /\ WorkersHaveJobs /\ JobsRight /\ T!NothingLeftBehind
  BY DEF TranscriptionInv
<1>2. CASE T!LoadModel
  <2>1. T!TypeOK' /\ WorkersHaveJobs' /\ T!NothingLeftBehind' /\ JobsRight'
    BY <1>1, <1>2, JobsUnmoved DEF T!TypeOK, WorkersHaveJobs, T!NothingLeftBehind, T!LoadModel, T!counters
  <2> QED BY <2>1 DEF TranscriptionInv
<1>3. CASE T!ModelLoaded
  <2>1. JobsRight'
    BY <1>1, <1>3, JobsUnmoved DEF T!ModelLoaded
  <2>2. WorkersHaveJobs' /\ T!NothingLeftBehind'
    BY <1>1, <1>3 DEF WorkersHaveJobs, T!NothingLeftBehind, T!ModelLoaded
  <2>3. starting' \in BOOLEAN /\ {context', loading'} \subseteq WhisperModels \cup {NoWhisper}
    BY <1>1, <1>3 DEF T!TypeOK, T!ModelLoaded
  <2>4. T!TypeOK'
    BY <1>1, <1>3, <2>3 DEF T!TypeOK, T!ModelLoaded, T!counters
  <2> QED BY <2>1, <2>2, <2>4 DEF TranscriptionInv
<1>4. CASE T!ModelPresent
  <2>1. T!TypeOK' /\ WorkersHaveJobs' /\ T!NothingLeftBehind' /\ JobsRight'
    BY <1>1, <1>4, JobsUnmoved DEF T!TypeOK, WorkersHaveJobs, T!NothingLeftBehind, T!ModelPresent, T!counters
  <2> QED BY <2>1 DEF TranscriptionInv
<1>5. CASE T!StopLive
  BY <1>5, StopLiveStep
<1>6. ASSUME NEW users \in Choices, NEW limit \in Limits, T!StartLive(users, limit) PROVE TranscriptionInv'
  <2>1. JobsRight'
    BY <1>1, <1>6, JobsUnmoved DEF T!StartLive
  <2>2. chosen' \subseteq TranscribedUsers
    BY <1>6 DEF T!StartLive, T!TranscriptionAssumption
  <2>3. schedulers' \in Seq(Limits \cup {DefaultLimit}) /\ Len(schedulers') \in 1..MaxSchedulers
    <3>1. schedulers \in Seq(Limits \cup {DefaultLimit}) /\ Len(schedulers) \in 1..MaxSchedulers /\ limit \in Limits \cup {DefaultLimit}
      BY <1>1 DEF T!TypeOK, WorkersHaveJobs
    <3>2. Append(schedulers, limit) \in Seq(Limits \cup {DefaultLimit}) /\ Len(Append(schedulers, limit)) = Len(schedulers) + 1
      BY <3>1
    <3>3. MaxSchedulers \in Nat
      BY DEF T!TranscriptionAssumption
    <3> QED BY <1>6, <3>1, <3>2, <3>3 DEF T!StartLive
  <2>4. WorkersHaveJobs' /\ T!NothingLeftBehind'
    BY <1>1, <1>6, <2>3 DEF WorkersHaveJobs, T!NothingLeftBehind, T!StartLive
  <2>5. T!TypeOK'
    BY <1>1, <1>6, <2>2, <2>3 DEF T!TypeOK, T!StartLive, T!counters
  <2> QED BY <2>1, <2>4, <2>5 DEF TranscriptionInv
<1>7. ASSUME NEW m \in WhisperModels, T!SelectModel(m) PROVE TranscriptionInv'
  <2>1. T!TypeOK' /\ WorkersHaveJobs' /\ T!NothingLeftBehind' /\ JobsRight'
    BY <1>1, <1>7, JobsUnmoved DEF T!TypeOK, WorkersHaveJobs, T!NothingLeftBehind, T!SelectModel, T!counters
  <2> QED BY <2>1 DEF TranscriptionInv
<1> QED BY <1>2, <1>3, <1>4, <1>5, <1>6, <1>7 DEF T!Operator

-----------------------------------------------------------------------------
(* The worker. *)

LEMMA WorkerIs == ASSUME T!TypeOK, WorkersHaveJobs, NEW w \in workers
  PROVE /\ w.user \in TranscribedUsers /\ w.job \in Nat /\ w.at \in {"ready", "queued", "permitted", "outdated", "heard", "written"}
        /\ w.scheduler \in 0..MaxSchedulers /\ (w.job = T!NoJob <=> w.at = "ready")
BY DEF T!TypeOK, WorkersHaveJobs, T!Worker

(* A step of a worker of whose user the rest is right leaves all right. *)
LEMMA WorkerLeaves ==
  ASSUME T!TypeOK, WorkersHaveJobs, JobsRight, NEW w \in workers, OneEach', JobRight(w.user)',
         \A v \in workers' : v.user # w.user => v \in workers,
         \A u \in TranscribedUsers : u # w.user =>
            /\ AtWork(u)' <=> AtWork(u)
            /\ pending'[u] = pending[u] /\ made'[u] = made[u] /\ dropped'[u] = dropped[u] /\ stale'[u] = stale[u]
            /\ completed'[u] = completed[u] /\ missed'[u] = missed[u] /\ transcript'[u] = transcript[u]
  PROVE JobsRight'
<1>1. ASSUME NEW u \in TranscribedUsers, u # w.user PROVE JobRight(u)'
  <2>1. \A v \in workers' : v.user = u => v \in workers \/ v.job = T!NoJob
    BY <1>1
  <2> QED BY <1>1, <2>1, OthersRight DEF JobsRight
<1> QED BY <1>1 DEF JobsRight

(* A worker becomes one of the same user. *)
LEMMA WorkersTyped == ASSUME T!TypeOK, WorkersHaveJobs, NEW w \in workers, NEW after \in T!Worker, T!Becomes(w, after),
                             after.job = T!NoJob <=> after.at = "ready"
  PROVE workers' \subseteq T!Worker /\ \A v \in workers' : v.job = T!NoJob <=> v.at = "ready"
BY DEF T!TypeOK, WorkersHaveJobs, T!Becomes

LEMMA RetireStep == ASSUME T!TranscriptionAssumption, TranscriptionInv, NEW w \in workers, T!Retire(w) PROVE TranscriptionInv'
<1> DEFINE u == w.user
<1>1. T!TypeOK /\ WorkersHaveJobs /\ JobsRight /\ T!NothingLeftBehind /\ OneEach /\ JobQueueLimit \in Nat
  BY DEF TranscriptionInv, JobsRight, T!TranscriptionAssumption
<1>2. u \in TranscribedUsers /\ w.job = T!NoJob
  BY <1>1, WorkerIs DEF T!Retire
<1>3. /\ OneEach' /\ running' \in [TranscribedUsers -> BOOLEAN]
      /\ \A v \in workers' : v \in workers /\ v.user # u
      /\ AtWork(u) <=> w.job # T!NoJob
      /\ ~AtWork(u)'
      /\ \A v \in TranscribedUsers : v # u => (AtWork(v)' <=> AtWork(v))
  BY <1>1, WorkerEnds DEF T!Retire
<1>4. T!StaleIn(u) \in Nat /\ Len(pending[u]) = T!StaleIn(u) /\ T!Fresh(u) = <<>>
  BY <1>1, <1>2, FreshJobs DEF T!Retire
<1>5. pending' \in [TranscribedUsers -> Seq(Nat)] /\ \A v \in TranscribedUsers : pending'[v] = IF v = u THEN <<>> ELSE pending[v]
  BY <1>1, <1>2 DEF T!TypeOK, T!Retire
<1>6. stale' \in [TranscribedUsers -> Nat] /\ \A v \in TranscribedUsers : stale'[v] = IF v = u THEN stale[u] + T!StaleIn(u) ELSE stale[v]
  BY <1>1, <1>2, StaleTyped DEF T!Retire
<1>7. UNCHANGED <<active, chunk, made, dropped, completed, missed, transcript>>
  BY DEF T!Retire, T!operator
<1> HIDE DEF u
<1>8. JobRight(u)'
  <2>1. Counted(u, Len(pending[u]), stale[u]) /\ Spoken(u, pending[u])
    BY <1>1, <1>2 DEF JobsRight, JobRight
  <2>2. UnderWay(u) = 0 /\ UnderWay(u)' = 0
    BY <1>2, <1>3 DEF UnderWay
  <2>3. pending'[u] = <<>> /\ stale'[u] = stale[u] + T!StaleIn(u) /\ Len(pending'[u]) = 0
    BY <1>2, <1>5, <1>6
  <2>4. made[u] = dropped[u] + (stale[u] + T!StaleIn(u)) + completed[u] + missed[u] + 0 + 0
    <3>1. made[u] = dropped[u] + stale[u] + completed[u] + missed[u] + T!StaleIn(u) + 0
      BY <1>4, <2>1, <2>2 DEF Counted
    <3> QED BY <1>1, <1>2, <1>4, <3>1, NumbersOf
  <2>5. Counted(u, Len(pending[u]), stale[u])'
    BY <1>7, <2>2, <2>3, <2>4 DEF Counted
  <2>6. Spoken(u, <<>>)
    BY <2>1, NoneInOrder
  <2>7. Spoken(u, pending[u])'
    <3>1. \A v \in workers' : v.user = u /\ v.job # T!NoJob =>
                             \E x \in workers : x.user = u /\ x.job = v.job /\ (x.at = "written" => v.at = "written")
      BY <1>3
    <3> QED BY <1>7, <2>3, <2>6, <3>1, OrderStays
  <2> QED BY <2>5, <2>7 DEF JobRight
<1>9. JobsRight'
  BY <1>1, <1>3, <1>5, <1>6, <1>7, <1>8, WorkerLeaves DEF u
<1>10. T!TypeOK'
  <2>1. \A v \in TranscribedUsers : Len(pending'[v]) <= JobQueueLimit
    BY <1>1, <1>5, NumbersOf
  <2>2. workers' \subseteq T!Worker
    BY <1>1, <1>3 DEF T!TypeOK
  <2>3. UNCHANGED <<T!operator, chunk, late, made, dropped, completed, missed, transcript>>
    BY DEF T!Retire
  <2> QED BY <1>1, <1>3, <1>5, <1>6, <2>1, <2>2, <2>3 DEF T!TypeOK, T!operator
<1>11. WorkersHaveJobs' /\ T!NothingLeftBehind'
  BY <1>1, <1>3 DEF WorkersHaveJobs, T!NothingLeftBehind, T!Retire, T!operator
<1> QED BY <1>9, <1>10, <1>11 DEF TranscriptionInv

(* The head of what is fresh leaves the queue. *)
LEMMA FreshTaken == ASSUME T!TranscriptionAssumption, T!TypeOK, NEW u \in TranscribedUsers, T!Fresh(u) # <<>>,
                           pending' = [pending EXCEPT ![u] = Tail(T!Fresh(u))], T!DropStale(u)
  PROVE /\ pending' \in [TranscribedUsers -> Seq(Nat)] /\ \A v \in TranscribedUsers : pending'[v] = IF v = u THEN Tail(T!Fresh(u)) ELSE pending[v]
        /\ \A v \in TranscribedUsers : Len(pending'[v]) <= JobQueueLimit
        /\ stale' \in [TranscribedUsers -> Nat] /\ \A v \in TranscribedUsers : v # u => stale'[v] = stale[v]
        /\ stale'[u] + Len(Tail(T!Fresh(u))) + 1 = stale[u] + Len(pending[u]) /\ stale'[u] \in Nat
        /\ Len(Tail(T!Fresh(u))) \in Nat
        /\ Head(T!Fresh(u)) \in Nat
<1>1. /\ T!Fresh(u) \in Seq(Nat) /\ Len(T!Fresh(u)) \in Nat /\ T!StaleIn(u) \in Nat
      /\ Len(pending[u]) = Len(T!Fresh(u)) + T!StaleIn(u)
  BY FreshJobs
<1>2. /\ Head(T!Fresh(u)) \in Nat /\ Tail(T!Fresh(u)) \in Seq(Nat) /\ Len(T!Fresh(u)) >= 1
      /\ Len(Tail(T!Fresh(u))) = Len(T!Fresh(u)) - 1
  BY <1>1, HeadOfJobs
<1>3. pending' \in [TranscribedUsers -> Seq(Nat)] /\ \A v \in TranscribedUsers : pending'[v] = IF v = u THEN Tail(T!Fresh(u)) ELSE pending[v]
  BY <1>2 DEF T!TypeOK
<1>4. stale' \in [TranscribedUsers -> Nat] /\ \A v \in TranscribedUsers : stale'[v] = IF v = u THEN stale[u] + T!StaleIn(u) ELSE stale[v]
  BY StaleTyped
<1>5. JobQueueLimit \in Nat
  BY DEF T!TranscriptionAssumption
<1>6. \A v \in TranscribedUsers : Len(pending'[v]) <= JobQueueLimit
  BY <1>1, <1>2, <1>3, <1>5, NumbersOf
<1>7. stale'[u] + Len(Tail(T!Fresh(u))) + 1 = stale[u] + Len(pending[u])
  <2>1. stale'[u] = stale[u] + T!StaleIn(u) /\ stale[u] \in Nat
    BY <1>4, NumbersOf
  <2> QED BY <1>1, <1>2, <2>1
<1>8. Len(Tail(T!Fresh(u))) \in Nat
  BY <1>1, <1>2
<1> QED BY <1>2, <1>3, <1>4, <1>6, <1>7, <1>8

(* What is left of the queue is in order, and after the job that was taken. *)
LEMMA TakenInOrder == ASSUME T!TypeOK, NEW u \in TranscribedUsers, Spoken(u, pending[u]), T!Fresh(u) # <<>>
  PROVE /\ Spoken(u, Tail(T!Fresh(u))) /\ Within(Tail(T!Fresh(u)), Head(T!Fresh(u)), made[u])
        /\ 0 < Head(T!Fresh(u)) /\ Head(T!Fresh(u)) <= made[u]
        /\ \A k \in 1..Len(transcript[u]) : transcript[u][k] < Head(T!Fresh(u))
<1> DEFINE q == T!Fresh(u)
           r == Tail(q)
<1>1. Spoken(u, q)
  BY FreshInOrder
<1>2. q \in Seq(Nat) /\ q # <<>>
  BY FreshJobs
<1>3. /\ Head(q) \in Nat /\ r \in Seq(Nat) /\ Len(q) \in Nat /\ Len(q) >= 1 /\ Len(r) = Len(q) - 1
      /\ Head(q) = q[1] /\ \A i \in 1..Len(r) : i + 1 \in 1..Len(q) /\ r[i] = q[i + 1]
  BY <1>2, HeadOfJobs
<1> HIDE DEF q, r
<1>4. Len(r) \in Nat /\ 1 \in Nat /\ 1 \in 1..Len(q)
  BY <1>3
<1>5. /\ Increasing(q) => Increasing(r)
      /\ \A low, high : Within(q, low, high) => Within(r, low, high)
  BY <1>3, <1>4, RestIncreases
<1>6. Spoken(u, r)
  BY <1>1, <1>5 DEF Spoken
<1>7. Within(r, q[1], made[u])
  <2> SUFFICES ASSUME NEW i \in 1..Len(r) PROVE q[1] < r[i] /\ r[i] <= made[u]
    BY DEF Within
  <2>1. i + 1 \in 1..Len(q) /\ r[i] = q[i + 1] /\ 1 < i + 1
    BY <1>3, <1>4
  <2>2. q[1] < q[i + 1]
    BY <1>1, <1>4, <2>1 DEF Spoken, Increasing
  <2>3. q[i + 1] <= made[u]
    BY <1>1, <2>1 DEF Spoken, Within
  <2> QED BY <2>1, <2>2, <2>3
<1>8. 0 < q[1] /\ q[1] <= made[u]
  BY <1>1, <1>4 DEF Spoken, Within
<1>9. \A k \in 1..Len(transcript[u]) : transcript[u][k] < q[1]
  BY <1>1, <1>4 DEF Spoken, Within
<1> QED BY <1>3, <1>6, <1>7, <1>8, <1>9 DEF q, r

(* The job that is taken is missed, or under way. *)
LEMMA TakenCounts ==
  ASSUME T!TypeOK, NEW u \in TranscribedUsers, stale'[u] \in Nat, Len(Tail(T!Fresh(u))) \in Nat,
         stale'[u] + Len(Tail(T!Fresh(u))) + 1 = stale[u] + Len(pending[u]),
         made[u] = dropped[u] + stale[u] + completed[u] + missed[u] + Len(pending[u]) + 0
  PROVE /\ made[u] = dropped[u] + stale'[u] + completed[u] + missed[u] + Len(Tail(T!Fresh(u))) + 1
        /\ made[u] = dropped[u] + stale'[u] + completed[u] + (missed[u] + 1) + Len(Tail(T!Fresh(u))) + 0
<1> DEFINE m == made[u]
           d == dropped[u]
           g == stale[u]
           c == completed[u]
           n == missed[u]
           q == Len(pending[u])
           after == stale'[u]
           left == Len(Tail(T!Fresh(u)))
<1>1. m \in Nat /\ d \in Nat /\ g \in Nat /\ c \in Nat /\ n \in Nat /\ q \in Nat
  BY NumbersOf
<1>2. after \in Nat /\ left \in Nat /\ after + left + 1 = g + q /\ m = d + g + c + n + q + 0
  OBVIOUS
<1>3. m = d + after + c + n + left + 1 /\ m = d + after + c + (n + 1) + left + 0
  <2> HIDE DEF m, d, g, c, n, q, after, left
  <2> QED BY <1>1, <1>2
<1> QED BY <1>3

LEMMA RetireUnloadedStep == ASSUME T!TranscriptionAssumption, TranscriptionInv, NEW w \in workers, T!RetireUnloaded(w)
  PROVE TranscriptionInv'
<1> DEFINE u == w.user
<1>1. T!TypeOK /\ WorkersHaveJobs /\ JobsRight /\ T!NothingLeftBehind /\ OneEach
  BY DEF TranscriptionInv, JobsRight
<1>2. u \in TranscribedUsers /\ w.job = T!NoJob /\ T!Fresh(u) # <<>>
  BY <1>1, WorkerIs DEF T!RetireUnloaded
<1>3. /\ OneEach' /\ running' \in [TranscribedUsers -> BOOLEAN]
      /\ \A v \in workers' : v \in workers /\ v.user # u
      /\ AtWork(u) <=> w.job # T!NoJob
      /\ ~AtWork(u)'
      /\ \A v \in TranscribedUsers : v # u => (AtWork(v)' <=> AtWork(v))
  BY <1>1, WorkerEnds DEF T!RetireUnloaded
<1>4. /\ pending' \in [TranscribedUsers -> Seq(Nat)] /\ \A v \in TranscribedUsers : pending'[v] = IF v = u THEN Tail(T!Fresh(u)) ELSE pending[v]
      /\ \A v \in TranscribedUsers : Len(pending'[v]) <= JobQueueLimit
      /\ stale' \in [TranscribedUsers -> Nat] /\ \A v \in TranscribedUsers : v # u => stale'[v] = stale[v]
      /\ stale'[u] + Len(Tail(T!Fresh(u))) + 1 = stale[u] + Len(pending[u]) /\ stale'[u] \in Nat
      /\ Len(Tail(T!Fresh(u))) \in Nat
  BY <1>1, <1>2, FreshTaken DEF T!RetireUnloaded
<1>5. missed' \in [TranscribedUsers -> Nat] /\ \A v \in TranscribedUsers : missed'[v] = IF v = u THEN missed[u] + 1 ELSE missed[v]
  BY <1>1, <1>2 DEF T!TypeOK, T!RetireUnloaded, T!Missed
<1>6. UNCHANGED <<T!operator, chunk, late, made, dropped, completed, transcript>>
  BY DEF T!RetireUnloaded
<1> HIDE DEF u
<1>7. JobRight(u)'
  <2>1. Counted(u, Len(pending[u]), stale[u]) /\ Spoken(u, pending[u])
    BY <1>1, <1>2 DEF JobsRight, JobRight
  <2>2. UnderWay(u) = 0 /\ UnderWay(u)' = 0
    BY <1>2, <1>3 DEF UnderWay
  <2>3. pending'[u] = Tail(T!Fresh(u)) /\ missed'[u] = missed[u] + 1
    BY <1>2, <1>4, <1>5
  <2>4. made[u] = dropped[u] + stale'[u] + completed[u] + (missed[u] + 1) + Len(Tail(T!Fresh(u))) + 0
    <3>1. made[u] = dropped[u] + stale[u] + completed[u] + missed[u] + Len(pending[u]) + 0
      BY <2>1, <2>2 DEF Counted
    <3> QED BY <1>1, <1>2, <1>4, <3>1, TakenCounts
  <2>5. Counted(u, Len(pending[u]), stale[u])'
    BY <1>6, <2>2, <2>3, <2>4 DEF Counted
  <2>6. Spoken(u, Tail(T!Fresh(u)))
    BY <1>1, <1>2, <2>1, TakenInOrder
  <2>7. Spoken(u, pending[u])'
    <3>1. \A v \in workers' : v.user = u /\ v.job # T!NoJob =>
                             \E x \in workers : x.user = u /\ x.job = v.job /\ (x.at = "written" => v.at = "written")
      BY <1>3
    <3> QED BY <1>6, <2>3, <2>6, <3>1, OrderStays
  <2> QED BY <2>5, <2>7 DEF JobRight
<1>8. JobsRight'
  BY <1>1, <1>3, <1>4, <1>5, <1>6, <1>7, WorkerLeaves, ZenonT(60) DEF u
<1>9. T!TypeOK'
  <2>1. workers' \subseteq T!Worker
    BY <1>1, <1>3 DEF T!TypeOK
  <2> QED BY <1>1, <1>3, <1>4, <1>5, <1>6, <2>1, ZenonT(60) DEF T!TypeOK, T!operator
<1>10. WorkersHaveJobs' /\ T!NothingLeftBehind'
  BY <1>1, <1>3, <1>6 DEF WorkersHaveJobs, T!NothingLeftBehind, T!operator
<1> QED BY <1>8, <1>9, <1>10 DEF TranscriptionInv

LEMMA TakeStep == ASSUME T!TranscriptionAssumption, TranscriptionInv, NEW w \in workers, T!Take(w) PROVE TranscriptionInv'
<1> DEFINE u == w.user
           after == [w EXCEPT !.at = "queued", !.job = Head(T!Fresh(w.user)), !.scheduler = Len(schedulers)]
<1>1. T!TypeOK /\ WorkersHaveJobs /\ JobsRight /\ T!NothingLeftBehind /\ OneEach
  BY DEF TranscriptionInv, JobsRight
<1>2. u \in TranscribedUsers /\ w.job = T!NoJob /\ T!Fresh(u) # <<>>
  BY <1>1, WorkerIs DEF T!Take
<1>3. T!Becomes(w, after) /\ running' = running
  BY DEF T!Take
<1>4. /\ pending' \in [TranscribedUsers -> Seq(Nat)] /\ \A v \in TranscribedUsers : pending'[v] = IF v = u THEN Tail(T!Fresh(u)) ELSE pending[v]
      /\ \A v \in TranscribedUsers : Len(pending'[v]) <= JobQueueLimit
      /\ stale' \in [TranscribedUsers -> Nat] /\ \A v \in TranscribedUsers : v # u => stale'[v] = stale[v]
      /\ stale'[u] + Len(Tail(T!Fresh(u))) + 1 = stale[u] + Len(pending[u]) /\ stale'[u] \in Nat
      /\ Len(Tail(T!Fresh(u))) \in Nat
      /\ Head(T!Fresh(u)) \in Nat
  BY <1>1, <1>2, FreshTaken DEF T!Take
<1>5. UNCHANGED <<T!operator, chunk, late, made, dropped, completed, missed, transcript>>
  BY DEF T!Take
<1>6. /\ Spoken(u, Tail(T!Fresh(u))) /\ Within(Tail(T!Fresh(u)), Head(T!Fresh(u)), made[u])
      /\ 0 < Head(T!Fresh(u)) /\ Head(T!Fresh(u)) <= made[u]
      /\ \A k \in 1..Len(transcript[u]) : transcript[u][k] < Head(T!Fresh(u))
  BY <1>1, <1>2, TakenInOrder DEF JobsRight, JobRight
<1>7. after \in T!Worker /\ after.user = u /\ after.at = "queued" /\ after.job = Head(T!Fresh(u)) /\ after.job # T!NoJob
  <2>1. w \in T!Worker /\ Len(schedulers) \in 0..MaxSchedulers
    BY <1>1 DEF T!TypeOK, WorkersHaveJobs
  <2>2. after \in T!Worker
    BY <1>4, <2>1 DEF T!Worker
  <2>3. after.user = u /\ after.at = "queued" /\ after.job = Head(T!Fresh(u))
    BY <2>1 DEF T!Worker
  <2>4. Head(T!Fresh(u)) # 0
    BY <1>4, <1>6
  <2> QED BY <2>2, <2>3, <2>4 DEF T!NoJob
<1> HIDE DEF u, after
<1>8. /\ OneEach'
      /\ \A v \in workers' : v = after \/ (v \in workers /\ v.user # u)
      /\ AtWork(u) <=> w.job # T!NoJob
      /\ AtWork(u)' <=> after.job # T!NoJob
      /\ \A v \in TranscribedUsers : v # u => (AtWork(v)' <=> AtWork(v))
  BY <1>1, <1>3, <1>7, WorkerBecomes DEF u
<1>9. workers' \subseteq T!Worker /\ \A v \in workers' : v.job = T!NoJob <=> v.at = "ready"
  BY <1>1, <1>3, <1>7, WorkersTyped
<1>10. JobRight(u)'
  <2>1. Counted(u, Len(pending[u]), stale[u]) /\ Spoken(u, pending[u])
    BY <1>1, <1>2 DEF JobsRight, JobRight
  <2>2. UnderWay(u) = 0 /\ UnderWay(u)' = 1
    BY <1>2, <1>7, <1>8 DEF UnderWay
  <2>3. pending'[u] = Tail(T!Fresh(u)) /\ made'[u] = made[u] /\ transcript'[u] = transcript[u]
    BY <1>2, <1>4, <1>5
  <2>4. made[u] = dropped[u] + stale'[u] + completed[u] + missed[u] + Len(Tail(T!Fresh(u))) + 1
    <3>1. made[u] = dropped[u] + stale[u] + completed[u] + missed[u] + Len(pending[u]) + 0
      BY <2>1, <2>2 DEF Counted
    <3> QED BY <1>1, <1>2, <1>4, <3>1, TakenCounts
  <2>5. Counted(u, Len(pending[u]), stale[u])'
    BY <1>5, <2>2, <2>3, <2>4 DEF Counted
  <2>6. \A v \in workers' : v.user = u => v = after
    BY <1>8
  <2>7. Spoken(u, pending[u])'
    BY <1>6, <1>7, <2>3, <2>6 DEF Spoken, Increasing, Within
  <2> QED BY <2>5, <2>7 DEF JobRight
<1>11. JobsRight'
  <2>1. \A v \in workers' : v.user # u => v \in workers
    BY <1>7, <1>8
  <2> QED BY <1>1, <1>4, <1>5, <1>8, <1>10, <2>1, WorkerLeaves DEF u
<1>12. T!TypeOK'
  BY <1>1, <1>3, <1>4, <1>5, <1>9, ZenonT(60) DEF T!TypeOK, T!operator
<1>13. WorkersHaveJobs' /\ T!NothingLeftBehind'
  BY <1>1, <1>5, <1>9 DEF WorkersHaveJobs, T!NothingLeftBehind, T!operator
<1> QED BY <1>11, <1>12, <1>13 DEF TranscriptionInv

(* The text of a worker's job comes after all that was written, and before the jobs that wait. *)
LEMMA WrittenInOrder ==
  ASSUME T!TypeOK, NEW w \in workers, w.user \in TranscribedUsers, w.job \in Nat, w.job # T!NoJob, w.at = "heard",
         Spoken(w.user, pending[w.user]),
         NEW after, after.user = w.user, after.job = w.job, after.at = "written",
         \A v \in workers' : v = after \/ v.user # w.user,
         transcript'[w.user] = Append(transcript[w.user], w.job),
         pending'[w.user] = pending[w.user], made'[w.user] = made[w.user]
  PROVE Spoken(w.user, pending[w.user])'
<1> DEFINE u == w.user
           q == pending[u]
           m == made[u]
           t == transcript[u]
           r == Append(t, w.job)
<1>1. m \in Nat /\ t \in Seq(Nat) /\ q \in Seq(Nat)
  BY DEF T!TypeOK
<1>2. /\ Increasing(q) /\ Within(q, 0, m) /\ Increasing(t) /\ Within(t, 0, m)
      /\ \A k \in 1..Len(t) : Within(q, t[k], m)
      /\ 0 < w.job /\ w.job <= m /\ Within(q, w.job, m)
      /\ \A k \in 1..Len(t) : t[k] < w.job
  BY DEF Spoken
<1>3. transcript'[u] = r /\ pending'[u] = q /\ made'[u] = m
  OBVIOUS
<1>4. u = w.user
  OBVIOUS
<1> HIDE DEF u, q, m, t
<1>5. /\ r \in Seq(Nat) /\ Len(r) = Len(t) + 1 /\ Len(t) \in Nat
      /\ \A i \in 1..Len(r) : r[i] = IF i <= Len(t) THEN t[i] ELSE w.job
  BY <1>1, AppendOfJob
<1>6. \A k \in 1..Len(t) : t[k] \in Nat
  BY <1>1
<1> HIDE DEF r
<1>7. ASSUME NEW k \in 1..Len(r) PROVE (k \in 1..Len(t) /\ r[k] = t[k]) \/ r[k] = w.job
  BY <1>5
<1>8. Increasing(r)
  <2> SUFFICES ASSUME NEW i \in 1..Len(r), NEW j \in 1..Len(r), i < j PROVE r[i] < r[j]
    BY DEF Increasing
  <2>1. i \in 1..Len(t) /\ r[i] = t[i]
    BY <1>5
  <2>2. CASE j <= Len(t)
    <3>1. j \in 1..Len(t) /\ r[j] = t[j]
      BY <1>5, <2>2, SMTT(30)
    <3> QED BY <1>2, <2>1, <3>1 DEF Increasing
  <2>3. CASE ~(j <= Len(t))
    BY <1>2, <1>5, <2>1, <2>3
  <2> QED BY <2>2, <2>3
<1>9. Within(r, 0, m)
  <2> SUFFICES ASSUME NEW i \in 1..Len(r) PROVE 0 < r[i] /\ r[i] <= m
    BY DEF Within
  <2>1. CASE i \in 1..Len(t) /\ r[i] = t[i]
    BY <1>2, <2>1 DEF Within
  <2> QED BY <1>2, <1>7, <2>1
<1>10. \A k \in 1..Len(r) : Within(q, r[k], m)
  <2> TAKE k \in 1..Len(r)
  <2>1. CASE k \in 1..Len(t) /\ r[k] = t[k]
    BY <1>2, <2>1
  <2> QED BY <1>2, <1>7, <2>1
<1>11. ASSUME NEW v \in workers', v.user = u, v.job # T!NoJob
       PROVE  /\ 0 < v.job /\ v.job <= m /\ Within(q, v.job, m)
              /\ \A k \in 1..Len(r) : r[k] < v.job \/ (v.at = "written" /\ r[k] = v.job)
  <2>1. v = after
    BY <1>4, <1>11
  <2>2. v.job = w.job /\ v.at = "written"
    BY <2>1
  <2>3. \A k \in 1..Len(r) : r[k] < w.job \/ r[k] = w.job
    BY <1>2, <1>7
  <2> QED BY <1>2, <2>2, <2>3
<1>12. Spoken(u, pending[u])'
  BY <1>2, <1>3, <1>8, <1>9, <1>10, <1>11 DEF Spoken, Increasing, Within
<1> QED BY <1>12 DEF u

LEMMA OneCounted == \A a, b, c \in Nat : /\ (a + 1) + b + c = a + b + c + 1 /\ a + (b + 1) + c = a + b + c + 1
                                         /\ a + b + (c + 1) = a + b + c + 1
OBVIOUS

(* The turn of a worker ends: its job is counted, or missed. *)
LEMMA TurnEnds ==
  ASSUME T!TranscriptionAssumption, T!TypeOK, WorkersHaveJobs, JobsRight, NEW w \in workers, w.job # T!NoJob,
         T!Becomes(w, T!Again(w)), UNCHANGED <<running, pending, made, dropped, transcript>>,
         stale' \in [TranscribedUsers -> Nat], completed' \in [TranscribedUsers -> Nat], missed' \in [TranscribedUsers -> Nat],
         \A u \in TranscribedUsers : u # w.user => stale'[u] = stale[u] /\ completed'[u] = completed[u] /\ missed'[u] = missed[u],
         stale'[w.user] + completed'[w.user] + missed'[w.user] = stale[w.user] + completed[w.user] + missed[w.user] + 1
  PROVE JobsRight' /\ workers' \subseteq T!Worker /\ \A v \in workers' : v.job = T!NoJob <=> v.at = "ready"
<1> DEFINE u == w.user
           after == T!Again(w)
<1>1. u \in TranscribedUsers /\ OneEach
  BY WorkerIs DEF JobsRight
<1>2. after \in T!Worker /\ after.user = u /\ after.at = "ready" /\ after.job = T!NoJob
  BY <1>1, ReadyHas, ReadyIsWorker DEF T!Again
<1> HIDE DEF u, after
<1>3. /\ OneEach'
      /\ \A v \in workers' : v = after \/ (v \in workers /\ v.user # u)
      /\ AtWork(u) <=> w.job # T!NoJob
      /\ AtWork(u)' <=> after.job # T!NoJob
      /\ \A v \in TranscribedUsers : v # u => (AtWork(v)' <=> AtWork(v))
  BY <1>1, <1>2, WorkerBecomes DEF u, after
<1>4. workers' \subseteq T!Worker /\ \A v \in workers' : v.job = T!NoJob <=> v.at = "ready"
  BY <1>2, WorkersTyped DEF after
<1>5. JobRight(u)'
  <2>1. Counted(u, Len(pending[u]), stale[u]) /\ Spoken(u, pending[u])
    BY <1>1 DEF JobsRight, JobRight
  <2>2. UnderWay(u) = 1 /\ UnderWay(u)' = 0
    BY <1>2, <1>3 DEF UnderWay
  <2>3. made[u] = dropped[u] + stale'[u] + completed'[u] + missed'[u] + Len(pending[u]) + 0
    <3> DEFINE m == made[u]
               d == dropped[u]
               g == stale[u]
               c == completed[u]
               n == missed[u]
               q == Len(pending[u])
               g2 == stale'[u]
               c2 == completed'[u]
               n2 == missed'[u]
    <3>1. m \in Nat /\ d \in Nat /\ g \in Nat /\ c \in Nat /\ n \in Nat /\ q \in Nat /\ m = d + g + c + n + q + 1
      BY <1>1, <2>1, <2>2, NumbersOf DEF Counted
    <3>2. g2 \in Nat /\ c2 \in Nat /\ n2 \in Nat /\ g2 + c2 + n2 = g + c + n + 1
      BY <1>1 DEF u
    <3>3. m = d + g2 + c2 + n2 + q + 0
      <4> HIDE DEF m, d, g, c, n, q, g2, c2, n2
      <4> QED BY <3>1, <3>2
    <3> QED BY <3>3
  <2>4. Counted(u, Len(pending[u]), stale[u])'
    BY <2>2, <2>3 DEF Counted
  <2>5. \A v \in workers' : v.user = u => v.job = T!NoJob
    BY <1>2, <1>3
  <2>6. Spoken(u, pending[u])'
    BY <2>1, <2>5, OrderStays
  <2> QED BY <2>4, <2>6 DEF JobRight
<1>6. JobsRight'
  <2>1. \A v \in workers' : v.user # u => v \in workers
    BY <1>2, <1>3
  <2> QED BY <1>1, <1>3, <1>5, <2>1, WorkerLeaves DEF u
<1> QED BY <1>4, <1>6

(* The worker goes on with its job. *)
LEMMA TurnGoesOn ==
  ASSUME T!TypeOK, WorkersHaveJobs, JobsRight, NEW w \in workers, NEW after \in T!Worker, T!Becomes(w, after),
         after.user = w.user, after.job = w.job, w.job # T!NoJob, after.at # "ready", w.at # "written",
         UNCHANGED <<running, pending, made, T!counters, transcript>>
  PROVE JobsRight' /\ workers' \subseteq T!Worker /\ \A v \in workers' : v.job = T!NoJob <=> v.at = "ready"
<1> DEFINE u == w.user
<1>1. u \in TranscribedUsers /\ OneEach /\ UNCHANGED <<dropped, stale, completed, missed>>
  BY WorkerIs DEF JobsRight, T!counters
<1> HIDE DEF u
<1>2. /\ OneEach'
      /\ \A v \in workers' : v = after \/ (v \in workers /\ v.user # u)
      /\ AtWork(u) <=> w.job # T!NoJob
      /\ AtWork(u)' <=> after.job # T!NoJob
      /\ \A v \in TranscribedUsers : v # u => (AtWork(v)' <=> AtWork(v))
  BY <1>1, WorkerBecomes DEF u
<1>3. workers' \subseteq T!Worker /\ \A v \in workers' : v.job = T!NoJob <=> v.at = "ready"
  BY WorkersTyped
<1>4. JobRight(u)'
  <2>1. Counted(u, Len(pending[u]), stale[u]) /\ Spoken(u, pending[u])
    BY <1>1 DEF JobsRight, JobRight
  <2>2. UnderWay(u)' = UnderWay(u)
    BY <1>2 DEF UnderWay
  <2>3. Counted(u, Len(pending[u]), stale[u])'
    BY <1>1, <2>1, <2>2 DEF Counted
  <2>4. \A v \in workers' : v.user = u /\ v.job # T!NoJob =>
          \E x \in workers : x.user = u /\ x.job = v.job /\ (x.at = "written" => v.at = "written")
    BY <1>2 DEF u
  <2>5. Spoken(u, pending[u])'
    BY <2>1, <2>4, OrderStays
  <2> QED BY <2>3, <2>5 DEF JobRight
<1>5. JobsRight'
  <2>1. \A v \in workers' : v.user # u => v \in workers
    BY <1>2 DEF u
  <2> QED BY <1>1, <1>2, <1>4, <2>1, WorkerLeaves DEF u
<1> QED BY <1>3, <1>5

LEMMA WorkerAt == ASSUME NEW w \in T!Worker, NEW place \in {"permitted", "outdated", "heard", "written"}
  PROVE LET after == [w EXCEPT !.at = place]
        IN after \in T!Worker /\ after.user = w.user /\ after.job = w.job /\ after.at = place
BY DEF T!Worker

LEMMA AcquireStep == ASSUME T!TranscriptionAssumption, TranscriptionInv, NEW w \in workers, T!Acquire(w) PROVE TranscriptionInv'
<1> DEFINE place == IF T!IsStale(w.user, w.job) THEN "outdated" ELSE "permitted"
           after == [w EXCEPT !.at = place]
<1>1. T!TypeOK /\ WorkersHaveJobs /\ JobsRight /\ T!NothingLeftBehind
  BY DEF TranscriptionInv
<1>2. T!Becomes(w, after) /\ w.at = "queued" /\ w.job # T!NoJob /\ w \in T!Worker
  BY <1>1 DEF T!Acquire, WorkersHaveJobs, T!TypeOK
<1>3. place \in {"outdated", "permitted"}
  OBVIOUS
<1> HIDE DEF place
<1>4. after \in T!Worker /\ after.user = w.user /\ after.job = w.job /\ after.at = place
  <2>1. place \in {"permitted", "outdated", "heard", "written"} /\ w \in T!Worker
    BY <1>2, <1>3
  <2> QED BY <2>1, WorkerAt
<1>5. UNCHANGED <<T!operator, chunk, late, pending, running, made, T!counters, transcript>>
  BY DEF T!Acquire
<1> HIDE DEF after
<1>6. JobsRight' /\ workers' \subseteq T!Worker /\ \A v \in workers' : v.job = T!NoJob <=> v.at = "ready"
  BY <1>1, <1>2, <1>3, <1>4, <1>5, TurnGoesOn
<1>7. T!TypeOK' /\ WorkersHaveJobs' /\ T!NothingLeftBehind'
  BY <1>1, <1>5, <1>6 DEF T!TypeOK, WorkersHaveJobs, T!NothingLeftBehind, T!operator, T!counters
<1> QED BY <1>6, <1>7 DEF TranscriptionInv

LEMMA CountStaleStep == ASSUME T!TranscriptionAssumption, TranscriptionInv, NEW w \in workers, T!CountStale(w) PROVE TranscriptionInv'
<1>1. T!TypeOK /\ WorkersHaveJobs /\ JobsRight /\ T!NothingLeftBehind
  BY DEF TranscriptionInv
<1>2. w.user \in TranscribedUsers /\ w.job # T!NoJob
  BY <1>1, WorkerIs DEF T!CountStale
<1>3. T!Becomes(w, T!Again(w)) /\ UNCHANGED <<T!operator, chunk, late, pending, running, made, dropped, completed, missed, transcript>>
  BY DEF T!CountStale
<1>4. stale' \in [TranscribedUsers -> Nat] /\ \A u \in TranscribedUsers : stale'[u] = IF u = w.user THEN stale[u] + 1 ELSE stale[u]
  BY <1>1, <1>2 DEF T!TypeOK, T!CountStale
<1>5. completed \in [TranscribedUsers -> Nat] /\ missed \in [TranscribedUsers -> Nat]
  BY <1>1 DEF T!TypeOK
<1>6. JobsRight' /\ workers' \subseteq T!Worker /\ \A v \in workers' : v.job = T!NoJob <=> v.at = "ready"
  <2>1. stale'[w.user] + completed'[w.user] + missed'[w.user] = stale[w.user] + completed[w.user] + missed[w.user] + 1
    <3>1. stale[w.user] \in Nat /\ completed[w.user] \in Nat /\ missed[w.user] \in Nat
      BY <1>1, <1>2, NumbersOf
    <3>2. stale'[w.user] = stale[w.user] + 1 /\ completed'[w.user] = completed[w.user] /\ missed'[w.user] = missed[w.user]
      BY <1>2, <1>3, <1>4
    <3> QED BY <3>1, <3>2, OneCounted
  <2> QED BY <1>1, <1>2, <1>3, <1>4, <1>5, <2>1, TurnEnds
<1>7. T!TypeOK' /\ WorkersHaveJobs' /\ T!NothingLeftBehind'
  BY <1>1, <1>3, <1>4, <1>6 DEF T!TypeOK, WorkersHaveJobs, T!NothingLeftBehind, T!operator
<1> QED BY <1>6, <1>7 DEF TranscriptionInv

LEMMA CountCompletedStep == ASSUME T!TranscriptionAssumption, TranscriptionInv, NEW w \in workers, T!CountCompleted(w)
  PROVE TranscriptionInv'
<1>1. T!TypeOK /\ WorkersHaveJobs /\ JobsRight /\ T!NothingLeftBehind
  BY DEF TranscriptionInv
<1>2. w.user \in TranscribedUsers /\ w.job # T!NoJob
  BY <1>1, WorkerIs DEF T!CountCompleted
<1>3. T!Becomes(w, T!Again(w)) /\ UNCHANGED <<T!operator, chunk, late, pending, running, made, dropped, stale, missed, transcript>>
  BY DEF T!CountCompleted
<1>4. completed' \in [TranscribedUsers -> Nat] /\ \A u \in TranscribedUsers : completed'[u] = IF u = w.user THEN completed[u] + 1 ELSE completed[u]
  BY <1>1, <1>2 DEF T!TypeOK, T!CountCompleted
<1>5. stale \in [TranscribedUsers -> Nat] /\ missed \in [TranscribedUsers -> Nat]
  BY <1>1 DEF T!TypeOK
<1>6. JobsRight' /\ workers' \subseteq T!Worker /\ \A v \in workers' : v.job = T!NoJob <=> v.at = "ready"
  <2>1. stale'[w.user] + completed'[w.user] + missed'[w.user] = stale[w.user] + completed[w.user] + missed[w.user] + 1
    <3>1. stale[w.user] \in Nat /\ completed[w.user] \in Nat /\ missed[w.user] \in Nat
      BY <1>1, <1>2, NumbersOf
    <3>2. stale'[w.user] = stale[w.user] /\ completed'[w.user] = completed[w.user] + 1 /\ missed'[w.user] = missed[w.user]
      BY <1>2, <1>3, <1>4
    <3> QED BY <3>1, <3>2, OneCounted
  <2> QED BY <1>1, <1>2, <1>3, <1>4, <1>5, <2>1, TurnEnds
<1>7. T!TypeOK' /\ WorkersHaveJobs' /\ T!NothingLeftBehind'
  BY <1>1, <1>3, <1>4, <1>6 DEF T!TypeOK, WorkersHaveJobs, T!NothingLeftBehind, T!operator
<1> QED BY <1>6, <1>7 DEF TranscriptionInv

(* A turn that ends without text. *)
LEMMA TurnMissed ==
  ASSUME T!TranscriptionAssumption, TranscriptionInv, NEW w \in workers, w.job # T!NoJob, T!Becomes(w, T!Again(w)), T!Missed(w),
         UNCHANGED <<T!operator, chunk, late, pending, running, made, dropped, stale, completed, transcript>>
  PROVE TranscriptionInv'
<1>1. T!TypeOK /\ WorkersHaveJobs /\ JobsRight /\ T!NothingLeftBehind
  BY DEF TranscriptionInv
<1>2. w.user \in TranscribedUsers
  BY <1>1, WorkerIs
<1>4. missed' \in [TranscribedUsers -> Nat] /\ \A u \in TranscribedUsers : missed'[u] = IF u = w.user THEN missed[u] + 1 ELSE missed[u]
  BY <1>1, <1>2 DEF T!TypeOK, T!Missed
<1>5. stale \in [TranscribedUsers -> Nat] /\ completed \in [TranscribedUsers -> Nat]
  BY <1>1 DEF T!TypeOK
<1>6. JobsRight' /\ workers' \subseteq T!Worker /\ \A v \in workers' : v.job = T!NoJob <=> v.at = "ready"
  <2>1. stale'[w.user] + completed'[w.user] + missed'[w.user] = stale[w.user] + completed[w.user] + missed[w.user] + 1
    BY <1>1, <1>2, <1>4, NumbersOf
  <2> QED BY <1>1, <1>2, <1>4, <1>5, <2>1, TurnEnds
<1>7. T!TypeOK' /\ WorkersHaveJobs' /\ T!NothingLeftBehind'
  BY <1>1, <1>4, <1>6 DEF T!TypeOK, WorkersHaveJobs, T!NothingLeftBehind, T!operator
<1> QED BY <1>6, <1>7 DEF TranscriptionInv

LEMMA RecogniseStep == ASSUME T!TranscriptionAssumption, TranscriptionInv, NEW w \in workers, T!Recognise(w) PROVE TranscriptionInv'
<1>1. T!TypeOK /\ WorkersHaveJobs /\ JobsRight /\ T!NothingLeftBehind
  BY DEF TranscriptionInv
<1>2. w.at = "permitted" /\ w.job # T!NoJob /\ w \in T!Worker
  BY <1>1 DEF T!Recognise, WorkersHaveJobs, T!TypeOK
<1>3. UNCHANGED <<T!operator, chunk, late, pending, running, made, dropped, stale, completed, transcript>>
  BY DEF T!Recognise
<1>4. CASE T!Becomes(w, [w EXCEPT !.at = "heard"]) /\ UNCHANGED missed
  <2> DEFINE after == [w EXCEPT !.at = "heard"]
  <2>1. after \in T!Worker /\ after.user = w.user /\ after.job = w.job /\ after.at = "heard"
    BY <1>2, WorkerAt
  <2>2. T!Becomes(w, after)
    BY <1>4
  <2> HIDE DEF after
  <2>3. JobsRight' /\ workers' \subseteq T!Worker /\ \A v \in workers' : v.job = T!NoJob <=> v.at = "ready"
    BY <1>1, <1>2, <1>3, <1>4, <2>1, <2>2, TurnGoesOn DEF T!counters
  <2>4. T!TypeOK' /\ WorkersHaveJobs' /\ T!NothingLeftBehind'
    BY <1>1, <1>3, <1>4, <2>3 DEF T!TypeOK, WorkersHaveJobs, T!NothingLeftBehind, T!operator
  <2> QED BY <2>3, <2>4 DEF TranscriptionInv
<1>5. CASE T!Becomes(w, T!Again(w)) /\ T!Missed(w)
  BY <1>2, <1>3, <1>5, TurnMissed
<1> QED BY <1>4, <1>5 DEF T!Recognise

LEMMA AppendSegmentStep == ASSUME T!TranscriptionAssumption, TranscriptionInv, NEW w \in workers, T!AppendSegment(w)
  PROVE TranscriptionInv'
<1>1. T!TypeOK /\ WorkersHaveJobs /\ JobsRight /\ T!NothingLeftBehind
  BY DEF TranscriptionInv
<1>2. w.at = "heard" /\ w.job # T!NoJob /\ w \in T!Worker
  BY <1>1 DEF T!AppendSegment, WorkersHaveJobs, T!TypeOK
<1>3. UNCHANGED <<T!operator, chunk, late, pending, running, made, dropped, stale, completed>>
  BY DEF T!AppendSegment
<1>4. ASSUME transcript' = [transcript EXCEPT ![w.user] = Append(@, w.job)],
             T!Becomes(w, [w EXCEPT !.at = "written"]), UNCHANGED missed
      PROVE  TranscriptionInv'
  <2> DEFINE after == [w EXCEPT !.at = "written"]
             u == w.user
             t == transcript[u]
  <2>1. after \in T!Worker /\ after.user = w.user /\ after.job = w.job /\ after.at = "written"
    BY <1>2, WorkerAt
  <2>2. T!Becomes(w, after) /\ u \in TranscribedUsers /\ w.job \in Nat /\ OneEach
    BY <1>1, <1>4, WorkerIs DEF JobsRight
  <2>3. /\ transcript' \in [TranscribedUsers -> Seq(Nat)] /\ transcript'[u] = Append(t, w.job)
        /\ \A v \in TranscribedUsers : v # u => transcript'[v] = transcript[v]
    BY <1>1, <1>4, <2>2 DEF T!TypeOK
  <2> HIDE DEF after, u
  <2>4. /\ OneEach'
        /\ \A v \in workers' : v = after \/ (v \in workers /\ v.user # u)
        /\ AtWork(u) <=> w.job # T!NoJob
        /\ AtWork(u)' <=> after.job # T!NoJob
        /\ \A v \in TranscribedUsers : v # u => (AtWork(v)' <=> AtWork(v))
    BY <1>3, <2>1, <2>2, WorkerBecomes DEF u
  <2>5. workers' \subseteq T!Worker /\ \A v \in workers' : v.job = T!NoJob <=> v.at = "ready"
    BY <1>1, <1>2, <2>1, <2>2, WorkersTyped
  <2>6. JobRight(u)'
    <3>1. Counted(u, Len(pending[u]), stale[u]) /\ Spoken(u, pending[u])
      BY <1>1, <2>2 DEF JobsRight, JobRight
    <3>2. UnderWay(u)' = UnderWay(u)
      BY <2>1, <2>4 DEF UnderWay
    <3>3. Counted(u, Len(pending[u]), stale[u])'
      BY <1>3, <1>4, <3>1, <3>2 DEF Counted
    <3>4. Spoken(u, pending[u])'
      <4>1. \A v \in workers' : v = after \/ v.user # w.user
        BY <2>4 DEF u
      <4>2. /\ transcript'[w.user] = Append(transcript[w.user], w.job)
            /\ pending'[w.user] = pending[w.user] /\ made'[w.user] = made[w.user]
        BY <1>3, <2>3 DEF u
      <4>3. Spoken(w.user, pending[w.user]) /\ w.user \in TranscribedUsers /\ w.job \in Nat
        BY <2>2, <3>1 DEF u
      <4>4. Spoken(w.user, pending[w.user])'
        BY <1>1, <1>2, <2>1, <4>1, <4>2, <4>3, WrittenInOrder
      <4> QED BY <4>4 DEF u
    <3> QED BY <3>3, <3>4 DEF JobRight
  <2>7. JobsRight'
    <3>1. \A v \in workers' : v.user # u => v \in workers
      BY <2>1, <2>4 DEF u
    <3> QED BY <1>1, <1>3, <1>4, <2>3, <2>4, <2>6, <3>1, WorkerLeaves DEF u
  <2>8. T!TypeOK' /\ WorkersHaveJobs' /\ T!NothingLeftBehind'
    BY <1>1, <1>3, <1>4, <2>3, <2>5 DEF T!TypeOK, WorkersHaveJobs, T!NothingLeftBehind, T!operator
  <2> QED BY <2>7, <2>8 DEF TranscriptionInv
<1>5. CASE T!Becomes(w, T!Again(w)) /\ T!Missed(w) /\ UNCHANGED transcript
  BY <1>2, <1>3, <1>5, TurnMissed
<1> QED BY <1>4, <1>5 DEF T!AppendSegment

-----------------------------------------------------------------------------
LEMMA TranscriptionInit == ASSUME T!TranscriptionAssumption, T!Init PROVE TranscriptionInv
<1> USE DEF T!Init
<1>1. Len(schedulers) = 1 /\ 1 \in 1..MaxSchedulers /\ schedulers \in Seq(Limits \cup {DefaultLimit})
  BY DEF T!TranscriptionAssumption
<1>2. T!TypeOK
  <2>1. \A u \in TranscribedUsers : pending[u] = <<>> /\ Len(pending[u]) = 0 /\ 0 <= JobQueueLimit
    BY DEF T!TranscriptionAssumption
  <2>2. pending \in [TranscribedUsers -> Seq(Nat)] /\ transcript \in [TranscribedUsers -> Seq(Nat)] /\ chunk \in [TranscribedUsers -> T!Chunk]
    BY DEF T!Chunk
  <2>3. late \in [TranscribedUsers -> Nat] /\ made \in [TranscribedUsers -> Nat] /\ \A f \in {dropped, stale, completed, missed} : f \in [TranscribedUsers -> Nat]
    OBVIOUS
  <2>4. active \in BOOLEAN /\ chosen \subseteq TranscribedUsers /\ starting \in BOOLEAN /\ running \in [TranscribedUsers -> BOOLEAN] /\ workers \subseteq T!Worker
    OBVIOUS
  <2> HIDE DEF T!Init
  <2>5. model \in WhisperModels /\ {context, loading} \subseteq WhisperModels \cup {NoWhisper}
    BY DEF T!Init
  <2> QED BY <1>1, <2>1, <2>2, <2>3, <2>4, <2>5 DEF T!TypeOK
<1>3. WorkersHaveJobs /\ T!NothingLeftBehind /\ OneEach
  BY <1>1 DEF WorkersHaveJobs, T!NothingLeftBehind, OneEach
<1>4. ASSUME NEW u \in TranscribedUsers PROVE JobRight(u)
  <2>1. UnderWay(u) = 0
    BY DEF UnderWay, AtWork
  <2>2. Counted(u, Len(pending[u]), stale[u])
    BY <2>1 DEF Counted
  <2>3. Spoken(u, pending[u])
    BY DEF Spoken, Increasing, Within
  <2> QED BY <2>2, <2>3 DEF JobRight
<1> QED BY <1>2, <1>3, <1>4 DEF TranscriptionInv, JobsRight

LEMMA TranscriptionStep == ASSUME T!TranscriptionAssumption, TranscriptionInv, [T!Next]_transcriptionVars PROVE TranscriptionInv'
<1>1. CASE UNCHANGED transcriptionVars
  <2>1. UNCHANGED <<active, chosen, model, context, loading, starting, schedulers>> /\ UNCHANGED <<dropped, stale, completed, missed>>
        /\ UNCHANGED <<chunk, late, pending, running, workers, made, T!counters, transcript>>
    BY <1>1 DEF transcriptionVars, T!operator, T!counters
  <2>2. JobsRight'
    BY <2>1, JobsUnmoved DEF TranscriptionInv
  <2>3. T!TypeOK' /\ WorkersHaveJobs' /\ T!NothingLeftBehind'
    BY <2>1 DEF TranscriptionInv, T!TypeOK, WorkersHaveJobs, T!NothingLeftBehind
  <2> QED BY <2>2, <2>3 DEF TranscriptionInv
<1>2. ASSUME NEW u \in TranscribedUsers, T!Ingest(u) PROVE TranscriptionInv'
  BY <1>2, IngestFrameStep, ChunkTooShortStep, ChunkEndsStep DEF T!Ingest
<1>3. ASSUME NEW w \in workers, T!Step(w) PROVE TranscriptionInv'
  BY <1>3, RetireStep, RetireUnloadedStep, TakeStep, AcquireStep, CountStaleStep, RecogniseStep, AppendSegmentStep,
     CountCompletedStep DEF T!Step
<1> QED BY <1>1, <1>2, <1>3, AgeStep, OperatorStep DEF T!Next

LEMMA TranscriptionIsRight == TranscriptionInv => T!TypeOK /\ T!OneWorker /\ T!JobsAccounted /\ T!TranscriptInOrder /\ T!NothingLeftBehind
<1> SUFFICES ASSUME TranscriptionInv PROVE T!OneWorker /\ T!JobsAccounted /\ T!TranscriptInOrder
  BY DEF TranscriptionInv
<1>1. T!TypeOK /\ OneEach /\ \A u \in TranscribedUsers : JobRight(u)
  BY DEF TranscriptionInv, JobsRight
<1>2. T!OneWorker
  <2> SUFFICES ASSUME NEW u \in TranscribedUsers PROVE Cardinality(T!Of(u)) = IF running[u] THEN 1 ELSE 0
    BY SameNumber DEF T!OneWorker
  <2>1. CASE running[u]
    <3>1. PICK w \in workers : w.user = u
      BY <1>1, <2>1 DEF OneEach
    <3>2. T!Of(u) = {w}
      BY <1>1, <3>1 DEF OneEach, T!Of
    <3> QED BY <2>1, <3>2, FS_Singleton
  <2>2. CASE ~running[u]
    <3>1. T!Of(u) = {}
      BY <1>1, <2>2 DEF OneEach, T!Of
    <3> QED BY <2>2, <3>1, FS_EmptySet
  <2> QED BY <2>1, <2>2
<1>3. T!JobsAccounted
  <2> SUFFICES ASSUME NEW u \in TranscribedUsers
               PROVE  made[u] = dropped[u] + stale[u] + completed[u] + missed[u]
                                + Len(pending[u]) + Cardinality({w \in T!Of(u) : w.job # T!NoJob})
    BY SameNumber DEF T!JobsAccounted
  <2> DEFINE busy == {w \in T!Of(u) : w.job # T!NoJob}
  <2>1. Cardinality(busy) = UnderWay(u)
    <3>1. CASE AtWork(u)
      <4>1. PICK w \in workers : w.user = u /\ w.job # T!NoJob
        BY <3>1 DEF AtWork
      <4>2. busy = {w}
        BY <1>1, <4>1 DEF OneEach, T!Of
      <4> QED BY <3>1, <4>2, FS_Singleton DEF UnderWay
    <3>2. CASE ~AtWork(u)
      <4>1. busy = {}
        BY <3>2 DEF AtWork, T!Of
      <4> QED BY <3>2, <4>1, FS_EmptySet DEF UnderWay
    <3> QED BY <3>1, <3>2
  <2> HIDE DEF busy
  <2>2. made[u] = dropped[u] + stale[u] + completed[u] + missed[u] + Len(pending[u]) + UnderWay(u)
    BY <1>1 DEF JobRight, Counted
  <2>3. made[u] = dropped[u] + stale[u] + completed[u] + missed[u] + Len(pending[u]) + Cardinality(busy)
    BY <2>1, <2>2
  <2> QED BY <2>3 DEF busy
<1>4. T!TranscriptInOrder
  <2>1. ASSUME NEW u \in TranscribedUsers PROVE Increasing(transcript[u]) /\ DOMAIN transcript[u] = 1..Len(transcript[u])
    BY <1>1 DEF JobRight, Spoken, T!TypeOK
  <2> QED BY <2>1 DEF T!TranscriptInOrder, Increasing
<1> QED BY <1>2, <1>3, <1>4

(* For any users, models, limits and bounds: a user has a worker exactly while worker_running
   says so, every job of a user is counted once or under way, and the transcript has the jobs
   in the order in which they were spoken, each once, whatever is dropped, goes stale or fails
   on the way (run_live_transcription_worker, transcribe_ingest_frame). *)
THEOREM TranscriptKeepsOrder == ASSUME T!TranscriptionAssumption PROVE Parts => []TranscriptionRight
<1>1. PartsInit => (part = "transcription" => TranscriptionInv)
  BY TranscriptionInit DEF PartsInit
<1>2. (part = "transcription" => TranscriptionInv) /\ [PartsNext]_partVars => (part = "transcription" => TranscriptionInv)'
  BY TranscriptionStep, PartsStep
<1>3. (part = "transcription" => TranscriptionInv) => TranscriptionRight
  BY TranscriptionIsRight DEF TranscriptionRight
<1> QED BY <1>1, <1>2, <1>3, PTL DEF Parts

-----------------------------------------------------------------------------
(* Codecs. *)
(* What a client sends: a registration, or a frame of the length that its codec has.  What
   the server sends was made for the configuration that its session had then. *)
SentUp ==
  {d \in [magic : {"IC"}, version : {2}, target : {"channel", "mixed"}, codec : C!Codecs,
          declared : Nat, bytes : Nat, channels : {1}, config : C!ConfigType] :
     /\ d.declared = d.bytes
     /\ d.target = "mixed" => d.bytes = 0
     /\ d.target = "channel" =>
          /\ d.codec \in C!Pcm => d.bytes = 2 * C!FrameLen(C!Rate(d.codec))
          /\ d.codec = "opus" => d.bytes # 0
          /\ d.codec # "adpcm"}
ChannelsOf(c) == IF C!Stereo(c) THEN 2 ELSE 1
SentDown ==
  {d \in [magic : {"IC"}, version : {2}, target : {"mixed"}, codec : C!Codecs \ {"adpcm"},
          declared : Nat, bytes : Nat, channels : {1, 2}, config : C!ConfigType] :
     /\ d.codec = d.config.codec /\ d.channels = ChannelsOf(d.config)
     /\ d.codec \in C!Pcm => d.bytes = 2 * d.channels * C!FrameLen(C!Rate(d.codec))
     /\ d.codec = "opus" => d.bytes # 0}

(* Before anything is configured, no client has ADPCM and none has named it. *)
NothingConfigured ==
  desired = NoConfig =>
    /\ pushes = <<>> /\ client.codec # "adpcm"
    /\ \A i \in DOMAIN packetsUp : packetsUp[i] \in SentUp => packetsUp[i].codec # "adpcm"

CodecTypes ==
  /\ desired \in CodecConfigs \cup {NoConfig}
  /\ session \in C!ConfigType /\ session.codec # "adpcm"
  /\ pushes \in Seq(C!ConfigType) /\ client \in C!ConfigType /\ encoder \in C!ConfigType
  /\ packetsUp \in Seq(SentUp \cup Strays) /\ Len(packetsUp) <= MaxFlight
  /\ packetsDown \in Seq(SentDown) /\ Len(packetsDown) <= MaxFlight
  /\ failed = 0 /\ codecChanges \in 0..MaxCodecChanges

CodecInv ==
  /\ CodecTypes /\ NothingConfigured
  /\ mixed = C!MixLen
  /\ playback.samples \in {0, C!MixLen * playback.channels}
  /\ C!LimitedTogether

(* A frame at each rate is 10 ms of it, and the mixer's is made of any of them. *)
LEMMA FrameLengths ==
  /\ C!FrameLen(16000) = 160 /\ C!FrameLen(24000) = 240 /\ C!FrameLen(48000) = 480 /\ C!MixLen = 480
  /\ \A codec \in C!Codecs : C!Rate(codec) \in {16000, 24000, 48000}
  /\ \A profile : C!ProfileRate(profile) \in {16000, 24000, 48000}
  /\ \A codec \in C!Codecs : C!Resampled(C!FrameLen(C!Rate(codec)), C!Rate(codec), C!MixRate) = C!MixLen
  /\ \A codec \in C!Codecs : C!Resampled(C!MixLen, C!MixRate, C!Rate(codec)) = C!FrameLen(C!Rate(codec))
  /\ \A profile : (C!FrameLen(C!ProfileRate(profile)) * C!MixRate) \div C!ProfileRate(profile) = C!MixLen
<1>1. C!FrameLen(16000) = 160 /\ C!FrameLen(24000) = 240 /\ C!FrameLen(48000) = 480 /\ C!MixLen = 480
  BY DEF C!FrameLen, C!MixLen, C!MixRate
<1>2. \A codec \in C!Codecs : C!Rate(codec) \in {16000, 24000, 48000}
  BY DEF C!Rate, C!Codecs, C!ProfileRate
<1>3. \A profile : C!ProfileRate(profile) \in {16000, 24000, 48000}
  BY DEF C!ProfileRate
<1>4. \A codec \in C!Codecs : C!Resampled(C!FrameLen(C!Rate(codec)), C!Rate(codec), C!MixRate) = C!MixLen
  BY <1>1, <1>2 DEF C!Resampled, C!MixRate
<1>5. \A codec \in C!Codecs : C!Resampled(C!MixLen, C!MixRate, C!Rate(codec)) = C!FrameLen(C!Rate(codec))
  BY <1>1, <1>2 DEF C!Resampled, C!MixRate
<1>6. ASSUME NEW profile
      PROVE (C!FrameLen(C!ProfileRate(profile)) * C!MixRate) \div C!ProfileRate(profile) = C!MixLen
  <2>1. CASE C!ProfileRate(profile) = 16000
    BY <2>1, <1>1 DEF C!MixRate
  <2>2. CASE C!ProfileRate(profile) = 24000
    BY <2>2, <1>1 DEF C!MixRate
  <2>3. CASE C!ProfileRate(profile) = 48000
    BY <2>3, <1>1 DEF C!MixRate
  <2> QED BY <2>1, <2>2, <2>3, <1>3
<1> QED BY <1>1, <1>2, <1>3, <1>4, <1>5, <1>6

LEMMA SmallerFactor == ASSUME NEW a \in Int, NEW b \in Int, NEW p \in Nat, p > 0, p * a < p * b PROVE a < b
<1>1. SUFFICES ASSUME a >= b PROVE FALSE
  OBVIOUS
<1>2. PICK k \in Nat : a = b + k
  <2>1. a - b \in Nat /\ a = b + (a - b)
    BY <1>1
  <2> QED BY <2>1
<1>3. p * a = p * b + p * k /\ p * k >= 0
  BY <1>2
<1>4. p * a \in Int /\ p * b \in Int /\ p * k \in Int
  BY <1>2
<1> QED BY <1>3, <1>4

(* Turned down by one and the same peak, what was twice as loud stays twice as loud. *)
LEMMA TurnedDown ==
  ASSUME NEW a \in Nat, NEW b \in Nat, NEW p \in Nat, p > C!Threshold, a <= p, b <= p
  PROVE  /\ (a * C!Threshold) \div p \in Nat /\ (a * C!Threshold) \div p <= C!Threshold
         /\ a >= 2 * b => (a * C!Threshold) \div p >= 2 * ((b * C!Threshold) \div p)
<1> DEFINE qa == (a * C!Threshold) \div p
           qb == (b * C!Threshold) \div p
<1>0. C!Threshold = 950 /\ p > 0
  BY DEF C!Threshold
<1>1. qa \in Int /\ p * qa <= a * 950 /\ a * 950 < p * (qa + 1)
  BY <1>0
<1>2. qb \in Int /\ p * qb <= b * 950 /\ b * 950 < p * (qb + 1)
  BY <1>0
<1> HIDE DEF qa, qb
<1>3. qa >= 0
  <2>1. p * 0 < p * (qa + 1)
    BY <1>0, <1>1
  <2> QED BY <2>1, <1>0, <1>1, SmallerFactor
<1>4. qa <= 950
  <2>1. p * qa < p * 951
    BY <1>0, <1>1
  <2> QED BY <2>1, <1>0, <1>1, SmallerFactor
<1>5. ASSUME a >= 2 * b PROVE qa >= 2 * qb
  <2>1. p * (2 * qb) = 2 * (p * qb) /\ p * qb \in Int /\ p * (qa + 1) \in Int
    BY <1>0, <1>1, <1>2
  <2>2. p * (2 * qb) < p * (qa + 1)
    BY <2>1, <1>1, <1>2, <1>5
  <2> QED BY <2>2, <1>0, <1>1, <1>2, SmallerFactor
<1> QED BY <1>0, <1>1, <1>3, <1>4, <1>5 DEF qa, qb

LEMMA LimiterKeeps ==
  ASSUME NEW mix \in Nat \X Nat
  PROVE  /\ C!Limited(mix)[1] <= C!Threshold /\ C!Limited(mix)[2] <= C!Threshold
         /\ \A i, j \in 1..2 : mix[i] >= 2 * mix[j] => C!Limited(mix)[i] >= 2 * C!Limited(mix)[j]
<1> DEFINE peak == C!Max({mix[1], mix[2]})
<1>1. mix[1] \in Nat /\ mix[2] \in Nat /\ mix = <<mix[1], mix[2]>>
  OBVIOUS
<1>2. peak \in {mix[1], mix[2]} /\ mix[1] <= peak /\ mix[2] <= peak
  <2>1. \E x \in {mix[1], mix[2]} : \A y \in {mix[1], mix[2]} : x >= y
    BY <1>1
  <2> QED BY <2>1 DEF C!Max
<1>3. peak \in Nat
  BY <1>1, <1>2
<1> HIDE DEF peak
<1>4. CASE peak > C!Threshold
  <2>1. C!Limited(mix) = [i \in 1..2 |-> (mix[i] * C!Threshold) \div peak]
    BY <1>4 DEF C!Limited, peak
  <2>2. \A i \in 1..2 : mix[i] \in Nat /\ mix[i] <= peak
    BY <1>1, <1>2
  <2>3. \A i \in 1..2 : (mix[i] * C!Threshold) \div peak <= C!Threshold
    BY <2>2, <1>3, <1>4, TurnedDown
  <2>4. \A i, j \in 1..2 : mix[i] >= 2 * mix[j] =>
          (mix[i] * C!Threshold) \div peak >= 2 * ((mix[j] * C!Threshold) \div peak)
    BY <2>2, <1>3, <1>4, TurnedDown
  <2> QED BY <2>1, <2>3, <2>4
<1>5. CASE peak <= C!Threshold
  <2>1. C!Limited(mix) = mix
    BY <1>5, <1>3 DEF C!Limited, peak, C!Threshold
  <2> QED BY <2>1, <1>1, <1>2, <1>5, <1>3 DEF C!Threshold
<1> QED BY <1>3, <1>4, <1>5 DEF C!Threshold

LEMMA ConfigFields ==
  ASSUME NEW c \in C!ConfigType
  PROVE  /\ c.codec \in C!Codecs /\ c.profile \in C!Profiles /\ c.stereo \in BOOLEAN
         /\ \A codec \in C!Codecs : [c EXCEPT !.codec = codec] \in C!ConfigType
         /\ \A codec : [c EXCEPT !.codec = codec].codec = codec
  BY DEF C!ConfigType

(* A codec that a session is given is one that can be encoded. *)
LEMMA SessionCanEncode ==
  ASSUME C!CodecAssumption, NEW c \in C!ConfigType
  PROVE  C!OnSession(c) \in C!ConfigType /\ C!OnSession(c).codec # "adpcm"
<1>1. (IF c.codec \in Supported THEN c.codec ELSE "pcm16") \in C!Codecs \ {"adpcm"}
  BY DEF C!CodecAssumption, C!Codecs
<1> QED BY <1>1, ConfigFields DEF C!OnSession

(* What a client sends and is no registration makes one frame of the mix, whatever the
   session is by then. *)
LEMMA SentUpIsRead ==
  ASSUME C!CodecAssumption, NEW d \in SentUp \cup Strays, C!Readable(d)
  PROVE  /\ d \in SentUp
         /\ ~C!IsRegistration(d) => \A s : C!DecodedAtServer(d, s) = C!MixLen
<1>1. d \in SentUp
  BY DEF C!CodecAssumption
<1>2. ASSUME ~C!IsRegistration(d), NEW s PROVE C!DecodedAtServer(d, s) = C!MixLen
  <2>1. d.codec \in C!Codecs /\ d.bytes \in Nat
    BY <1>1 DEF SentUp
  <2>2. d.target = "channel"
    <3>1. d.target \in {"channel", "mixed"} /\ (d.target = "mixed" => d.bytes = 0)
      BY <1>1 DEF SentUp
    <3> QED BY <3>1, <1>2 DEF C!IsRegistration
  <2>3. /\ d.codec \in C!Pcm => d.bytes = 2 * C!FrameLen(C!Rate(d.codec))
        /\ d.codec = "opus" => d.bytes # 0
        /\ d.codec # "adpcm"
    BY <1>1, <2>2 DEF SentUp
  <2>4. CASE d.codec \in C!Pcm
    <3>1. d.bytes \div 2 = C!FrameLen(C!Rate(d.codec))
      BY <2>4, <2>3, <2>1, FrameLengths
    <3>2. C!DecodedAtServer(d, s) = C!Resampled(C!FrameLen(C!Rate(d.codec)), C!Rate(d.codec), C!MixRate)
      BY <2>4, <2>3, <3>1 DEF C!DecodedAtServer, C!Pcm
    <3> QED BY <3>2, <2>1, FrameLengths
  <2>5. CASE d.codec = "opus"
    <3>1. C!DecodedAtServer(d, s) = (C!FrameLen(C!ProfileRate(s.profile)) * C!MixRate) \div C!ProfileRate(s.profile)
      BY <2>5, <2>3 DEF C!DecodedAtServer, C!Pcm
    <3> QED BY <3>1, FrameLengths
  <2> QED BY <2>1, <2>3, <2>4, <2>5 DEF C!Codecs, C!Pcm
<1> QED BY <1>1, <1>2

(* What the server sends makes one frame at the client or none. *)
LEMMA SentDownIsPlayed ==
  ASSUME NEW d \in SentDown, NEW c \in C!ConfigType
  PROVE  LET layout == C!ReceiveChannels(d, c)
         IN /\ C!DecodedAtClient(d, layout) \in {NoConfig, C!MixLen * layout}
            /\ layout \in {1, 2}
<1> DEFINE layout == C!ReceiveChannels(d, c)
<1>1. layout \in {1, 2} /\ (layout = 2 => d.codec \in {"pcm48", "opus"})
  BY DEF C!ReceiveChannels
<1>2. d.codec \in C!Codecs \ {"adpcm"} /\ d.bytes \in Nat
  BY DEF SentDown
<1> HIDE DEF layout
<1> SUFFICES C!DecodedAtClient(d, layout) \in {NoConfig, C!MixLen * layout}
  BY <1>1 DEF layout
<1>3. CASE d.codec \in C!Pcm /\ layout = 1
  <2>1. C!DecodedAtClient(d, layout) =
          IF d.bytes # 2 * 1 * C!FrameLen(C!Rate(d.codec)) THEN NoConfig ELSE C!Resampled(d.bytes \div 2, C!Rate(d.codec), C!MixRate)
    BY <1>3 DEF C!DecodedAtClient, C!Pcm
  <2>2. CASE d.bytes = 2 * 1 * C!FrameLen(C!Rate(d.codec))
    <3>1. d.bytes \div 2 = C!FrameLen(C!Rate(d.codec))
      BY <2>2, <1>2, FrameLengths
    <3>2. C!MixLen * layout = C!MixLen
      BY <1>3, FrameLengths
    <3>3. C!Resampled(d.bytes \div 2, C!Rate(d.codec), C!MixRate) = C!MixLen
      BY <3>1, <1>2, FrameLengths
    <3>4. C!DecodedAtClient(d, layout) = C!Resampled(d.bytes \div 2, C!Rate(d.codec), C!MixRate)
      BY <2>1, <2>2
    <3> QED BY <3>2, <3>3, <3>4, Zenon
  <2> QED
    <3>1. CASE d.bytes # 2 * 1 * C!FrameLen(C!Rate(d.codec))
      <4>1. C!DecodedAtClient(d, layout) = NoConfig
        BY <2>1, <3>1
      <4> QED BY <4>1
    <3> QED BY <2>2, <3>1
<1>4. CASE d.codec \in C!Pcm /\ layout = 2
  <2>1. d.codec = "pcm48"
    BY <1>1, <1>4 DEF C!Pcm
  <2>2. C!FrameLen(C!Rate(d.codec)) = 480
    BY <2>1, FrameLengths DEF C!Rate, C!Pcm
  <2>3. C!DecodedAtClient(d, layout) = IF d.bytes # 2 * 2 * 480 THEN NoConfig ELSE d.bytes \div 2
    BY <1>4, <2>1, <2>2 DEF C!DecodedAtClient, C!Pcm
  <2>4. C!MixLen * layout = 960 /\ (d.bytes = 2 * 2 * 480 => d.bytes \div 2 = 960)
    BY <1>4, FrameLengths
  <2>5. CASE d.bytes = 2 * 2 * 480
    <3>1. C!DecodedAtClient(d, layout) = d.bytes \div 2
      BY <2>3, <2>5
    <3>2. C!DecodedAtClient(d, layout) = C!MixLen * layout
      BY <2>4, <2>5, <3>1
    <3> QED BY <3>2, Zenon
  <2>6. CASE d.bytes # 2 * 2 * 480
    <3>1. C!DecodedAtClient(d, layout) = NoConfig
      BY <2>3, <2>6
    <3> QED BY <3>1, Zenon
  <2> QED BY <2>5, <2>6
<1>5. CASE d.codec = "opus"
  <2>1. C!DecodedAtClient(d, layout) = IF d.bytes = 0 THEN NoConfig ELSE C!MixLen * layout
    BY <1>5 DEF C!DecodedAtClient, C!Pcm
  <2> QED BY <2>1, Zenon
<1> QED
  <2>1. d.codec \in C!Pcm \/ d.codec = "opus"
    BY <1>2 DEF C!Codecs, C!Pcm
  <2> QED BY <2>1, <1>1, <1>3, <1>4, <1>5, Zenon

(* Played as it was mixed: raw samples never with the other layout, and whole when both
   ends have the configuration. *)
LEMMA SentDownAgrees ==
  ASSUME NEW d \in SentDown, NEW c \in C!ConfigType
  PROVE  LET layout == C!ReceiveChannels(d, c)
         IN /\ C!DecodedAtClient(d, layout) # NoConfig /\ d.codec # "opus" => layout = d.channels
            /\ d.config = C!OnSession(c) /\ d.config.codec = c.codec =>
                 C!DecodedAtClient(d, layout) = C!MixLen * d.channels
<1> DEFINE layout == C!ReceiveChannels(d, c)
<1>1. layout \in {1, 2} /\ (layout = 2 => d.codec \in {"pcm48", "opus"})
  BY DEF C!ReceiveChannels
<1>2. /\ d.codec \in C!Codecs \ {"adpcm"} /\ d.bytes \in Nat /\ d.channels \in {1, 2}
      /\ d.codec = d.config.codec /\ d.channels = ChannelsOf(d.config)
      /\ d.codec \in C!Pcm => d.bytes = 2 * d.channels * C!FrameLen(C!Rate(d.codec))
      /\ d.codec = "opus" => d.bytes # 0
  BY DEF SentDown
<1>3. ASSUME C!DecodedAtClient(d, layout) # NoConfig, d.codec # "opus" PROVE layout = d.channels
  <2> HIDE DEF layout
  <2>1. d.codec \in C!Pcm
    BY <1>2, <1>3 DEF C!Codecs, C!Pcm
  <2>2. d.bytes = 2 * layout * C!FrameLen(C!Rate(d.codec))
    BY <2>1, <1>3 DEF C!DecodedAtClient, C!Pcm
  <2>3. C!FrameLen(C!Rate(d.codec)) \in {160, 240, 480}
    BY <1>2, FrameLengths
  <2> QED BY <2>1, <2>2, <2>3, <1>1, <1>2
<1>4. ASSUME d.config = C!OnSession(c), d.config.codec = c.codec
      PROVE  C!DecodedAtClient(d, layout) = C!MixLen * d.channels
  <2>1. d.config.stereo = c.stereo
    BY <1>4 DEF C!OnSession, C!ConfigType
  <2>2. layout = d.channels
    BY <1>2, <1>4, <2>1 DEF C!ReceiveChannels, ChannelsOf, C!Stereo
  <2> HIDE DEF layout
  <2>3. CASE d.codec \in C!Pcm /\ layout = 1
    <3>1. C!DecodedAtClient(d, layout) = C!Resampled(d.bytes \div 2, C!Rate(d.codec), C!MixRate)
      BY <2>3, <2>2, <1>2 DEF C!DecodedAtClient, C!Pcm
    <3>2. d.bytes \div 2 = C!FrameLen(C!Rate(d.codec))
      BY <2>3, <2>2, <1>2, FrameLengths
    <3> QED BY <3>1, <3>2, <2>2, <2>3, <1>2, FrameLengths
  <2>4. CASE d.codec \in C!Pcm /\ layout = 2
    <3>1. d.codec = "pcm48"
      BY <1>1, <2>4 DEF C!Pcm
    <3>2. C!FrameLen(C!Rate(d.codec)) = 480
      BY <3>1, FrameLengths DEF C!Rate, C!Pcm
    <3>3. C!DecodedAtClient(d, layout) = d.bytes \div 2
      BY <2>4, <2>2, <3>1, <3>2, <1>2 DEF C!DecodedAtClient, C!Pcm
    <3> QED BY <3>2, <3>3, <2>4, <2>2, <1>2, FrameLengths
  <2>5. CASE d.codec = "opus"
    BY <2>5, <2>2, <1>2 DEF C!DecodedAtClient, C!Pcm
  <2> QED BY <1>1, <1>2, <2>3, <2>4, <2>5 DEF C!Codecs, C!Pcm
<1> QED BY <1>3, <1>4

(* Every mix can be encoded for the session it is for. *)
LEMMA MixIsEncoded ==
  ASSUME C!CodecAssumption, NEW s \in C!ConfigType, s.codec # "adpcm", NEW size \in OpusSizes
  PROVE  LET bytes == C!EncodedDown(s.codec, C!MixLen * ChannelsOf(s), ChannelsOf(s), size)
         IN /\ bytes # NoConfig /\ ~(bytes > C!MaxPayload)
            /\ C!Packet("mixed", s.codec, bytes, ChannelsOf(s), s) \in SentDown
<1> DEFINE layout == ChannelsOf(s)
           bytes == C!EncodedDown(s.codec, C!MixLen * layout, layout, size)
<1>1. layout \in {1, 2} /\ (layout = 2 => s.codec \in {"pcm48", "opus"})
  BY DEF ChannelsOf, C!Stereo
<1>2. s.codec \in C!Codecs \ {"adpcm"}
  BY ConfigFields
<1>3. C!MaxPayload = 1920 /\ size \in 1..1920
  BY FrameLengths, SMTT(30) DEF C!CodecAssumption, C!MaxPayload
<1>4. /\ bytes \in 1..1920
      /\ s.codec \in C!Pcm => bytes = 2 * layout * C!FrameLen(C!Rate(s.codec))
  <2> HIDE DEF layout
  <2>1. CASE s.codec \in C!Pcm /\ layout = 1
    <3>1. bytes = 2 * C!Resampled(C!MixLen, C!MixRate, C!Rate(s.codec))
      <4>1. C!MixLen * layout = C!MixLen
        BY <2>1, FrameLengths
      <4> QED BY <2>1, <4>1 DEF C!EncodedDown, C!Pcm
    <3>2. bytes = 2 * C!FrameLen(C!Rate(s.codec))
      BY <3>1, <1>2, FrameLengths
    <3>3. C!FrameLen(C!Rate(s.codec)) \in {160, 240, 480}
      BY <1>2, FrameLengths
    <3> QED BY <3>2, <3>3, <2>1
  <2>2. CASE s.codec \in C!Pcm /\ layout = 2
    <3>1. s.codec = "pcm48"
      BY <1>1, <2>2 DEF C!Pcm
    <3>2. C!FrameLen(C!Rate(s.codec)) = 480
      BY <3>1, FrameLengths DEF C!Rate, C!Pcm
    <3>3. bytes = 2 * (C!MixLen * layout)
      BY <2>2, <3>1 DEF C!EncodedDown, C!Pcm
    <3> QED BY <3>2, <3>3, <2>2, FrameLengths
  <2>3. CASE s.codec = "opus"
    <3>1. bytes = size
      BY <2>3 DEF C!EncodedDown, C!Pcm
    <3>2. s.codec \notin C!Pcm
      BY <2>3 DEF C!Pcm
    <3> HIDE DEF bytes
    <3> QED BY <3>1, <3>2, <1>3
  <2> QED BY <1>1, <1>2, <2>1, <2>2, <2>3 DEF C!Codecs, C!Pcm
<1> HIDE DEF bytes
<1>5. bytes # NoConfig /\ ~(bytes > C!MaxPayload)
  <2>1. bytes \in Nat
    BY <1>4
  <2> QED BY <2>1, <1>3, <1>4 DEF C!CodecAssumption
<1>6. C!Packet("mixed", s.codec, bytes, layout, s) \in SentDown
  <2> DEFINE d == C!Packet("mixed", s.codec, bytes, layout, s)
  <2>1. /\ d.codec = s.codec /\ d.config = s /\ d.bytes = bytes /\ d.channels = layout
        /\ d \in [magic : {"IC"}, version : {2}, target : {"mixed"}, codec : C!Codecs \ {"adpcm"},
                  declared : Nat, bytes : Nat, channels : {1, 2}, config : C!ConfigType]
    BY <1>1, <1>2, <1>4, SMTT(30) DEF C!Packet
  <2>2. bytes # 0
    BY <1>4
  <2> HIDE DEF d
  <2> QED BY <2>1, <2>2, <1>4 DEF SentDown, d
<1> QED BY <1>5, <1>6 DEF bytes

(* What the client sends is what the server can read. *)
LEMMA FrameIsSent ==
  ASSUME C!CodecAssumption, NEW c \in C!ConfigType, NEW size \in OpusSizes, C!EncodedUp(c, size) # NoConfig
  PROVE  /\ c.codec # "adpcm"
         /\ C!Packet("channel", c.codec, C!EncodedUp(c, size), 1, c) \in SentUp
<1> DEFINE bytes == C!EncodedUp(c, size)
           d == C!Packet("channel", c.codec, bytes, 1, c)
<1>1. c.codec \in C!Codecs
  BY ConfigFields
<1>2. c.codec # "adpcm"
  BY DEF C!EncodedUp, C!Pcm
<1>3. size \in Nat /\ size # 0
  BY FrameLengths DEF C!CodecAssumption, C!MaxPayload
<1>4. /\ bytes \in Nat
      /\ c.codec \in C!Pcm => bytes = 2 * C!FrameLen(C!Rate(c.codec))
      /\ c.codec = "opus" => bytes # 0
  <2>1. CASE c.codec \in C!Pcm
    <3>1. bytes = 2 * C!FrameLen(C!Rate(c.codec))
      BY <2>1, <1>1, FrameLengths DEF C!EncodedUp, C!Pcm
    <3>2. C!FrameLen(C!Rate(c.codec)) \in {160, 240, 480}
      BY <1>1, FrameLengths
    <3> QED BY <3>1, <3>2, <2>1 DEF C!Pcm
  <2>2. CASE c.codec = "opus"
    BY <2>2, <1>3 DEF C!EncodedUp, C!Pcm
  <2> QED BY <1>1, <1>2, <2>1, <2>2 DEF C!Codecs, C!Pcm
<1> HIDE DEF bytes
<1>5. /\ d.codec = c.codec /\ d.bytes = bytes /\ d.declared = bytes /\ d.target = "channel"
      /\ d \in [magic : {"IC"}, version : {2}, target : {"channel", "mixed"}, codec : C!Codecs,
                declared : Nat, bytes : Nat, channels : {1}, config : C!ConfigType]
  BY <1>1, <1>4 DEF C!Packet
<1> HIDE DEF d
<1>6. d \in SentUp
  BY <1>5, <1>4, <1>2 DEF SentUp
<1> QED BY <1>2, <1>6 DEF bytes, d

LEMMA RegistrationIsSent ==
  ASSUME NEW c \in C!ConfigType
  PROVE  /\ C!Packet("mixed", c.codec, 0, 1, c) \in SentUp
         /\ C!Packet("mixed", c.codec, 0, 1, c).codec = c.codec
<1> DEFINE d == C!Packet("mixed", c.codec, 0, 1, c)
<1>1. /\ d.codec = c.codec /\ d.bytes = 0 /\ d.declared = 0 /\ d.target = "mixed"
      /\ d \in [magic : {"IC"}, version : {2}, target : {"channel", "mixed"}, codec : C!Codecs,
                declared : Nat, bytes : Nat, channels : {1}, config : C!ConfigType]
  BY ConfigFields DEF C!Packet
<1> HIDE DEF d
<1>2. d \in SentUp
  BY <1>1 DEF SentUp
<1> QED BY <1>1, <1>2 DEF d

LEMMA QueueFacts ==
  ASSUME NEW Packets, NEW s \in Seq(Packets)
  PROVE  /\ \A x \in Packets : /\ Append(s, x) \in Seq(Packets) /\ Len(Append(s, x)) = Len(s) + 1
                               /\ \A i \in DOMAIN Append(s, x) : Append(s, x)[i] = x \/ (i \in DOMAIN s /\ Append(s, x)[i] = s[i])
         /\ s # <<>> => /\ Head(s) \in Packets /\ 1 \in DOMAIN s /\ Head(s) = s[1]
                        /\ Tail(s) \in Seq(Packets) /\ Len(Tail(s)) = Len(s) - 1
                        /\ \A i \in DOMAIN Tail(s) : i + 1 \in DOMAIN s /\ Tail(s)[i] = s[i + 1]
  OBVIOUS

LEMMA CodecInit == ASSUME C!CodecAssumption, C!Init PROVE CodecInv
<1> USE DEF C!Init
<1>1. C!Startup \in C!ConfigType /\ C!Startup.codec # "adpcm"
  BY DEF C!Startup, C!ConfigType, C!Codecs, C!Profiles
<1>2. PICK codec \in C!Codecs \ {"adpcm"} : client = [C!Startup EXCEPT !.codec = codec] /\ encoder = client
  OBVIOUS
<1>3. client \in C!ConfigType /\ encoder \in C!ConfigType /\ client.codec # "adpcm"
  BY <1>1, <1>2, ConfigFields DEF C!Startup
<1>4. CodecTypes
  BY <1>1, <1>3 DEF CodecTypes, C!CodecAssumption
<1>5. NothingConfigured
  BY <1>3 DEF NothingConfigured
<1>6. C!LimitedTogether
  BY DEF C!LimitedTogether, C!Threshold
<1>7. playback.samples = 0 /\ mixed = C!MixLen
  OBVIOUS
<1> QED BY <1>4, <1>5, <1>6, <1>7 DEF CodecInv

LEMMA ConfigureKeeps == ASSUME C!CodecAssumption, CodecInv, NEW c \in CodecConfigs, C!Configure(c) PROVE CodecInv'
<1> USE DEF C!Configure, CodecInv, CodecTypes
<1>1. c \in C!ConfigType /\ c # NoConfig
  BY DEF C!CodecAssumption
<1>2. C!OnSession(c) \in C!ConfigType /\ C!OnSession(c).codec # "adpcm"
  BY <1>1, SessionCanEncode
<1>3. pushes' \in Seq(C!ConfigType)
  BY <1>1, QueueFacts
<1>4. codecChanges' \in 0..MaxCodecChanges
  BY DEF C!CodecAssumption
<1>5. CodecTypes'
  BY <1>2, <1>3, <1>4
<1>6. NothingConfigured'
  BY <1>1 DEF NothingConfigured
<1> QED BY <1>5, <1>6 DEF C!LimitedTogether

LEMMA ReadConfigKeeps == ASSUME CodecInv, C!ReadConfig PROVE CodecInv'
<1> USE DEF C!ReadConfig, CodecInv, CodecTypes
<1>1. client' \in C!ConfigType /\ pushes' \in Seq(C!ConfigType)
  BY QueueFacts
<1>2. CodecTypes'
  BY <1>1
<1>3. NothingConfigured'
  BY DEF NothingConfigured
<1> QED BY <1>2, <1>3 DEF C!LimitedTogether

(* A packet more that names no ADPCM before anything is configured. *)
LEMMA PacketKeeps ==
  ASSUME C!CodecAssumption, CodecInv, NEW d \in SentUp \cup Strays, d \in SentUp => d.codec = client.codec,
         Len(packetsUp) < MaxFlight, packetsUp' = Append(packetsUp, d), encoder' \in C!ConfigType,
         UNCHANGED <<desired, session, pushes, client, packetsDown, mixed, output, playback, failed, codecChanges>>
  PROVE  CodecInv'
<1> USE DEF CodecInv, CodecTypes
<1>1. packetsUp' \in Seq(SentUp \cup Strays) /\ Len(packetsUp') <= MaxFlight
  BY QueueFacts DEF C!CodecAssumption
<1>2. CodecTypes'
  BY <1>1
<1>3. NothingConfigured'
  <2>1. \A i \in DOMAIN packetsUp' : packetsUp'[i] = d \/ (i \in DOMAIN packetsUp /\ packetsUp'[i] = packetsUp[i])
    BY QueueFacts
  <2> QED BY <2>1 DEF NothingConfigured
<1> QED BY <1>2, <1>3 DEF C!LimitedTogether

LEMMA RegistrationKeeps == ASSUME C!CodecAssumption, CodecInv, C!Register PROVE CodecInv'
<1>1. client \in C!ConfigType /\ encoder' \in C!ConfigType
  BY DEF C!Register, CodecInv, CodecTypes
<1> QED BY <1>1, RegistrationIsSent, PacketKeeps DEF C!Register

LEMMA EncodingKeeps == ASSUME C!CodecAssumption, CodecInv, NEW size \in OpusSizes, C!Capture(size) PROVE CodecInv'
<1>1. client \in C!ConfigType /\ encoder' = client
  BY DEF C!Capture, CodecInv, CodecTypes
<1>2. CASE C!EncodedUp(client, size) = NoConfig
  <2>1. UNCHANGED <<desired, session, pushes, client, packetsUp, packetsDown, mixed, output, playback, failed, codecChanges>>
    BY <1>1, <1>2 DEF C!Capture
  <2> QED BY <2>1, <1>1 DEF CodecInv, CodecTypes, NothingConfigured, C!LimitedTogether
<1>3. CASE C!EncodedUp(client, size) # NoConfig
  <2> DEFINE d == C!Packet("channel", client.codec, C!EncodedUp(client, size), 1, client)
  <2>1. d \in SentUp
    BY <1>1, <1>3, FrameIsSent
  <2>2. d.codec = client.codec
    BY DEF C!Packet
  <2>3. packetsUp' = Append(packetsUp, d) /\ Len(packetsUp) < MaxFlight
    BY <1>1, <1>3 DEF C!Capture
  <2>4. UNCHANGED <<desired, session, pushes, client, packetsDown, mixed, output, playback, failed, codecChanges>>
    BY DEF C!Capture
  <2> HIDE DEF d
  <2> QED BY <2>1, <2>2, <2>3, <2>4, <1>1, PacketKeeps
<1> QED BY <1>2, <1>3

LEMMA StrayKeeps == ASSUME C!CodecAssumption, CodecInv, NEW d \in Strays, C!Stray(d) PROVE CodecInv'
<1>1. d \notin SentUp
  <2>1. ~C!Readable(d)
    BY DEF C!CodecAssumption
  <2>2. ASSUME d \in SentUp PROVE C!Readable(d)
    BY <2>2 DEF SentUp, C!Readable
  <2> QED BY <2>1, <2>2
<1>2. encoder' \in C!ConfigType
  BY DEF C!Stray, CodecInv, CodecTypes
<1> QED BY <1>1, <1>2, PacketKeeps DEF C!Stray

LEMMA DecodingKeeps == ASSUME C!CodecAssumption, CodecInv, C!Receive PROVE CodecInv'
<1> USE DEF CodecInv, CodecTypes
<1> DEFINE d == Head(packetsUp)
<1>1. /\ packetsUp # <<>> /\ packetsUp' = Tail(packetsUp)
      /\ UNCHANGED <<desired, pushes, client, encoder, packetsDown, output, playback, failed, codecChanges>>
  BY DEF C!Receive
<1>2. /\ d \in SentUp \cup Strays /\ 1 \in DOMAIN packetsUp /\ d = packetsUp[1]
      /\ packetsUp' \in Seq(SentUp \cup Strays) /\ Len(packetsUp') <= MaxFlight
      /\ \A i \in DOMAIN packetsUp' : i + 1 \in DOMAIN packetsUp /\ packetsUp'[i] = packetsUp[i + 1]
  BY <1>1, QueueFacts DEF C!CodecAssumption
<1>3. session' \in C!ConfigType /\ session'.codec # "adpcm" /\ mixed' = C!MixLen
  <2>1. CASE ~C!Readable(d)
    BY <2>1 DEF C!Receive
  <2>2. CASE C!Readable(d) /\ C!IsRegistration(d)
    <3>1. session' = (IF desired = NoConfig THEN [session EXCEPT !.codec = d.codec] ELSE C!OnSession(desired)) /\ mixed' = mixed
      BY <2>2 DEF C!Receive
    <3>2. CASE desired = NoConfig
      <4>1. d.codec \in C!Codecs /\ d.codec # "adpcm"
        BY <1>2, <2>2, <3>2, SentUpIsRead DEF NothingConfigured, C!Readable
      <4> QED BY <3>1, <3>2, <4>1, ConfigFields
    <3>3. CASE desired # NoConfig
      <4>1. desired \in C!ConfigType
        BY <3>3 DEF C!CodecAssumption
      <4> QED BY <3>1, <3>3, <4>1, SessionCanEncode
    <3> QED BY <3>2, <3>3
  <2>3. CASE C!Readable(d) /\ ~C!IsRegistration(d)
    <3>1. session' = session /\ mixed' = IF C!DecodedAtServer(d, session) = NoConfig THEN mixed ELSE C!DecodedAtServer(d, session)
      BY <2>3 DEF C!Receive
    <3>2. C!DecodedAtServer(d, session) = C!MixLen
      BY <2>3, <1>2, SentUpIsRead
    <3> QED BY <3>1, <3>2
  <2> QED BY <2>1, <2>2, <2>3
<1>4. CodecTypes'
  BY <1>1, <1>2, <1>3
<1>5. NothingConfigured'
  BY <1>1, <1>2 DEF NothingConfigured
<1> QED BY <1>1, <1>3, <1>4, <1>5 DEF C!LimitedTogether

LEMMA DownMixKeeps ==
  ASSUME C!CodecAssumption, CodecInv, NEW mix \in Mixes, NEW size \in OpusSizes, C!Mix(mix, size)
  PROVE  CodecInv'
<1> USE DEF CodecInv, CodecTypes
<1> DEFINE layout == ChannelsOf(session)
           levels == IF layout = 2 THEN mix ELSE <<mix[1], mix[1]>>
           bytes == C!EncodedDown(session.codec, C!MixLen * layout, layout, size)
           d == C!Packet("mixed", session.codec, bytes, layout, session)
<1>1. /\ bytes # NoConfig /\ ~(bytes > C!MaxPayload) /\ d \in SentDown
  BY MixIsEncoded
<1>2. /\ Len(packetsDown) < MaxFlight /\ packetsDown' = Append(packetsDown, d) /\ failed' = failed
      /\ output' = [was |-> levels, is |-> C!Limited(levels)]
      /\ UNCHANGED <<desired, session, pushes, client, encoder, packetsUp, mixed, playback, codecChanges>>
  BY <1>1 DEF C!Mix, ChannelsOf
<1>3. levels \in Nat \X Nat
  BY DEF C!CodecAssumption
<1> HIDE DEF d, levels
<1>4. packetsDown' \in Seq(SentDown) /\ Len(packetsDown') <= MaxFlight
  BY <1>1, <1>2, QueueFacts DEF C!CodecAssumption
<1>5. CodecTypes'
  BY <1>2, <1>4
<1>6. NothingConfigured'
  BY <1>2 DEF NothingConfigured
<1>7. C!LimitedTogether'
  <2>1. output'.was = levels /\ output'.is = C!Limited(levels)
    BY <1>2
  <2>2. \A i \in 1..2 : C!Limited(levels)[i] <= C!Threshold
    BY <1>3, LimiterKeeps
  <2>3. \A i, j \in 1..2 : levels[i] >= 2 * levels[j] => C!Limited(levels)[i] >= 2 * C!Limited(levels)[j]
    BY <1>3, LimiterKeeps
  <2> QED BY <2>1, <2>2, <2>3 DEF C!LimitedTogether
<1> QED BY <1>2, <1>5, <1>6, <1>7

LEMMA HearKeeps == ASSUME C!CodecAssumption, CodecInv, C!Hear PROVE CodecInv'
<1> USE DEF CodecInv, CodecTypes
<1> DEFINE d == Head(packetsDown)
           layout == C!ReceiveChannels(d, client)
           samples == C!DecodedAtClient(d, layout)
<1>1. /\ packetsDown # <<>> /\ packetsDown' = Tail(packetsDown)
      /\ playback' = IF samples = NoConfig THEN playback ELSE [channels |-> layout, samples |-> samples]
      /\ UNCHANGED <<desired, session, pushes, client, encoder, packetsUp, mixed, output, failed, codecChanges>>
  BY DEF C!Hear
<1>2. d \in SentDown /\ packetsDown' \in Seq(SentDown) /\ Len(packetsDown') <= Len(packetsDown)
  BY <1>1, QueueFacts
<1>3. Len(packetsDown') <= MaxFlight
  BY <1>2, <1>1, QueueFacts DEF C!CodecAssumption
<1>4. samples = NoConfig \/ samples = C!MixLen * layout
  BY <1>2, SentDownIsPlayed
<1> HIDE DEF samples, layout
<1>5. playback'.samples \in {0, C!MixLen * playback'.channels}
  <2>1. CASE samples = NoConfig
    <3>1. playback' = playback
      BY <2>1, <1>1
    <3> QED BY <3>1
  <2>2. CASE samples # NoConfig
    <3>1. playback'.samples = samples /\ playback'.channels = layout
      BY <2>2, <1>1
    <3> QED BY <3>1, <2>2, <1>4, Zenon
  <2> QED BY <2>1, <2>2
<1>6. CodecTypes'
  BY <1>1, <1>2, <1>3
<1>7. NothingConfigured'
  BY <1>1 DEF NothingConfigured
<1> QED BY <1>1, <1>5, <1>6, <1>7 DEF C!LimitedTogether

LEMMA LoseKeeps == ASSUME C!CodecAssumption, CodecInv, C!Lose PROVE CodecInv'
<1> USE DEF CodecInv, CodecTypes
<1>1. UNCHANGED <<desired, session, pushes, client, encoder, mixed, output, playback, failed, codecChanges>>
  BY DEF C!Lose
<1>2. CASE packetsUp # <<>> /\ packetsUp' = Tail(packetsUp) /\ packetsDown' = packetsDown
  <2>1. /\ packetsUp' \in Seq(SentUp \cup Strays) /\ Len(packetsUp') <= MaxFlight
        /\ \A i \in DOMAIN packetsUp' : i + 1 \in DOMAIN packetsUp /\ packetsUp'[i] = packetsUp[i + 1]
    BY <1>2, QueueFacts DEF C!CodecAssumption
  <2>2. CodecTypes' /\ NothingConfigured'
    BY <1>1, <1>2, <2>1 DEF NothingConfigured
  <2> QED BY <1>1, <2>2 DEF C!LimitedTogether
<1>3. CASE packetsDown # <<>> /\ packetsDown' = Tail(packetsDown) /\ packetsUp' = packetsUp
  <2>1. packetsDown' \in Seq(SentDown) /\ Len(packetsDown') <= MaxFlight
    BY <1>3, QueueFacts DEF C!CodecAssumption
  <2>2. CodecTypes' /\ NothingConfigured'
    BY <1>1, <1>3, <2>1 DEF NothingConfigured
  <2> QED BY <1>1, <2>2 DEF C!LimitedTogether
<1> QED BY <1>2, <1>3 DEF C!Lose

LEMMA CodecStep == ASSUME C!CodecAssumption, CodecInv, [C!Next]_codecVars PROVE CodecInv'
<1>1. CASE \E c \in CodecConfigs : C!Configure(c)
  BY <1>1, ConfigureKeeps
<1>2. CASE \E size \in OpusSizes : C!Capture(size) \/ \E mix \in Mixes : C!Mix(mix, size)
  BY <1>2, EncodingKeeps, DownMixKeeps
<1>3. CASE \E d \in Strays : C!Stray(d)
  BY <1>3, StrayKeeps
<1>4. CASE UNCHANGED codecVars
  BY <1>4 DEF codecVars, CodecInv, CodecTypes, NothingConfigured, C!LimitedTogether
<1> QED BY <1>1, <1>2, <1>3, <1>4, ReadConfigKeeps, RegistrationKeeps, DecodingKeeps, HearKeeps, LoseKeeps DEF C!Next

LEMMA CodecIsRight ==
  ASSUME C!CodecAssumption, CodecInv PROVE C!TypeOK /\ C!FramesFit /\ C!AgreedFramesPlay /\ C!LimitedTogether
<1> USE DEF CodecInv, CodecTypes
<1>1. C!TypeOK
  BY ConfigFields DEF C!TypeOK
<1>2. C!FramesFit
  <2>1. ASSUME NEW i \in DOMAIN packetsUp, C!Readable(packetsUp[i]), ~C!IsRegistration(packetsUp[i])
        PROVE  C!DecodedAtServer(packetsUp[i], session) = C!MixLen
    <3>1. packetsUp[i] \in SentUp \cup Strays
      OBVIOUS
    <3> QED BY <3>1, <2>1, SentUpIsRead
  <2> QED BY <2>1 DEF C!FramesFit
<1>3. C!AgreedFramesPlay
  <2>1. \A i \in DOMAIN packetsDown : packetsDown[i] \in SentDown
    OBVIOUS
  <2> QED BY <2>1, SentDownAgrees DEF C!AgreedFramesPlay
<1> QED BY <1>1, <1>2, <1>3

(* For any configurations, datagrams, mixes and sizes of Opus frames, and however late a
   configuration comes: a frame becomes one whole frame at the mixer and at the speaker or
   none, every mix can be encoded, both ends play alike what they agree on, and the limiter
   turns both sides down together (AudioDecoderBank, AudioEncoderBank, AudioDecoder,
   limit_stereo_frame). *)
THEOREM FramesFitTheirReader == ASSUME C!CodecAssumption PROVE Parts => []CodecRight
<1>1. PartsInit => (part = "codec" => CodecInv)
  BY CodecInit DEF PartsInit
<1>2. (part = "codec" => CodecInv) /\ [PartsNext]_partVars => (part = "codec" => CodecInv)'
  BY CodecStep, PartsStep
<1>3. (part = "codec" => CodecInv) => CodecRight
  BY CodecIsRight DEF CodecRight
<1> QED BY <1>1, <1>2, <1>3, PTL DEF Parts

-----------------------------------------------------------------------------
(* The modes in the copy. *)
(* Every mode on the way, and in what has yet to be sent, is a talk mode. *)
Fields == {"tx", "mode", "talk", "held", "calls", "caller", "codec", "priority", "alerts", "allow"}
Sound(s) == HasFields(s, Fields) /\ s.mode \in L!TalkModes
Known(m) == m.op \in {"mode", "config"} => m.mode \in L!TalkModes
KnownIn(q) == \A i \in 1..Len(q) : Known(q[i].msg)
SoundIn(q) == \A i \in 1..Len(q) : q[i].kind = "update" => Sound(q[i].session)
Remaining(w) == IsSeq(w.left) /\ Len(w.left) >= 1 /\ \A i \in 1..Len(w.left) : Known(w.left[i])
GoodCopy(c) == Sound(c.shown) /\ c.last \in L!TalkModes \ {"muted"}
GoodModes ==
  /\ Sound(serverSession) /\ GoodCopy(local)
  /\ KnownIn(controlQueue) /\ KnownIn(wire) /\ SoundIn(localDown)
  /\ \A m \in toggling : Known(m)
  /\ \A w \in waiting : Remaining(w)
  /\ Len(controlQueue) <= QueueSize /\ Len(wire) <= MaxLocalWire

LEMMA SoundChanged ==
  ASSUME NEW s, Sound(s), NEW v
  PROVE  /\ Sound([s EXCEPT !.talk = v]) /\ Sound([s EXCEPT !.tx = v]) /\ Sound([s EXCEPT !.codec = v])
         /\ Sound([s EXCEPT !.priority = v]) /\ Sound([s EXCEPT !.held = v])
         /\ Sound([s EXCEPT !.calls = v]) /\ Sound([s EXCEPT !.alerts = v])
         /\ v \in L!TalkModes => Sound([s EXCEPT !.mode = v])
BY DEF Sound, HasFields, Fields

LEMMA CalledSound == ASSUME NEW s, Sound(s), NEW p, NEW m PROVE Sound(L!CallAtServer(s, p, m).session)
<1> DEFINE called == L!CallsWith(s.calls, p, m.active, m.duck)
<1>1. L!CallAtServer(s, p, m).session = s \/ L!CallAtServer(s, p, m).session = [s EXCEPT !.calls = called]
  BY DEF L!CallAtServer, L!Refused, L!Done
<1> HIDE DEF called
<1>2. Sound([s EXCEPT !.calls = called])
  BY SoundChanged
<1> QED BY <1>1, <1>2

LEMMA HandledSound == ASSUME NEW s, Sound(s), NEW m, Known(m) PROVE Sound(L!Handled(s, m).session)
<1> DEFINE after == L!Handled(s, m).session
<1>1. CASE m.op = "talk"
  BY <1>1, SoundChanged DEF L!Handled, L!Done
<1>2. CASE m.op = "mode"
  <2>1. m.mode \in L!TalkModes
    BY <1>2 DEF Known
  <2>2. after = s \/ after = [s EXCEPT !.mode = m.mode]
    BY <1>2 DEF L!Handled, L!Done, L!Refused
  <2>3. Sound([s EXCEPT !.mode = m.mode])
    BY <2>1, SoundChanged
  <2> HIDE DEF after
  <2>4. Sound(after)
    BY <2>2, <2>3
  <2> QED BY <2>4 DEF after
<1>3. CASE m.op = "codec"
  <2>1. after = s \/ after = [s EXCEPT !.codec = m.codec]
    BY <1>3 DEF L!Handled, L!Done, L!Refused
  <2>2. Sound([s EXCEPT !.codec = m.codec])
    BY SoundChanged
  <2> HIDE DEF after
  <2>3. Sound(after)
    BY <2>1, <2>2
  <2> QED BY <2>3 DEF after
<1>4. CASE m.op = "priority"
  <2>1. after = s \/ after = [s EXCEPT !.priority = m.active]
    BY <1>4 DEF L!Handled, L!Done, L!Refused
  <2>2. Sound([s EXCEPT !.priority = m.active])
    BY SoundChanged
  <2> HIDE DEF after
  <2>3. Sound(after)
    BY <2>1, <2>2
  <2> QED BY <2>3 DEF after
<1>5. CASE m.op = "button"
  <2>1. after = s \/ \E v : after = [s EXCEPT !.held = v]
    BY <1>5 DEF L!Handled, L!Done, L!Refused
  <2>2. CASE \E v : after = [s EXCEPT !.held = v]
    <3>1. PICK v : after = [s EXCEPT !.held = v]
      BY <2>2
    <3>2. Sound([s EXCEPT !.held = v])
      BY SoundChanged
    <3> HIDE DEF after
    <3>3. Sound(after)
      BY <3>1, <3>2
    <3> QED BY <3>3 DEF after
  <2> QED BY <2>1, <2>2
<1>6. CASE m.op = "call"
  BY <1>6, CalledSound DEF L!Handled
<1>7. CASE m.op = "reply"
  <2>1. after = s \/ after = L!CallAtServer(s, s.caller, m).session
    BY <1>7 DEF L!Handled, L!Refused
  <2>2. Sound(L!CallAtServer(s, s.caller, m).session)
    BY CalledSound
  <2> HIDE DEF after
  <2>3. Sound(after)
    BY <2>1, <2>2
  <2> QED BY <2>3 DEF after
<1>8. CASE m.op = "ack"
  <2>1. after = s \/ \E v : after = [s EXCEPT !.alerts = v]
    BY <1>8 DEF L!Handled, L!Done, L!Refused
  <2>2. CASE \E v : after = [s EXCEPT !.alerts = v]
    <3>1. PICK v : after = [s EXCEPT !.alerts = v]
      BY <2>2
    <3>2. Sound([s EXCEPT !.alerts = v])
      BY SoundChanged
    <3> HIDE DEF after
    <3>3. Sound(after)
      BY <3>1, <3>2
    <3> QED BY <3>3 DEF after
  <2> QED BY <2>1, <2>2
<1>9. CASE m.op = "config"
  <2>1. m.mode \in L!TalkModes
    BY <1>9 DEF Known
  <2>2. after = s \/ \E v, w, x : after = [s EXCEPT !.tx = v, !.codec = w, !.mode = m.mode, !.priority = x]
    BY <1>9, ZenonT(60) DEF L!Handled, L!Done, L!Refused
  <2>3. ASSUME NEW v, NEW w, NEW x
        PROVE  Sound([s EXCEPT !.tx = v, !.codec = w, !.mode = m.mode, !.priority = x])
    <3> DEFINE t == [s EXCEPT !.tx = v, !.codec = w, !.mode = m.mode, !.priority = x]
    <3>1. HasFields(t, Fields)
      BY DEF Sound, HasFields
    <3>2. t.mode = m.mode
      BY DEF Sound, HasFields, Fields
    <3> QED BY <2>1, <3>1, <3>2 DEF Sound
  <2>4. CASE \E v, w, x : after = [s EXCEPT !.tx = v, !.codec = w, !.mode = m.mode, !.priority = x]
    <3>1. PICK v, w, x : after = [s EXCEPT !.tx = v, !.codec = w, !.mode = m.mode, !.priority = x]
      BY <2>4
    <3>2. Sound([s EXCEPT !.tx = v, !.codec = w, !.mode = m.mode, !.priority = x])
      BY <2>3
    <3> HIDE DEF after
    <3>3. Sound(after)
      BY <3>1, <3>2
    <3> QED BY <3>3 DEF after
  <2> QED BY <2>2, <2>4
<1>10. CASE m.op \notin {"talk", "mode", "codec", "priority", "button", "call", "reply", "ack", "config"}
  BY <1>10 DEF L!Handled, L!Done, L!Refused
<1> QED BY <1>1, <1>2, <1>3, <1>4, <1>5, <1>6, <1>7, <1>8, <1>9, <1>10

LEMMA ModeTaken ==
  ASSUME CopyType, GoodCopy(local), NEW mode \in L!TalkModes
  PROVE  GoodCopy(L!WithMode(local, mode)) /\ L!WithMode(local, mode).shown = [local.shown EXCEPT !.mode = mode]
<1>1. L!WithMode(local, mode).shown = [local.shown EXCEPT !.mode = mode]
  BY CopyWithMode
<1>2. L!WithMode(local, mode).last \in L!TalkModes \ {"muted"}
  BY DEF L!WithMode, CopyType, HasFields, GoodCopy
<1>3. Sound([local.shown EXCEPT !.mode = mode])
  BY SoundChanged DEF GoodCopy
<1> HIDE DEF L!WithMode
<1> QED BY <1>1, <1>2, <1>3 DEF GoodCopy

LEMMA ShownChanged ==
  ASSUME CopyType, GoodCopy(local), NEW c, NEW s, c = [local EXCEPT !.shown = s], Sound(s)
  PROVE  GoodCopy(c)
BY DEF CopyType, HasFields, GoodCopy

LEMMA GuessGood == ASSUME CopyType, GoodCopy(local), NEW m, Known(m) PROVE GoodCopy(L!ExpectedCopy(m))
<1> DEFINE c == L!ExpectedCopy(m)
<1>0. Sound(local.shown)
  BY DEF GoodCopy
<1>1. CASE m.op = "mode"
  <2> DEFINE d == L!WithMode(local, m.mode)
  <2>1. HasFields(d, {"shown", "last"}) /\ GoodCopy(d)
    BY <1>1, CopyWithMode, ModeTaken DEF Known
  <2>2. c = d \/ c = [d EXCEPT !.shown.talk = FALSE]
    BY <1>1 DEF L!ExpectedCopy
  <2> HIDE DEF d, c
  <2>3. Sound([d.shown EXCEPT !.talk = FALSE])
    BY <2>1, SoundChanged DEF GoodCopy
  <2>4. [d EXCEPT !.shown.talk = FALSE].shown = [d.shown EXCEPT !.talk = FALSE] /\ [d EXCEPT !.shown.talk = FALSE].last = d.last
    BY <2>1 DEF HasFields
  <2>5. GoodCopy(c)
    BY <2>1, <2>2, <2>3, <2>4 DEF GoodCopy
  <2> QED BY <2>5 DEF c
<1>2. CASE m.op = "talk"
  <2>1. c = [local EXCEPT !.shown = [local.shown EXCEPT !.talk = m.active]]
    BY <1>2 DEF L!ExpectedCopy
  <2> QED BY <2>1, <1>0, SoundChanged, ShownChanged
<1>3. CASE m.op = "codec"
  <2>1. c = [local EXCEPT !.shown = [local.shown EXCEPT !.codec = m.codec]]
    BY <1>3 DEF L!ExpectedCopy
  <2> QED BY <2>1, <1>0, SoundChanged, ShownChanged
<1>4. CASE m.op = "button"
  <2>1. \E v : c = [local EXCEPT !.shown = [local.shown EXCEPT !.held = v]]
    BY <1>4 DEF L!ExpectedCopy
  <2> HIDE DEF c
  <2>2. GoodCopy(c)
    BY <2>1, <1>0, SoundChanged, ShownChanged
  <2> QED BY <2>2 DEF c
<1>5. CASE m.op \in {"call", "reply"}
  <2>1. \E v : c = [local EXCEPT !.shown = [local.shown EXCEPT !.calls = v]]
    BY <1>5 DEF L!ExpectedCopy
  <2> HIDE DEF c
  <2>2. GoodCopy(c)
    BY <2>1, <1>0, SoundChanged, ShownChanged
  <2> QED BY <2>2 DEF c
<1>6. CASE m.op \in {"ack", "cancel"}
  <2>1. \E v : c = [local EXCEPT !.shown = [local.shown EXCEPT !.alerts = v]]
    BY <1>6 DEF L!ExpectedCopy
  <2> HIDE DEF c
  <2>2. GoodCopy(c)
    BY <2>1, <1>0, SoundChanged, ShownChanged
  <2> QED BY <2>2 DEF c
<1>7. CASE m.op \notin {"talk", "mode", "codec", "button", "call", "reply", "ack", "cancel"}
  BY <1>7 DEF L!ExpectedCopy
<1> QED BY <1>1, <1>2, <1>3, <1>4, <1>5, <1>6, <1>7

LEMMA CommandsKnown == ASSUME GoodCopy(local) PROVE \A m \in L!Commands \cup L!Toggles : Known(m)
<1>1. L!Unmuted \in L!TalkModes
  BY DEF L!Unmuted, GoodCopy, L!TalkModes
<1>2. \A mode \in L!TalkModes : Known(L!Mode(mode))
  BY DEF Known, L!Mode
<1>3. Known(L!Mode(L!Unmuted))
  BY <1>1, <1>2
<1>4. \A m : m.op \notin {"mode", "config"} => Known(m)
  BY DEF Known
<1>5. \A m \in L!Toggles : m.op \notin {"mode", "config"}
  BY DEF L!Toggles, L!Talk, L!Call, L!Reply
<1>6. \A m \in L!Commands : m \in {L!Mode(mode) : mode \in L!TalkModes} \cup {L!Mode(L!Unmuted)} \/ m.op \notin {"mode", "config"}
  BY DEF L!Commands, L!Talk, L!Call, L!Reply
<1> QED BY <1>2, <1>3, <1>4, <1>5, <1>6

LEMMA KnownKept ==
  ASSUME NEW q, NEW e, IsSeq(q), KnownIn(q), Known(e.msg)
  PROVE  KnownIn(Append(q, e)) /\ Len(Append(q, e)) = Len(q) + 1
<1>1. Len(q) \in Nat
  BY DEF IsSeq
<1> QED BY <1>1, AppendedSeq DEF KnownIn

LEMMA KnownRest ==
  ASSUME NEW q, IsSeq(q), KnownIn(q), q # <<>>
  PROVE  Known(Head(q).msg) /\ KnownIn(Tail(q)) /\ Len(Tail(q)) = Len(q) - 1
<1>1. Len(q) \in Nat
  BY DEF IsSeq
<1> QED BY <1>1, RestOfSeq DEF KnownIn

LEMMA SoundKept ==
  ASSUME NEW q, NEW e, IsSeq(q), SoundIn(q), e.kind = "update" => Sound(e.session)
  PROVE  SoundIn(Append(q, e))
<1>1. Len(q) \in Nat
  BY DEF IsSeq
<1> QED BY <1>1, AppendedSeq DEF SoundIn

LEMMA SoundRest ==
  ASSUME NEW q, IsSeq(q), SoundIn(q), q # <<>>
  PROVE  SoundIn(Tail(q)) /\ (Head(q).kind = "update" => Sound(Head(q).session))
<1>1. Len(q) \in Nat
  BY DEF IsSeq
<1> QED BY <1>1, RestOfSeq DEF SoundIn

LEMMA QueuingKeeps ==
  ASSUME L!LocalApiAssumption, LocalInv, GoodModes, NEW m, Known(m), L!Queue(m)
  PROVE  /\ GoodCopy(local') /\ KnownIn(controlQueue') /\ Len(controlQueue') <= QueueSize
         /\ UNCHANGED <<serverSession, wire, localDown, waiting>>
<1>1. local' = L!ExpectedCopy(m) /\ UNCHANGED <<serverSession, wire, localDown, waiting>>
  BY DEF L!Queue
<1>2. GoodCopy(local')
  BY <1>1, GuessGood DEF LocalInv, GoodModes
<1> DEFINE e == [msg |-> m, by |-> "nobody"]
<1>3. controlQueue' = controlQueue \/ (controlQueue' = Append(controlQueue, e) /\ Len(controlQueue) < QueueSize)
  BY DEF L!Queue
<1>4. e.msg = m
  OBVIOUS
<1> HIDE DEF e
<1>5. IsSeq(controlQueue) /\ Len(controlQueue) \in Nat /\ QueueSize \in Nat
  BY DEF LocalInv, QueuesAreSeqs, IsSeq, L!LocalApiAssumption
<1>6. KnownIn(controlQueue') /\ Len(controlQueue') <= QueueSize
  <2>1. KnownIn(controlQueue) /\ Len(controlQueue) <= QueueSize
    BY DEF GoodModes
  <2>2. KnownIn(Append(controlQueue, e)) /\ Len(Append(controlQueue, e)) = Len(controlQueue) + 1
    BY <2>1, <1>4, <1>5, KnownKept
  <2>3. CASE controlQueue' = controlQueue
    BY <2>1, <2>3
  <2>4. CASE controlQueue' = Append(controlQueue, e) /\ Len(controlQueue) < QueueSize
    <3>1. KnownIn(controlQueue') /\ Len(controlQueue') = Len(controlQueue) + 1
      BY <2>2, <2>4
    <3> QED BY <3>1, <2>4, <1>5
  <2> QED BY <2>3, <2>4, <1>3
<1> QED BY <1>1, <1>2, <1>6

LEMMA AskingKeeps ==
  ASSUME NEW by, NEW msgs, IsSeq(msgs), Len(msgs) >= 1, \A i \in 1..Len(msgs) : Known(msgs[i]), L!Ask(by, msgs)
  PROVE  \A w \in waiting' : Remaining(w)
<1>1. waiting' = {[by |-> by, left |-> msgs, sent |-> FALSE]}
  BY DEF L!Ask
<1> QED BY <1>1 DEF Remaining

LEMMA AnsweringKeeps ==
  ASSUME NEW by, NEW ok, OneCaller, \A w \in waiting : Remaining(w), L!Answered(by, ok)
  PROVE  \A w \in waiting' : Remaining(w)
<1>1. CASE by = "nobody"
  BY <1>1 DEF L!Answered
<1>2. CASE by # "nobody"
  <2> TAKE w \in waiting'
  <2>1. PICK v \in waiting : Len(v.left) > 1 /\ w = [v EXCEPT !.left = Tail(v.left), !.sent = FALSE]
    BY <1>2 DEF L!Answered
  <2>2. w.left = Tail(v.left)
    BY <2>1 DEF OneCaller, Caller, HasFields
  <2>3. IsSeq(v.left) /\ Len(v.left) \in Nat /\ v.left # <<>>
    BY <2>1 DEF Remaining, IsSeq
  <2>4. IsSeq(Tail(v.left)) /\ Len(Tail(v.left)) >= 1
    BY <2>1, <2>3, RestOfSeq
  <2>5. \A i \in 1..Len(Tail(v.left)) : Known(Tail(v.left)[i])
    BY <2>3, RestOfSeq DEF Remaining
  <2> QED BY <2>2, <2>4, <2>5 DEF Remaining
<1> QED BY <1>1, <1>2

LEMMA OneOrTwo ==
  /\ \A m : IsSeq(<<m>>) /\ Len(<<m>>) = 1 /\ <<m>>[1] = m
  /\ \A m, n : IsSeq(<<m, n>>) /\ Len(<<m, n>>) = 2 /\ <<m, n>>[1] = m /\ <<m, n>>[2] = n
BY DEF IsSeq

LEMMA AskedOne ==
  ASSUME NEW by, NEW m, Known(m), L!Ask(by, <<m>>)
  PROVE  \A w \in waiting' : Remaining(w)
<1> DEFINE q == <<m>>
<1>1. IsSeq(q) /\ Len(q) = 1 /\ q[1] = m
  BY OneOrTwo
<1>2. L!Ask(by, q)
  OBVIOUS
<1> HIDE DEF q
<1>3. \A i \in 1..Len(q) : Known(q[i])
  BY <1>1
<1> QED BY <1>1, <1>2, <1>3, AskingKeeps

LEMMA CommandModes ==
  ASSUME L!LocalApiAssumption, LocalInv, GoodModes,
         L!MobileCommand \/ L!LookAtCopy \/ L!FinishToggle \/ L!Request \/ L!PutConfig \/ L!TerminalCommand \/ L!Hotkey
  PROVE  GoodModes'
<1> USE DEF LocalInv
<1>0. /\ Sound(serverSession) /\ GoodCopy(local) /\ Sound(local.shown) /\ KnownIn(controlQueue) /\ KnownIn(wire) /\ SoundIn(localDown)
      /\ Len(controlQueue) <= QueueSize /\ Len(wire) <= MaxLocalWire
  BY DEF GoodModes, GoodCopy
<1>1. CASE L!MobileCommand
  <2>1. PICK m \in L!Commands : L!Queue(m)
    BY <1>1 DEF L!MobileCommand
  <2>2. Known(m)
    BY <1>0, CommandsKnown
  <2>3. UNCHANGED toggling
    BY <1>1 DEF L!MobileCommand
  <2> QED BY <2>1, <2>2, <2>3, QueuingKeeps DEF GoodModes
<1>2. CASE L!FinishToggle
  <2>1. toggling' = {}
    BY <1>2 DEF L!FinishToggle
  <2>2. PICK m \in toggling : L!Queue(m) \/ UNCHANGED <<serverSession, local, localLink, controlQueue, wire, localDown, waiting, ended, copyStale>>
    BY <1>2 DEF L!FinishToggle
  <2>3. Known(m)
    BY DEF GoodModes
  <2>4. CASE L!Queue(m)
    BY <2>1, <2>3, <2>4, QueuingKeeps DEF GoodModes
  <2>5. CASE UNCHANGED <<serverSession, local, localLink, controlQueue, wire, localDown, waiting, ended, copyStale>>
    BY <2>1, <2>5 DEF GoodModes
  <2> QED BY <2>2, <2>4, <2>5
<1>3. CASE L!LookAtCopy
  <2>1. \E m \in L!Toggles : toggling' = {m}
    BY <1>3 DEF L!LookAtCopy
  <2>2. \A m \in toggling' : Known(m)
    BY <2>1, <1>0, CommandsKnown
  <2>3. UNCHANGED <<serverSession, local, controlQueue, wire, localDown, waiting>>
    BY <1>3 DEF L!LookAtCopy
  <2> QED BY <2>2, <2>3 DEF GoodModes
<1>4. CASE L!Request
  <2>1. PICK m \in L!Commands \cup L!Toggles : L!Ask("caller", <<m>>)
    BY <1>4 DEF L!Request
  <2>2. Known(m)
    BY <1>0, CommandsKnown
  <2>3. UNCHANGED <<serverSession, local, controlQueue, wire, localDown, toggling>>
    BY <1>4, <2>1 DEF L!Request, L!Ask
  <2>4. \A w \in waiting' : Remaining(w)
    BY <2>1, <2>2, AskedOne
  <2> QED BY <2>3, <2>4 DEF GoodModes
<1>5. CASE L!PutConfig
  <2>1. PICK route \in Routes, p \in BOOLEAN :
          L!Ask("caller", <<L!Form([L!Copy EXCEPT !.tx = route, !.priority = p]), [op |-> "priority", active |-> p]>>)
    BY <1>5 DEF L!PutConfig
  <2> DEFINE form == L!Form([L!Copy EXCEPT !.tx = route, !.priority = p])
             again == [op |-> "priority", active |-> p]
             q == <<form, again>>
  <2>2. Sound([[L!Copy EXCEPT !.tx = route] EXCEPT !.priority = p])
    BY <1>0, SoundChanged DEF L!Copy
  <2>3. Sound([L!Copy EXCEPT !.tx = route, !.priority = p])
    BY <2>2 DEF Sound, HasFields
  <2>4. Known(form) /\ Known(again)
    BY <2>3 DEF Known, L!Form, Sound
  <2>5. IsSeq(q) /\ Len(q) = 2 /\ q[1] = form /\ q[2] = again
    BY OneOrTwo
  <2>6. L!Ask("caller", q)
    BY <2>1
  <2>7. UNCHANGED <<serverSession, local, controlQueue, wire, localDown, toggling>>
    BY <1>5, <2>6 DEF L!PutConfig, L!Ask
  <2> HIDE DEF q, form, again
  <2>8. \A i \in 1..Len(q) : i = 1 \/ i = 2
    BY <2>5
  <2>9. \A i \in 1..Len(q) : Known(q[i])
    BY <2>4, <2>5, <2>8
  <2>10. IsSeq(q) /\ Len(q) >= 1
    BY <2>5
  <2>11. \A w \in waiting' : Remaining(w)
    BY <2>6, <2>9, <2>10, AskingKeeps
  <2> QED BY <2>7, <2>11 DEF GoodModes
<1>6. CASE L!TerminalCommand
  <2>1. UNCHANGED <<serverSession, controlQueue, wire, localDown, toggling>>
    BY <1>6 DEF L!TerminalCommand, L!Ask
  <2>2. GoodCopy(local') /\ \A w \in waiting' : Remaining(w)
    <3>1. CASE \E route \in Routes :
                 /\ local' = [local EXCEPT !.shown.tx = route]
                 /\ L!Ask("terminal", <<[L!Form(local'.shown) EXCEPT !.priority = {}]>>)
      <4>1. PICK route \in Routes :
                 /\ local' = [local EXCEPT !.shown.tx = route]
                 /\ L!Ask("terminal", <<[L!Form(local'.shown) EXCEPT !.priority = {}]>>)
        BY <3>1
      <4>2. local' = [local EXCEPT !.shown = [local.shown EXCEPT !.tx = route]]
        BY <4>1
      <4>3. GoodCopy(local')
        BY <4>2, <1>0, SoundChanged, ShownChanged
      <4>4. Known([L!Form(local'.shown) EXCEPT !.priority = {}])
        BY <4>3 DEF Known, L!Form, GoodCopy, Sound
      <4> QED BY <4>1, <4>3, <4>4, AskedOne
    <3>2. CASE \E mode \in L!TalkModes \cup {L!Unmuted} : local' = L!WithMode(local, mode) /\ L!Ask("terminal", <<L!Mode(mode)>>)
      <4>1. PICK mode \in L!TalkModes \cup {L!Unmuted} : local' = L!WithMode(local, mode) /\ L!Ask("terminal", <<L!Mode(mode)>>)
        BY <3>2
      <4>2. mode \in L!TalkModes
        BY <1>0 DEF L!Unmuted, GoodCopy, L!TalkModes
      <4>3. Known(L!Mode(mode))
        BY <4>2 DEF Known, L!Mode
      <4>4. GoodCopy(local')
        BY <4>1, <4>2, <1>0, ModeTaken
      <4> QED BY <4>1, <4>3, <4>4, AskedOne
    <3>3. CASE local' = L!ExpectedCopy(L!Mode("muted")) /\ L!Ask("terminal", <<L!Mode("muted")>>)
      <4>1. Known(L!Mode("muted"))
        BY DEF Known, L!Mode, L!TalkModes
      <4> QED BY <3>3, <4>1, <1>0, GuessGood, AskedOne
    <3>4. CASE \E a \in BOOLEAN : local' = L!ExpectedCopy(L!Talk(a)) /\ L!Ask("terminal", <<L!Talk(a)>>)
      <4>1. \A a : Known(L!Talk(a))
        BY DEF Known, L!Talk
      <4> QED BY <3>4, <4>1, <1>0, GuessGood, AskedOne
    <3>5. CASE \E m \in L!Commands : L!Ask("terminal", <<m>>) /\ UNCHANGED local
      <4>1. \A m \in L!Commands : Known(m)
        BY <1>0, CommandsKnown
      <4> QED BY <3>5, <4>1, <1>0, AskedOne
    <3> QED BY <1>6, <3>1, <3>2, <3>3, <3>4, <3>5 DEF L!TerminalCommand
  <2> QED BY <2>1, <2>2 DEF GoodModes
<1>7. CASE L!Hotkey
  <2>1. PICK b \in LocalButtons, p \in BOOLEAN :
          controlQueue' = Append(controlQueue, [msg |-> [op |-> "button", button |-> b, pressed |-> p], by |-> "nobody"])
    BY <1>7 DEF L!Hotkey
  <2> DEFINE e == [msg |-> [op |-> "button", button |-> b, pressed |-> p], by |-> "nobody"]
  <2>2. Known(e.msg)
    BY DEF Known
  <2>3. controlQueue' = Append(controlQueue, e)
    BY <2>1
  <2> HIDE DEF e
  <2>4. IsSeq(controlQueue) /\ Len(controlQueue) \in Nat /\ QueueSize \in Nat /\ Len(controlQueue) < QueueSize
    BY <1>7 DEF L!Hotkey, QueuesAreSeqs, IsSeq, L!LocalApiAssumption
  <2>5. KnownIn(controlQueue') /\ Len(controlQueue') <= QueueSize
    BY <2>2, <2>3, <2>4, <1>0, KnownKept
  <2>6. UNCHANGED <<serverSession, local, wire, localDown, waiting, toggling>>
    BY <1>7 DEF L!Hotkey
  <2> QED BY <2>5, <2>6 DEF GoodModes
<1> QED BY <1>1, <1>2, <1>3, <1>4, <1>5, <1>6, <1>7

LEMMA WireModes ==
  ASSUME L!LocalApiAssumption, LocalInv, GoodModes, L!Send \/ L!Transmit \/ L!Serve \/ L!Read
  PROVE  GoodModes'
<1> USE DEF LocalInv
<1>0. /\ Sound(serverSession) /\ GoodCopy(local) /\ KnownIn(controlQueue) /\ KnownIn(wire) /\ SoundIn(localDown)
      /\ Len(controlQueue) <= QueueSize /\ Len(wire) <= MaxLocalWire /\ \A w \in waiting : Remaining(w)
  BY DEF GoodModes
<1>00. /\ IsSeq(controlQueue) /\ IsSeq(wire) /\ IsSeq(localDown)
       /\ Len(controlQueue) \in Nat /\ Len(wire) \in Nat /\ QueueSize \in Nat /\ MaxLocalWire \in Nat
  BY DEF QueuesAreSeqs, IsSeq, L!LocalApiAssumption
<1>1. CASE L!Send
  <2>1. PICK w \in waiting : controlQueue' = Append(controlQueue, [msg |-> Head(w.left), by |-> w.by])
    BY <1>1 DEF L!Send
  <2>2. IsSeq(w.left) /\ w.left # <<>> /\ \A i \in 1..Len(w.left) : Known(w.left[i])
    BY <1>0 DEF Remaining, IsSeq
  <2>3. Known(Head(w.left))
    BY <2>2, RestOfSeq
  <2> DEFINE e == [msg |-> Head(w.left), by |-> w.by]
  <2>4. controlQueue' = Append(controlQueue, e) /\ Known(e.msg) /\ Len(controlQueue) < QueueSize
    BY <2>1, <2>3, <1>1 DEF L!Send
  <2> HIDE DEF e
  <2>5. KnownIn(controlQueue') /\ Len(controlQueue') <= QueueSize
    BY <2>4, <1>0, <1>00, KnownKept
  <2>6. \A v \in waiting' : Remaining(v)
    <3> TAKE v \in waiting'
    <3>1. PICK u \in waiting : v = [u EXCEPT !.sent = TRUE]
      BY <1>1 DEF L!Send
    <3>2. v.left = u.left
      BY <3>1 DEF OneCaller, Caller, HasFields
    <3> QED BY <3>2, <1>0 DEF Remaining
  <2>7. UNCHANGED <<serverSession, local, wire, localDown, toggling>>
    BY <1>1 DEF L!Send
  <2> QED BY <2>5, <2>6, <2>7 DEF GoodModes
<1>2. CASE L!Transmit
  <2>1. /\ wire' = Append(wire, Head(controlQueue)) /\ controlQueue' = Tail(controlQueue) /\ controlQueue # <<>> /\ Len(wire) < MaxLocalWire
        /\ UNCHANGED <<serverSession, local, localDown, waiting, toggling>>
    BY <1>2 DEF L!Transmit
  <2>2. Known(Head(controlQueue).msg) /\ KnownIn(controlQueue') /\ Len(controlQueue') <= QueueSize
    BY <2>1, <1>0, <1>00, KnownRest
  <2>3. KnownIn(wire') /\ Len(wire') <= MaxLocalWire
    BY <2>1, <2>2, <1>0, <1>00, KnownKept
  <2> QED BY <2>1, <2>2, <2>3 DEF GoodModes
<1>3. CASE L!Serve
  <2> DEFINE by == Head(wire).by
             result == L!Handled(serverSession, Head(wire).msg)
             updated == IF result.ok THEN Append(localDown, L!Pushed(serverSession')) ELSE localDown
             answer == [kind |-> "answer", by |-> by, ok |-> result.ok]
  <2>1. /\ wire # <<>> /\ wire' = Tail(wire) /\ serverSession' = result.session
        /\ UNCHANGED <<local, controlQueue, waiting, toggling>>
    BY <1>3 DEF L!Serve
  <2>2. Known(Head(wire).msg) /\ KnownIn(wire') /\ Len(wire') <= MaxLocalWire
    BY <2>1, <1>0, <1>00, KnownRest
  <2>3. Sound(serverSession')
    BY <2>1, <2>2, <1>0, HandledSound
  <2>4. IsSeq(updated) /\ (localDown' = updated \/ localDown' = Append(updated, answer))
    BY <1>3, <1>00, ServeAppends
  <2>5. SoundIn(updated)
    <3>1. L!Pushed(serverSession').kind = "update" => Sound(L!Pushed(serverSession').session)
      BY <2>3 DEF L!Pushed
    <3>2. SoundIn(Append(localDown, L!Pushed(serverSession')))
      BY <3>1, <1>0, <1>00, SoundKept
    <3> QED BY <3>2, <1>0
  <2>6. answer.kind # "update"
    OBVIOUS
  <2> HIDE DEF updated, answer
  <2>7. SoundIn(localDown')
    BY <2>4, <2>5, <2>6, SoundKept
  <2> QED BY <2>1, <2>2, <2>3, <2>7 DEF GoodModes
<1>4. CASE L!Read
  <2>1. localDown # <<>> /\ localDown' = Tail(localDown) /\ UNCHANGED <<serverSession, controlQueue, wire, toggling>>
    BY <1>4 DEF L!Read
  <2>2. SoundIn(localDown') /\ (Head(localDown).kind = "update" => Sound(Head(localDown).session))
    BY <2>1, <1>0, <1>00, SoundRest
  <2>3. CASE Head(localDown).kind = "update"
    <3> DEFINE s == Head(localDown).session
    <3>1. local' = L!Taken(s) /\ UNCHANGED waiting
      BY <1>4, <2>3 DEF L!Read
    <3>2. Sound(s)
      BY <2>2, <2>3
    <3> HIDE DEF s
    <3> DEFINE d == L!WithMode(local, s.mode)
    <3>3. HasFields(d, {"shown", "last"}) /\ d.last \in L!TalkModes \ {"muted"}
      BY <3>2, <1>0, CopyWithMode, ModeTaken DEF Sound, GoodCopy
    <3>4. L!Taken(s) = [d EXCEPT !.shown = s]
      BY DEF L!Taken
    <3> HIDE DEF d
    <3>5. GoodCopy(local')
      BY <3>1, <3>2, <3>3, <3>4 DEF GoodCopy, HasFields
    <3> QED BY <2>1, <2>2, <3>1, <3>5 DEF GoodModes
  <2>4. CASE Head(localDown).kind # "update"
    <3>1. L!Answered(Head(localDown).by, Head(localDown).ok) /\ UNCHANGED local
      BY <1>4, <2>4 DEF L!Read
    <3>2. \A w \in waiting' : Remaining(w)
      BY <3>1, <1>0, AnsweringKeeps
    <3> QED BY <2>1, <2>2, <3>1, <3>2 DEF GoodModes
  <2> QED BY <2>3, <2>4
<1> QED BY <1>1, <1>2, <1>3, <1>4

LEMMA LinkModes ==
  ASSUME L!LocalApiAssumption, LocalInv, GoodModes, L!Drop \/ L!FailFast \/ L!Reconnect \/ L!OthersChange
  PROVE  GoodModes'
<1> USE DEF LocalInv
<1>0. /\ Sound(serverSession) /\ GoodCopy(local) /\ Sound(local.shown) /\ KnownIn(controlQueue) /\ KnownIn(wire) /\ SoundIn(localDown)
      /\ Len(controlQueue) <= QueueSize /\ Len(wire) <= MaxLocalWire /\ \A w \in waiting : Remaining(w)
  BY DEF GoodModes, GoodCopy
<1>00. /\ IsSeq(controlQueue) /\ IsSeq(wire) /\ IsSeq(localDown)
       /\ Len(controlQueue) \in Nat /\ Len(wire) \in Nat /\ QueueSize \in Nat /\ MaxLocalWire \in Nat
  BY DEF QueuesAreSeqs, IsSeq, L!LocalApiAssumption
<1>1. KnownIn(<<>>) /\ SoundIn(<<>>) /\ Len(<<>>) = 0 /\ IsSeq(<<>>)
  BY DEF KnownIn, SoundIn, IsSeq
<1>2. CASE L!Drop
  <2>1. /\ wire' = <<>> /\ localDown' = <<>> /\ UNCHANGED <<controlQueue, toggling>>
        /\ local' = [local EXCEPT !.shown = [local.shown EXCEPT !.held = {}]]
        /\ serverSession' = [serverSession EXCEPT !.talk = FALSE, !.held = {}, !.calls = {}]
    BY <1>2 DEF L!Drop
  <2>2. GoodCopy(local')
    BY <2>1, <1>0, SoundChanged, ShownChanged
  <2>3. Sound(serverSession')
    BY <2>1, <1>0 DEF Sound, HasFields, Fields
  <2>4. \A w \in waiting' : Remaining(w)
    <3>1. (\E w \in waiting : L!Answered(w.by, FALSE)) \/ UNCHANGED waiting
      BY <1>2 DEF L!Drop
    <3> QED BY <3>1, <1>0, AnsweringKeeps
  <2> QED BY <1>0, <1>00, <1>1, <2>1, <2>2, <2>3, <2>4 DEF GoodModes
<1>3. CASE L!FailFast
  <2>1. /\ controlQueue # <<>> /\ controlQueue' = Tail(controlQueue) /\ UNCHANGED <<serverSession, local, wire, localDown, toggling>>
        /\ L!Answered(Head(controlQueue).by, FALSE)
    BY <1>3 DEF L!FailFast
  <2>2. KnownIn(controlQueue') /\ Len(controlQueue') <= QueueSize
    BY <2>1, <1>0, <1>00, KnownRest
  <2>3. \A w \in waiting' : Remaining(w)
    BY <2>1, <1>0, AnsweringKeeps
  <2> QED BY <2>1, <2>2, <2>3 DEF GoodModes
<1>4. CASE L!Reconnect
  <2>1. localDown' = Append(<<>>, L!Pushed(serverSession)) /\ UNCHANGED <<serverSession, local, controlQueue, wire, waiting, toggling>>
    BY <1>4 DEF L!Reconnect
  <2>2. L!Pushed(serverSession).kind = "update" => Sound(L!Pushed(serverSession).session)
    BY <1>0 DEF L!Pushed
  <2>3. SoundIn(localDown')
    BY <2>1, <2>2, <1>1, SoundKept
  <2> QED BY <2>1, <2>3 DEF GoodModes
<1>5. CASE L!OthersChange
  <2>1. PICK p \in Patches : serverSession' = [f \in DOMAIN serverSession |-> IF f \in DOMAIN p THEN p[f] ELSE serverSession[f]]
    BY <1>5 DEF L!OthersChange
  <2>2. DOMAIN serverSession = Fields /\ ("mode" \in DOMAIN p => p.mode \in L!TalkModes)
    BY <1>0 DEF Sound, HasFields, L!LocalApiAssumption
  <2>3. Sound(serverSession')
    BY <2>1, <2>2, <1>0 DEF Sound, HasFields, Fields
  <2>4. localDown' = localDown \/ localDown' = Append(localDown, L!Pushed(serverSession'))
    BY <1>5 DEF L!OthersChange
  <2>5. L!Pushed(serverSession').kind = "update" => Sound(L!Pushed(serverSession').session)
    BY <2>3 DEF L!Pushed
  <2>6. SoundIn(localDown')
    BY <2>4, <2>5, <1>0, <1>00, SoundKept
  <2>7. UNCHANGED <<local, controlQueue, wire, waiting, toggling>>
    BY <1>5 DEF L!OthersChange
  <2> QED BY <2>3, <2>6, <2>7 DEF GoodModes
<1> QED BY <1>2, <1>3, <1>4, <1>5

LEMMA ModesInit == ASSUME L!LocalApiAssumption, L!Init PROVE GoodModes
<1>1. Sound(L!Start)
  BY DEF Sound, HasFields, Fields, L!Start, L!TalkModes
<1>2. KnownIn(<<>>) /\ SoundIn(<<>>) /\ Len(<<>>) = 0
  BY DEF KnownIn, SoundIn
<1>3. GoodCopy(local)
  BY <1>1 DEF L!Init, GoodCopy, L!TalkModes
<1> QED BY <1>1, <1>2, <1>3 DEF L!Init, GoodModes, L!LocalApiAssumption

LEMMA ModesStep == ASSUME L!LocalApiAssumption, LocalInv, GoodModes, [L!Next]_localVars PROVE GoodModes'
<1>1. CASE L!Next
  BY <1>1, CommandModes, WireModes, LinkModes DEF L!Next
<1>2. CASE UNCHANGED localVars
  BY <1>2 DEF localVars, GoodModes
<1> QED BY <1>1, <1>2

LEMMA LocalIsRight == ASSUME LocalInv, GoodModes PROVE L!TypeOK /\ L!CopyAgrees
<1>1. L!TypeOK
  BY DEF L!TypeOK, GoodModes, GoodCopy, Sound, HasFields, L!Copy
<1>2. L!CopyAgrees
  <2> SUFFICES ASSUME L!Quiet, ~copyStale PROVE L!Copy = serverSession /\ L!Targets(L!Copy) = L!Targets(serverSession)
    BY DEF L!CopyAgrees
  <2>1. Updates(localDown) = {}
    BY NothingInEmpty DEF L!Quiet
  <2>2. local.shown = serverSession
    BY <2>1 DEF LocalInv, CopyRight, NothingAsked, L!Quiet
  <2> QED BY <2>2 DEF L!Copy
<1> QED BY <1>1, <1>2

-----------------------------------------------------------------------------
(* The ESP32 panel. *)
PanelUsers == Peers \cup {NoUser}
PanelConfigs ==
  {c \in [buttons : SUBSET PanelButtons, active : SUBSET PanelButtons, talk : BOOLEAN, caller : PanelUsers] :
     c.active \subseteq c.buttons}
PanelSessions ==
  {s \in [live : BOOLEAN, stored : BOOLEAN, locked : BOOLEAN, buttons : SUBSET PanelButtons, active : SUBSET PanelButtons,
          talk : BOOLEAN, calls : SUBSET PanelUsers, caller : PanelUsers] :
     s.active \subseteq s.buttons /\ (s.locked => s.stored)}
KeyMessages ==
  [op : {"talk"}, active : BOOLEAN] \cup [op : {"button"}, id : PanelButtons, active : BOOLEAN]
    \cup [op : {"call"}, to : PanelUsers, active : BOOLEAN]
UpMessages == KeyMessages \cup [op : {"hello", "startup"}]
DownMessages == [op : {"hello"}, stored : BOOLEAN] \cup [op : {"update"}, session : PanelConfigs]

PanelTypes ==
  /\ keysDown \subseteq {"talk", "reply"} \cup PanelButtons
  /\ panelConfig \in PanelConfigs /\ reply \in PanelUsers
  /\ flag \in [hello : BOOLEAN, startup : BOOLEAN]
  /\ toSend \in [keys : Seq(KeyMessages), wifi : Seq(KeyMessages)]
  /\ \A i \in DOMAIN toSend.wifi : ~toSend.wifi[i].active
  /\ panelLink \in E!Conns \cup {E!NoConn} /\ registry \in E!Conns \cup {E!NoConn}
  /\ panelUp \in [E!Conns -> Seq(UpMessages)] /\ panelDown \in Seq(DownMessages)
  /\ conn \in [E!Conns -> {"unused", "open", "registered", "gone"}]
  /\ panelServer \in PanelSessions /\ lost \in BOOLEAN /\ refused \subseteq PanelButtons

(* A connection says hello once, and nothing comes down on it before the server has read
   that. *)
Hellos(q) == {i \in DOMAIN q : q[i].op = "hello"}
HelloOnce ==
  \A c \in E!Conns :
    /\ \A i, j \in Hellos(panelUp[c]) : i = j
    /\ conn[c] = "registered" => Hellos(panelUp[c]) = {}
    /\ c = panelLink /\ flag.hello => Hellos(panelUp[c]) = {} /\ conn[c] # "registered"
    /\ conn[c] = "unused" => panelUp[c] = <<>> /\ c # panelLink
LinkRight ==
  /\ flag.hello \/ flag.startup => panelLink # E!NoConn
  /\ panelLink = E!NoConn => panelDown = <<>>
  /\ panelLink # E!NoConn /\ conn[panelLink] = "open" => panelDown = <<>>
  /\ registry # E!NoConn => conn[registry] = "registered" /\ panelServer.live

(* The last update on its way to the device has the session as it is. *)
Agree(c, s) == c.talk = s.talk /\ c.active = s.active /\ c.buttons = s.buttons
Pushes(q) == {i \in DOMAIN q : q[i].op = "update"}
LastIs(q, s) == \A i \in Pushes(q) : (\A j \in Pushes(q) : j <= i) => Agree(q[i].session, s)
Greeted == panelLink # E!NoConn /\ registry = panelLink
LastPush == Greeted => LastIs(panelDown, panelServer)

(* What a message is about: the talk key, a button, or the configuration at the start. *)
Things == {"talk"} \cup PanelButtons
About(x) == {m \in UpMessages : IF x = "talk" THEN m.op = "talk" ELSE m.op = "button" /\ m.id = x}
Startups == {m \in UpMessages : m.op = "startup"}
Has(q, set) == \E i \in DOMAIN q : q[i] \in set
Pending(x) == Has(toSend.keys, About(x)) \/ Has(toSend.wifi, About(x)) \/ Has(panelUp[panelLink], About(x))

(* With none on its way the device has what the session has, of everything that it has said
   nothing about since and that the server has not refused: its own key comes before the
   message.  A device that the server has no configuration of is told nothing until it has
   sent its own. *)
Unstored(q) == \E i \in DOMAIN q : q[i].op = "hello" /\ ~q[i].stored
Informed ==
  \/ panelServer.stored
  \/ ~Unstored(panelDown) /\ ~flag.startup /\ ~Has(panelUp[panelLink], Startups)
On(s, x) == IF x = "talk" THEN s.talk ELSE x \in s.active
Follows(x) == Pending(x) \/ x \in refused \/ (On(panelConfig, x) <=> On(panelServer, x))
PanelFollows ==
  Greeted /\ Pushes(panelDown) = {} /\ Informed /\ ~lost =>
    panelConfig.buttons = panelServer.buttons /\ \A x \in Things : Follows(x)

(* A button is refused while it is locked, and what unlocks it is pushed. *)
RefusedRight ==
  /\ refused # {} => panelServer.stored
  /\ Greeted /\ Pushes(panelDown) = {} /\ ~panelServer.locked => refused = {}

PanelInv == PanelTypes /\ HelloOnce /\ LinkRight /\ LastPush /\ PanelFollows /\ RefusedRight

LEMMA SamePanelCount == ASSUME NEW set PROVE E!Cardinality(set) = Cardinality(set)
BY DEF E!Cardinality, Cardinality

LEMMA SameFinite == ASSUME NEW set PROVE E!IsFiniteSet(set) <=> IsFiniteSet(set)
BY DEF E!IsFiniteSet, IsFiniteSet

LEMMA SetAsSeq ==
  ASSUME NEW set, IsFiniteSet(set)
  PROVE  /\ E!SetToSeq(set) \in Seq(set)
         /\ \A x \in set : \E i \in DOMAIN E!SetToSeq(set) : E!SetToSeq(set)[i] = x
<1> DEFINE n == Cardinality(set)
<1>1. n \in Nat /\ ExistsBijection(1..n, set)
  BY FS_CardinalityType
<1>2. \E f \in [1..n -> set] : E!IsInjective(f)
  BY <1>1 DEF ExistsBijection, Bijection, Injection, IsInjective, E!IsInjective
<1>3. n = E!Cardinality(set)
  BY SamePanelCount
<1> HIDE DEF n
<1>4. E!SetToSeq(set) \in [1..n -> set] /\ E!IsInjective(E!SetToSeq(set))
  BY <1>2, <1>3 DEF E!SetToSeq
<1>5. E!SetToSeq(set) \in Seq(set) /\ DOMAIN E!SetToSeq(set) = 1..n
  BY <1>1, <1>4
<1>6. E!SetToSeq(set) \in Injection(1..n, set)
  BY <1>4 DEF Injection, IsInjective, E!IsInjective
<1>7. IsFiniteSet(1..n) /\ Cardinality(1..n) = n
  BY <1>1, FS_Interval
<1>8. E!SetToSeq(set) \in Surjection(1..n, set)
  BY <1>6, <1>7, FS_Injection DEF n
<1> QED BY <1>5, <1>8 DEF Surjection

LEMMA OneMore ==
  ASSUME NEW Messages, NEW q \in Seq(Messages), NEW m \in Messages
  PROVE  /\ Append(q, m) \in Seq(Messages) /\ q \o <<m>> = Append(q, m)
         /\ Len(q) + 1 \in DOMAIN Append(q, m) /\ Append(q, m)[Len(q) + 1] = m
         /\ \A i \in DOMAIN q : i \in DOMAIN Append(q, m) /\ Append(q, m)[i] = q[i] /\ i # Len(q) + 1 /\ i <= Len(q) + 1
         /\ \A i \in DOMAIN Append(q, m) : i \in DOMAIN q \/ i = Len(q) + 1
<1>1. \A i \in DOMAIN q : i \in 1..Len(q)
  OBVIOUS
<1> QED BY <1>1

LEMMA OneLess ==
  ASSUME NEW Messages, NEW q \in Seq(Messages), q # <<>>
  PROVE  /\ Head(q) \in Messages /\ Head(q) = q[1] /\ 1 \in DOMAIN q
         /\ Tail(q) \in Seq(Messages)
         /\ \A i \in DOMAIN Tail(q) : i \in Nat /\ i + 1 \in DOMAIN q /\ Tail(q)[i] = q[i + 1]
         /\ \A i \in DOMAIN q : i = 1 \/ (i - 1 \in DOMAIN Tail(q) /\ Tail(q)[i - 1] = q[i])
  OBVIOUS

LEMMA HasMore ==
  ASSUME NEW Messages, NEW q \in Seq(Messages), NEW m \in Messages, NEW set
  PROVE  Has(Append(q, m), set) <=> Has(q, set) \/ m \in set
<1>1. /\ Len(q) + 1 \in DOMAIN Append(q, m) /\ Append(q, m)[Len(q) + 1] = m
      /\ \A i \in DOMAIN q : i \in DOMAIN Append(q, m) /\ Append(q, m)[i] = q[i]
      /\ \A i \in DOMAIN Append(q, m) : i \in DOMAIN q \/ i = Len(q) + 1
  BY OneMore
<1> QED BY <1>1, ZenonT(60) DEF Has

LEMMA HasLess ==
  ASSUME NEW Messages, NEW q \in Seq(Messages), q # <<>>, NEW set
  PROVE  Has(q, set) <=> Head(q) \in set \/ Has(Tail(q), set)
<1>1. /\ Head(q) = q[1] /\ 1 \in DOMAIN q
      /\ \A i \in DOMAIN Tail(q) : i + 1 \in DOMAIN q /\ Tail(q)[i] = q[i + 1]
      /\ \A i \in DOMAIN q : i = 1 \/ (i - 1 \in DOMAIN Tail(q) /\ Tail(q)[i - 1] = q[i])
  BY OneLess
<1> QED BY <1>1, ZenonT(60) DEF Has

LEMMA HasEither ==
  ASSUME NEW Messages, NEW q \in Seq(Messages), NEW r \in Seq(Messages), NEW set
  PROVE  Has(q, set) \/ Has(r, set) => Has(q \o r, set)
<1>1. \A i \in DOMAIN q : i \in DOMAIN (q \o r) /\ (q \o r)[i] = q[i]
  OBVIOUS
<1>2. \A i \in DOMAIN r : Len(q) + i \in DOMAIN (q \o r) /\ (q \o r)[Len(q) + i] = r[i]
  OBVIOUS
<1> QED BY <1>1, <1>2, ZenonT(60) DEF Has

LEMMA HasOne == ASSUME NEW m, NEW set PROVE Has(<<m>>, set) <=> m \in set
<1>1. DOMAIN <<m>> = {1} /\ <<m>>[1] = m
  OBVIOUS
<1> QED BY <1>1 DEF Has

LEMMA HasNone == ASSUME NEW set PROVE ~Has(<<>>, set)
  BY DEF Has

(* What is taken from a queue leaves the rest of it as it was. *)
LEMMA PushesOfTail ==
  ASSUME NEW q \in Seq(DownMessages), q # <<>>, NEW s
  PROVE  /\ LastIs(q, s) => LastIs(Tail(q), s)
         /\ Pushes(Tail(q)) = {} /\ q[1].op = "update" /\ LastIs(q, s) => Agree(q[1].session, s)
         /\ Pushes(Tail(q)) = {} /\ q[1].op # "update" => Pushes(q) = {}
         /\ ~Unstored(Tail(q)) /\ ~(q[1].op = "hello" /\ ~q[1].stored) => ~Unstored(q)
<1>1. /\ \A i \in DOMAIN Tail(q) : i \in Nat /\ i + 1 \in DOMAIN q /\ Tail(q)[i] = q[i + 1]
      /\ \A i \in DOMAIN q : i = 1 \/ (i - 1 \in DOMAIN Tail(q) /\ Tail(q)[i - 1] = q[i])
      /\ 1 \in DOMAIN q
  BY OneLess
<1>2. \A i \in DOMAIN q : i \in Nat /\ i >= 1
  OBVIOUS
<1>3. ASSUME LastIs(q, s) PROVE LastIs(Tail(q), s)
  <2> SUFFICES ASSUME NEW i \in Pushes(Tail(q)), \A j \in Pushes(Tail(q)) : j <= i
               PROVE  Agree(Tail(q)[i].session, s)
    BY DEF LastIs
  <2>1. i + 1 \in Pushes(q) /\ q[i + 1] = Tail(q)[i] /\ i \in Nat
    BY <1>1 DEF Pushes
  <2>2. ASSUME NEW j \in Pushes(q) PROVE j <= i + 1
    <3>1. j \in Nat /\ (j = 1 \/ j - 1 \in Pushes(Tail(q)))
      BY <1>1, <1>2 DEF Pushes
    <3> QED BY <3>1, <2>1
  <2> QED BY <2>1, <2>2, <1>3 DEF LastIs
<1>4. ASSUME Pushes(Tail(q)) = {}, q[1].op = "update", LastIs(q, s) PROVE Agree(q[1].session, s)
  <2>1. 1 \in Pushes(q)
    BY <1>1, <1>4 DEF Pushes
  <2>2. \A j \in Pushes(q) : j = 1
    BY <1>1, <1>4 DEF Pushes
  <2> QED BY <2>1, <2>2, <1>4 DEF LastIs
<1>5. ASSUME Pushes(Tail(q)) = {}, q[1].op # "update" PROVE Pushes(q) = {}
  <2> SUFFICES ASSUME NEW i \in Pushes(q) PROVE FALSE
    OBVIOUS
  <2>1. i \in DOMAIN q /\ i # 1
    BY <1>5 DEF Pushes
  <2>2. i - 1 \in Pushes(Tail(q))
    BY <1>1, <2>1 DEF Pushes
  <2> QED BY <1>5, <2>2
<1>6. ASSUME ~Unstored(Tail(q)), ~(q[1].op = "hello" /\ ~q[1].stored) PROVE ~Unstored(q)
  BY <1>1, <1>6 DEF Unstored
<1> QED BY <1>3, <1>4, <1>5, <1>6

(* A session that is pushed is the last on its way. *)
LEMMA UpdateIsPush ==
  ASSUME NEW s \in PanelSessions
  PROVE  /\ E!Update(s) \in DownMessages /\ E!Update(s).op = "update" /\ Agree(E!Update(s).session, s)
<1>1. E!Update(s).session \in PanelConfigs
  BY DEF E!Update, PanelConfigs, PanelSessions
<1> QED BY <1>1 DEF E!Update, DownMessages, Agree

LEMMA LastOfAppended ==
  ASSUME NEW q \in Seq(DownMessages), NEW s \in PanelSessions
  PROVE  /\ Append(q, E!Update(s)) \in Seq(DownMessages)
         /\ LastIs(Append(q, E!Update(s)), s) /\ Pushes(Append(q, E!Update(s))) # {}
<1> DEFINE r == Append(q, E!Update(s))
           n == Len(q) + 1
<1>1. E!Update(s) \in DownMessages /\ E!Update(s).op = "update" /\ Agree(E!Update(s).session, s)
  BY UpdateIsPush
<1>2. /\ r \in Seq(DownMessages) /\ n \in DOMAIN r /\ r[n] = E!Update(s)
      /\ \A i \in DOMAIN r : i \in DOMAIN q \/ i = n
      /\ \A i \in DOMAIN q : i <= n /\ i # n
  BY <1>1, OneMore
<1>3. n \in Pushes(r)
  BY <1>1, <1>2 DEF Pushes
<1>4. \A i \in DOMAIN q : i \in Int /\ n \in Int
  OBVIOUS
<1> HIDE DEF r, n
<1>5. ASSUME NEW i \in Pushes(r), \A j \in Pushes(r) : j <= i PROVE Agree(r[i].session, s)
  <2>1. n <= i
    BY <1>3, <1>5
  <2>2. i = n
    BY <2>1, <1>2, <1>4 DEF Pushes
  <2> QED BY <2>2, <1>1, <1>2
<1>6. LastIs(r, s) /\ Pushes(r) # {}
  BY <1>3, <1>5 DEF LastIs
<1> QED BY <1>2, <1>6 DEF r

LEMMA ToldOrNot ==
  ASSUME PanelTypes, NEW c \in E!Conns \cup {E!NoConn}, NEW s \in PanelSessions
  PROVE  /\ E!Told(c, <<E!Update(s)>>) \in Seq(DownMessages)
         /\ c # panelLink \/ c = E!NoConn => E!Told(c, <<E!Update(s)>>) = panelDown
         /\ c = panelLink /\ c # E!NoConn => /\ LastIs(E!Told(c, <<E!Update(s)>>), s)
                                     /\ Pushes(E!Told(c, <<E!Update(s)>>)) # {}
<1>1. panelDown \in Seq(DownMessages)
  BY DEF PanelTypes
<1>2. E!Update(s) \in DownMessages
  BY UpdateIsPush
<1>3. panelDown \o <<E!Update(s)>> = Append(panelDown, E!Update(s))
  BY <1>1, <1>2, OneMore
<1> QED BY <1>1, <1>3, LastOfAppended DEF E!Told

(* What the server changes it pushes: whoever is greeted has it on the way. *)
LEMMA PushingKeeps ==
  ASSUME E!PanelAssumption, PanelInv, panelServer' \in PanelSessions, panelDown' = E!Told(registry', <<E!Update(panelServer')>>),
         registry' \in {registry, E!NoConn}, registry' # E!NoConn => panelServer'.live /\ conn'[registry'] = "registered",
         panelLink # E!NoConn /\ conn'[panelLink] = "open" => conn[panelLink] = "open" /\ registry' # panelLink,
         panelUp' \in [E!Conns -> Seq(UpMessages)], conn' \in [E!Conns -> {"unused", "open", "registered", "gone"}], HelloOnce',
         panelServer.stored => panelServer'.stored,
         UNCHANGED <<keysDown, panelConfig, reply, flag, toSend, panelLink, lost, refused>>
  PROVE  PanelInv'
<1> USE DEF PanelInv
<1>1. registry' \in E!Conns \cup {E!NoConn}
  BY DEF PanelTypes
<1>2. /\ panelDown' \in Seq(DownMessages)
      /\ registry' # panelLink \/ registry' = E!NoConn => panelDown' = panelDown
      /\ registry' = panelLink /\ registry' # E!NoConn => LastIs(panelDown', panelServer') /\ Pushes(panelDown') # {}
  BY <1>1, ToldOrNot
<1>3. PanelTypes'
  BY <1>1, <1>2 DEF PanelTypes
<1>4. LinkRight'
  BY <1>2 DEF LinkRight, E!NoConn
<1>5. LastPush' /\ PanelFollows'
  BY <1>2 DEF LastPush, PanelFollows, Greeted, E!NoConn
<1>6. RefusedRight'
  BY <1>2 DEF RefusedRight, Greeted, E!NoConn
<1> QED BY <1>3, <1>4, <1>5, <1>6

LEMMA PanelInit == ASSUME E!PanelAssumption, E!Init PROVE PanelInv
<1> USE DEF E!Init, E!NoConn
<1>1. panelConfig \in PanelConfigs
  BY DEF PanelConfigs, PanelUsers
<1>2. panelServer \in PanelSessions
  <2>1. PICK offered \in Lists \cup {{}}, lock \in BOOLEAN :
          /\ lock => offered # {}
          /\ panelServer = [live |-> FALSE, stored |-> offered # {}, locked |-> lock, buttons |-> offered,
                            active |-> {}, talk |-> FALSE, calls |-> {}, caller |-> NoUser]
    OBVIOUS
  <2>2. offered \in SUBSET PanelButtons
    BY DEF E!PanelAssumption
  <2> QED BY <2>1, <2>2 DEF PanelSessions, PanelUsers
<1>3. PanelTypes
  <2>1. <<>> \in Seq(KeyMessages) /\ <<>> \in Seq(UpMessages) /\ <<>> \in Seq(DownMessages)
    OBVIOUS
  <2>2. panelUp \in [E!Conns -> Seq(UpMessages)] /\ conn \in [E!Conns -> {"unused", "open", "registered", "gone"}]
    BY <2>1
  <2>3. toSend \in [keys : Seq(KeyMessages), wifi : Seq(KeyMessages)] /\ toSend.wifi = <<>>
    BY <2>1
  <2>4. flag \in [hello : BOOLEAN, startup : BOOLEAN] /\ reply \in PanelUsers
    BY DEF PanelUsers
  <2>5. \A i \in DOMAIN toSend.wifi : ~toSend.wifi[i].active
    BY <2>3
  <2> QED BY <1>1, <1>2, <2>1, <2>2, <2>3, <2>4, <2>5 DEF PanelTypes
<1>4. HelloOnce
  BY <1>3 DEF HelloOnce, Hellos, E!Conns
<1>5. LinkRight /\ LastPush /\ PanelFollows /\ RefusedRight
  BY DEF LinkRight, LastPush, PanelFollows, RefusedRight, Greeted
<1> QED BY <1>3, <1>4, <1>5 DEF PanelInv

LEMMA KeyMessageFacts ==
  /\ \A on \in BOOLEAN : E!Talk(on) \in KeyMessages /\ E!Talk(on).op = "talk" /\ E!Talk(on).active = on
  /\ \A b \in PanelButtons : \A on \in BOOLEAN : /\ E!Button(b, on) \in KeyMessages /\ E!Button(b, on).op = "button"
                                           /\ E!Button(b, on).id = b /\ E!Button(b, on).active = on
  /\ \A p \in PanelUsers : \A on \in BOOLEAN : E!Call(p, on) \in KeyMessages /\ E!Call(p, on).op = "call" /\ E!Call(p, on).active = on
  BY DEF KeyMessages, E!Talk, E!Button, E!Call

LEMMA OneMessage == ASSUME NEW m \in KeyMessages PROVE <<m>> \in Seq(KeyMessages)
  OBVIOUS

(* What the device says of a key, it says about that key. *)
LEMMA AboutKeys ==
  ASSUME E!PanelAssumption
  PROVE  /\ \A on \in BOOLEAN : E!Talk(on) \in About("talk")
         /\ \A b \in PanelButtons : b # "talk" /\ \A on \in BOOLEAN : E!Button(b, on) \in About(b)
<1>1. \A b \in PanelButtons : b # "talk"
  BY DEF E!PanelAssumption
<1> QED BY <1>1, KeyMessageFacts DEF About, UpMessages

LEMMA PressedIsConfig ==
  ASSUME E!PanelAssumption, PanelTypes, NEW k \in Things, NEW isDown \in BOOLEAN
  PROVE  /\ E!Pressed(k, isDown) \in PanelConfigs /\ E!Pressed(k, isDown).buttons = panelConfig.buttons
         /\ \A x \in Things \ {k} : On(E!Pressed(k, isDown), x) <=> On(panelConfig, x)
<1>1. /\ panelConfig \in [buttons : SUBSET PanelButtons, active : SUBSET PanelButtons, talk : BOOLEAN, caller : PanelUsers]
      /\ panelConfig.active \subseteq panelConfig.buttons
  BY DEF PanelTypes, PanelConfigs
<1>2. CASE k = "talk"
  <2>1. E!Pressed(k, isDown) = [panelConfig EXCEPT !.talk = isDown]
    BY <1>2 DEF E!Pressed
  <2>2. [panelConfig EXCEPT !.talk = isDown] \in PanelConfigs
    BY <1>1 DEF PanelConfigs
  <2> QED BY <2>1, <2>2, <1>1, <1>2 DEF On
<1>3. CASE k # "talk" /\ k \in panelConfig.buttons
  <2> DEFINE set == E!With(panelConfig.active, k, E!NowActive(k, k \in panelConfig.active, isDown))
  <2>1. E!Pressed(k, isDown) = [panelConfig EXCEPT !.active = set]
    BY <1>3 DEF E!Pressed
  <2>2. set \subseteq panelConfig.buttons /\ \A x : x # k => (x \in set <=> x \in panelConfig.active)
    BY <1>1, <1>3 DEF E!With
  <2> HIDE DEF set
  <2>3. [panelConfig EXCEPT !.active = set] \in PanelConfigs
    BY <1>1, <2>2 DEF PanelConfigs
  <2> QED BY <2>1, <2>2, <2>3, <1>1, <1>3 DEF On
<1>4. CASE k # "talk" /\ k \notin panelConfig.buttons
  BY <1>4 DEF E!Pressed, PanelTypes
<1> QED BY <1>2, <1>3, <1>4

LEMMA KeyKeeps == ASSUME E!PanelAssumption, PanelInv, NEW k \in Things, E!Key(k) PROVE PanelInv'
<1> USE DEF PanelInv
<1> DEFINE isDown == k \notin keysDown
           m == IF k = "talk" THEN E!Talk(isDown) ELSE E!Button(k, isDown)
<1>1. /\ toSend.keys = <<>> /\ keysDown' = E!With(keysDown, k, isDown) /\ panelConfig' = E!Pressed(k, isDown)
      /\ toSend' = [toSend EXCEPT !.keys = <<m>>]
      /\ UNCHANGED <<reply, flag, panelLink, panelUp, panelDown, conn, registry, panelServer, lost, refused>>
  BY DEF E!Key
<1>2. m \in KeyMessages /\ m \in About(k)
  BY KeyMessageFacts, AboutKeys DEF Things
<1>3. keysDown' \subseteq {"talk", "reply"} \cup PanelButtons
  BY <1>1 DEF E!With, PanelTypes, Things
<1>4. /\ panelConfig' \in PanelConfigs /\ panelConfig'.buttons = panelConfig.buttons
      /\ \A x \in Things \ {k} : On(panelConfig', x) <=> On(panelConfig, x)
  BY <1>1, PressedIsConfig
<1> HIDE DEF m
<1>5. /\ toSend' \in [keys : Seq(KeyMessages), wifi : Seq(KeyMessages)]
      /\ toSend'.wifi = toSend.wifi /\ toSend'.keys = <<m>>
  BY <1>1, <1>2, OneMessage DEF PanelTypes
<1>6. PanelTypes'
  BY <1>1, <1>3, <1>4, <1>5 DEF PanelTypes
<1>7. HelloOnce' /\ LinkRight' /\ LastPush' /\ RefusedRight'
  BY <1>1 DEF HelloOnce, LinkRight, LastPush, RefusedRight, Greeted
<1>8. PanelFollows'
  <2> SUFFICES ASSUME Greeted, Pushes(panelDown) = {}, Informed', ~lost
               PROVE  panelConfig'.buttons = panelServer.buttons /\ \A x \in Things : Follows(x)'
    BY <1>1 DEF PanelFollows, Greeted
  <2>1. Informed
    BY <1>1 DEF Informed
  <2>2. panelConfig.buttons = panelServer.buttons /\ \A x \in Things : Follows(x)
    BY <2>1 DEF PanelFollows
  <2>3. Pending(k)'
    BY <1>2, <1>5, HasOne DEF Pending
  <2>4. ASSUME NEW x \in Things, x # k PROVE Follows(x)'
    <3>1. Pending(x) => Pending(x)'
      BY <1>1, <1>5, HasNone DEF Pending
    <3>2. On(panelConfig', x) <=> On(panelConfig, x)
      BY <1>4, <2>4
    <3> QED BY <3>1, <3>2, <2>2, <1>1 DEF Follows
  <2> QED BY <2>2, <2>3, <2>4, <1>4 DEF Follows
<1> QED BY <1>6, <1>7, <1>8

LEMMA ReplyKeyKeeps == ASSUME PanelInv, E!ReplyKey PROVE PanelInv'
<1> USE DEF PanelInv
<1> DEFINE isDown == "reply" \notin keysDown
           target == IF isDown THEN panelConfig.caller ELSE reply
           list == IF target = NoUser THEN <<>> ELSE <<E!Call(target, isDown)>>
<1>1. /\ toSend.keys = <<>> /\ keysDown' = E!With(keysDown, "reply", isDown) /\ reply' = IF isDown THEN target ELSE NoUser
      /\ toSend' = [toSend EXCEPT !.keys = list]
      /\ UNCHANGED <<panelConfig, flag, panelLink, panelUp, panelDown, conn, registry, panelServer, lost, refused>>
  BY DEF E!ReplyKey
<1>2. target \in PanelUsers
  BY DEF PanelTypes, PanelConfigs
<1>3. list \in Seq(KeyMessages)
  <2>1. E!Call(target, isDown) \in KeyMessages /\ E!Call(target, isDown).op = "call"
    BY <1>2, KeyMessageFacts
  <2> QED BY <2>1, OneMessage
<1>4. keysDown' \subseteq {"talk", "reply"} \cup PanelButtons /\ reply' \in PanelUsers
  BY <1>1, <1>2 DEF E!With, PanelTypes, PanelUsers
<1> HIDE DEF list, target
<1>5. /\ toSend' \in [keys : Seq(KeyMessages), wifi : Seq(KeyMessages)]
      /\ toSend'.wifi = toSend.wifi /\ toSend'.keys = list
  BY <1>1, <1>3 DEF PanelTypes
<1>6. PanelTypes'
  BY <1>1, <1>4, <1>5 DEF PanelTypes
<1>7. HelloOnce' /\ LinkRight' /\ LastPush' /\ RefusedRight'
  BY <1>1 DEF HelloOnce, LinkRight, LastPush, RefusedRight, Greeted
<1>8. PanelFollows'
  <2>1. \A x : Pending(x) => Pending(x)'
    BY <1>1, <1>5, HasNone DEF Pending
  <2>2. Informed' <=> Informed
    BY <1>1 DEF Informed
  <2> QED BY <2>1, <2>2, <1>1 DEF PanelFollows, Greeted, Follows
<1> QED BY <1>6, <1>7, <1>8

(* A message is on its way as it was to be sent, or it is lost. *)
LEMMA SendFacts ==
  ASSUME PanelTypes, NEW m \in UpMessages, E!Send(m)
  PROVE  \/ /\ lost' = lost /\ panelLink # E!NoConn /\ panelLink \in E!Conns /\ panelUp' = [panelUp EXCEPT ![panelLink] = Append(panelUp[panelLink], m)]
            /\ panelUp' \in [E!Conns -> Seq(UpMessages)] /\ panelUp'[panelLink] = Append(panelUp[panelLink], m)
            /\ \A c \in E!Conns : c # panelLink => panelUp'[c] = panelUp[c]
         \/ lost' = TRUE /\ panelUp' = panelUp
<1>1. CASE lost' = lost /\ panelLink # E!NoConn /\ panelUp' = [panelUp EXCEPT ![panelLink] = Append(@, m)]
  <2>1. panelLink \in E!Conns /\ panelUp[panelLink] \in Seq(UpMessages) /\ DOMAIN panelUp = E!Conns
    BY <1>1 DEF PanelTypes
  <2>2. Append(panelUp[panelLink], m) \in Seq(UpMessages)
    BY <2>1, OneMore
  <2> QED BY <1>1, <2>1, <2>2 DEF PanelTypes
<1> QED BY <1>1 DEF E!Send

LEMMA SendsKeeps == ASSUME PanelInv, NEW t \in {"keys", "wifi"}, E!Sends(t) PROVE PanelInv'
<1> USE DEF PanelInv
<1> DEFINE m == Head(toSend[t])
<1>1. /\ toSend[t] # <<>> /\ E!Send(m) /\ toSend' = [toSend EXCEPT ![t] = Tail(toSend[t])]
      /\ UNCHANGED <<keysDown, panelConfig, reply, flag, panelLink, panelDown, conn, registry, panelServer, refused>>
  BY DEF E!Sends
<1>2. toSend[t] \in Seq(KeyMessages) /\ toSend \in [keys : Seq(KeyMessages), wifi : Seq(KeyMessages)]
  BY DEF PanelTypes
<1>3. /\ m \in KeyMessages /\ m = toSend[t][1] /\ 1 \in DOMAIN toSend[t] /\ Tail(toSend[t]) \in Seq(KeyMessages)
      /\ \A i \in DOMAIN Tail(toSend[t]) : i + 1 \in DOMAIN toSend[t] /\ Tail(toSend[t])[i] = toSend[t][i + 1]
      /\ \A i \in DOMAIN toSend[t] : i = 1 \/ (i - 1 \in DOMAIN Tail(toSend[t]) /\ Tail(toSend[t])[i - 1] = toSend[t][i])
  BY <1>1, <1>2, OneLess
<1>4. m \in UpMessages /\ m.op # "hello"
  BY <1>3 DEF UpMessages, KeyMessages
<1> HIDE DEF m
<1>5. /\ toSend' \in [keys : Seq(KeyMessages), wifi : Seq(KeyMessages)]
      /\ toSend'[t] = Tail(toSend[t])
      /\ \A other \in {"keys", "wifi"} : other # t => toSend'[other] = toSend[other]
  BY <1>1, <1>2, <1>3
<1>6. \/ /\ lost' = lost /\ panelLink # E!NoConn /\ panelLink \in E!Conns
         /\ panelUp' \in [E!Conns -> Seq(UpMessages)] /\ panelUp'[panelLink] = Append(panelUp[panelLink], m)
         /\ \A c \in E!Conns : c # panelLink => panelUp'[c] = panelUp[c]
      \/ lost' = TRUE /\ panelUp' = panelUp
  BY <1>1, <1>4, SendFacts
<1>7. panelUp' \in [E!Conns -> Seq(UpMessages)] /\ lost' \in BOOLEAN
  BY <1>6 DEF PanelTypes
<1>8. PanelTypes'
  <2>1. ASSUME NEW i \in DOMAIN toSend'.wifi PROVE ~toSend'.wifi[i].active
    <3>1. CASE t = "wifi"
      <4>1. toSend'.wifi = Tail(toSend.wifi)
        BY <3>1, <1>5
      <4>2. i + 1 \in DOMAIN toSend.wifi /\ toSend'.wifi[i] = toSend.wifi[i + 1]
        BY <4>1, <3>1, <1>3, <2>1
      <4> QED BY <4>2 DEF PanelTypes
    <3>2. CASE t # "wifi"
      <4>1. toSend'.wifi = toSend.wifi
        BY <3>2, <1>5
      <4> QED BY <4>1, <2>1 DEF PanelTypes
    <3> QED BY <3>1, <3>2
  <2> QED BY <1>1, <1>5, <1>7, <2>1 DEF PanelTypes
<1>9. \A c \in E!Conns : /\ Hellos(panelUp'[c]) = Hellos(panelUp[c])
                         /\ c # panelLink => panelUp'[c] = panelUp[c]
  <2>1. ASSUME panelLink \in E!Conns, panelUp'[panelLink] = Append(panelUp[panelLink], m) PROVE Hellos(panelUp'[panelLink]) = Hellos(panelUp[panelLink])
    <3>1. panelUp[panelLink] \in Seq(UpMessages)
      BY <2>1 DEF PanelTypes
    <3> QED BY <3>1, <2>1, <1>4, OneMore DEF Hellos
  <2> QED BY <2>1, <1>6
<1>10. HelloOnce'
  BY <1>1, <1>9 DEF HelloOnce
<1>11. LinkRight' /\ LastPush' /\ RefusedRight'
  BY <1>1 DEF LinkRight, LastPush, RefusedRight, Greeted
<1>12. PanelFollows'
  <2> SUFFICES ASSUME Greeted, Pushes(panelDown) = {}, Informed', ~lost'
               PROVE  panelConfig.buttons = panelServer.buttons /\ \A x \in Things : Follows(x)'
    BY <1>1 DEF PanelFollows, Greeted
  <2>1. lost' = lost /\ panelLink \in E!Conns /\ panelUp'[panelLink] = Append(panelUp[panelLink], m)
    BY <1>6
  <2>2. panelUp[panelLink] \in Seq(UpMessages)
    BY <2>1 DEF PanelTypes
  <2>3. \A set : Has(panelUp'[panelLink], set) <=> Has(panelUp[panelLink], set) \/ m \in set
    BY <2>1, <2>2, <1>4, HasMore
  <2>4. \A set : Has(toSend[t], set) <=> m \in set \/ Has(toSend'[t], set)
    BY <1>1, <1>2, <1>5, HasLess DEF m
  <2>5. Informed
    BY <2>3, <1>1 DEF Informed
  <2>6. panelConfig.buttons = panelServer.buttons /\ \A x \in Things : Follows(x)
    BY <2>1, <2>5 DEF PanelFollows
  <2>7. ASSUME NEW x \in Things PROVE Pending(x) => Pending(x)'
    <3>1. Has(toSend.keys, About(x)) => m \in About(x) \/ Has(toSend'.keys, About(x))
      BY <2>4, <1>5
    <3>2. Has(toSend.wifi, About(x)) => m \in About(x) \/ Has(toSend'.wifi, About(x))
      BY <2>4, <1>5
    <3> QED BY <3>1, <3>2, <2>3, <1>1 DEF Pending
  <2> QED BY <2>6, <2>7, <1>1 DEF Follows
<1> QED BY <1>8, <1>10, <1>11, <1>12

(* The releases of a device tell all that it transmits. *)
LEMMA ReleasesTell ==
  ASSUME E!PanelAssumption, PanelTypes
  PROVE  /\ E!Releases \in Seq(KeyMessages) /\ \A i \in DOMAIN E!Releases : ~E!Releases[i].active
         /\ \A x \in Things : On(panelConfig, x) => Has(E!Releases, About(x))
<1> DEFINE Ends0 == {m \in KeyMessages : ~m.active}
           set == {E!Button(b, FALSE) : b \in panelConfig.active}
           first == IF panelConfig.talk THEN <<E!Talk(FALSE)>> ELSE <<>>
           second == E!SetToSeq(set)
           third == IF reply # NoUser THEN <<E!Call(reply, FALSE)>> ELSE <<>>
<1>1. /\ panelConfig.active \subseteq PanelButtons /\ panelConfig.active \subseteq panelConfig.buttons /\ panelConfig.talk \in BOOLEAN
      /\ reply \in PanelUsers
  BY DEF PanelTypes, PanelConfigs
<1>2. IsFiniteSet(panelConfig.active)
  <2>1. IsFiniteSet(PanelButtons)
    BY SameFinite DEF E!PanelAssumption
  <2> QED BY <1>1, <2>1, FS_Subset
<1>3. IsFiniteSet(set)
  <2> DEFINE f == [b \in panelConfig.active |-> E!Button(b, FALSE)]
  <2>1. f \in Surjection(panelConfig.active, set)
    BY DEF Surjection
  <2> HIDE DEF f, set
  <2> QED BY <1>2, <2>1, FS_Surjection
<1>4. set \subseteq Ends0 /\ \A m \in set : \E b \in panelConfig.active : m.op = "button" /\ m.id = b
  <2>1. ASSUME NEW b \in panelConfig.active
        PROVE  E!Button(b, FALSE) \in Ends0 /\ E!Button(b, FALSE).op = "button" /\ E!Button(b, FALSE).id = b
    <3>1. E!Button(b, FALSE) \in KeyMessages /\ E!Button(b, FALSE).active = FALSE
      BY <1>1, KeyMessageFacts
    <3> QED BY <1>1, <3>1, KeyMessageFacts
  <2> HIDE DEF Ends0
  <2> QED BY <2>1, ZenonT(60)
<1>5. second \in Seq(set) /\ \A m \in set : \E i \in DOMAIN second : second[i] = m
  BY <1>3, SetAsSeq
<1>6. first \in Seq(Ends0) /\ third \in Seq(Ends0)
  <2>1. E!Talk(FALSE) \in Ends0
    <3>1. E!Talk(FALSE) \in KeyMessages /\ E!Talk(FALSE).active = FALSE
      BY KeyMessageFacts
    <3> QED BY <3>1
  <2>2. E!Call(reply, FALSE) \in Ends0
    <3>1. E!Call(reply, FALSE) \in KeyMessages /\ E!Call(reply, FALSE).active = FALSE
      BY <1>1, KeyMessageFacts
    <3> QED BY <3>1
  <2> HIDE DEF Ends0
  <2>3. <<>> \in Seq(Ends0) /\ \A m \in Ends0 : <<m>> \in Seq(Ends0)
    OBVIOUS
  <2>4. first \in Seq(Ends0)
    BY <2>1, <2>3, Zenon
  <2>5. third \in Seq(Ends0)
    BY <2>2, <2>3, Zenon
  <2> QED BY <2>4, <2>5
<1>7. second \in Seq(Ends0)
  <2> HIDE DEF Ends0, set, second
  <2> QED BY <1>4, <1>5
<1>8. E!Releases = (first \o second) \o third
  BY DEF E!Releases
<1>9. panelConfig.talk => Has(first, About("talk"))
  BY HasOne, AboutKeys
<1>10. ASSUME NEW b \in panelConfig.active PROVE b # "talk" /\ Has(second, About(b))
  <2>1. b # "talk" /\ E!Button(b, FALSE) \in About(b)
    BY <1>1, AboutKeys
  <2>2. E!Button(b, FALSE) \in set
    OBVIOUS
  <2> HIDE DEF second, set
  <2> QED BY <2>1, <2>2, <1>5 DEF Has
<1> HIDE DEF second, third, set
<1>11. first \o second \in Seq(Ends0) /\ (first \o second) \o third \in Seq(Ends0)
  <2> HIDE DEF Ends0, first
  <2> QED BY <1>6, <1>7
<1>12. E!Releases \in Seq(KeyMessages) /\ \A i \in DOMAIN E!Releases : ~E!Releases[i].active
  <2>1. \A i \in DOMAIN E!Releases : E!Releases[i] \in Ends0
    <3> HIDE DEF Ends0
    <3>1. E!Releases \in Seq(Ends0)
      BY <1>8, <1>11
    <3> QED BY <3>1
  <2>2. E!Releases \in Seq(Ends0) /\ Ends0 \subseteq KeyMessages
    BY <1>8, <1>11
  <2>3. E!Releases \in Seq(KeyMessages)
    <3> HIDE DEF Ends0
    <3> QED BY <2>2
  <2> QED BY <2>1, <2>3
<1>13. ASSUME NEW x \in Things, On(panelConfig, x) PROVE Has(E!Releases, About(x))
  <2> HIDE DEF Ends0, first
  <2>1. Has(first, About(x)) \/ Has(second, About(x))
    BY <1>9, <1>10, <1>13 DEF On, Things
  <2>2. Has(first \o second, About(x))
    BY <2>1, <1>6, <1>7, HasEither
  <2> QED BY <2>2, <1>6, <1>8, <1>11, HasEither
<1> QED BY <1>12, <1>13

LEMMA ClearedIsConfig ==
  ASSUME PanelTypes
  PROVE  /\ E!Cleared \in PanelConfigs /\ E!Cleared.talk = FALSE /\ E!Cleared.active = {}
         /\ E!Cleared.buttons = panelConfig.buttons
<1>1. panelConfig \in [buttons : SUBSET PanelButtons, active : SUBSET PanelButtons, talk : BOOLEAN, caller : PanelUsers]
  BY DEF PanelTypes, PanelConfigs
<1> QED BY <1>1 DEF E!Cleared, PanelConfigs

LEMMA WifiLostKeeps == ASSUME E!PanelAssumption, PanelInv, E!WifiLost PROVE PanelInv'
<1> USE DEF PanelInv
<1> DEFINE list == IF panelLink = E!NoConn THEN <<>> ELSE E!Releases
<1>1. /\ toSend.wifi = <<>> /\ panelConfig' = E!Cleared /\ reply' = NoUser
      /\ toSend' = [toSend EXCEPT !.wifi = list]
      /\ UNCHANGED <<keysDown, flag, panelLink, panelUp, panelDown, conn, registry, panelServer, lost, refused>>
  BY DEF E!WifiLost
<1>2. list \in Seq(KeyMessages) /\ \A i \in DOMAIN list : ~list[i].active
  BY ReleasesTell
<1>3. panelConfig' \in PanelConfigs /\ panelConfig'.talk = FALSE /\ panelConfig'.active = {} /\ panelConfig'.buttons = panelConfig.buttons
  BY <1>1, ClearedIsConfig
<1>4. reply' \in PanelUsers
  BY <1>1 DEF PanelUsers
<1>10. panelLink # E!NoConn => list = E!Releases
  OBVIOUS
<1> HIDE DEF list
<1>5. /\ toSend' \in [keys : Seq(KeyMessages), wifi : Seq(KeyMessages)]
      /\ toSend'.wifi = list /\ toSend'.keys = toSend.keys
  BY <1>1, <1>2 DEF PanelTypes
<1>6. PanelTypes'
  BY <1>1, <1>2, <1>3, <1>4, <1>5 DEF PanelTypes
<1>7. HelloOnce' /\ LinkRight' /\ LastPush' /\ RefusedRight'
  BY <1>1 DEF HelloOnce, LinkRight, LastPush, RefusedRight, Greeted
<1>8. PanelFollows'
  <2> SUFFICES ASSUME Greeted, Pushes(panelDown) = {}, Informed', ~lost
               PROVE  panelConfig'.buttons = panelServer.buttons /\ \A x \in Things : Follows(x)'
    BY <1>1 DEF PanelFollows, Greeted
  <2>1. Informed
    BY <1>1 DEF Informed
  <2>2. panelConfig.buttons = panelServer.buttons /\ \A x \in Things : Follows(x)
    BY <2>1 DEF PanelFollows
  <2>3. ASSUME NEW x \in Things PROVE Follows(x)'
    <3>1. Pending(x) => Pending(x)'
      BY <1>1, <1>5, HasNone DEF Pending
    <3>2. CASE On(panelConfig, x)
      <4>1. Has(toSend'.wifi, About(x))
        BY <3>2, <1>5, <1>10, ReleasesTell DEF Greeted
      <4> QED BY <4>1 DEF Follows, Pending
    <3>3. CASE ~On(panelConfig, x)
      <4>1. ~On(panelConfig', x)
        BY <1>3 DEF On
      <4> QED BY <4>1, <3>1, <3>3, <2>2, <1>1 DEF Follows
    <3> QED BY <3>2, <3>3
  <2> QED BY <2>2, <2>3, <1>3
<1> QED BY <1>6, <1>7, <1>8

LEMMA ConnectedKeeps == ASSUME PanelInv, E!Connected PROVE PanelInv'
<1> USE DEF PanelInv
<1>1. PICK c \in E!Conns : conn[c] = "unused" /\ panelLink' = c /\ conn' = [conn EXCEPT ![c] = "open"]
  BY DEF E!Connected
<1>2. /\ panelLink = E!NoConn /\ flag' = [hello |-> TRUE, startup |-> FALSE]
      /\ UNCHANGED <<keysDown, panelConfig, reply, toSend, panelUp, panelDown, registry, panelServer, lost, refused>>
  BY DEF E!Connected
<1>3. /\ conn' \in [E!Conns -> {"unused", "open", "registered", "gone"}] /\ conn'[c] = "open"
      /\ \A d \in E!Conns \ {c} : conn'[d] = conn[d]
  BY <1>1 DEF PanelTypes
<1>4. panelUp[c] = <<>> /\ panelDown = <<>> /\ registry # c
  BY <1>1, <1>2 DEF HelloOnce, LinkRight, E!NoConn, E!Conns
<1>5. c # E!NoConn
  BY DEF E!Conns, E!NoConn
<1>6. PanelTypes'
  BY <1>1, <1>2, <1>3 DEF PanelTypes
<1>7. HelloOnce'
  <2>1. Hellos(panelUp[c]) = {}
    BY <1>4 DEF Hellos
  <2> SUFFICES ASSUME NEW d \in E!Conns
               PROVE  /\ \A i, j \in Hellos(panelUp[d]) : i = j
                      /\ conn'[d] = "registered" => Hellos(panelUp[d]) = {}
                      /\ d = c => Hellos(panelUp[d]) = {} /\ conn'[d] # "registered"
                      /\ conn'[d] = "unused" => panelUp[d] = <<>> /\ d # c
    BY <1>1, <1>2 DEF HelloOnce
  <2>2. CASE d = c
    BY <1>3, <2>1, <2>2
  <2>3. CASE d # c
    BY <1>3, <2>3 DEF HelloOnce
  <2> QED BY <2>2, <2>3
<1>8. LinkRight'
  <2>1. registry # E!NoConn => registry \in E!Conns /\ registry # c
    BY <1>4 DEF PanelTypes
  <2> QED BY <1>1, <1>2, <1>3, <1>4, <1>5, <2>1 DEF LinkRight
<1>9. LastPush' /\ PanelFollows' /\ RefusedRight'
  BY <1>1, <1>2, <1>4 DEF LastPush, PanelFollows, RefusedRight, Greeted
<1> QED BY <1>6, <1>7, <1>8, <1>9

LEMMA DisconnectedKeeps == ASSUME PanelInv, E!Disconnected PROVE PanelInv'
<1> USE DEF PanelInv
<1>1. /\ panelLink' = E!NoConn /\ panelDown' = <<>> /\ panelConfig' = E!Cleared /\ reply' = NoUser
      /\ flag' = [hello |-> FALSE, startup |-> FALSE]
      /\ UNCHANGED <<keysDown, toSend, panelUp, conn, registry, panelServer, lost, refused>>
  BY DEF E!Disconnected
<1>2. PanelTypes'
  <2>1. panelConfig' \in PanelConfigs /\ reply' \in PanelUsers
    BY <1>1, ClearedIsConfig DEF PanelUsers
  <2>2. panelDown' \in Seq(DownMessages)
    BY <1>1
  <2> QED BY <1>1, <2>1, <2>2 DEF PanelTypes
<1>3. HelloOnce'
  <2>1. \A c \in E!Conns : c # panelLink'
    BY <1>1 DEF E!NoConn, E!Conns
  <2>2. panelUp' = panelUp /\ conn' = conn
    BY <1>1
  <2> QED BY <2>1, <2>2 DEF HelloOnce
<1>4. LinkRight' /\ LastPush' /\ PanelFollows' /\ RefusedRight'
  BY <1>1 DEF LinkRight, LastPush, PanelFollows, RefusedRight, Greeted
<1> QED BY <1>2, <1>3, <1>4

LEMMA RegistersKeeps == ASSUME PanelInv, E!Registers PROVE PanelInv'
<1> USE DEF PanelInv
<1>1. PICK f \in {"hello", "startup"} :
        flag[f] /\ flag' = [flag EXCEPT ![f] = FALSE] /\ E!Send([op |-> f])
  BY DEF E!Registers
<1>2. panelLink # E!NoConn /\ UNCHANGED <<keysDown, panelConfig, reply, toSend, panelLink, panelDown, conn, registry, panelServer, refused>>
  BY DEF E!Registers
<1> DEFINE m == [op |-> f]
<1>3. m \in UpMessages /\ m.op = f
  BY DEF UpMessages
<1> HIDE DEF m
<1>4. E!Send(m)
  BY <1>1 DEF m
<1>5. \/ /\ lost' = lost /\ panelLink \in E!Conns
         /\ panelUp' \in [E!Conns -> Seq(UpMessages)] /\ panelUp'[panelLink] = Append(panelUp[panelLink], m)
         /\ \A c \in E!Conns : c # panelLink => panelUp'[c] = panelUp[c]
      \/ lost' = TRUE /\ panelUp' = panelUp
  BY <1>3, <1>4, SendFacts
<1>6. /\ flag' \in [hello : BOOLEAN, startup : BOOLEAN] /\ ~flag'[f]
      /\ flag'.hello => flag.hello /\ f # "hello"
      /\ f = "hello" => flag'.startup = flag.startup
  BY <1>1 DEF PanelTypes
<1>7. panelLink \in E!Conns /\ panelUp[panelLink] \in Seq(UpMessages)
  BY <1>2 DEF PanelTypes
<1>8. PanelTypes'
  <2>1. panelUp' \in [E!Conns -> Seq(UpMessages)] /\ lost' \in BOOLEAN
    BY <1>5 DEF PanelTypes
  <2> QED BY <1>2, <1>6, <2>1 DEF PanelTypes
<1>9. HelloOnce'
  <2>1. CASE panelUp' = panelUp
    BY <2>1, <1>2, <1>6 DEF HelloOnce
  <2>2. CASE panelUp'[panelLink] = Append(panelUp[panelLink], m) /\ \A c \in E!Conns : c # panelLink => panelUp'[c] = panelUp[c]
    <3>1. CASE f = "hello"
      <4>1. Hellos(panelUp[panelLink]) = {} /\ conn[panelLink] # "registered" /\ conn[panelLink] # "unused"
        BY <3>1, <1>1, <1>2, <1>7 DEF HelloOnce
      <4>2. \A i, j \in Hellos(panelUp'[panelLink]) : i = j
        <5>1. \A i \in Hellos(panelUp'[panelLink]) : i = Len(panelUp[panelLink]) + 1
          BY <4>1, <2>2, <1>3, <1>7, OneMore DEF Hellos
        <5> QED BY <5>1
      <4>3. ~flag'.hello
        BY <3>1, <1>6
      <4> QED BY <4>1, <4>2, <4>3, <2>2, <1>2 DEF HelloOnce
    <3>2. CASE f # "hello"
      <4>1. Hellos(panelUp'[panelLink]) = Hellos(panelUp[panelLink])
        BY <3>2, <2>2, <1>3, <1>7, OneMore DEF Hellos
      <4>2. conn[panelLink] # "unused"
        BY <1>7 DEF HelloOnce
      <4>3. \A c \in E!Conns : Hellos(panelUp'[c]) = Hellos(panelUp[c]) /\ (c # panelLink => panelUp'[c] = panelUp[c])
        BY <4>1, <2>2
      <4> QED BY <4>2, <4>3, <1>2, <1>6 DEF HelloOnce
    <3> QED BY <3>1, <3>2
  <2> QED BY <2>1, <2>2, <1>5
<1>10. LinkRight' /\ LastPush' /\ RefusedRight'
  BY <1>2 DEF LinkRight, LastPush, RefusedRight, Greeted
<1>11. PanelFollows'
  <2> SUFFICES ASSUME Greeted, Pushes(panelDown) = {}, Informed', ~lost'
               PROVE  panelConfig.buttons = panelServer.buttons /\ \A x \in Things : Follows(x)'
    BY <1>2 DEF PanelFollows, Greeted
  <2>1. lost' = lost /\ panelUp'[panelLink] = Append(panelUp[panelLink], m)
    BY <1>5
  <2>2. \A set : Has(panelUp'[panelLink], set) <=> Has(panelUp[panelLink], set) \/ m \in set
    BY <2>1, <1>3, <1>7, HasMore
  <2>3. f = "startup" => m \in Startups
    BY <1>3 DEF Startups
  <2>4. Informed
    BY <2>2, <2>3, <1>2, <1>6 DEF Informed
  <2>5. panelConfig.buttons = panelServer.buttons /\ \A x \in Things : Follows(x)
    BY <2>1, <2>4 DEF PanelFollows
  <2>6. \A x : Pending(x) => Pending(x)'
    BY <2>2, <1>2 DEF Pending
  <2> QED BY <2>5, <2>6, <1>2 DEF Follows
<1> QED BY <1>8, <1>9, <1>10, <1>11

LEMMA ReceivesKeeps == ASSUME PanelInv, E!Receives PROVE PanelInv'
<1> USE DEF PanelInv
<1> DEFINE m == Head(panelDown)
<1>1. /\ panelDown # <<>> /\ panelDown' = Tail(panelDown)
      /\ IF m.op = "hello"
         THEN flag' = [flag EXCEPT !.startup = flag.startup \/ ~m.stored] /\ UNCHANGED <<panelConfig, lost, refused>>
         ELSE panelConfig' = m.session /\ lost' = FALSE /\ refused' = {} /\ UNCHANGED flag
      /\ UNCHANGED <<keysDown, reply, toSend, panelLink, panelUp, conn, registry, panelServer>>
  BY DEF E!Receives
<1>2. panelDown \in Seq(DownMessages) /\ flag \in [hello : BOOLEAN, startup : BOOLEAN]
  BY DEF PanelTypes
<1>3. m \in DownMessages /\ m = panelDown[1] /\ panelDown' \in Seq(DownMessages)
  BY <1>1, <1>2, OneLess
<1>4. /\ m.op = "hello" => m.stored \in BOOLEAN
      /\ m.op # "hello" => m.op = "update" /\ m.session \in PanelConfigs
  BY <1>3 DEF DownMessages
<1>5. /\ LastIs(panelDown, panelServer) => LastIs(panelDown', panelServer)
      /\ Pushes(panelDown') = {} /\ m.op = "update" /\ LastIs(panelDown, panelServer) => Agree(m.session, panelServer)
      /\ Pushes(panelDown') = {} /\ m.op # "update" => Pushes(panelDown) = {}
      /\ ~Unstored(panelDown') /\ ~(m.op = "hello" /\ ~m.stored) => ~Unstored(panelDown)
  BY <1>1, <1>2, <1>3, PushesOfTail
<1> HIDE DEF m
<1>6. CASE m.op = "hello"
  <2>1. /\ flag' \in [hello : BOOLEAN, startup : BOOLEAN] /\ flag'.hello = flag.hello
        /\ flag'.startup <=> flag.startup \/ ~m.stored
    BY <1>1, <1>2, <1>4, <1>6
  <2>2. PanelTypes'
    BY <1>1, <1>3, <1>6, <2>1 DEF PanelTypes
  <2>3. HelloOnce'
    BY <1>1, <2>1, ZenonT(60) DEF HelloOnce
  <2>4. LinkRight'
    BY <1>1, <2>1 DEF LinkRight
  <2>5. LastPush'
    BY <1>1, <1>5 DEF LastPush, Greeted
  <2>6. PanelFollows'
    <3> SUFFICES ASSUME Greeted, Pushes(panelDown') = {}, Informed', ~lost
                 PROVE  panelConfig.buttons = panelServer.buttons /\ \A x \in Things : Follows(x)'
      BY <1>1, <1>6 DEF PanelFollows, Greeted
    <3>1. Pushes(panelDown) = {}
      BY <1>5, <1>6
    <3>2. Informed
      BY <1>1, <1>5, <2>1 DEF Informed
    <3>3. panelConfig.buttons = panelServer.buttons /\ \A x \in Things : Follows(x)
      BY <3>1, <3>2 DEF PanelFollows
    <3> QED BY <3>3, <1>1, <1>6 DEF Follows, Pending
  <2>7. RefusedRight'
    BY <1>1, <1>5, <1>6 DEF RefusedRight, Greeted
  <2> QED BY <2>2, <2>3, <2>4, <2>5, <2>6, <2>7
<1>7. CASE m.op # "hello"
  <2>1. panelConfig' \in PanelConfigs /\ lost' = FALSE /\ refused' = {} /\ flag' = flag /\ panelConfig' = m.session
    BY <1>1, <1>4, <1>7
  <2>2. PanelTypes'
    BY <1>1, <1>3, <2>1 DEF PanelTypes
  <2>3. HelloOnce'
    BY <1>1, <2>1 DEF HelloOnce
  <2>4. LinkRight'
    BY <1>1, <2>1 DEF LinkRight
  <2>5. LastPush'
    BY <1>1, <1>5 DEF LastPush, Greeted
  <2>6. PanelFollows'
    <3> SUFFICES ASSUME Greeted, Pushes(panelDown') = {}
                 PROVE  panelConfig'.buttons = panelServer.buttons /\ \A x \in Things : Follows(x)'
      BY <1>1 DEF PanelFollows, Greeted
    <3>1. Agree(panelConfig', panelServer)
      BY <1>4, <1>5, <1>7, <2>1 DEF LastPush
    <3> QED BY <3>1, <1>1 DEF Agree, Follows, On
  <2>7. RefusedRight'
    BY <1>1, <2>1 DEF RefusedRight
  <2> QED BY <2>2, <2>3, <2>4, <2>5, <2>6, <2>7
<1> QED BY <1>6, <1>7

LEMMA SessionFields ==
  ASSUME NEW s \in PanelSessions
  PROVE  /\ s \in [live : BOOLEAN, stored : BOOLEAN, locked : BOOLEAN, buttons : SUBSET PanelButtons, active : SUBSET PanelButtons,
                   talk : BOOLEAN, calls : SUBSET PanelUsers, caller : PanelUsers]
         /\ s.active \subseteq s.buttons /\ (s.locked => s.stored)
  BY DEF PanelSessions

(* A message makes a session that is pushed, or is not acted on: a button that is locked or
   that the client does not have, or a configuration that goes against what is locked. *)
LEMMA ActsFacts ==
  ASSUME PanelTypes, NEW m \in UpMessages, m.op # "hello", E!Acts(m)
  PROVE  \/ /\ ~E!Refused(m) /\ panelServer' \in PanelSessions
            /\ (panelServer.live => panelServer'.live) /\ (panelServer.stored => panelServer'.stored)
            /\ panelDown' = E!Told(registry, <<E!Update(panelServer')>>)
         \/ /\ UNCHANGED <<panelServer, panelDown>>
            /\ \/ E!Refused(m) /\ m.op = "button" /\ m.id \in PanelButtons /\ panelServer.locked /\ panelServer.stored
               \/ ~E!Refused(m) /\ m.op = "startup" /\ panelServer.stored
               \/ ~E!Refused(m) /\ m.op # "startup" /\ (panelServer.live => m.op = "button" /\ m.id \notin panelServer.buttons)
<1>1. /\ panelServer \in [live : BOOLEAN, stored : BOOLEAN, locked : BOOLEAN, buttons : SUBSET PanelButtons, active : SUBSET PanelButtons,
                     talk : BOOLEAN, calls : SUBSET PanelUsers, caller : PanelUsers]
      /\ panelServer.active \subseteq panelServer.buttons /\ (panelServer.locked => panelServer.stored)
  BY SessionFields DEF PanelTypes
<1>2. CASE m.op = "talk" /\ panelServer.live
  <2>1. m.active \in BOOLEAN
    BY <1>2 DEF UpMessages, KeyMessages
  <2>2. ~E!Refused(m) /\ panelServer' = [panelServer EXCEPT !.talk = m.active] /\ panelDown' = E!Told(registry, <<E!Update(panelServer')>>)
    BY <1>2 DEF E!Acts, E!Push, E!Refused
  <2>3. panelServer' \in PanelSessions /\ panelServer'.live = panelServer.live /\ panelServer'.stored = panelServer.stored
    BY <1>1, <2>1, <2>2 DEF PanelSessions
  <2> QED BY <2>2, <2>3
<1>3. CASE m.op = "button" /\ ~panelServer.locked /\ panelServer.live /\ m.id \in panelServer.buttons
  <2> DEFINE set == E!With(panelServer.active, m.id, E!NowActive(m.id, m.id \in panelServer.active, m.active))
  <2>1. ~E!Refused(m) /\ panelServer' = [panelServer EXCEPT !.active = set] /\ panelDown' = E!Told(registry, <<E!Update(panelServer')>>)
    BY <1>3 DEF E!Acts, E!ActsOnButton, E!Handled, E!Push, E!Refused
  <2>2. set \subseteq panelServer.buttons
    BY <1>1, <1>3 DEF E!With
  <2> HIDE DEF set
  <2>3. panelServer' \in PanelSessions /\ panelServer'.live = panelServer.live /\ panelServer'.stored = panelServer.stored
    BY <1>1, <2>1, <2>2 DEF PanelSessions
  <2> QED BY <2>1, <2>3
<1>4. CASE m.op = "call"
  <2> DEFINE set == E!With(panelServer.calls, m.to, m.active)
  <2>1. m.to \in PanelUsers
    BY <1>4 DEF UpMessages, KeyMessages
  <2>2. ~E!Refused(m) /\ panelServer' = [panelServer EXCEPT !.live = TRUE, !.calls = set] /\ panelDown' = E!Told(registry, <<E!Update(panelServer')>>)
    BY <1>4 DEF E!Acts, E!Push, E!Refused
  <2>3. set \subseteq PanelUsers
    BY <1>1, <2>1 DEF E!With
  <2> HIDE DEF set
  <2>4. panelServer' \in PanelSessions /\ panelServer'.live = TRUE /\ panelServer'.stored = panelServer.stored
    BY <1>1, <2>2, <2>3 DEF PanelSessions
  <2> QED BY <2>2, <2>4
<1>5. CASE m.op = "startup"
  <2>1. ~E!Refused(m)
    BY <1>5 DEF E!Refused
  <2>2. \/ panelServer' = [panelServer EXCEPT !.stored = TRUE, !.live = TRUE] /\ panelDown' = E!Told(registry, <<E!Update(panelServer')>>)
        \/ panelServer.locked /\ UNCHANGED <<panelServer, panelDown>>
    BY <1>5, <2>1 DEF E!Acts, E!Push
  <2>3. CASE panelServer' = [panelServer EXCEPT !.stored = TRUE, !.live = TRUE] /\ panelDown' = E!Told(registry, <<E!Update(panelServer')>>)
    <3>1. panelServer' \in PanelSessions /\ panelServer'.live = TRUE /\ panelServer'.stored = TRUE
      BY <1>1, <2>3 DEF PanelSessions
    <3> QED BY <3>1, <2>1, <2>3
  <2>4. CASE panelServer.locked /\ UNCHANGED <<panelServer, panelDown>>
    BY <2>1, <2>4, <1>1, <1>5
  <2> QED BY <2>2, <2>3, <2>4
<1>6. CASE E!Refused(m)
  <2>1. m.op = "button" /\ panelServer.locked
    BY <1>6 DEF E!Refused
  <2>2. UNCHANGED <<panelServer, panelDown>>
    BY <2>1, <1>6 DEF E!Acts
  <2>3. m.id \in PanelButtons
    BY <2>1 DEF UpMessages, KeyMessages
  <2> QED BY <2>1, <2>2, <2>3, <1>1, <1>6
<1>7. CASE /\ ~E!Refused(m) /\ ~(m.op = "talk" /\ panelServer.live)
           /\ ~(m.op = "button" /\ ~panelServer.locked /\ panelServer.live /\ m.id \in panelServer.buttons)
           /\ m.op \notin {"call", "startup"}
  <2>1. UNCHANGED <<panelServer, panelDown>>
    BY <1>7 DEF E!Acts
  <2>2. m.op \in {"talk", "button"}
    BY <1>7 DEF UpMessages, KeyMessages
  <2> QED BY <2>1, <2>2, <1>7 DEF E!Refused
<1> QED BY <1>2, <1>3, <1>4, <1>5, <1>6, <1>7

LEMMA HelloTaken ==
  ASSUME PanelInv, NEW c \in E!Conns, panelUp[c] # <<>>, panelUp' = [panelUp EXCEPT ![c] = Tail(panelUp[c])],
         conn' \in [E!Conns -> {"unused", "open", "registered", "gone"}],
         conn[c] # "unused", conn'[c] = conn[c] \/ (panelUp[c][1].op = "hello" /\ conn'[c] = "registered"),
         \A d \in E!Conns : d # c => conn'[d] = conn[d],
         UNCHANGED <<panelLink, flag>>
  PROVE  HelloOnce' /\ panelUp' \in [E!Conns -> Seq(UpMessages)]
<1> USE DEF PanelInv
<1>1. panelUp \in [E!Conns -> Seq(UpMessages)] /\ panelUp[c] \in Seq(UpMessages)
  BY DEF PanelTypes
<1>2. /\ Tail(panelUp[c]) \in Seq(UpMessages) /\ 1 \in DOMAIN panelUp[c]
      /\ \A i \in DOMAIN Tail(panelUp[c]) : i \in Nat /\ i + 1 \in DOMAIN panelUp[c] /\ Tail(panelUp[c])[i] = panelUp[c][i + 1]
  BY <1>1, OneLess
<1>3. panelUp' \in [E!Conns -> Seq(UpMessages)] /\ panelUp'[c] = Tail(panelUp[c]) /\ \A d \in E!Conns : d # c => panelUp'[d] = panelUp[d]
  BY <1>1, <1>2
<1>4. \A i \in Hellos(panelUp'[c]) : i \in Nat /\ i + 1 \in Hellos(panelUp[c])
  BY <1>2, <1>3 DEF Hellos
<1>5. \A i, j \in Hellos(panelUp'[c]) : i = j
  <2>1. ASSUME NEW i \in Hellos(panelUp'[c]), NEW j \in Hellos(panelUp'[c]) PROVE i = j
    <3>1. i \in Nat /\ j \in Nat /\ i + 1 = j + 1
      BY <1>4 DEF HelloOnce
    <3> QED BY <3>1
  <2> QED BY <2>1
<1>6. Hellos(panelUp[c]) = {} \/ panelUp[c][1].op = "hello" => Hellos(panelUp'[c]) = {}
  <2>1. ASSUME Hellos(panelUp[c]) = {} PROVE Hellos(panelUp'[c]) = {}
    BY <2>1, <1>4
  <2>2. ASSUME panelUp[c][1].op = "hello" PROVE Hellos(panelUp'[c]) = {}
    <3>1. 1 \in Hellos(panelUp[c])
      BY <2>2, <1>2 DEF Hellos
    <3>2. ASSUME NEW i \in Hellos(panelUp'[c]) PROVE FALSE
      <4>1. i \in Nat /\ i + 1 = 1
        BY <3>1, <1>4 DEF HelloOnce
      <4>2. i \in DOMAIN Tail(panelUp[c])
        BY <1>3 DEF Hellos
      <4>3. i >= 1
        BY <4>2, <1>2
      <4> QED BY <4>1, <4>3
    <3> QED BY <3>2
  <2> QED BY <2>1, <2>2
<1>7. c = panelLink /\ flag.hello => Hellos(panelUp[c]) = {} /\ conn'[c] # "registered"
  <2> SUFFICES ASSUME c = panelLink, flag.hello PROVE Hellos(panelUp[c]) = {} /\ conn'[c] # "registered"
    OBVIOUS
  <2>1. Hellos(panelUp[c]) = {} /\ conn[c] # "registered"
    BY DEF HelloOnce
  <2>2. panelUp[c][1].op # "hello"
    BY <2>1, <1>2 DEF Hellos
  <2> QED BY <2>1, <2>2
<1>8. conn'[c] = "registered" => Hellos(panelUp'[c]) = {}
  BY <1>6 DEF HelloOnce
<1>9. HelloOnce'
  <2>1. ASSUME NEW d \in E!Conns, d # c
        PROVE  /\ \A i, j \in Hellos(panelUp'[d]) : i = j
               /\ conn'[d] = "registered" => Hellos(panelUp'[d]) = {}
               /\ d = panelLink' /\ flag'.hello => Hellos(panelUp'[d]) = {} /\ conn'[d] # "registered"
               /\ conn'[d] = "unused" => panelUp'[d] = <<>> /\ d # panelLink'
    BY <2>1, <1>3 DEF HelloOnce
  <2>2. /\ c = panelLink' /\ flag'.hello => Hellos(panelUp'[c]) = {} /\ conn'[c] # "registered"
        /\ conn'[c] # "unused"
    BY <1>6, <1>7
  <2> QED BY <2>1, <2>2, <1>5, <1>8 DEF HelloOnce
<1> QED BY <1>3, <1>9

LEMMA GreetingKeeps ==
  ASSUME E!PanelAssumption, PanelInv, NEW c \in E!Conns, E!Handles(c), Head(panelUp[c]).op = "hello"
  PROVE  PanelInv'
<1> USE DEF PanelInv
<1> DEFINE answer == [op |-> "hello", stored |-> panelServer.stored]
           rest == IF panelServer.stored THEN <<E!Update(panelServer)>> ELSE <<>>
<1>1. /\ conn[c] \in {"open", "registered"} /\ panelUp[c] # <<>> /\ panelUp' = [panelUp EXCEPT ![c] = Tail(panelUp[c])]
      /\ panelServer' = [panelServer EXCEPT !.live = TRUE] /\ registry' = c
      /\ conn' = [conn EXCEPT ![c] = "registered"] /\ panelDown' = E!Told(c, <<answer>> \o rest)
      /\ UNCHANGED <<keysDown, panelConfig, reply, flag, toSend, panelLink, lost, refused>>
  BY DEF E!Handles, E!Greets, E!Refused, E!device
<1>2. panelUp[c] \in Seq(UpMessages) /\ c # E!NoConn
  BY DEF PanelTypes, E!Conns, E!NoConn
<1>3. panelUp[c][1].op = "hello" /\ 1 \in DOMAIN panelUp[c]
  BY <1>1, <1>2, OneLess
<1>4. conn[c] = "open"
  BY <1>1, <1>3 DEF HelloOnce, Hellos
<1>5. /\ conn' \in [E!Conns -> {"unused", "open", "registered", "gone"}] /\ conn'[c] = "registered"
      /\ \A d \in E!Conns : d # c => conn'[d] = conn[d]
  BY <1>1 DEF PanelTypes
<1>6. HelloOnce' /\ panelUp' \in [E!Conns -> Seq(UpMessages)]
  BY <1>1, <1>3, <1>4, <1>5, HelloTaken
<1>7. /\ panelServer' \in PanelSessions /\ panelServer'.live = TRUE /\ panelServer.stored \in BOOLEAN
      /\ panelServer'.talk = panelServer.talk /\ panelServer'.active = panelServer.active /\ panelServer'.buttons = panelServer.buttons
      /\ panelServer'.stored = panelServer.stored
  BY <1>1, SessionFields DEF PanelSessions, PanelTypes
<1>8. E!Update(panelServer) \in DownMessages /\ answer \in DownMessages
  BY <1>7, UpdateIsPush DEF PanelTypes, DownMessages
<1>9. /\ panelDown' \in Seq(DownMessages)
      /\ c # panelLink => panelDown' = panelDown
      /\ c = panelLink => /\ LastIs(panelDown', panelServer')
                          /\ Pushes(panelDown') # {} \/ (Unstored(panelDown') /\ ~panelServer.stored)
  <2>1. CASE c # panelLink
    BY <2>1, <1>1 DEF E!Told, PanelTypes
  <2>2. CASE c = panelLink
    <3>1. panelDown = <<>>
      BY <2>2, <1>2, <1>4 DEF LinkRight
    <3>2. <<answer>> \in Seq(DownMessages)
      BY <1>8
    <3>3. CASE panelServer.stored
      <4>1. panelDown' = <<answer>> \o <<E!Update(panelServer)>>
        <5>1. panelDown' = <<>> \o (<<answer>> \o <<E!Update(panelServer)>>)
          BY <2>2, <3>1, <3>3, <1>1, <1>2 DEF E!Told
        <5>2. <<answer>> \o <<E!Update(panelServer)>> \in Seq(DownMessages)
          BY <3>2, <1>8
        <5> HIDE DEF answer
        <5> QED BY <5>1, <5>2
      <4>2. panelDown' = Append(<<answer>>, E!Update(panelServer))
        BY <4>1, <3>2, <1>8, OneMore
      <4>3. panelServer \in PanelSessions
        BY DEF PanelTypes
      <4> HIDE DEF answer
      <4>4. panelDown' \in Seq(DownMessages) /\ LastIs(panelDown', panelServer) /\ Pushes(panelDown') # {}
        BY <4>2, <4>3, <3>2, LastOfAppended
      <4>5. LastIs(panelDown', panelServer')
        BY <4>4, <1>7 DEF LastIs, Agree
      <4> QED BY <4>4, <4>5, <2>2
    <3>4. CASE ~panelServer.stored
      <4>1. panelDown' = <<answer>>
        <5>1. panelDown' = <<>> \o (<<answer>> \o <<>>)
          BY <2>2, <3>1, <3>4, <1>1, <1>2 DEF E!Told
        <5> HIDE DEF answer
        <5> QED BY <5>1
      <4>2. DOMAIN panelDown' = {1} /\ panelDown'[1] = answer
        BY <4>1
      <4>3. Pushes(panelDown') = {}
        BY <4>2 DEF Pushes
      <4>4. Unstored(panelDown')
        BY <4>2, <3>4 DEF Unstored
      <4>5. LastIs(panelDown', panelServer')
        BY <4>3 DEF LastIs
      <4>6. panelDown' \in Seq(DownMessages)
        BY <4>1, <3>2
      <4> HIDE DEF answer
      <4> QED BY <4>4, <4>5, <4>6, <3>4, <2>2
    <3> QED BY <3>3, <3>4, <1>7
  <2> QED BY <2>1, <2>2
<1>10. PanelTypes'
  BY <1>1, <1>5, <1>6, <1>7, <1>9 DEF PanelTypes
<1>11. LinkRight'
  <2>1. panelLink = E!NoConn => panelDown' = <<>>
    BY <1>2, <1>9 DEF LinkRight
  <2>2. panelLink # E!NoConn /\ conn'[panelLink] = "open" => panelDown' = <<>>
    <3> SUFFICES ASSUME panelLink # E!NoConn, conn'[panelLink] = "open" PROVE panelDown' = <<>>
      OBVIOUS
    <3>1. panelLink \in E!Conns /\ panelLink # c
      BY <1>5 DEF PanelTypes
    <3> QED BY <3>1, <1>5, <1>9 DEF LinkRight
  <2> QED BY <2>1, <2>2, <1>1, <1>5, <1>7 DEF LinkRight
<1>12. LastPush' /\ PanelFollows' /\ RefusedRight'
  BY <1>1, <1>7, <1>9 DEF LastPush, PanelFollows, RefusedRight, Greeted, Informed
<1> QED BY <1>6, <1>10, <1>11, <1>12

LEMMA ActingKeeps ==
  ASSUME E!PanelAssumption, PanelInv, NEW c \in E!Conns, E!Handles(c), Head(panelUp[c]).op # "hello"
  PROVE  PanelInv'
<1> USE DEF PanelInv
<1> DEFINE m == Head(panelUp[c])
<1>1. /\ conn[c] \in {"open", "registered"} /\ panelUp[c] # <<>> /\ panelUp' = [panelUp EXCEPT ![c] = Tail(panelUp[c])]
      /\ E!Acts(m) /\ UNCHANGED <<conn, registry, keysDown, panelConfig, reply, flag, toSend, panelLink, lost>>
      /\ refused' = IF E!Refused(m) THEN refused \cup {m.id} ELSE refused
  BY DEF E!Handles, E!device
<1>2. panelUp \in [E!Conns -> Seq(UpMessages)] /\ panelUp[c] \in Seq(UpMessages)
  BY DEF PanelTypes
<1>3. m \in UpMessages /\ m = panelUp[c][1] /\ m.op # "hello"
  BY <1>1, <1>2, OneLess
<1>4. HelloOnce' /\ panelUp' \in [E!Conns -> Seq(UpMessages)]
  <2>1. conn' \in [E!Conns -> {"unused", "open", "registered", "gone"}]
    BY <1>1 DEF PanelTypes
  <2> QED BY <2>1, <1>1, HelloTaken
<1>5. CASE /\ ~E!Refused(m) /\ panelServer' \in PanelSessions
           /\ (panelServer.live => panelServer'.live) /\ (panelServer.stored => panelServer'.stored)
           /\ panelDown' = E!Told(registry, <<E!Update(panelServer')>>)
  <2>1. registry' # E!NoConn => panelServer'.live /\ conn'[registry'] = "registered"
    BY <1>1, <1>5 DEF LinkRight
  <2>2. panelLink # E!NoConn /\ conn'[panelLink] = "open" => conn[panelLink] = "open" /\ registry' # panelLink
    BY <1>1 DEF LinkRight
  <2>3. conn' \in [E!Conns -> {"unused", "open", "registered", "gone"}]
    BY <1>1 DEF PanelTypes
  <2> QED BY <2>1, <2>2, <2>3, <1>1, <1>4, <1>5, PushingKeeps
<1>6. CASE /\ UNCHANGED <<panelServer, panelDown>>
           /\ \/ E!Refused(m) /\ m.op = "button" /\ m.id \in PanelButtons /\ panelServer.locked /\ panelServer.stored
              \/ ~E!Refused(m) /\ m.op = "startup" /\ panelServer.stored
              \/ ~E!Refused(m) /\ m.op # "startup" /\ (panelServer.live => m.op = "button" /\ m.id \notin panelServer.buttons)
  <2>1. PanelTypes'
    BY <1>1, <1>4, <1>6 DEF PanelTypes
  <2>2. LinkRight' /\ LastPush' /\ RefusedRight'
    BY <1>1, <1>6 DEF LinkRight, LastPush, RefusedRight, Greeted
  <2>3. PanelFollows'
    <3> SUFFICES ASSUME Greeted, Pushes(panelDown) = {}, Informed', ~lost
                 PROVE  panelConfig.buttons = panelServer.buttons /\ \A x \in Things : Follows(x)'
      BY <1>1, <1>6 DEF PanelFollows, Greeted
    <3>1. panelServer.live /\ panelLink \in E!Conns
      BY DEF Greeted, LinkRight, PanelTypes
    <3>2. \A set : Has(panelUp[panelLink], set) => Has(panelUp'[panelLink], set) \/ m \in set
      <4>1. CASE c # panelLink
        BY <4>1, <3>1, <1>1, <1>2
      <4>2. CASE c = panelLink
        <5>1. panelUp'[panelLink] = Tail(panelUp[c])
          BY <4>2, <1>1, <1>2
        <5> QED BY <5>1, <4>2, <1>1, <1>2, HasLess
      <4> QED BY <4>1, <4>2
    <3> HIDE DEF m
    <3>3. m \in Startups => panelServer.stored
      BY <1>6 DEF Startups, E!Refused
    <3>4. Informed
      BY <3>2, <3>3, <1>1, <1>6 DEF Informed
    <3>5. panelConfig.buttons = panelServer.buttons /\ \A x \in Things : Follows(x)
      BY <3>4 DEF PanelFollows
    <3>6. ASSUME NEW x \in Things PROVE Follows(x)'
      <4>1. Pending(x) => Pending(x)' \/ m \in About(x)
        BY <3>2, <1>1 DEF Pending
      <4>2. ASSUME m \in About(x) PROVE x \in refused' \/ (~On(panelConfig, x) /\ ~On(panelServer, x))
        <5>1. m.op = "button" /\ x = m.id /\ x # "talk"
          BY <4>2, <3>1, <1>6 DEF About
        <5>2. panelConfig.active \subseteq panelConfig.buttons /\ panelServer.active \subseteq panelServer.buttons
          BY SessionFields DEF PanelTypes, PanelConfigs
        <5> QED BY <5>1, <5>2, <3>1, <3>5, <1>1, <1>6 DEF On
      <4> QED BY <4>1, <4>2, <3>5, <1>1, <1>6 DEF Follows
    <3> QED BY <3>5, <3>6
  <2> QED BY <1>4, <2>1, <2>2, <2>3
<1> HIDE DEF m
<1> QED BY <1>1, <1>3, <1>5, <1>6, ActsFacts

LEMMA EndsKeeps == ASSUME E!PanelAssumption, PanelInv, NEW c \in E!Conns, E!Ends(c) PROVE PanelInv'
<1> USE DEF PanelInv
<1>1. /\ conn[c] \in {"open", "registered"} /\ conn' = [conn EXCEPT ![c] = "gone"]
      /\ panelUp' = [panelUp EXCEPT ![c] = <<>>] /\ registry' = IF registry = c THEN E!NoConn ELSE registry
      /\ UNCHANGED <<keysDown, panelConfig, reply, flag, toSend, panelLink, lost, refused>>
  BY DEF E!Ends, E!device
<1>2. /\ conn' \in [E!Conns -> {"unused", "open", "registered", "gone"}] /\ conn'[c] = "gone"
      /\ \A d \in E!Conns : d # c => conn'[d] = conn[d]
  BY <1>1 DEF PanelTypes
<1>3. /\ panelUp' \in [E!Conns -> Seq(UpMessages)] /\ panelUp'[c] = <<>>
      /\ \A d \in E!Conns : d # c => panelUp'[d] = panelUp[d]
  <2>1. <<>> \in Seq(UpMessages)
    OBVIOUS
  <2> QED BY <2>1, <1>1 DEF PanelTypes
<1>4. HelloOnce'
  <2>1. Hellos(panelUp'[c]) = {}
    BY <1>3 DEF Hellos
  <2>2. ASSUME NEW d \in E!Conns, d # c
        PROVE  /\ \A i, j \in Hellos(panelUp'[d]) : i = j
               /\ conn'[d] = "registered" => Hellos(panelUp'[d]) = {}
               /\ d = panelLink' /\ flag'.hello => Hellos(panelUp'[d]) = {} /\ conn'[d] # "registered"
               /\ conn'[d] = "unused" => panelUp'[d] = <<>> /\ d # panelLink'
    BY <2>2, <1>1, <1>2, <1>3 DEF HelloOnce
  <2> QED BY <2>1, <2>2, <1>2 DEF HelloOnce
<1>5. registry' \in {registry, E!NoConn} /\ registry' # c /\ registry' \in E!Conns \cup {E!NoConn}
  BY <1>1 DEF PanelTypes, E!NoConn, E!Conns
<1>6. registry' # E!NoConn => registry' = registry /\ panelServer.live /\ conn'[registry'] = "registered"
  BY <1>1, <1>2, <1>5 DEF LinkRight
<1>7. panelLink # E!NoConn /\ conn'[panelLink] = "open" => conn[panelLink] = "open" /\ registry' # panelLink
  <2> SUFFICES ASSUME panelLink # E!NoConn, conn'[panelLink] = "open" PROVE conn[panelLink] = "open" /\ registry' # panelLink
    OBVIOUS
  <2>1. panelLink \in E!Conns /\ panelLink # c
    BY <1>2 DEF PanelTypes
  <2> QED BY <2>1, <1>2, <1>6
<1>8. CASE conn[c] = "registered"
  <2>1. /\ panelServer' = [panelServer EXCEPT !.talk = FALSE, !.active = {}, !.calls = {}]
        /\ panelDown' = E!Told(registry', <<E!Update(panelServer')>>)
    BY <1>8 DEF E!Ends
  <2>2. panelServer' \in PanelSessions /\ panelServer'.live = panelServer.live /\ panelServer'.stored = panelServer.stored
    BY <2>1, SessionFields DEF PanelSessions, PanelTypes
  <2> QED BY <2>1, <2>2, <1>1, <1>2, <1>3, <1>4, <1>5, <1>6, <1>7, PushingKeeps
<1>9. CASE conn[c] # "registered"
  <2>1. UNCHANGED <<panelServer, panelDown>>
    BY <1>9 DEF E!Ends
  <2>2. registry' = registry /\ registry # c
    BY <1>1, <1>9 DEF LinkRight, E!NoConn, E!Conns
  <2>3. PanelTypes'
    BY <1>1, <1>2, <1>3, <1>5, <2>1 DEF PanelTypes
  <2>4. LinkRight'
    BY <1>1, <1>6, <1>7, <2>1 DEF LinkRight
  <2>5. LastPush'
    BY <1>1, <2>1, <2>2 DEF LastPush, Greeted
  <2>7. RefusedRight'
    BY <1>1, <2>1, <2>2 DEF RefusedRight, Greeted
  <2>6. PanelFollows'
    <3> SUFFICES ASSUME Greeted, Pushes(panelDown) = {}, Informed', ~lost
                 PROVE  panelConfig.buttons = panelServer.buttons /\ \A x \in Things : Follows(x)'
      BY <1>1, <2>1, <2>2 DEF PanelFollows, Greeted
    <3>1. panelUp'[panelLink] = panelUp[panelLink]
      BY <1>3, <2>2 DEF Greeted, PanelTypes
    <3>2. Informed
      BY <3>1, <1>1, <2>1 DEF Informed
    <3> QED BY <3>1, <3>2, <1>1, <2>1 DEF PanelFollows, Follows, Pending
  <2> QED BY <1>4, <2>3, <2>4, <2>5, <2>6, <2>7
<1> QED BY <1>8, <1>9

LEMMA ChangesKeeps == ASSUME E!PanelAssumption, PanelInv, E!Changes PROVE PanelInv'
<1> USE DEF PanelInv
<1>1. UNCHANGED <<keysDown, panelConfig, reply, flag, toSend, panelLink, lost, refused, panelUp, conn, registry>>
  BY DEF E!Changes, E!device
<1>2. panelServer' \in PanelSessions /\ (panelServer.live => panelServer'.live) /\ (panelServer.stored => panelServer'.stored) /\ panelDown' = E!Told(registry, <<E!Update(panelServer')>>)
  <2>1. ASSUME NEW offered \in Lists, NEW lock \in BOOLEAN,
               E!Push([panelServer EXCEPT !.live = TRUE, !.stored = TRUE, !.locked = lock, !.buttons = offered, !.active = @ \cap offered])
        PROVE  panelServer' \in PanelSessions /\ (panelServer.live => panelServer'.live) /\ (panelServer.stored => panelServer'.stored) /\ panelDown' = E!Told(registry, <<E!Update(panelServer')>>)
    <3>1. offered \in SUBSET PanelButtons
      BY DEF E!PanelAssumption
    <3> QED BY <2>1, <3>1, SessionFields DEF PanelSessions, PanelTypes, E!Push
  <2>2. ASSUME NEW p \in Peers, E!Push([panelServer EXCEPT !.caller = p])
        PROVE  panelServer' \in PanelSessions /\ (panelServer.live => panelServer'.live) /\ (panelServer.stored => panelServer'.stored) /\ panelDown' = E!Told(registry, <<E!Update(panelServer')>>)
    <3>1. p \in PanelUsers
      BY DEF PanelUsers
    <3> QED BY <2>2, <3>1, SessionFields DEF PanelSessions, PanelTypes, E!Push
  <2> QED BY <2>1, <2>2 DEF E!Changes
<1>3. HelloOnce' /\ panelUp' \in [E!Conns -> Seq(UpMessages)] /\ conn' \in [E!Conns -> {"unused", "open", "registered", "gone"}]
  BY <1>1 DEF HelloOnce, PanelTypes
<1>4. registry' # E!NoConn => panelServer'.live /\ conn'[registry'] = "registered"
  BY <1>1, <1>2 DEF LinkRight
<1>5. panelLink # E!NoConn /\ conn'[panelLink] = "open" => conn[panelLink] = "open" /\ registry' # panelLink
  BY <1>1 DEF LinkRight
<1> QED BY <1>1, <1>2, <1>3, <1>4, <1>5, PushingKeeps

LEMMA PanelStep == ASSUME E!PanelAssumption, PanelInv, [E!Next]_panelVars PROVE PanelInv'
<1>1. ASSUME NEW k \in {"talk"} \cup PanelButtons, E!Key(k) PROVE PanelInv'
  BY <1>1, KeyKeeps DEF Things
<1>2. ASSUME NEW t \in {"keys", "wifi"}, E!Sends(t) PROVE PanelInv'
  BY <1>2, SendsKeeps
<1>3. ASSUME NEW c \in E!Conns, E!Handles(c) PROVE PanelInv'
  BY <1>3, GreetingKeeps, ActingKeeps
<1>4. ASSUME NEW c \in E!Conns, E!Ends(c) PROVE PanelInv'
  BY <1>4, EndsKeeps
<1>5. CASE UNCHANGED panelVars
  BY <1>5 DEF panelVars, PanelInv, PanelTypes, HelloOnce, LinkRight, LastPush, PanelFollows, RefusedRight, Greeted, Informed, Follows, Pending
<1> QED BY <1>1, <1>2, <1>3, <1>4, <1>5, ReplyKeyKeeps, WifiLostKeeps, ConnectedKeeps, DisconnectedKeeps,
           RegistersKeeps, ReceivesKeeps, ChangesKeeps DEF E!Next

LEMMA PanelIsRight == ASSUME E!PanelAssumption, PanelInv PROVE E!TypeOK /\ E!PanelAgrees
<1> USE DEF PanelInv
<1>1. E!TypeOK
  BY SessionFields DEF E!TypeOK, PanelTypes, PanelConfigs, PanelUsers, LinkRight
<1>2. E!PanelAgrees
  <2> SUFFICES ASSUME E!Settled, ~lost
               PROVE  /\ panelConfig.talk = panelServer.talk /\ panelConfig.buttons = panelServer.buttons
                      /\ \A b \in PanelButtons \ refused : b \in panelConfig.active <=> b \in panelServer.active
                      /\ ~panelServer.locked => refused = {}
    BY DEF E!PanelAgrees
  <2>1. Greeted /\ panelDown = <<>> /\ panelUp[panelLink] = <<>> /\ toSend.keys = <<>> /\ toSend.wifi = <<>> /\ ~flag.startup
    BY DEF E!Settled, Greeted
  <2>2. Pushes(panelDown) = {} /\ ~Unstored(panelDown)
    BY <2>1 DEF Pushes, Unstored
  <2>3. Informed /\ \A x : ~Pending(x)
    BY <2>1, <2>2, HasNone DEF Informed, Pending
  <2>4. panelConfig.buttons = panelServer.buttons /\ \A x \in Things : x \in refused \/ (On(panelConfig, x) <=> On(panelServer, x))
    BY <2>1, <2>2, <2>3 DEF PanelFollows, Follows
  <2>5. "talk" \notin PanelButtons /\ refused \subseteq PanelButtons
    BY DEF E!PanelAssumption, PanelTypes
  <2>6. panelConfig.talk = panelServer.talk
    <3>1. panelConfig.talk \in BOOLEAN /\ panelServer.talk \in BOOLEAN
      BY SessionFields DEF PanelTypes, PanelConfigs
    <3> QED BY <3>1, <2>4, <2>5 DEF On, Things
  <2>7. \A b \in PanelButtons \ refused : b \in panelConfig.active <=> b \in panelServer.active
    BY <2>4, <2>5 DEF On, Things
  <2> QED BY <2>1, <2>2, <2>4, <2>6, <2>7 DEF RefusedRight
<1> QED BY <1>1, <1>2

(* For any buttons, peers, permissions and bounds: when nothing is on the way, the copy that the
   shell, the local API and the terminal work on is what the server has of the session, unless
   the server has refused something; and the lights and the microphone of the ESP32 panel are
   those of the server's session, whatever presses, losses, reconnects and changes by others
   crossed each other before, unless the last message was lost and but for the locked buttons
   whose events the server has refused since its last update (apply_control_event,
   handle_control_json, ensure_control_allowed). *)
THEOREM CopiesFollowServer ==
  ASSUME L!LocalApiAssumption, E!PanelAssumption PROVE Parts => []CopyAgrees
<1> DEFINE CopiesInv == /\ part = "local" => LocalInv /\ GoodModes
                        /\ part = "panel" => PanelInv
<1>1. PartsInit => CopiesInv
  BY LocalInit, ModesInit, PanelInit DEF PartsInit
<1>2. CopiesInv /\ [PartsNext]_partVars => CopiesInv'
  <2> SUFFICES ASSUME CopiesInv, [PartsNext]_partVars PROVE CopiesInv'
    OBVIOUS
  <2>1. part' = part
    BY PartsStep
  <2>2. CASE part = "local"
    <3>1. LocalInv /\ GoodModes
      BY <2>2
    <3>2. [L!Next]_localVars
      BY <2>2, PartsStep
    <3>3. LocalInv' /\ GoodModes'
      BY <3>1, <3>2, LocalStep, ModesStep
    <3> QED BY <2>1, <2>2, <3>3
  <2>3. CASE part = "panel"
    <3>1. PanelInv /\ [E!Next]_panelVars
      BY <2>3, PartsStep
    <3>2. PanelInv'
      BY <3>1, PanelStep
    <3> QED BY <2>1, <2>3, <3>2
  <2>4. CASE part \notin {"local", "panel"}
    BY <2>1, <2>4
  <2> QED BY <2>2, <2>3, <2>4
<1>3. CopiesInv => CopyAgrees
  <2> SUFFICES ASSUME CopiesInv PROVE CopyAgrees
    OBVIOUS
  <2>1. part = "local" => L!TypeOK /\ L!CopyAgrees
    BY LocalIsRight
  <2>2. part = "panel" => E!TypeOK /\ E!PanelAgrees
    BY PanelIsRight
  <2> QED BY <2>1, <2>2 DEF CopyAgrees
<1> QED BY <1>1, <1>2, <1>3, PTL DEF Parts
=============================================================================
