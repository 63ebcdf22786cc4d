------------------------ MODULE ImportPipelineProofs ------------------------
(***************************************************************************)
(* ImportPipeline for any number of requests, jobs, sources, recordings,   *)
(* folders, failures and restarts: its types, for any number of workers;   *)
(* and with one worker, and no scan while an upload is arriving, that      *)
(* every song keeps its file and no accepted upload is lost.               *)
(***************************************************************************)
EXTENDS ImportPipeline, FiniteSetTheorems, TLAPS

-----------------------------------------------------------------------------
(* The inductive invariant.                                                *)

Holding == {"hashed", "new", "unseen", "placed", "copied", "refused", "removed"}

\* Whoever is at work on a job or an upload refers to one that exists.
References ==
    /\ \A w \in Workers :
          /\ worker[w].at # "idle" => worker[w].job \in DOMAIN jobs
          /\ worker[w].at \in Holding => worker[w].content \in Contents
          /\ worker[w].at \in {"placed", "copied"} => worker[w].dest \in Files
    /\ \A c \in Clients :
          /\ client[c].at \in {"created", "cancelling", "retrying"} => client[c].job \in DOMAIN jobs
          /\ client[c].at \in Uploading => client[c].source \in Sources

TypeInv == TypeOK /\ References

RecordsTyped == /\ worker \in [Workers -> WorkerRow]
                /\ client \in [Clients -> ClientRow]
                /\ References

-----------------------------------------------------------------------------
(* Types.                                                                  *)

\* A worker's record changes and no job goes away.
LEMMA WorkerStep ==
  ASSUME TypeInv, NEW w \in Workers, NEW state \in WorkerRow,
         state.at # "idle" => state.job \in DOMAIN jobs,
         state.at \in Holding => state.content \in Contents,
         state.at \in {"placed", "copied"} => state.dest \in Files,
         WorkerGoes(w, state), DOMAIN jobs' = DOMAIN jobs, UNCHANGED client
  PROVE  RecordsTyped'
  BY DEF TypeInv, TypeOK, References, RecordsTyped, WorkerGoes, WorkerRow, ClientRow

\* A request's record changes and no job goes away.
LEMMA ClientStep ==
  ASSUME TypeInv, NEW c \in Clients, DOMAIN jobs \subseteq DOMAIN jobs',
         NEW state \in ClientRow',
         state.at \in {"created", "cancelling", "retrying"} => state.job \in DOMAIN jobs',
         state.at \in Uploading => state.source \in Sources,
         ClientGoes(c, state), UNCHANGED worker
  PROVE  RecordsTyped'
  BY DEF TypeInv, TypeOK, References, RecordsTyped, ClientGoes, WorkerRow, ClientRow

\* An idle worker and an idle request are rows like any other.
LEMMA IdleRows == IdleWorker \in WorkerRow /\ IdleClient \in ClientRow
                  /\ IdleWorker' = IdleWorker /\ IdleClient' = IdleClient
  BY ImportAssumption DEF IdleWorker, IdleClient, WorkerRow, ClientRow, WorkerStates

\* Create appends one queued job.
LEMMA CreateTyped ==
  ASSUME TypeInv, NEW s \in Sources, Create(s)
  PROVE  /\ IsFiniteSet(DOMAIN jobs') /\ DOMAIN jobs' = 1 .. Cardinality(DOMAIN jobs')
         /\ DOMAIN jobs' = DOMAIN jobs \cup {Cardinality(DOMAIN jobs) + 1}
         /\ jobs' \in [DOMAIN jobs' -> JobRow]
         /\ \A j \in DOMAIN jobs : jobs'[j] = jobs[j]
         /\ jobs'[Cardinality(DOMAIN jobs) + 1].source = s
<1> DEFINE n == Cardinality(DOMAIN jobs)
<1>1. n \in Nat /\ DOMAIN jobs = 1 .. n
  BY FS_CardinalityType DEF TypeInv, TypeOK
<1>2. DOMAIN jobs' = DOMAIN jobs \cup {n + 1}
  BY DEF Create
<1>3. DOMAIN jobs' = 1 .. n + 1
  BY <1>1, <1>2
<1>4. IsFiniteSet(1 .. n + 1) /\ Cardinality(1 .. n + 1) = n + 1
  BY <1>1, FS_Interval
<1>5. NewJob(s) \in JobRow /\ NewJob(s).source = s
  BY ImportAssumption DEF NewJob, JobRow, Statuses
<1>6. n + 1 \notin DOMAIN jobs
  BY <1>1
<1>7. jobs \in [DOMAIN jobs -> JobRow]
  BY DEF TypeInv, TypeOK
<1> QED
  BY <1>2, <1>3, <1>4, <1>5, <1>6, <1>7 DEF Create

\* UpdateImportJob keeps the jobs and the shape of their rows.
LEMMA SetStatusTyped ==
  ASSUME TypeInv, NEW j \in DOMAIN jobs, NEW status \in Statuses,
         NEW song \in Files \cup {NoFile}, SetStatus(j, status, song)
  PROVE  DOMAIN jobs' = DOMAIN jobs /\ jobs' \in [DOMAIN jobs -> JobRow]
  BY DEF TypeInv, TypeOK, SetStatus, JobRow

\* Adding a file or a song, or taking one away, keeps names and contents in range.
LEMMA WithTyped ==
  ASSUME NEW f, NEW S, NEW T, DOMAIN f \subseteq S, f \in [DOMAIN f -> T],
         NEW x \in S, NEW v \in T
  PROVE  DOMAIN With(f, x, v) \subseteq S /\ With(f, x, v) \in [DOMAIN With(f, x, v) -> T]
  BY DEF With

LEMMA WithoutTyped ==
  ASSUME NEW f, NEW S, NEW T, DOMAIN f \subseteq S, f \in [DOMAIN f -> T], NEW x
  PROVE  DOMAIN Without(f, x) \subseteq S /\ Without(f, x) \in [DOMAIN Without(f, x) -> T]
  BY DEF Without

-----------------------------------------------------------------------------
(* Type correctness.                                                       *)

\* A fresh installation.
LEMMA InitTyped == Init => TypeInv
<1> SUFFICES ASSUME Init PROVE TypeInv
  OBVIOUS
<1>1. IsFiniteSet(1 .. 0) /\ Cardinality(1 .. 0) = 0
  BY FS_Interval
<1>2. DOMAIN jobs = 1 .. 0 /\ DOMAIN music = {} /\ DOMAIN library = {}
  BY DEF Init
<1>3. worker \in [Workers -> WorkerRow] /\ client \in [Clients -> ClientRow]
  BY IdleRows DEF Init
<1>4. References
  BY DEF Init, References, IdleWorker, IdleClient, Uploading, Holding
<1>5. /\ jobs \in [DOMAIN jobs -> JobRow]
      /\ music \in [DOMAIN music -> Contents]
      /\ library \in [DOMAIN library -> Contents]
  BY <1>2 DEF Init
<1>6. staged \in [Sources -> Contents \cup {None}]
  BY DEF Init
<1>7. restarts \in 0 .. MaxRestarts
  BY ImportAssumption DEF Init
<1>8. closing \in BOOLEAN /\ accepted \subseteq Recordings
  BY DEF Init
<1> QED
  BY <1>1, <1>2, <1>3, <1>4, <1>5, <1>6, <1>7, <1>8 DEF TypeInv, TypeOK

\* What a step of a worker that is at work may do to its own record.
LEMMA AtWork ==
  ASSUME TypeInv, NEW w \in Workers, worker[w].at # "idle",
         DOMAIN jobs' = DOMAIN jobs, UNCHANGED client
  PROVE  /\ WorkerGoes(w, IdleWorker) => RecordsTyped'
         /\ \A outcome \in Finished \cup {"failed"} : Conclude(w, outcome) => RecordsTyped'
         /\ \A at \in WorkerStates :
               /\ WorkerGoes(w, [worker[w] EXCEPT !.at = at])
               /\ at \in Holding => worker[w].content \in Contents
               /\ at \in {"placed", "copied"} => worker[w].dest \in Files
               => RecordsTyped'
<1>1. worker[w] \in WorkerRow /\ worker[w].job \in DOMAIN jobs
  BY DEF TypeInv, TypeOK, References
<1>2. WorkerGoes(w, IdleWorker) => RecordsTyped'
  BY WorkerStep, IdleRows DEF IdleWorker, Holding
<1>3. ASSUME NEW outcome \in Finished \cup {"failed"}, Conclude(w, outcome)
      PROVE  RecordsTyped'
  <2> DEFINE state == [worker[w] EXCEPT !.at = "report", !.outcome = outcome]
  <2>1. state \in WorkerRow /\ state.at = "report" /\ state.job \in DOMAIN jobs
    BY <1>1 DEF WorkerRow, WorkerStates
  <2>2. WorkerGoes(w, state)
    BY <1>3 DEF Conclude
  <2> HIDE DEF state
  <2> QED
    BY <2>1, <2>2, WorkerStep DEF Holding
<1>4. ASSUME NEW at \in WorkerStates,
             WorkerGoes(w, [worker[w] EXCEPT !.at = at]),
             at \in Holding => worker[w].content \in Contents,
             at \in {"placed", "copied"} => worker[w].dest \in Files
      PROVE  RecordsTyped'
  <2> DEFINE state == [worker[w] EXCEPT !.at = at]
  <2>1. /\ state \in WorkerRow /\ state.at = at /\ state.job \in DOMAIN jobs
        /\ state.content = worker[w].content /\ state.dest = worker[w].dest
    BY <1>1 DEF WorkerRow
  <2> HIDE DEF state
  <2> QED
    BY <1>4, <2>1, WorkerStep DEF state
<1> QED
  BY <1>2, <1>3, <1>4

\* The steps of a worker that change nothing but its own record.
LEMMA ThinkTyped ==
  ASSUME TypeInv, NEW w \in Workers,
         \/ ReadJob(w) \/ Hash(w) \/ LookUpHash(w) \/ LookUpIdentity(w)
         \/ ChoosePath(w) \/ LookUpAgain(w)
  PROVE  TypeInv'
<1>1. UNCHANGED <<staged, music, library, jobs, client, closing, restarts, accepted>>
      /\ worker[w].at # "idle"
  BY DEF ReadJob, Hash, LookUpHash, LookUpIdentity, ChoosePath, LookUpAgain
<1>2. /\ worker[w] \in WorkerRow /\ worker[w].job \in DOMAIN jobs
      /\ jobs[worker[w].job] \in JobRow
      /\ worker[w].at \in Holding => worker[w].content \in Contents
  BY <1>1 DEF TypeInv, TypeOK, References
<1>3. Source(w) \in Sources /\ jobs[worker[w].job].target \in Folders
  BY <1>2 DEF JobRow, Source
<1>4. CASE ReadJob(w)
  <2> DEFINE state == [worker[w] EXCEPT !.at = "read", !.folder = jobs[worker[w].job].target]
  <2>1. state \in WorkerRow /\ state.at = "read" /\ state.job \in DOMAIN jobs
    BY <1>2, <1>3 DEF WorkerRow, WorkerStates
  <2>2. WorkerGoes(w, state) \/ WorkerGoes(w, IdleWorker)
    BY <1>4 DEF ReadJob
  <2> HIDE DEF state
  <2>3. WorkerGoes(w, state) => RecordsTyped'
    BY <1>1, <2>1, WorkerStep DEF Holding
  <2>4. RecordsTyped'
    BY <1>1, <2>2, <2>3, AtWork
  <2> QED
    BY <1>1, <2>4 DEF TypeInv, TypeOK, RecordsTyped
<1>5. CASE Hash(w)
  <2> DEFINE state == [worker[w] EXCEPT !.at = "hashed", !.content = staged[Source(w)]]
  <2>1. staged[Source(w)] = None => RecordsTyped'
    BY <1>1, <1>5, AtWork DEF Hash
  <2>2. ASSUME staged[Source(w)] # None
        PROVE  RecordsTyped'
    <3>1. staged[Source(w)] \in Contents
      BY <1>3, <2>2 DEF TypeInv, TypeOK
    <3>2. /\ state \in WorkerRow /\ state.at = "hashed" /\ state.job \in DOMAIN jobs
          /\ state.content \in Contents
      BY <1>2, <3>1 DEF WorkerRow, WorkerStates
    <3>3. WorkerGoes(w, state)
      BY <1>5, <2>2 DEF Hash
    <3> HIDE DEF state
    <3> QED
      BY <1>1, <3>2, <3>3, WorkerStep
  <2>3. RecordsTyped'
    BY <2>1, <2>2
  <2> QED
    BY <1>1, <2>3 DEF TypeInv, TypeOK, RecordsTyped
<1>6. CASE ChoosePath(w)
  <2>1. ASSUME NEW n \in 1 .. MaxFiles,
               WorkerGoes(w, [worker[w] EXCEPT !.at = "placed", !.dest = <<worker[w].folder, n>>])
        PROVE  RecordsTyped'
    <3> DEFINE state == [worker[w] EXCEPT !.at = "placed", !.dest = <<worker[w].folder, n>>]
    <3>1. <<worker[w].folder, n>> \in Files
      BY <1>2 DEF WorkerRow, Files
    <3>2. /\ state \in WorkerRow /\ state.at = "placed" /\ state.job \in DOMAIN jobs
          /\ state.content = worker[w].content /\ state.dest \in Files
      BY <1>2, <3>1 DEF WorkerRow, WorkerStates
    <3>3. state.content \in Contents
      BY <1>2, <1>6, <3>2 DEF ChoosePath, Holding
    <3> HIDE DEF state
    <3> QED
      BY <1>1, <2>1, <3>2, <3>3, WorkerStep DEF state
  <2>2. RecordsTyped'
    BY <1>1, <1>6, <2>1, AtWork DEF ChoosePath
  <2> QED
    BY <1>1, <2>2 DEF TypeInv, TypeOK, RecordsTyped
<1>7. CASE LookUpHash(w) \/ LookUpIdentity(w) \/ LookUpAgain(w)
  <2>1. RecordsTyped'
    BY <1>1, <1>2, <1>7, AtWork
    DEF LookUpHash, LookUpIdentity, LookUpAgain, Finished, WorkerStates, Holding
  <2> QED
    BY <1>1, <2>1 DEF TypeInv, TypeOK, RecordsTyped
<1> QED
  BY <1>4, <1>5, <1>6, <1>7

\* The steps of a worker on tables and files.
LEMMA ActTyped ==
  ASSUME TypeInv, NEW w \in Workers,
         \/ Claim(w) \/ MarkProcessing(w) \/ Copy(w) \/ Insert(w)
         \/ RemoveCopy(w) \/ Report(w) \/ RemoveSource(w)
  PROVE  TypeInv'
<1>1. /\ worker[w] \in WorkerRow
      /\ worker[w].at # "idle" => worker[w].job \in DOMAIN jobs /\ Source(w) \in Sources
      /\ worker[w].at \in Holding => worker[w].content \in Contents
      /\ worker[w].at \in {"placed", "copied"} => worker[w].dest \in Files
  BY DEF TypeInv, TypeOK, References, Source, JobRow
<1>2. CASE Claim(w)
  <2>1. PICK j \in DOMAIN jobs :
           /\ jobs' = [jobs EXCEPT ![j].status = "processing"]
           /\ WorkerGoes(w, [IdleWorker EXCEPT !.at = "claimed", !.job = j])
    BY <1>2 DEF Claim
  <2>2. DOMAIN jobs' = DOMAIN jobs /\ jobs' \in [DOMAIN jobs -> JobRow]
    BY <2>1 DEF TypeInv, TypeOK, JobRow, Statuses
  <2> DEFINE state == [IdleWorker EXCEPT !.at = "claimed", !.job = j]
  <2>3. state \in WorkerRow /\ state.job = j /\ state.at = "claimed"
    BY IdleRows DEF WorkerRow, WorkerStates
  <2> HIDE DEF state
  <2>4. RecordsTyped'
    BY <1>2, <2>1, <2>2, <2>3, WorkerStep DEF Claim, Holding, state
  <2> QED
    BY <1>2, <2>2, <2>4 DEF Claim, TypeInv, TypeOK, RecordsTyped
<1>3. CASE MarkProcessing(w)
  <2>1. DOMAIN jobs' = DOMAIN jobs /\ jobs' \in [DOMAIN jobs -> JobRow]
    <3>1. CASE closing
      BY <1>3, <3>1 DEF MarkProcessing, TypeInv, TypeOK
    <3>2. CASE ~closing
      BY <1>1, <1>3, <3>2, SetStatusTyped DEF MarkProcessing, Statuses
    <3> QED
      BY <3>1, <3>2
  <2>2. RecordsTyped'
    BY <1>1, <1>3, <2>1, AtWork DEF MarkProcessing, WorkerStates, Holding
  <2> QED
    BY <1>3, <2>1, <2>2 DEF MarkProcessing, TypeInv, TypeOK, RecordsTyped
<1>4. CASE Copy(w)
  <2>1. worker[w].at = "placed" /\ worker[w].content \in Contents
        /\ staged[Source(w)] \in Contents \cup {None}
    BY <1>1, <1>4 DEF Copy, Holding, TypeInv, TypeOK
  <2>2. DOMAIN music' \subseteq Files /\ music' \in [DOMAIN music' -> Contents]
    <3>1. CASE UNCHANGED music
      BY <3>1 DEF TypeInv, TypeOK
    <3>2. CASE music' = With(music, worker[w].dest, staged[Source(w)]) /\ staged[Source(w)] # None
      BY <1>1, <2>1, <3>2, WithTyped DEF TypeInv, TypeOK
    <3> QED
      BY <1>4, <3>1, <3>2 DEF Copy
  <2>3. RecordsTyped'
    BY <1>1, <1>4, <2>1, AtWork DEF Copy, WorkerStates, Holding
  <2> QED
    BY <1>4, <2>2, <2>3 DEF Copy, TypeInv, TypeOK, RecordsTyped
<1>5. CASE Insert(w)
  <2>1. worker[w].at = "copied" /\ worker[w].content \in Contents
    BY <1>1, <1>5 DEF Insert, Holding
  <2>2. DOMAIN library' \subseteq Files /\ library' \in [DOMAIN library' -> Contents]
    <3>1. DOMAIN library \subseteq Files /\ library \in [DOMAIN library -> Contents]
      BY DEF TypeInv, TypeOK
    <3>2. worker[w].dest \in Files
      BY <1>1, <2>1
    <3>3. \/ library' = library
          \/ library' = With(library, worker[w].dest, worker[w].content)
      BY <1>5 DEF Insert
    <3> DEFINE inserted == With(library, worker[w].dest, worker[w].content)
    <3>4. DOMAIN inserted \subseteq Files /\ inserted \in [DOMAIN inserted -> Contents]
      BY <2>1, <3>1, <3>2, WithTyped
    <3> HIDE DEF inserted
    <3> QED
      BY <3>1, <3>3, <3>4 DEF inserted
  <2>3. RecordsTyped'
    BY <1>1, <1>5, <2>1, AtWork DEF Insert, WorkerStates, Holding, Finished
  <2> QED
    BY <1>5, <2>2, <2>3 DEF Insert, TypeInv, TypeOK, RecordsTyped
<1>6. CASE RemoveCopy(w)
  <2>1. DOMAIN music' \subseteq Files /\ music' \in [DOMAIN music' -> Contents]
    BY <1>6, WithoutTyped DEF RemoveCopy, TypeInv, TypeOK
  <2>2. RecordsTyped'
    BY <1>1, <1>6, AtWork DEF RemoveCopy, WorkerStates, Holding
  <2> QED
    BY <1>6, <2>1, <2>2 DEF RemoveCopy, TypeInv, TypeOK, RecordsTyped
<1>7. CASE Report(w)
  <2>1. worker[w].outcome \in Statuses /\ worker[w].dest \in Files \cup {NoFile}
    BY <1>1 DEF WorkerRow, Statuses, Finished
  <2>2. DOMAIN jobs' = DOMAIN jobs /\ jobs' \in [DOMAIN jobs -> JobRow]
    <3>1. CASE closing
      BY <1>7, <3>1 DEF Report, TypeInv, TypeOK
    <3>2. CASE ~closing
      BY <1>1, <1>7, <2>1, <3>2, SetStatusTyped DEF Report
    <3> QED
      BY <3>1, <3>2
  <2>3. RecordsTyped'
    BY <1>1, <1>7, <2>2, AtWork DEF Report, WorkerStates, Holding
  <2> QED
    BY <1>7, <2>2, <2>3 DEF Report, TypeInv, TypeOK, RecordsTyped
<1>8. CASE RemoveSource(w)
  <2>1. staged' \in [Sources -> Contents \cup {None}]
    BY <1>8 DEF RemoveSource, TypeInv, TypeOK
  <2>2. RecordsTyped'
    BY <1>1, <1>8, AtWork DEF RemoveSource
  <2> QED
    BY <1>8, <2>1, <2>2 DEF RemoveSource, TypeInv, TypeOK, RecordsTyped
<1> QED
  BY <1>2, <1>3, <1>4, <1>5, <1>6, <1>7, <1>8

\* The handlers.
LEMMA HandlersTyped ==
  ASSUME TypeInv, NEW c \in Clients, Handle(c)
  PROVE  TypeInv'
<1>1. /\ client[c] \in ClientRow
      /\ client[c].at \in {"created", "cancelling", "retrying"} => client[c].job \in DOMAIN jobs
      /\ client[c].at \in Uploading => client[c].source \in Sources
  BY DEF TypeInv, TypeOK, References
<1>2. jobs \in [DOMAIN jobs -> JobRow]
  BY DEF TypeInv, TypeOK
<1>3. ASSUME NEW s \in Sources, NEW content \in Contents, NEW target \in Folders,
             UploadStart(c, s, content, target)
      PROVE  TypeInv'
  <2> DEFINE state == [at |-> "saving", job |-> 0, source |-> s,
                       content |-> content, target |-> target]
  <2>1. state \in ClientRow' /\ state.at = "saving" /\ state.source = s
    BY DEF ClientRow, Uploading
  <2>2. ClientGoes(c, state) /\ UNCHANGED <<jobs, worker>>
    BY <1>3 DEF UploadStart
  <2> HIDE DEF state
  <2>3. RecordsTyped'
    BY <2>1, <2>2, ClientStep
  <2>4. staged' \in [Sources -> Contents \cup {None}]
    BY <1>3, ImportAssumption DEF UploadStart, TypeInv, TypeOK
  <2> QED
    BY <1>3, <2>3, <2>4 DEF UploadStart, TypeInv, TypeOK, RecordsTyped
<1>4. CASE UploadSaved(c)
  <2> DEFINE state == [client[c] EXCEPT !.at = "saved"]
  <2>1. state \in ClientRow' /\ state.at = "saved" /\ state.source \in Sources
    BY <1>1, <1>4 DEF ClientRow, Uploading, UploadSaved
  <2>2. ClientGoes(c, state) /\ UNCHANGED <<jobs, worker>>
    BY <1>4 DEF UploadSaved
  <2> HIDE DEF state
  <2>3. RecordsTyped'
    BY <2>1, <2>2, ClientStep
  <2>4. client[c].content \in Contents
    BY <1>1 DEF ClientRow
  <2>5. staged' \in [Sources -> Contents \cup {None}]
    BY <1>4, <2>4 DEF UploadSaved, TypeInv, TypeOK
  <2> QED
    BY <1>4, <2>3, <2>5 DEF UploadSaved, TypeInv, TypeOK, RecordsTyped
<1>5. CASE UploadCreateJob(c)
  <2>1. Create(client[c].source) /\ client[c].source \in Sources
    BY <1>1, <1>5 DEF UploadCreateJob, Uploading
  <2>2. /\ IsFiniteSet(DOMAIN jobs') /\ DOMAIN jobs' = 1 .. Cardinality(DOMAIN jobs')
        /\ DOMAIN jobs' = DOMAIN jobs \cup {Cardinality(DOMAIN jobs) + 1}
        /\ jobs' \in [DOMAIN jobs' -> JobRow]
    BY <2>1, CreateTyped
  <2> DEFINE state == [client[c] EXCEPT !.at = "created", !.job = Cardinality(DOMAIN jobs) + 1]
  <2>3. /\ state \in ClientRow' /\ state.source = client[c].source
        /\ state.job = Cardinality(DOMAIN jobs) + 1
    BY <1>1, <2>2 DEF ClientRow, Uploading
  <2>4. ClientGoes(c, state) /\ UNCHANGED worker
    BY <1>5 DEF UploadCreateJob
  <2> HIDE DEF state
  <2>5. RecordsTyped'
    BY <2>1, <2>2, <2>3, <2>4, ClientStep
  <2> QED
    BY <1>5, <2>2, <2>5 DEF UploadCreateJob, TypeInv, TypeOK, RecordsTyped
<1>6. CASE UploadSetTarget(c)
  <2>1. client[c].at = "created" /\ client[c].target \in Folders /\ client[c].content \in Contents
    BY <1>1, <1>6 DEF ClientRow, UploadSetTarget
  <2>2. DOMAIN jobs' = DOMAIN jobs /\ jobs' \in [DOMAIN jobs -> JobRow]
    BY <1>1, <1>2, <1>6, <2>1 DEF UploadSetTarget, JobRow
  <2>3. RecordsTyped'
    BY <1>6, <2>2, IdleRows, ClientStep DEF UploadSetTarget, IdleClient, ClientRow, Uploading
  <2>4. accepted' \subseteq Recordings
    BY <1>6, <2>1, ImportAssumption DEF UploadSetTarget, TypeInv, TypeOK
  <2> QED
    BY <1>6, <2>2, <2>3, <2>4 DEF UploadSetTarget, TypeInv, TypeOK, RecordsTyped
<1>7. CASE UploadFails(c)
  <2>1. RecordsTyped'
    BY <1>7, IdleRows, ClientStep DEF UploadFails, IdleClient, ClientRow, Uploading
  <2>2. staged' \in [Sources -> Contents \cup {None}]
    BY <1>7 DEF UploadFails, TypeInv, TypeOK
  <2> QED
    BY <1>7, <2>1, <2>2 DEF UploadFails, TypeInv, TypeOK, RecordsTyped
<1>8. ASSUME NEW s \in Sources, Scan(c, s)
      PROVE  TypeInv'
  <2>1. /\ IsFiniteSet(DOMAIN jobs') /\ DOMAIN jobs' = 1 .. Cardinality(DOMAIN jobs')
        /\ DOMAIN jobs' = DOMAIN jobs \cup {Cardinality(DOMAIN jobs) + 1}
        /\ jobs' \in [DOMAIN jobs' -> JobRow]
    BY <1>8, CreateTyped DEF Scan
  <2>2. RecordsTyped'
    BY <1>8, <2>1 DEF Scan, TypeInv, TypeOK, References, RecordsTyped, WorkerRow, ClientRow
  <2> QED
    BY <1>8, <2>1, <2>2 DEF Scan, TypeInv, TypeOK, RecordsTyped
<1>9. ASSUME NEW j \in DOMAIN jobs, NEW at \in {"cancelling", "retrying"},
             ClientGoes(c, [IdleClient EXCEPT !.at = at, !.job = j]),
             UNCHANGED <<staged, music, library, jobs, worker, closing, restarts, accepted>>
      PROVE  TypeInv'
  <2> DEFINE state == [IdleClient EXCEPT !.at = at, !.job = j]
  <2>1. state \in ClientRow' /\ state.at = at /\ state.job = j
    BY <1>9, ImportAssumption DEF IdleClient, ClientRow
  <2>2. ClientGoes(c, state)
    BY <1>9
  <2> HIDE DEF state
  <2>3. RecordsTyped'
    BY <1>9, <2>1, <2>2, ClientStep DEF Uploading
  <2> QED
    BY <1>9, <2>3 DEF TypeInv, TypeOK, RecordsTyped
<1>10. ASSUME NEW status \in Statuses, client[c].at \in {"cancelling", "retrying"},
              SetStatus(client[c].job, status, NoFile), ClientGoes(c, IdleClient),
              UNCHANGED <<staged, music, library, worker, closing, restarts, accepted>>
       PROVE  TypeInv'
  <2>1. DOMAIN jobs' = DOMAIN jobs /\ jobs' \in [DOMAIN jobs -> JobRow]
    BY <1>1, <1>10, SetStatusTyped
  <2>2. RecordsTyped'
    BY <1>10, <2>1, IdleRows, ClientStep DEF IdleClient, ClientRow, Uploading
  <2> QED
    BY <1>10, <2>1, <2>2 DEF TypeInv, TypeOK, RecordsTyped
<1>11. CASE (\E j \in DOMAIN jobs : CancelRead(c, j)) \/ (\E j \in DOMAIN jobs : RetryStat(c, j))
  BY <1>9, <1>11 DEF CancelRead, RetryStat
<1>12. CASE CancelWrite(c) \/ RetryWrite(c)
  BY <1>10, <1>12 DEF CancelWrite, RetryWrite, Statuses
<1> QED
  BY <1>3, <1>4, <1>5, <1>6, <1>7, <1>8, <1>11, <1>12 DEF Handle

\* A restart forgets workers and requests and keeps every job.
LEMMA RestartTyped == TypeInv /\ (Close \/ Restart) => TypeInv'
<1>1. ASSUME TypeInv, Close PROVE TypeInv'
  BY <1>1 DEF Close, TypeInv, TypeOK, References, WorkerRow, ClientRow
<1>2. ASSUME TypeInv, Restart PROVE TypeInv'
  <2>1. DOMAIN jobs' = DOMAIN jobs
    BY <1>2 DEF Restart
  <2>2. \A j \in DOMAIN jobs : Requeued(jobs[j]) \in JobRow
    BY <1>2 DEF TypeInv, TypeOK, Requeued, JobRow, Statuses
  <2>3. jobs' \in [DOMAIN jobs -> JobRow]
    BY <1>2, <2>2 DEF Restart
  <2>4. worker' \in [Workers -> WorkerRow'] /\ client' \in [Clients -> ClientRow']
    BY <1>2, IdleRows, <2>1 DEF Restart, WorkerRow, ClientRow
  <2>5. References'
    BY <1>2 DEF Restart, References, IdleWorker, IdleClient, Uploading, Holding
  <2>6. restarts' \in 0 .. MaxRestarts
    BY <1>2, ImportAssumption DEF Restart, TypeInv, TypeOK
  <2> QED
    BY <1>2, <2>1, <2>3, <2>4, <2>5, <2>6 DEF Restart, TypeInv, TypeOK
<1> QED
  BY <1>1, <1>2

\* Every step.
LEMMA NextTyped == TypeInv /\ [Next]_vars => TypeInv'
<1> SUFFICES ASSUME TypeInv, [Next]_vars PROVE TypeInv'
  OBVIOUS
<1>1. ASSUME NEW w \in Workers, Work(w) PROVE TypeInv'
  BY <1>1, ThinkTyped, ActTyped DEF Work
<1>2. CASE UNCHANGED vars
  BY <1>2 DEF vars, TypeInv, TypeOK, References, WorkerRow, ClientRow
<1> QED
  BY <1>1, <1>2, HandlersTyped, RestartTyped DEF Next

\* Jobs keep dense ids and the shape of their rows, and every handler and
\* worker refers to a job that exists, whatever else happens to it meanwhile:
\* claims, retries, cancellations and restarts.
THEOREM TypeCorrect == Spec => []TypeOK
<1>1. Spec => []TypeInv
  BY InitTyped, NextTyped, PTL DEF Spec
<1>2. TypeInv => TypeOK
  BY DEF TypeInv
<1> QED
  BY <1>1, <1>2, PTL

-----------------------------------------------------------------------------
(* The assumptions of what follows.                                        *)

OneWorker  == \A v, w \in Workers : v = w
ScansApart == ~ScanDuringUpload

-----------------------------------------------------------------------------
(* The parts of the inductive invariant.                                   *)

InFlight(s) == \E c \in Clients : client[c].at \in Uploading /\ client[c].source = s

\* An upload has its source for itself until its job is created.
UploadsApart ==
    /\ \A c, d \in Clients :
          client[c].at \in Uploading /\ client[d].at \in Uploading
              /\ client[c].source = client[d].source => c = d
    /\ \A c \in Clients : client[c].at \in {"saving", "saved"} =>
          \A j \in DOMAIN jobs : jobs[j].source # client[c].source

\* The file of an upload is there; once it has a job, its recording may already
\* be in the library instead.
UploadsKept ==
    \A c \in Clients :
        /\ client[c].at = "saving" => staged[client[c].source] # None
        /\ client[c].at = "saved"  => staged[client[c].source] = client[c].content
        /\ client[c].at = "created" =>
              \/ staged[client[c].source] = client[c].content
              \/ Recording[client[c].content] \in Shelf

\* What was accepted does not depend on an upload that may still fail.
AcceptedKept ==
    \A r \in accepted :
        \/ r \in Shelf
        \/ \E s \in Sources : staged[s] # None /\ Recording[staged[s]] = r /\ ~InFlight(s)

Concluded(w) == \/ worker[w].at = "report" /\ worker[w].outcome \in Finished
                \/ worker[w].at = "cleanup"

\* A worker's source does not change under it, it can only disappear.
SourceStable ==
    \A w \in Workers : worker[w].at \in Holding \/ Concluded(w) =>
        /\ worker[w].content \in Contents
        /\ staged[Source(w)] \in {None, worker[w].content}

\* The name a worker has chosen belongs to no song, its copy is what it read.
NamesApart ==
    \A w \in Workers :
        /\ worker[w].at \in {"placed", "copied", "refused"} =>
              worker[w].dest \in Files \ DOMAIN library
        /\ worker[w].at = "placed" => worker[w].dest \notin DOMAIN music
        /\ worker[w].at = "copied" =>
              worker[w].dest \in DOMAIN music /\ music[worker[w].dest] = worker[w].content

\* A source is removed only when its recording is in the library.
ConcludedStored == \A w \in Workers : Concluded(w) => Recording[worker[w].content] \in Shelf

UploadSide == UploadsApart /\ UploadsKept /\ AcceptedKept
WorkerSide == SourceStable /\ NamesApart /\ ConcludedStored

IInv == TypeInv /\ RowsBacked /\ UploadSide /\ WorkerSide

\* Jobs stay, with the source they were created with.
JobsKeepSources ==
    \A j \in DOMAIN jobs : j \in DOMAIN jobs' /\ jobs'[j].source = jobs[j].source

-----------------------------------------------------------------------------
(* The library.                                                            *)

\* A song with this recording is one that can be played.
LEMMA FoundOnShelf ==
  ASSUME RowsBacked, NEW c \in Contents, Stored(c) \/ Similar(c)
  PROVE  Recording[c] \in Shelf
  BY DEF RowsBacked, Stored, Similar, Shelf

\* A file is written or removed under a name no song has.
LEMMA MusicElsewhere ==
  ASSUME RowsBacked, NEW p, p \notin DOMAIN library, UNCHANGED library,
         \/ \E c : music' = With(music, p, c)
         \/ music' = Without(music, p)
  PROVE  RowsBacked' /\ Shelf \subseteq Shelf'
<1>1. \A q \in DOMAIN library : q \in DOMAIN music' /\ music'[q] = music[q]
  BY DEF RowsBacked, With, Without
<1> QED
  BY <1>1 DEF RowsBacked, Shelf

\* A song is inserted over the file that was copied for it.
LEMMA SongInserted ==
  ASSUME RowsBacked, NEW p \in DOMAIN music \ DOMAIN library, UNCHANGED music,
         library' = With(library, p, music[p])
  PROVE  RowsBacked' /\ Shelf \subseteq Shelf' /\ Recording[music[p]] \in Shelf'
<1>1. /\ DOMAIN library' = DOMAIN library \cup {p} /\ library'[p] = music[p]
      /\ \A q \in DOMAIN library : library'[q] = library[q]
  BY DEF With
<1> QED
  BY <1>1 DEF RowsBacked, Shelf

\* Neither files nor songs change.
LEMMA LibrarySame ==
  ASSUME RowsBacked, UNCHANGED <<music, library>>
  PROVE  RowsBacked' /\ Shelf' = Shelf
  BY DEF RowsBacked, Shelf

-----------------------------------------------------------------------------
(* Steps of the worker.                                                    *)

\* A step that leaves the staging directory alone disturbs no upload.
LEMMA UploadsUndisturbed ==
  ASSUME TypeInv, UploadSide, Shelf \subseteq Shelf', DOMAIN jobs' = DOMAIN jobs, JobsKeepSources,
         UNCHANGED <<staged, client, accepted>>
  PROVE  UploadSide'
<1>1. UploadsApart'
  BY DEF UploadSide, UploadsApart, JobsKeepSources
<1>2. UploadsKept'
  BY DEF UploadSide, UploadsKept
<1>3. \A s : InFlight(s)' = InFlight(s)
  BY DEF InFlight
<1>4. AcceptedKept'
  BY <1>3 DEF UploadSide, AcceptedKept
<1> QED
  BY <1>1, <1>2, <1>4 DEF UploadSide

\* What the only worker must show about its next record.
LEMMA WorkerSideStep ==
  ASSUME OneWorker, TypeInv, NEW w \in Workers, NEW state, WorkerGoes(w, state),
         state.at \in Holding \cup {"cleanup"}
             \/ (state.at = "report" /\ state.outcome \in Finished) =>
             /\ state.content \in Contents
             /\ staged'[jobs'[state.job].source] \in {None, state.content},
         state.at \in {"placed", "copied", "refused"} =>
             state.dest \in Files \ DOMAIN library',
         state.at = "placed" => state.dest \notin DOMAIN music',
         state.at = "copied" =>
             state.dest \in DOMAIN music' /\ music'[state.dest] = state.content,
         state.at = "cleanup" \/ (state.at = "report" /\ state.outcome \in Finished) =>
             Recording[state.content] \in Shelf'
  PROVE  WorkerSide'
<1>1. \A v \in Workers : worker'[v] = state
  BY DEF OneWorker, WorkerGoes, TypeInv, TypeOK
<1>2. SourceStable'
  BY <1>1 DEF SourceStable, Concluded, Source
<1>3. NamesApart'
  BY <1>1 DEF NamesApart
<1>4. ConcludedStored'
  BY <1>1 DEF ConcludedStored, Concluded
<1> QED
  BY <1>2, <1>3, <1>4 DEF WorkerSide

\* Giving up, or failing, needs no more than that.
LEMMA WorkerStops ==
  ASSUME OneWorker, TypeInv, NEW w \in Workers,
         WorkerGoes(w, IdleWorker) \/ Conclude(w, "failed")
  PROVE  WorkerSide'
<1>1. CASE WorkerGoes(w, IdleWorker)
  BY <1>1, WorkerSideStep DEF IdleWorker, Holding
<1>2. CASE Conclude(w, "failed")
  <2> DEFINE state == [worker[w] EXCEPT !.at = "report", !.outcome = "failed"]
  <2>1. state.at = "report" /\ state.outcome = "failed"
    BY DEF TypeInv, TypeOK, WorkerRow
  <2>2. WorkerGoes(w, state)
    BY <1>2 DEF Conclude
  <2> HIDE DEF state
  <2> QED
    BY <2>1, <2>2, WorkerSideStep DEF Holding, Finished
<1> QED
  BY <1>1, <1>2

Safe == RowsBacked /\ UploadSide /\ WorkerSide

\* The steps that start a job change nothing the invariant speaks of.
LEMMA StartSafe ==
  ASSUME OneWorker, IInv, NEW w \in Workers, Claim(w) \/ ReadJob(w) \/ MarkProcessing(w)
  PROVE  Safe' /\ Shelf \subseteq Shelf'
<1>1. UNCHANGED <<staged, music, library, client, accepted>>
  BY DEF Claim, ReadJob, MarkProcessing
<1>2. worker[w] \in WorkerRow /\ jobs \in [DOMAIN jobs -> JobRow]
  BY DEF IInv, TypeInv, TypeOK
<1>3. DOMAIN jobs' = DOMAIN jobs /\ JobsKeepSources
  <2>1. ASSUME NEW j \in DOMAIN jobs, NEW status, NEW song,
               \/ jobs' = [jobs EXCEPT ![j].status = status]
               \/ SetStatus(j, status, song)
        PROVE  DOMAIN jobs' = DOMAIN jobs /\ JobsKeepSources
    BY <1>2, <2>1 DEF SetStatus, JobsKeepSources, JobRow
  <2>2. CASE Claim(w)
    BY <2>1, <2>2 DEF Claim
  <2>3. CASE UNCHANGED jobs
    BY <2>3 DEF JobsKeepSources
  <2>4. CASE MarkProcessing(w) /\ SetStatus(worker[w].job, "processing", NoFile)
    BY <2>1, <2>4 DEF MarkProcessing, IInv, TypeInv, References
  <2> QED
    BY <2>2, <2>3, <2>4 DEF ReadJob, MarkProcessing
<1>4. RowsBacked' /\ Shelf \subseteq Shelf'
  BY <1>1, LibrarySame DEF IInv
<1>5. UploadSide'
  BY <1>1, <1>3, <1>4, UploadsUndisturbed DEF IInv
<1>6. ASSUME NEW state, WorkerGoes(w, state), state.at \in {"claimed", "read", "marked"}
      PROVE  WorkerSide'
  BY <1>6, WorkerSideStep DEF IInv, Holding
<1>7. CASE Claim(w)
  <2>1. PICK j \in DOMAIN jobs :
           WorkerGoes(w, [IdleWorker EXCEPT !.at = "claimed", !.job = j])
    BY <1>7 DEF Claim
  <2>2. [IdleWorker EXCEPT !.at = "claimed", !.job = j].at = "claimed"
    BY DEF IdleWorker
  <2> QED
    BY <1>4, <1>5, <1>6, <2>1, <2>2 DEF Safe
<1>8. CASE ReadJob(w)
  <2> DEFINE state == [worker[w] EXCEPT !.at = "read", !.folder = jobs[worker[w].job].target]
  <2>1. state.at = "read"
    BY <1>2 DEF WorkerRow
  <2>2. WorkerGoes(w, state) \/ WorkerGoes(w, IdleWorker)
    BY <1>8 DEF ReadJob
  <2> HIDE DEF state
  <2>3. WorkerSide'
    BY <1>6, <2>1, <2>2, WorkerStops DEF IInv
  <2> QED
    BY <1>4, <1>5, <2>3 DEF Safe
<1>9. CASE MarkProcessing(w)
  <2>1. [worker[w] EXCEPT !.at = "marked"].at = "marked"
    BY <1>2 DEF WorkerRow
  <2>2. WorkerGoes(w, [worker[w] EXCEPT !.at = "marked"])
    BY <1>9 DEF MarkProcessing
  <2> QED
    BY <1>4, <1>5, <1>6, <2>1, <2>2 DEF Safe
<1> QED
  BY <1>7, <1>8, <1>9

\* What the invariant says of a worker that holds a content or is done with it.
LEMMA AboutWorker ==
  ASSUME IInv, NEW w \in Workers
  PROVE  /\ worker[w] \in WorkerRow
         /\ worker[w].at # "idle" => worker[w].job \in DOMAIN jobs /\ Source(w) \in Sources
         /\ worker[w].at \in Holding \/ Concluded(w) =>
              /\ worker[w].content \in Contents
              /\ staged[Source(w)] \in {None, worker[w].content}
         /\ worker[w].at \in {"placed", "copied", "refused"} =>
              worker[w].dest \in Files \ DOMAIN library
         /\ worker[w].at = "placed" => worker[w].dest \notin DOMAIN music
         /\ worker[w].at = "copied" =>
              worker[w].dest \in DOMAIN music /\ music[worker[w].dest] = worker[w].content
         /\ Concluded(w) => Recording[worker[w].content] \in Shelf
  BY DEF IInv, TypeInv, TypeOK, References, Source, JobRow, WorkerSide,
         SourceStable, NamesApart, ConcludedStored

\* The worker moves on, with the content it holds.
LEMMA MovesOn ==
  ASSUME OneWorker, IInv, NEW w \in Workers, worker[w].at \in Holding,
         UNCHANGED <<staged, jobs>>
  PROVE  /\ \A at \in {"new", "unseen", "removed"} :
               WorkerGoes(w, [worker[w] EXCEPT !.at = at]) => WorkerSide'
         /\ \A outcome \in Finished :
               Conclude(w, outcome) /\ Recording[worker[w].content] \in Shelf' => WorkerSide'
<1>1. ASSUME NEW at \in {"new", "unseen", "removed"},
             WorkerGoes(w, [worker[w] EXCEPT !.at = at])
      PROVE  WorkerSide'
  <2> DEFINE state == [worker[w] EXCEPT !.at = at]
  <2>1. state.at = at /\ state.content = worker[w].content /\ state.job = worker[w].job
    BY AboutWorker DEF WorkerRow
  <2>2. WorkerGoes(w, state)
    BY <1>1
  <2> HIDE DEF state
  <2> QED
    BY <2>1, <2>2, AboutWorker, WorkerSideStep DEF IInv, Source
<1>2. ASSUME NEW outcome \in Finished,
             Conclude(w, outcome), Recording[worker[w].content] \in Shelf'
      PROVE  WorkerSide'
  <2> DEFINE state == [worker[w] EXCEPT !.at = "report", !.outcome = outcome]
  <2>1. /\ state.at = "report" /\ state.content = worker[w].content
        /\ state.job = worker[w].job
    BY AboutWorker DEF WorkerRow
  <2>2. WorkerGoes(w, state)
    BY <1>2 DEF Conclude
  <2> HIDE DEF state
  <2> QED
    BY <1>2, <2>1, <2>2, AboutWorker, WorkerSideStep DEF IInv, Source, Holding
<1> QED
  BY <1>1, <1>2

\* The steps that only look: at the source, the hash, the tags, the names.
LEMMA LookSafe ==
  ASSUME OneWorker, IInv, NEW w \in Workers,
         Hash(w) \/ LookUpHash(w) \/ LookUpIdentity(w) \/ ChoosePath(w) \/ LookUpAgain(w)
  PROVE  Safe' /\ Shelf \subseteq Shelf'
<1>1. UNCHANGED <<staged, music, library, jobs, client, accepted>>
  BY DEF Hash, LookUpHash, LookUpIdentity, ChoosePath, LookUpAgain
<1>2. RowsBacked' /\ Shelf' = Shelf
  BY <1>1, LibrarySame DEF IInv
<1>3. UploadSide'
  BY <1>1, <1>2, UploadsUndisturbed DEF IInv, JobsKeepSources
<1>4. CASE Hash(w)
  <2>1. CASE staged[Source(w)] = None
    BY <1>4, <2>1, WorkerStops, <1>2, <1>3 DEF Hash, IInv, Safe
  <2>2. CASE staged[Source(w)] # None
    <3> DEFINE state == [worker[w] EXCEPT !.at = "hashed", !.content = staged[Source(w)]]
    <3>1. /\ state.at = "hashed" /\ state.content = staged[Source(w)]
          /\ state.job = worker[w].job
      BY AboutWorker DEF WorkerRow
    <3>2. WorkerGoes(w, state)
      BY <1>4, <2>2 DEF Hash
    <3>3. staged[Source(w)] \in Contents
      BY <1>4, <2>2, AboutWorker DEF Hash, IInv, TypeInv, TypeOK
    <3> HIDE DEF state
    <3>4. WorkerSide'
      BY <1>1, <3>1, <3>2, <3>3, WorkerSideStep DEF IInv, Source
    <3> QED
      BY <1>2, <1>3, <3>4 DEF Safe
  <2> QED
    BY <2>1, <2>2
<1>5. CASE ChoosePath(w)
  <2>1. ASSUME NEW n \in 1 .. MaxFiles, Free(worker[w].folder, n),
               WorkerGoes(w, [worker[w] EXCEPT !.at = "placed", !.dest = <<worker[w].folder, n>>])
        PROVE  WorkerSide'
    <3> DEFINE p == <<worker[w].folder, n>>
               state == [worker[w] EXCEPT !.at = "placed", !.dest = p]
    <3>1. /\ state.at = "placed" /\ state.dest = p /\ state.content = worker[w].content
          /\ state.job = worker[w].job
      BY AboutWorker DEF WorkerRow
    <3>2. p \in Files /\ p \notin DOMAIN music
      BY <2>1, AboutWorker DEF Free, Files, WorkerRow
    <3>3. p \notin DOMAIN library
      BY <3>2 DEF IInv, RowsBacked
    <3>4. WorkerGoes(w, state)
      BY <2>1
    <3>5. worker[w].at \in Holding
      BY <1>5 DEF ChoosePath, Holding
    <3> HIDE DEF state, p
    <3> QED
      BY <1>1, <3>1, <3>2, <3>3, <3>4, <3>5, AboutWorker, WorkerSideStep DEF IInv, Source
  <2>2. WorkerSide'
    BY <1>5, <2>1, WorkerStops DEF ChoosePath, IInv
  <2> QED
    BY <1>2, <1>3, <2>2 DEF Safe
<1>6. CASE LookUpHash(w) \/ LookUpIdentity(w) \/ LookUpAgain(w)
  <2>1. worker[w].at \in Holding /\ worker[w].content \in Contents
    BY <1>6, AboutWorker DEF LookUpHash, LookUpIdentity, LookUpAgain, Holding
  <2>2. \/ Conclude(w, "failed")
        \/ \E at \in {"new", "unseen"} : WorkerGoes(w, [worker[w] EXCEPT !.at = at])
        \/ Conclude(w, "duplicate")
             /\ (Stored(worker[w].content) \/ Similar(worker[w].content))
    BY <1>6 DEF LookUpHash, LookUpIdentity, LookUpAgain
  <2>3. Conclude(w, "duplicate")
             /\ (Stored(worker[w].content) \/ Similar(worker[w].content)) => WorkerSide'
    BY <1>1, <1>2, <2>1, FoundOnShelf, MovesOn DEF IInv, Finished
  <2>4. WorkerSide'
    BY <1>1, <2>1, <2>2, <2>3, MovesOn, WorkerStops DEF IInv
  <2> QED
    BY <1>2, <1>3, <2>4 DEF Safe
<1> QED
  BY <1>4, <1>5, <1>6

\* The steps on files and tables.
LEMMA ActSafe ==
  ASSUME OneWorker, IInv, NEW w \in Workers,
         Copy(w) \/ Insert(w) \/ RemoveCopy(w) \/ Report(w)
  PROVE  Safe' /\ Shelf \subseteq Shelf'
<1>1. UNCHANGED <<staged, client, accepted>>
  BY DEF Copy, Insert, RemoveCopy, Report
<1>2. worker[w] \in WorkerRow
  BY AboutWorker
<1>3. ASSUME UNCHANGED jobs, RowsBacked', Shelf \subseteq Shelf', WorkerSide'
      PROVE  Safe' /\ Shelf \subseteq Shelf'
  BY <1>1, <1>3, UploadsUndisturbed DEF IInv, JobsKeepSources, Safe
<1>4. CASE Copy(w)
  <2>1. worker[w].at = "placed" /\ worker[w].at \in Holding /\ UNCHANGED <<library, jobs>>
    BY <1>4 DEF Copy, Holding
  <2>2. CASE Conclude(w, "failed") /\ UNCHANGED music
    BY <1>3, <2>1, <2>2, LibrarySame, WorkerStops DEF IInv
  <2>3. CASE /\ staged[Source(w)] # None
             /\ music' = With(music, worker[w].dest, staged[Source(w)])
             /\ WorkerGoes(w, [worker[w] EXCEPT !.at = "copied"])
    <3>1. RowsBacked' /\ Shelf \subseteq Shelf'
      BY <2>1, <2>3, AboutWorker, MusicElsewhere DEF IInv
    <3> DEFINE state == [worker[w] EXCEPT !.at = "copied"]
    <3>2. /\ state.at = "copied" /\ state.dest = worker[w].dest /\ state.job = worker[w].job
          /\ state.content = worker[w].content
      BY <1>2 DEF WorkerRow
    <3>3. WorkerGoes(w, state)
      BY <2>3
    <3>4. staged[Source(w)] = worker[w].content
      BY <2>1, <2>3, AboutWorker
    <3>5. worker[w].dest \in DOMAIN music' /\ music'[worker[w].dest] = worker[w].content
      BY <2>3, <3>4 DEF With
    <3> HIDE DEF state
    <3>6. WorkerSide'
      BY <1>1, <2>1, <3>2, <3>3, <3>5, AboutWorker, WorkerSideStep DEF IInv, Source
    <3> QED
      BY <1>3, <2>1, <3>1, <3>6
  <2> QED
    BY <1>4, <2>2, <2>3 DEF Copy
<1>5. CASE Insert(w)
  <2>1. worker[w].at = "copied" /\ worker[w].at \in Holding /\ UNCHANGED <<music, jobs>>
    BY <1>5 DEF Insert, Holding
  <2>2. CASE WorkerGoes(w, [worker[w] EXCEPT !.at = "refused"]) /\ UNCHANGED library
    <3> DEFINE state == [worker[w] EXCEPT !.at = "refused"]
    <3>1. /\ state.at = "refused" /\ state.dest = worker[w].dest /\ state.job = worker[w].job
          /\ state.content = worker[w].content
      BY <1>2 DEF WorkerRow
    <3>2. WorkerGoes(w, state)
      BY <2>2
    <3> HIDE DEF state
    <3>3. WorkerSide'
      BY <1>1, <2>1, <2>2, <3>1, <3>2, AboutWorker, WorkerSideStep DEF IInv, Source
    <3> QED
      BY <1>3, <2>1, <2>2, <3>3, LibrarySame DEF IInv
  <2>3. CASE /\ library' = With(library, worker[w].dest, worker[w].content)
             /\ Conclude(w, "imported")
    <3>1. /\ worker[w].dest \in DOMAIN music \ DOMAIN library
          /\ music[worker[w].dest] = worker[w].content
      BY <2>1, AboutWorker
    <3>2. RowsBacked' /\ Shelf \subseteq Shelf' /\ Recording[worker[w].content] \in Shelf'
      BY <2>1, <2>3, <3>1, SongInserted DEF IInv
    <3>3. WorkerSide'
      BY <1>1, <2>1, <2>3, <3>2, MovesOn DEF Finished
    <3> QED
      BY <1>3, <2>1, <3>2, <3>3
  <2> QED
    BY <1>5, <2>2, <2>3 DEF Insert
<1>6. CASE RemoveCopy(w)
  <2>1. worker[w].at = "refused" /\ worker[w].at \in Holding /\ UNCHANGED <<library, jobs>>
    BY <1>6 DEF RemoveCopy, Holding
  <2>2. RowsBacked' /\ Shelf \subseteq Shelf'
    BY <1>6, <2>1, AboutWorker, MusicElsewhere DEF IInv, RemoveCopy
  <2>3. WorkerSide'
    BY <1>1, <1>6, <2>1, MovesOn DEF RemoveCopy
  <2> QED
    BY <1>3, <2>1, <2>2, <2>3
<1>7. CASE Report(w)
  <2>1. worker[w].at = "report" /\ UNCHANGED <<music, library>> /\ worker[w].job \in DOMAIN jobs
    BY <1>7, AboutWorker DEF Report
  <2>2. DOMAIN jobs' = DOMAIN jobs /\ JobsKeepSources
    BY <1>7, <2>1 DEF Report, SetStatus, JobsKeepSources, IInv, TypeInv, TypeOK, JobRow
  <2>3. RowsBacked' /\ Shelf' = Shelf
    BY <2>1, LibrarySame DEF IInv
  <2>4. UploadSide'
    BY <1>1, <2>2, <2>3, UploadsUndisturbed DEF IInv
  <2>5. CASE worker[w].outcome = "failed"
    <3>1. WorkerSide'
      BY <1>7, <2>5, WorkerStops DEF Report, IInv
    <3> QED
      BY <2>3, <2>4, <3>1 DEF Safe
  <2>6. CASE worker[w].outcome # "failed"
    <3>1. Concluded(w)
      BY <1>2, <2>1, <2>6 DEF Concluded, WorkerRow
    <3> DEFINE state == [worker[w] EXCEPT !.at = "cleanup"]
    <3>2. state.at = "cleanup" /\ state.job = worker[w].job /\ state.content = worker[w].content
      BY <1>2 DEF WorkerRow
    <3>3. WorkerGoes(w, state)
      BY <1>7, <2>6 DEF Report
    <3>4. jobs'[worker[w].job].source = Source(w)
      BY <2>1, <2>2 DEF JobsKeepSources, Source
    <3> HIDE DEF state
    <3>5. WorkerSide'
      BY <1>1, <2>3, <3>1, <3>2, <3>3, <3>4, AboutWorker, WorkerSideStep DEF IInv
    <3> QED
      BY <2>3, <2>4, <3>5 DEF Safe
  <2> QED
    BY <2>5, <2>6
<1> QED
  BY <1>4, <1>5, <1>6, <1>7

\* The source goes last: what it held is in the library by then, for the upload
\* that is still being answered as for those that were.
LEMMA RemoveSourceSafe ==
  ASSUME OneWorker, IInv, NEW w \in Workers, RemoveSource(w)
  PROVE  Safe' /\ Shelf \subseteq Shelf'
<1>1. /\ worker[w].at = "cleanup" /\ Source(w) \in Sources
      /\ staged' = [staged EXCEPT ![Source(w)] = None]
      /\ WorkerGoes(w, IdleWorker)
      /\ UNCHANGED <<music, library, jobs, client, accepted>>
  BY AboutWorker DEF RemoveSource
<1>2. /\ staged[Source(w)] \in {None, worker[w].content}
      /\ Recording[worker[w].content] \in Shelf
      /\ worker[w].job \in DOMAIN jobs
  BY <1>1, AboutWorker DEF Concluded
<1>3. RowsBacked' /\ Shelf' = Shelf
  BY <1>1, LibrarySame DEF IInv
<1>4. UploadsApart'
  BY <1>1 DEF IInv, UploadSide, UploadsApart
<1>5. staged \in [Sources -> Contents \cup {None}]
  BY DEF IInv, TypeInv, TypeOK
<1>6. UploadsKept'
  <2> SUFFICES ASSUME NEW c \in Clients
               PROVE  /\ client[c].at = "saving" => staged'[client[c].source] # None
                      /\ client[c].at = "saved"  => staged'[client[c].source] = client[c].content
                      /\ client[c].at = "created" =>
                            \/ staged'[client[c].source] = client[c].content
                            \/ Recording[client[c].content] \in Shelf
    BY <1>1, <1>3 DEF UploadsKept
  <2>1. client[c].at \in {"saving", "saved"} => client[c].source # Source(w)
    BY <1>2 DEF IInv, UploadSide, UploadsApart, Source
  <2>2. client[c].at \in {"saving", "saved"} => staged'[client[c].source] = staged[client[c].source]
    BY <1>1, <1>5, <2>1 DEF IInv, TypeInv, References, Uploading
  <2>3. CASE client[c].at = "created" /\ client[c].source = Source(w)
    <3>1. client[c].content \in Contents /\ client[c].content # None
      BY ImportAssumption DEF IInv, TypeInv, TypeOK, ClientRow
    <3> QED
      BY <1>2, <2>3, <3>1 DEF IInv, UploadSide, UploadsKept
  <2>4. CASE client[c].at = "created" /\ client[c].source # Source(w)
    <3>1. staged'[client[c].source] = staged[client[c].source]
      BY <1>1, <1>5, <2>4 DEF IInv, TypeInv, References, Uploading
    <3> QED
      BY <2>4, <3>1 DEF IInv, UploadSide, UploadsKept
  <2> QED
    BY <2>2, <2>3, <2>4 DEF IInv, UploadSide, UploadsKept
<1>7. AcceptedKept'
  <2> SUFFICES ASSUME NEW r \in accepted, r \notin Shelf
               PROVE  \E s \in Sources : /\ staged'[s] # None /\ Recording[staged'[s]] = r
                                         /\ ~InFlight(s)'
    BY <1>1, <1>3 DEF AcceptedKept
  <2>1. PICK s \in Sources : staged[s] # None /\ Recording[staged[s]] = r /\ ~InFlight(s)
    BY DEF IInv, UploadSide, AcceptedKept
  <2>2. s # Source(w)
    BY <1>2, <2>1
  <2>3. staged'[s] = staged[s]
    BY <1>1, <1>5, <2>2
  <2>4. ~InFlight(s)'
    BY <1>1, <2>1 DEF InFlight
  <2> QED
    BY <2>1, <2>3, <2>4
<1>8. WorkerSide'
  BY <1>1, WorkerStops DEF IInv
<1> QED
  BY <1>3, <1>4, <1>6, <1>7, <1>8 DEF Safe, UploadSide

-----------------------------------------------------------------------------
(* Steps of the handlers.                                                  *)

\* A request that keeps its hands off the sources of jobs disturbs no worker.
LEMMA WorkersUndisturbed ==
  ASSUME IInv, UNCHANGED <<music, library, worker>>, JobsKeepSources,
         \A j \in DOMAIN jobs : staged'[jobs[j].source] \in {None, staged[jobs[j].source]}
  PROVE  RowsBacked' /\ Shelf' = Shelf /\ WorkerSide'
<1>1. RowsBacked' /\ Shelf' = Shelf
  BY LibrarySame DEF IInv
<1>2. ASSUME NEW w \in Workers, worker[w].at \in Holding \/ Concluded(w)
      PROVE  staged'[Source(w)'] \in {None, worker[w].content}
  <2>1. worker[w].at # "idle" /\ worker[w].job \in DOMAIN jobs
    BY <1>2 DEF Holding, Concluded, IInv, TypeInv, References
  <2>2. Source(w)' = Source(w)
    BY <2>1 DEF Source, JobsKeepSources
  <2> QED
    BY <1>2, <2>1, <2>2, AboutWorker DEF Source
<1>3. SourceStable'
  BY <1>2 DEF IInv, WorkerSide, SourceStable, Concluded
<1>4. NamesApart' /\ ConcludedStored'
  BY <1>1 DEF IInv, WorkerSide, NamesApart, ConcludedStored, Concluded
<1> QED
  BY <1>1, <1>3, <1>4 DEF WorkerSide

\* An upload starts under a name of its own.
LEMMA UploadStartSafe ==
  ASSUME IInv, NEW c \in Clients, NEW s \in Sources, NEW content \in Contents,
         NEW target \in Folders, UploadStart(c, s, content, target)
  PROVE  Safe' /\ Shelf \subseteq Shelf'
<1> DEFINE state == [at |-> "saving", job |-> 0, source |-> s,
                     content |-> content, target |-> target]
<1>1. state.at = "saving" /\ state.source = s
  OBVIOUS
<1>2. /\ client[c].at = "idle" /\ client' = [client EXCEPT ![c] = state] /\ Unused(s)
      /\ staged' = [staged EXCEPT ![s] = Torn]
      /\ UNCHANGED <<music, library, jobs, worker, accepted>>
  BY DEF UploadStart, ClientGoes
<1> HIDE DEF state
<1>3. /\ staged \in [Sources -> Contents \cup {None}] /\ client \in [Clients -> ClientRow]
      /\ jobs \in [DOMAIN jobs -> JobRow]
  BY DEF IInv, TypeInv, TypeOK
<1>4. client'[c] = state /\ \A d \in Clients \ {c} : client'[d] = client[d]
  BY <1>2, <1>3
<1>5. staged'[s] = Torn /\ \A t \in Sources \ {s} : staged'[t] = staged[t]
  BY <1>2, <1>3
<1>6. RowsBacked' /\ Shelf' = Shelf /\ WorkerSide'
  <2>1. \A j \in DOMAIN jobs : jobs[j].source \in Sources /\ jobs[j].source # s
    BY <1>2, <1>3 DEF Unused, JobRow
  <2> QED
    BY <1>2, <1>5, <2>1, WorkersUndisturbed DEF JobsKeepSources
<1>7. UploadsApart'
  BY <1>1, <1>2, <1>4 DEF Unused, IInv, UploadSide, UploadsApart
<1>8. UploadsKept'
  <2>1. Torn # None
    BY ImportAssumption
  <2>2. ASSUME NEW d \in Clients \ {c}, client[d].at \in Uploading
        PROVE  staged'[client[d].source] = staged[client[d].source]
    BY <1>2, <1>5, <2>2 DEF Unused, IInv, TypeInv, References
  <2> QED
    BY <1>1, <1>4, <1>5, <1>6, <2>1, <2>2 DEF IInv, UploadSide, UploadsKept, Uploading
<1>9. AcceptedKept'
  <2> SUFFICES ASSUME NEW r \in accepted, r \notin Shelf
               PROVE  \E t \in Sources : /\ staged'[t] # None /\ Recording[staged'[t]] = r
                                         /\ ~InFlight(t)'
    BY <1>2, <1>6 DEF AcceptedKept
  <2>1. PICK t \in Sources : staged[t] # None /\ Recording[staged[t]] = r /\ ~InFlight(t)
    BY DEF IInv, UploadSide, AcceptedKept
  <2>2. t # s
    BY <1>2, <2>1 DEF Unused
  <2>3. ~InFlight(t)'
    BY <1>1, <1>4, <2>1, <2>2 DEF InFlight
  <2> QED
    BY <1>5, <2>1, <2>2, <2>3
<1> QED
  BY <1>6, <1>7, <1>8, <1>9 DEF Safe, UploadSide

\* The file arrives; nobody else knows its name.
LEMMA UploadSavedSafe ==
  ASSUME IInv, NEW c \in Clients, UploadSaved(c)
  PROVE  Safe' /\ Shelf \subseteq Shelf'
<1> DEFINE s == client[c].source
           state == [client[c] EXCEPT !.at = "saved"]
<1>1. /\ staged \in [Sources -> Contents \cup {None}] /\ client \in [Clients -> ClientRow]
      /\ jobs \in [DOMAIN jobs -> JobRow]
  BY DEF IInv, TypeInv, TypeOK
<1>2. state.at = "saved" /\ state.source = s /\ state.content = client[c].content
  BY <1>1 DEF ClientRow
<1>3. /\ client[c].at = "saving" /\ client' = [client EXCEPT ![c] = state]
      /\ UNCHANGED <<music, library, jobs, worker, accepted>>
  BY DEF UploadSaved, ClientGoes
<1> HIDE DEF state
<1>4. s \in Sources /\ staged[s] # None
  BY <1>3 DEF IInv, TypeInv, References, Uploading, UploadSide, UploadsKept
<1>5. staged'[s] = client[c].content /\ \A t \in Sources \ {s} : staged'[t] = staged[t]
  BY <1>1, <1>4 DEF UploadSaved
<1>6. client'[c] = state /\ \A d \in Clients \ {c} : client'[d] = client[d]
  BY <1>1, <1>3
<1>7. RowsBacked' /\ Shelf' = Shelf /\ WorkerSide'
  <2>1. \A j \in DOMAIN jobs : jobs[j].source \in Sources /\ jobs[j].source # s
    BY <1>1, <1>3 DEF JobRow, IInv, UploadSide, UploadsApart
  <2> QED
    BY <1>3, <1>5, <2>1, WorkersUndisturbed DEF JobsKeepSources
<1>8. UploadsApart'
  BY <1>2, <1>3, <1>6 DEF IInv, UploadSide, UploadsApart, Uploading
<1>9. UploadsKept'
  <2>1. ASSUME NEW d \in Clients \ {c}, client[d].at \in Uploading
        PROVE  staged'[client[d].source] = staged[client[d].source]
    BY <1>3, <1>5, <2>1 DEF IInv, TypeInv, References, UploadSide, UploadsApart, Uploading
  <2> QED
    BY <1>2, <1>5, <1>6, <1>7, <2>1 DEF IInv, UploadSide, UploadsKept, Uploading
<1>10. AcceptedKept'
  <2> SUFFICES ASSUME NEW r \in accepted, r \notin Shelf
               PROVE  \E t \in Sources : /\ staged'[t] # None /\ Recording[staged'[t]] = r
                                         /\ ~InFlight(t)'
    BY <1>3, <1>7 DEF AcceptedKept
  <2>1. PICK t \in Sources : staged[t] # None /\ Recording[staged[t]] = r /\ ~InFlight(t)
    BY DEF IInv, UploadSide, AcceptedKept
  <2>2. t # s
    BY <1>3, <2>1 DEF InFlight, Uploading
  <2>3. ~InFlight(t)'
    BY <1>2, <1>3, <1>6, <2>1, <2>2 DEF InFlight, Uploading
  <2> QED
    BY <1>5, <2>1, <2>2, <2>3
<1> QED
  BY <1>7, <1>8, <1>9, <1>10 DEF Safe, UploadSide

\* The job of an upload: from here on the worker may take the file.
LEMMA UploadCreateJobSafe ==
  ASSUME IInv, NEW c \in Clients, UploadCreateJob(c)
  PROVE  Safe' /\ Shelf \subseteq Shelf'
<1> DEFINE n == Cardinality(DOMAIN jobs) + 1
           state == [client[c] EXCEPT !.at = "created", !.job = n]
<1>1. client \in [Clients -> ClientRow]
  BY DEF IInv, TypeInv, TypeOK
<1>2. /\ state.at = "created" /\ state.source = client[c].source
      /\ state.content = client[c].content
  BY <1>1 DEF ClientRow
<1>3. /\ client[c].at = "saved" /\ client' = [client EXCEPT ![c] = state]
      /\ Create(client[c].source) /\ client[c].source \in Sources
      /\ UNCHANGED <<staged, music, library, worker, accepted>>
  BY DEF UploadCreateJob, ClientGoes, IInv, TypeInv, References, Uploading
<1>4. /\ DOMAIN jobs' = DOMAIN jobs \cup {n} /\ \A j \in DOMAIN jobs : jobs'[j] = jobs[j]
      /\ jobs'[n].source = client[c].source
  BY <1>3, CreateTyped DEF IInv
<1> HIDE DEF state, n
<1>5. client'[c] = state /\ \A d \in Clients \ {c} : client'[d] = client[d]
  BY <1>1, <1>3
<1>6. RowsBacked' /\ Shelf' = Shelf /\ WorkerSide'
  BY <1>3, <1>4, WorkersUndisturbed DEF JobsKeepSources
<1>7. UploadsApart'
  <2>1. ASSUME NEW d \in Clients, client'[d].at \in {"saving", "saved"}, NEW j \in DOMAIN jobs'
        PROVE  jobs'[j].source # client'[d].source
    <3>1. d # c
      BY <1>2, <1>5, <2>1
    <3>2. client'[d].source # client[c].source
      BY <1>3, <1>5, <2>1, <3>1 DEF IInv, UploadSide, UploadsApart, Uploading
    <3>3. j \in DOMAIN jobs => jobs[j].source # client'[d].source
      BY <1>5, <2>1, <3>1 DEF IInv, UploadSide, UploadsApart
    <3> QED
      BY <1>4, <2>1, <3>2, <3>3
  <2>2. ASSUME NEW d \in Clients, NEW e \in Clients,
               client'[d].at \in Uploading, client'[e].at \in Uploading,
               client'[d].source = client'[e].source
        PROVE  d = e
    BY <1>2, <1>3, <1>5, <2>2 DEF IInv, UploadSide, UploadsApart, Uploading
  <2> QED
    BY <2>1, <2>2 DEF UploadsApart
<1>8. UploadsKept'
  BY <1>2, <1>3, <1>5, <1>6 DEF IInv, UploadSide, UploadsKept
<1>9. \A t : InFlight(t)' => InFlight(t)
  BY <1>2, <1>3, <1>5 DEF InFlight, Uploading
<1>10. AcceptedKept'
  BY <1>3, <1>6, <1>9 DEF IInv, UploadSide, AcceptedKept
<1> QED
  BY <1>6, <1>7, <1>8, <1>10 DEF Safe, UploadSide

\* A request that is over, or was never an upload.
LEMMA NoUpload ==
  ASSUME IInv, NEW c \in Clients, NEW state, ClientGoes(c, state), state.at \notin Uploading,
         DOMAIN jobs' = DOMAIN jobs, JobsKeepSources
  PROVE  /\ client'[c] = state /\ \A d \in Clients \ {c} : client'[d] = client[d]
         /\ UploadsApart'
         /\ \A t : InFlight(t)' => InFlight(t)
<1>1. client'[c] = state /\ \A d \in Clients \ {c} : client'[d] = client[d]
  BY DEF ClientGoes, IInv, TypeInv, TypeOK
<1>2. UploadsApart'
  BY <1>1 DEF IInv, UploadSide, UploadsApart, JobsKeepSources, Uploading
<1>3. \A t : InFlight(t)' => InFlight(t)
  BY <1>1 DEF InFlight
<1> QED
  BY <1>1, <1>2, <1>3

\* The upload is answered: its recording is staged or already in the library.
LEMMA UploadSetTargetSafe ==
  ASSUME IInv, NEW c \in Clients, UploadSetTarget(c)
  PROVE  Safe' /\ Shelf \subseteq Shelf'
<1> PICK s : s = client[c].source
  OBVIOUS
<1>1. /\ client[c].at = "created" /\ ClientGoes(c, IdleClient)
      /\ accepted' = accepted \cup {Recording[client[c].content]}
      /\ UNCHANGED <<staged, music, library, worker>>
  BY DEF UploadSetTarget
<1>2. DOMAIN jobs' = DOMAIN jobs /\ JobsKeepSources
  BY DEF UploadSetTarget, JobsKeepSources, IInv, TypeInv, TypeOK, JobRow
<1>3. RowsBacked' /\ Shelf' = Shelf /\ WorkerSide'
  BY <1>1, <1>2, WorkersUndisturbed
<1>4. IdleClient.at \notin Uploading /\ IdleClient.at = "idle"
  BY DEF IdleClient, Uploading
<1>5. /\ client'[c] = IdleClient /\ \A d \in Clients \ {c} : client'[d] = client[d]
      /\ UploadsApart'
      /\ \A t : InFlight(t)' => InFlight(t)
  BY <1>1, <1>2, <1>4, NoUpload
<1>6. UploadsKept'
  BY <1>1, <1>3, <1>4, <1>5 DEF IInv, UploadSide, UploadsKept
<1>7. ~InFlight(s)' /\ s \in Sources
  <2>1. s \in Sources
    BY <1>1 DEF IInv, TypeInv, References, Uploading
  <2>2. ASSUME NEW d \in Clients, client'[d].at \in Uploading, client'[d].source = s
        PROVE  FALSE
    <3>1. d # c
      BY <1>4, <1>5, <2>2
    <3>2. client[d].at \in Uploading /\ client[d].source = s
      BY <1>5, <2>2, <3>1
    <3> QED
      BY <1>1, <3>1, <3>2 DEF IInv, UploadSide, UploadsApart, Uploading
  <2> QED
    BY <2>1, <2>2 DEF InFlight
<1>8. \/ Recording[client[c].content] \in Shelf
      \/ staged[s] = client[c].content /\ staged[s] # None
  BY <1>1, ImportAssumption DEF IInv, UploadSide, UploadsKept, TypeInv, TypeOK, ClientRow
<1>9. ASSUME NEW r \in accepted', r \notin Shelf'
      PROVE  \E t \in Sources : staged'[t] # None /\ Recording[staged'[t]] = r /\ ~InFlight(t)'
  <2>1. CASE r \in accepted
    <3>1. PICK t \in Sources : staged[t] # None /\ Recording[staged[t]] = r /\ ~InFlight(t)
      BY <1>3, <1>9, <2>1 DEF IInv, UploadSide, AcceptedKept
    <3> QED
      BY <1>1, <1>5, <3>1
  <2>2. CASE r = Recording[client[c].content]
    <3>1. staged'[s] = client[c].content /\ staged'[s] # None /\ ~InFlight(s)'
      BY <1>1, <1>3, <1>7, <1>8, <1>9, <2>2
    <3> QED
      BY <1>7, <2>2, <3>1
  <2> QED
    BY <1>1, <1>9, <2>1, <2>2
<1>10. AcceptedKept'
  BY <1>9 DEF AcceptedKept
<1> QED
  BY <1>3, <1>5, <1>6, <1>10 DEF Safe, UploadSide

\* An upload that fails takes away its own file only.
LEMMA UploadFailsSafe ==
  ASSUME IInv, NEW c \in Clients, UploadFails(c)
  PROVE  Safe' /\ Shelf \subseteq Shelf'
<1> DEFINE s == client[c].source
<1>1. /\ client[c].at \in Uploading /\ ClientGoes(c, IdleClient)
      /\ staged' = [staged EXCEPT ![s] = None]
      /\ UNCHANGED <<music, library, jobs, worker, accepted>>
  BY DEF UploadFails
<1>2. staged \in [Sources -> Contents \cup {None}] /\ jobs \in [DOMAIN jobs -> JobRow]
  BY DEF IInv, TypeInv, TypeOK
<1>3. staged'[s] = None /\ \A t \in Sources \ {s} : staged'[t] = staged[t]
  BY <1>1, <1>2 DEF IInv, TypeInv, References
<1>4. RowsBacked' /\ Shelf' = Shelf /\ WorkerSide'
  <2>1. \A j \in DOMAIN jobs : jobs[j].source \in Sources
    BY <1>2 DEF JobRow
  <2> QED
    BY <1>1, <1>3, <2>1, WorkersUndisturbed DEF JobsKeepSources
<1>5. IdleClient.at \notin Uploading /\ IdleClient.at = "idle"
  BY DEF IdleClient, Uploading
<1>6. /\ client'[c] = IdleClient /\ \A d \in Clients \ {c} : client'[d] = client[d]
      /\ UploadsApart'
      /\ \A t : InFlight(t)' => InFlight(t)
  BY <1>1, <1>5, NoUpload DEF JobsKeepSources
<1>7. UploadsKept'
  <2>1. ASSUME NEW d \in Clients \ {c}, client[d].at \in Uploading
        PROVE  staged'[client[d].source] = staged[client[d].source]
    BY <1>1, <1>3, <2>1 DEF IInv, TypeInv, References, UploadSide, UploadsApart
  <2> QED
    BY <1>4, <1>5, <1>6, <2>1 DEF IInv, UploadSide, UploadsKept, Uploading
<1>8. AcceptedKept'
  <2> SUFFICES ASSUME NEW r \in accepted, r \notin Shelf
               PROVE  \E t \in Sources : /\ staged'[t] # None /\ Recording[staged'[t]] = r
                                         /\ ~InFlight(t)'
    BY <1>1, <1>4 DEF AcceptedKept
  <2>1. PICK t \in Sources : staged[t] # None /\ Recording[staged[t]] = r /\ ~InFlight(t)
    BY DEF IInv, UploadSide, AcceptedKept
  <2>2. t # s
    BY <1>1, <2>1 DEF InFlight
  <2> QED
    BY <1>3, <1>6, <2>1, <2>2
<1> QED
  BY <1>4, <1>6, <1>7, <1>8 DEF Safe, UploadSide

\* A scan that no upload can meet adds a job.
LEMMA ScanSafe ==
  ASSUME IInv, ScansApart, NEW c \in Clients, NEW s \in Sources, Scan(c, s)
  PROVE  Safe' /\ Shelf \subseteq Shelf'
<1>1. /\ Create(s) /\ UNCHANGED <<staged, music, library, worker, client, accepted>>
      /\ \A d \in Clients : client[d].at \notin Uploading
  BY DEF Scan, ScansApart
<1>2. /\ DOMAIN jobs' = DOMAIN jobs \cup {Cardinality(DOMAIN jobs) + 1}
      /\ \A j \in DOMAIN jobs : jobs'[j] = jobs[j]
  BY <1>1, CreateTyped DEF IInv
<1>3. RowsBacked' /\ Shelf' = Shelf /\ WorkerSide'
  BY <1>1, <1>2, WorkersUndisturbed DEF JobsKeepSources
<1>4. UploadsApart' /\ UploadsKept'
  BY <1>1 DEF UploadsApart, UploadsKept, Uploading
<1>5. AcceptedKept'
  BY <1>1, <1>3 DEF IInv, UploadSide, AcceptedKept, InFlight
<1> QED
  BY <1>3, <1>4, <1>5 DEF Safe, UploadSide

\* Cancelling and retrying write statuses only.
LEMMA CancelRetrySafe ==
  ASSUME IInv, NEW c \in Clients,
         \/ \E j \in DOMAIN jobs : CancelRead(c, j) \/ RetryStat(c, j)
         \/ CancelWrite(c) \/ RetryWrite(c)
  PROVE  Safe' /\ Shelf \subseteq Shelf'
<1>1. /\ UNCHANGED <<staged, music, library, worker, accepted>>
      /\ client[c].at \in {"idle", "cancelling", "retrying"}
  BY DEF CancelRead, RetryStat, CancelWrite, RetryWrite
<1>2. DOMAIN jobs' = DOMAIN jobs /\ JobsKeepSources
  <2>1. jobs \in [DOMAIN jobs -> JobRow]
    BY DEF IInv, TypeInv, TypeOK
  <2>2. CASE UNCHANGED jobs
    BY <2>2 DEF JobsKeepSources
  <2>3. ASSUME NEW status, SetStatus(client[c].job, status, NoFile)
        PROVE  DOMAIN jobs' = DOMAIN jobs /\ JobsKeepSources
    BY <2>1, <2>3 DEF SetStatus, JobsKeepSources, JobRow
  <2> QED
    BY <2>2, <2>3 DEF CancelRead, RetryStat, CancelWrite, RetryWrite
<1>3. RowsBacked' /\ Shelf' = Shelf /\ WorkerSide'
  BY <1>1, <1>2, WorkersUndisturbed
<1>4. PICK state : ClientGoes(c, state) /\ state.at \in {"idle", "cancelling", "retrying"}
  <2>1. ASSUME NEW j, NEW at \in {"cancelling", "retrying"},
               ClientGoes(c, [IdleClient EXCEPT !.at = at, !.job = j])
        PROVE  \E state : ClientGoes(c, state) /\ state.at \in {"idle", "cancelling", "retrying"}
    <3> DEFINE next == [IdleClient EXCEPT !.at = at, !.job = j]
    <3>1. next.at = at
      BY DEF IdleClient
    <3>2. ClientGoes(c, next)
      BY <2>1
    <3> HIDE DEF next
    <3> QED
      BY <3>1, <3>2
  <2>2. IdleClient.at = "idle"
    BY DEF IdleClient
  <2>3. CASE \E j \in DOMAIN jobs : CancelRead(c, j) \/ RetryStat(c, j)
    BY <2>1, <2>3 DEF CancelRead, RetryStat
  <2>4. CASE CancelWrite(c) \/ RetryWrite(c)
    BY <2>2, <2>4 DEF CancelWrite, RetryWrite
  <2> QED
    BY <2>3, <2>4
<1>5. /\ client'[c] = state /\ \A d \in Clients \ {c} : client'[d] = client[d]
      /\ UploadsApart'
      /\ \A t : InFlight(t)' => InFlight(t)
  BY <1>2, <1>4, NoUpload DEF Uploading
<1>6. UploadsKept'
  BY <1>1, <1>3, <1>4, <1>5 DEF IInv, UploadSide, UploadsKept
<1>7. AcceptedKept'
  BY <1>1, <1>3, <1>5 DEF IInv, UploadSide, AcceptedKept
<1> QED
  BY <1>3, <1>5, <1>6, <1>7 DEF Safe, UploadSide

\* Death at any moment leaves the files, the songs and the jobs' sources.
LEMMA RestartSafe ==
  ASSUME IInv, Close \/ Restart
  PROVE  Safe' /\ Shelf \subseteq Shelf'
<1>1. UNCHANGED <<staged, music, library, accepted>>
  BY DEF Close, Restart
<1>2. RowsBacked' /\ Shelf' = Shelf
  BY <1>1, LibrarySame DEF IInv
<1>3. CASE Close
  BY <1>2, <1>3 DEF Close, Safe, IInv, UploadSide, UploadsApart, UploadsKept, AcceptedKept,
                    InFlight, WorkerSide, SourceStable, NamesApart, ConcludedStored,
                    Concluded, Source
<1>4. CASE Restart
  <2>1. /\ \A c \in Clients : client'[c].at = "idle"
        /\ \A w \in Workers : worker'[w].at = "idle"
    BY <1>4 DEF Restart, IdleClient, IdleWorker
  <2>2. UploadsApart' /\ UploadsKept'
    BY <2>1 DEF UploadsApart, UploadsKept, Uploading
  <2>3. \A t : ~InFlight(t)'
    BY <2>1 DEF InFlight, Uploading
  <2>4. AcceptedKept'
    BY <1>1, <1>2, <2>3 DEF IInv, UploadSide, AcceptedKept
  <2>5. WorkerSide'
    BY <2>1 DEF WorkerSide, SourceStable, NamesApart, ConcludedStored, Concluded, Holding
  <2> QED
    BY <1>2, <2>2, <2>4, <2>5 DEF Safe, UploadSide
<1> QED
  BY <1>3, <1>4

-----------------------------------------------------------------------------
(* The theorems.                                                           *)

\* A fresh installation.
LEMMA InitInvariant == Init => IInv
<1> SUFFICES ASSUME Init PROVE IInv
  OBVIOUS
<1>1. TypeInv
  BY InitTyped
<1>2. DOMAIN library = {} /\ accepted = {}
  BY DEF Init
<1>3. RowsBacked /\ AcceptedKept
  BY <1>2 DEF RowsBacked, AcceptedKept
<1>4. UploadsApart /\ UploadsKept
  BY DEF Init, IdleClient, UploadsApart, UploadsKept, Uploading
<1>5. WorkerSide
  BY DEF Init, IdleWorker, WorkerSide, SourceStable, NamesApart, ConcludedStored,
         Concluded, Holding
<1> QED
  BY <1>1, <1>3, <1>4, <1>5 DEF IInv, UploadSide

\* Every step keeps the invariant and what the library can play.
LEMMA NextInvariant ==
  ASSUME OneWorker, ScansApart, IInv, [Next]_vars
  PROVE  IInv' /\ Shelf \subseteq Shelf'
<1>1. TypeInv'
  BY NextTyped DEF IInv
<1>2. ASSUME NEW c \in Clients, Handle(c)
      PROVE  Safe' /\ Shelf \subseteq Shelf'
  BY <1>2, UploadStartSafe, UploadSavedSafe, UploadCreateJobSafe, UploadSetTargetSafe,
     UploadFailsSafe, ScanSafe, CancelRetrySafe DEF Handle
<1>3. ASSUME NEW w \in Workers, Work(w)
      PROVE  Safe' /\ Shelf \subseteq Shelf'
  BY <1>3, StartSafe, LookSafe, ActSafe, RemoveSourceSafe DEF Work
<1>4. ASSUME UNCHANGED vars
      PROVE  Safe' /\ Shelf \subseteq Shelf'
  <2>1. JobsKeepSources /\ DOMAIN jobs' = DOMAIN jobs
        /\ UNCHANGED <<staged, music, library, worker, client, accepted>>
    BY <1>4 DEF vars, JobsKeepSources
  <2>2. RowsBacked' /\ Shelf' = Shelf /\ WorkerSide'
    BY <2>1, WorkersUndisturbed
  <2>3. UploadSide'
    BY <2>1, <2>2, UploadsUndisturbed DEF IInv
  <2> QED
    BY <2>2, <2>3 DEF Safe
<1>5. Safe' /\ Shelf \subseteq Shelf'
  BY <1>2, <1>3, <1>4, RestartSafe DEF Next
<1> QED
  BY <1>1, <1>5 DEF IInv, Safe

\* The invariant, under the two assumptions.
LEMMA Invariant == OneWorker /\ ScansApart /\ Spec => []IInv
<1> SUFFICES ASSUME OneWorker, ScansApart
             PROVE  Spec => []IInv
  OBVIOUS
<1>1. IInv /\ [Next]_vars => IInv'
  BY NextInvariant
<1> QED
  BY InitInvariant, <1>1, PTL DEF Spec

\* Every song of the library has its file, with the audio its hash was computed
\* from, whatever uploads, retries, cancellations and crashes did meanwhile.
THEOREM RowsBackedAlways == OneWorker /\ ScansApart /\ Spec => []RowsBacked
<1>1. IInv => RowsBacked
  BY DEF IInv
<1> QED
  BY <1>1, Invariant, PTL

\* Audio whose upload was answered with 202 is staged or in the library.
THEOREM NothingLostEver == OneWorker /\ ScansApart /\ Spec => []NothingLost
<1>1. IInv => NothingLost
  BY DEF IInv, UploadSide, AcceptedKept, NothingLost, Staged
<1> QED
  BY <1>1, Invariant, PTL

\* What the library can play it can play after any step of an import.
THEOREM ShelfOnlyGrows == OneWorker /\ ScansApart /\ Spec => ShelfGrows
<1> SUFFICES ASSUME OneWorker, ScansApart
             PROVE  Spec => ShelfGrows
  OBVIOUS
<1>1. IInv /\ [Next]_vars => [Shelf \subseteq Shelf']_vars
  BY NextInvariant
<1>2. Spec => []IInv
  BY Invariant
<1> QED
  BY <1>1, <1>2, PTL DEF Spec, ShelfGrows

\* The error "Identical audio already exists" is reported of a recording that the
\* library can play, although the look-up and the report are two steps.
THEOREM DuplicateExistsAlways == OneWorker /\ ScansApart /\ Spec => DuplicateExists
<1> DEFINE Truthful == \A w \in Workers :
                          Report(w) /\ worker[w].outcome = "duplicate"
                              => Recording[worker[w].content] \in Shelf
<1> SUFFICES ASSUME OneWorker, ScansApart
             PROVE  Spec => DuplicateExists
  OBVIOUS
<1>1. IInv => Truthful
  BY DEF IInv, WorkerSide, ConcludedStored, Concluded, Finished, Report
<1>2. IInv => [Truthful]_vars
  BY <1>1
<1>3. Spec => []IInv
  BY Invariant
<1>4. Spec => [][Truthful]_vars
  BY <1>2, <1>3, PTL
<1> QED
  BY <1>4 DEF DuplicateExists
=============================================================================
