--------------------------- MODULE ImportPipeline ---------------------------
(***************************************************************************)
(* Imports in ekkoplay: the upload, scan, retry and cancel handlers        *)
(* (src/backend/internal/api/server.go), the workers of the import manager *)
(* (src/backend/internal/media/importer.go) and the tables import_jobs and *)
(* songs (src/backend/internal/db/store.go) next to two directories, the   *)
(* staging directory and the managed library.                              *)
(*                                                                         *)
(* One step is one statement on a table or one operation on a file, so     *)
(* handlers and workers interleave as they do in the program, and playerd  *)
(* may die between any two of them.                                        *)
(*                                                                         *)
(* A file is its content.  All contents have the same title and so ask for *)
(* the same name in the library, where uniquePath numbers them.            *)
(***************************************************************************)
EXTENDS Integers, FiniteSets

CONSTANTS Workers,    \* goroutines of the manager: 1..4 by the configuration
          Clients,    \* HTTP requests that can be in flight at once
          Sources,    \* names in the staging directory; upload names are unique
          Contents, Torn,       \* complete files, and a file still being uploaded
          Recordings, Recording, \* SongByImportIdentity's recording of a content
          Folders, Root,        \* folders of the library
          None,
          MaxJobs,     \* bound: rows of import_jobs
          MaxFiles,    \* bound: files of one name in a folder
          MaxRestarts, \* bound: restarts of playerd
          Faults,      \* whether ffprobe, the disk or a request may fail
          ScanDuringUpload \* whether a scan may start while an upload arrives

ASSUME ImportAssumption ==
    /\ Torn \in Contents
    /\ Recording \in [Contents -> Recordings]
    /\ Root \in Folders
    /\ None \notin Contents \cup Sources
    /\ MaxJobs \in Nat /\ MaxFiles \in Nat /\ MaxRestarts \in Nat
    /\ Faults \in BOOLEAN /\ ScanDuringUpload \in BOOLEAN

VARIABLES staged,   \* staging directory: source -> content, None if absent
          music,    \* library directory: the files that exist -> content
          library,  \* table songs: file_path -> sha256, both UNIQUE
          jobs,     \* table import_jobs: id -> row
          worker,   \* where each worker is in process()
          client,   \* where each request is in its handler
          closing,  \* Manager.Close has cancelled the workers' context
          restarts, \* restarts so far
          accepted  \* ghost: recordings whose upload was answered with 202

vars == <<staged, music, library, jobs, worker, client, closing, restarts, accepted>>

Files    == Folders \X (1 .. MaxFiles)
NoFile   == <<Root, 0>>
Statuses == {"queued", "processing", "failed", "duplicate", "imported", "cancelled"}
Finished == {"duplicate", "imported"}

IdleWorker == [at |-> "idle", job |-> 0, folder |-> Root, content |-> None,
               dest |-> NoFile, outcome |-> "failed"]
IdleClient == [at |-> "idle", job |-> 0, source |-> None, content |-> Torn, target |-> Root]

Uploading == {"saving", "saved", "created"}
WorkerStates == {"idle", "claimed", "read", "marked", "hashed", "new", "unseen", "placed",
                 "copied", "refused", "removed", "report", "cleanup"}
JobRow == [source : Sources, target : Folders, status : Statuses, song : Files \cup {NoFile}]

NewJob(s) == [source |-> s, target |-> Root, status |-> "queued", song |-> NoFile]
Create(s) == jobs' = [j \in DOMAIN jobs \cup {Cardinality(DOMAIN jobs) + 1} |->
                         IF j \in DOMAIN jobs THEN jobs[j] ELSE NewJob(s)]

\* UpdateImportJob: whatever the row's status was.
SetStatus(j, status, song) ==
    jobs' = [jobs EXCEPT ![j].status = status, ![j].song = song]

Without(f, x) == [y \in DOMAIN f \ {x} |-> f[y]]
With(f, x, v) == [y \in DOMAIN f \cup {x} |-> IF y = x THEN v ELSE f[y]]

Stored(c) == \E p \in DOMAIN library : library[p] = c
Similar(c) == \E p \in DOMAIN library : Recording[library[p]] = Recording[c]

-----------------------------------------------------------------------------
Init ==
    /\ staged = [s \in Sources |-> None]
    /\ music = [p \in {} |-> None]
    /\ library = [p \in {} |-> None]
    /\ jobs = [j \in {} |-> NewJob(None)]
    /\ worker = [w \in Workers |-> IdleWorker]
    /\ client = [c \in Clients |-> IdleClient]
    /\ closing = FALSE
    /\ restarts = 0
    /\ accepted = {}

-----------------------------------------------------------------------------
(* The handlers.  HTTP is shut down before the manager is closed.          *)

ClientGoes(c, state) == client' = [client EXCEPT ![c] = state]

\* A source name is fresh: no upload and no job ever had it.
Unused(s) ==
    /\ staged[s] = None
    /\ \A c \in Clients : client[c].source # s
    /\ \A j \in DOMAIN jobs : jobs[j].source # s

UploadStart(c, s, content, target) ==
    /\ client[c].at = "idle" /\ ~closing
    /\ Unused(s) /\ content # Torn
    /\ Cardinality(DOMAIN jobs) < MaxJobs
    /\ staged' = [staged EXCEPT ![s] = Torn]
    /\ ClientGoes(c, [at |-> "saving", job |-> 0, source |-> s,
                      content |-> content, target |-> target])
    /\ UNCHANGED <<music, library, jobs, worker, closing, restarts, accepted>>

\* The rest of the body is written, to nowhere if the file was unlinked.
UploadSaved(c) ==
    /\ client[c].at = "saving"
    /\ staged' = [staged EXCEPT ![client[c].source] =
                     IF @ = None THEN None ELSE client[c].content]
    /\ ClientGoes(c, [client[c] EXCEPT !.at = "saved"])
    /\ UNCHANGED <<music, library, jobs, worker, closing, restarts, accepted>>

UploadCreateJob(c) ==
    /\ client[c].at = "saved"
    /\ Cardinality(DOMAIN jobs) < MaxJobs
    /\ Create(client[c].source)
    /\ ClientGoes(c, [client[c] EXCEPT !.at = "created",
                                       !.job = Cardinality(DOMAIN jobs) + 1])
    /\ UNCHANGED <<staged, music, library, worker, closing, restarts, accepted>>

\* SetImportTarget, after which the upload is answered with 202.
UploadSetTarget(c) ==
    /\ client[c].at = "created"
    /\ jobs' = [jobs EXCEPT ![client[c].job].target = client[c].target]
    /\ accepted' = accepted \cup {Recording[client[c].content]}
    /\ ClientGoes(c, IdleClient)
    /\ UNCHANGED <<staged, music, library, worker, closing, restarts>>

\* The body, CreateImportJob or SetImportTarget fails: the file is removed, a
\* job that was created stays.
UploadFails(c) ==
    /\ Faults
    /\ client[c].at \in Uploading
    /\ staged' = [staged EXCEPT ![client[c].source] = None]
    /\ ClientGoes(c, IdleClient)
    /\ UNCHANGED <<music, library, jobs, worker, closing, restarts, accepted>>

\* One file of scanImports' walk: a job even for a file that has one.
Scan(c, s) ==
    /\ client[c].at = "idle" /\ ~closing
    /\ ScanDuringUpload \/ \A d \in Clients : client[d].at \notin Uploading
    /\ staged[s] # None
    /\ Cardinality(DOMAIN jobs) < MaxJobs
    /\ Create(s)
    /\ UNCHANGED <<staged, music, library, worker, client, closing, restarts, accepted>>

\* cancelImport reads the status, then writes.
CancelRead(c, j) ==
    /\ client[c].at = "idle" /\ ~closing
    /\ jobs[j].status \notin Finished
    /\ ClientGoes(c, [IdleClient EXCEPT !.at = "cancelling", !.job = j])
    /\ UNCHANGED <<staged, music, library, jobs, worker, closing, restarts, accepted>>

CancelWrite(c) ==
    /\ client[c].at = "cancelling"
    /\ SetStatus(client[c].job, "cancelled", NoFile)
    /\ ClientGoes(c, IdleClient)
    /\ UNCHANGED <<staged, music, library, worker, closing, restarts, accepted>>

\* retryImport checks that the source is there, then writes.
RetryStat(c, j) ==
    /\ client[c].at = "idle" /\ ~closing
    /\ staged[jobs[j].source] # None
    /\ ClientGoes(c, [IdleClient EXCEPT !.at = "retrying", !.job = j])
    /\ UNCHANGED <<staged, music, library, jobs, worker, closing, restarts, accepted>>

RetryWrite(c) ==
    /\ client[c].at = "retrying"
    /\ SetStatus(client[c].job, "queued", NoFile)
    /\ ClientGoes(c, IdleClient)
    /\ UNCHANGED <<staged, music, library, worker, closing, restarts, accepted>>

-----------------------------------------------------------------------------
(* The workers: worker() and process().                                    *)

WorkerGoes(w, state) == worker' = [worker EXCEPT ![w] = state]
Source(w) == jobs[worker[w].job].source

\* What is left to do is to record the outcome.
Conclude(w, outcome) ==
    WorkerGoes(w, [worker[w] EXCEPT !.at = "report", !.outcome = outcome])

Claim(w) ==
    /\ worker[w].at = "idle" /\ ~closing
    /\ \E j \in DOMAIN jobs :
          /\ jobs[j].status = "queued"
          /\ \A i \in DOMAIN jobs : jobs[i].status = "queued" => j <= i
          /\ jobs' = [jobs EXCEPT ![j].status = "processing"]
          /\ WorkerGoes(w, [IdleWorker EXCEPT !.at = "claimed", !.job = j])
    /\ UNCHANGED <<staged, music, library, client, closing, restarts, accepted>>

\* The target folder is read here, with the status.
ReadJob(w) ==
    /\ worker[w].at = "claimed"
    /\ WorkerGoes(w, IF closing \/ jobs[worker[w].job].status = "cancelled" THEN IdleWorker
                     ELSE [worker[w] EXCEPT !.at = "read",
                                            !.folder = jobs[worker[w].job].target])
    /\ UNCHANGED <<staged, music, library, jobs, client, closing, restarts, accepted>>

MarkProcessing(w) ==
    /\ worker[w].at = "read"
    /\ IF closing THEN UNCHANGED jobs ELSE SetStatus(worker[w].job, "processing", NoFile)
    /\ WorkerGoes(w, [worker[w] EXCEPT !.at = "marked"])
    /\ UNCHANGED <<staged, music, library, client, closing, restarts, accepted>>

Hash(w) ==
    /\ worker[w].at = "marked"
    /\ IF staged[Source(w)] = None
       THEN Conclude(w, "failed")
       ELSE WorkerGoes(w, [worker[w] EXCEPT !.at = "hashed", !.content = staged[Source(w)]])
    /\ UNCHANGED <<staged, music, library, jobs, client, closing, restarts, accepted>>

LookUpHash(w) ==
    /\ worker[w].at = "hashed"
    /\ IF closing THEN Conclude(w, "failed")
       ELSE IF Stored(worker[w].content) THEN Conclude(w, "duplicate")
       ELSE WorkerGoes(w, [worker[w] EXCEPT !.at = "new"])
    /\ UNCHANGED <<staged, music, library, jobs, client, closing, restarts, accepted>>

\* ffprobe, then SongByImportIdentity.
LookUpIdentity(w) ==
    /\ worker[w].at = "new"
    /\ \/ /\ Faults \/ closing \/ staged[Source(w)] = None
          /\ Conclude(w, "failed")
       \/ /\ ~closing /\ staged[Source(w)] # None
          /\ IF Similar(worker[w].content) THEN Conclude(w, "duplicate")
             ELSE WorkerGoes(w, [worker[w] EXCEPT !.at = "unseen"])
    /\ UNCHANGED <<staged, music, library, jobs, client, closing, restarts, accepted>>

\* Mutant: the plain name is taken whether or not a file has it.
FreeAnyway(folder, n) == n = 1

\* uniquePath: the first name that no file has.
Free(folder, n) ==
    /\ <<folder, n>> \notin DOMAIN music
    /\ \A m \in 1 .. n - 1 : <<folder, m>> \in DOMAIN music

ChoosePath(w) ==
    /\ worker[w].at = "unseen"
    /\ IF staged[Source(w)] = None
       THEN Conclude(w, "failed")
       ELSE \E n \in 1 .. MaxFiles :
               /\ Free(worker[w].folder, n)
               /\ WorkerGoes(w, [worker[w] EXCEPT !.at = "placed",
                                                  !.dest = <<worker[w].folder, n>>])
    /\ UNCHANGED <<staged, music, library, jobs, client, closing, restarts, accepted>>

\* copyAtomic renames over whatever has the name by now.
Copy(w) ==
    /\ worker[w].at = "placed"
    /\ \/ /\ Faults \/ staged[Source(w)] = None
          /\ Conclude(w, "failed")
          /\ UNCHANGED music
       \/ /\ staged[Source(w)] # None
          /\ music' = With(music, worker[w].dest, staged[Source(w)])
          /\ WorkerGoes(w, [worker[w] EXCEPT !.at = "copied"])
    /\ UNCHANGED <<staged, library, jobs, client, closing, restarts, accepted>>

\* Mutant: a cancelled context is noticed after the commit.
InsertErrsLate(w) ==
    /\ worker[w].at = "copied"
    /\ IF worker[w].dest \in DOMAIN library \/ Stored(worker[w].content)
       THEN UNCHANGED library
       ELSE library' = With(library, worker[w].dest, worker[w].content)
    /\ IF closing \/ worker[w].dest \in DOMAIN library \/ Stored(worker[w].content)
       THEN WorkerGoes(w, [worker[w] EXCEPT !.at = "refused"])
       ELSE Conclude(w, "imported")
    /\ UNCHANGED <<staged, music, jobs, client, closing, restarts, accepted>>

\* InsertImportedSong, under UNIQUE(file_path) and UNIQUE(sha256).
Insert(w) ==
    /\ worker[w].at = "copied"
    /\ IF closing \/ worker[w].dest \in DOMAIN library \/ Stored(worker[w].content)
       THEN /\ WorkerGoes(w, [worker[w] EXCEPT !.at = "refused"])
            /\ UNCHANGED library
       ELSE /\ library' = With(library, worker[w].dest, worker[w].content)
            /\ Conclude(w, "imported")
    /\ UNCHANGED <<staged, music, jobs, client, closing, restarts, accepted>>

RemoveCopy(w) ==
    /\ worker[w].at = "refused"
    /\ music' = Without(music, worker[w].dest)
    /\ WorkerGoes(w, [worker[w] EXCEPT !.at = "removed"])
    /\ UNCHANGED <<staged, library, jobs, client, closing, restarts, accepted>>

LookUpAgain(w) ==
    /\ worker[w].at = "removed"
    /\ Conclude(w, IF ~closing /\ Stored(worker[w].content) THEN "duplicate" ELSE "failed")
    /\ UNCHANGED <<staged, music, library, jobs, client, closing, restarts, accepted>>

\* Mutant: the source of a failed job is removed as well.
ReportAlwaysCleans(w) ==
    /\ worker[w].at = "report"
    /\ IF closing THEN UNCHANGED jobs
       ELSE SetStatus(worker[w].job, worker[w].outcome,
                      IF worker[w].outcome = "imported" THEN worker[w].dest ELSE NoFile)
    /\ WorkerGoes(w, [worker[w] EXCEPT !.at = "cleanup"])
    /\ UNCHANGED <<staged, music, library, client, closing, restarts, accepted>>

\* The update is lost on a cancelled context, the removal of the source is not.
Report(w) ==
    /\ worker[w].at = "report"
    /\ IF closing THEN UNCHANGED jobs
       ELSE SetStatus(worker[w].job, worker[w].outcome,
                      IF worker[w].outcome = "imported" THEN worker[w].dest ELSE NoFile)
    /\ WorkerGoes(w, IF worker[w].outcome = "failed" THEN IdleWorker
                     ELSE [worker[w] EXCEPT !.at = "cleanup"])
    /\ UNCHANGED <<staged, music, library, client, closing, restarts, accepted>>

RemoveSource(w) ==
    /\ worker[w].at = "cleanup"
    /\ staged' = [staged EXCEPT ![Source(w)] = None]
    /\ WorkerGoes(w, IdleWorker)
    /\ UNCHANGED <<music, library, jobs, client, closing, restarts, accepted>>

-----------------------------------------------------------------------------
(* playerd stops in order, or dies; NewManager requeues what was claimed.  *)

Close ==
    /\ ~closing /\ restarts < MaxRestarts
    /\ \A c \in Clients : client[c].at = "idle"
    /\ closing' = TRUE
    /\ UNCHANGED <<staged, music, library, jobs, worker, client, restarts, accepted>>

\* Mutants: the claimed job stays claimed; it gets a status nobody handles.
RequeuedNever(row) == row
RequeuedAsInterrupted(row) ==
    IF row.status = "processing" THEN [row EXCEPT !.status = "interrupted"] ELSE row

Requeued(row) ==
    IF row.status = "processing" THEN [row EXCEPT !.status = "queued"] ELSE row

Restart ==
    /\ restarts < MaxRestarts
    /\ restarts' = restarts + 1
    /\ closing' = FALSE
    /\ worker' = [w \in Workers |-> IdleWorker]
    /\ client' = [c \in Clients |-> IdleClient]
    /\ jobs' = [j \in DOMAIN jobs |-> Requeued(jobs[j])]
    /\ UNCHANGED <<staged, music, library, accepted>>

-----------------------------------------------------------------------------
Handle(c) ==
    \/ \E s \in Sources, content \in Contents, target \in Folders :
          UploadStart(c, s, content, target)
    \/ UploadSaved(c)
    \/ UploadCreateJob(c)
    \/ UploadSetTarget(c)
    \/ UploadFails(c)
    \/ \E s \in Sources : Scan(c, s)
    \/ \E j \in DOMAIN jobs : CancelRead(c, j)
    \/ CancelWrite(c)
    \/ \E j \in DOMAIN jobs : RetryStat(c, j)
    \/ RetryWrite(c)

Work(w) ==
    \/ Claim(w)          \/ ReadJob(w)        \/ MarkProcessing(w)
    \/ Hash(w)           \/ LookUpHash(w)     \/ LookUpIdentity(w)
    \/ ChoosePath(w)     \/ Copy(w)           \/ Insert(w)
    \/ RemoveCopy(w)     \/ LookUpAgain(w)    \/ Report(w)
    \/ RemoveSource(w)

Next ==
    \/ \E c \in Clients : Handle(c)
    \/ \E w \in Workers : Work(w)
    \/ Close
    \/ Restart

Spec == Init /\ [][Next]_vars

(***************************************************************************)
(* A worker polls every five seconds even if its wake-up was lost, and a   *)
(* playerd that was stopped is started again by systemd.                   *)
(***************************************************************************)
FairSpec ==
    /\ Spec
    /\ \A w \in Workers : WF_vars(Work(w))
    /\ WF_vars(closing /\ Restart)

-----------------------------------------------------------------------------
WorkerRow == [at : WorkerStates, job : DOMAIN jobs \cup {0}, folder : Folders,
              content : Contents \cup {None}, dest : Files \cup {NoFile},
              outcome : Finished \cup {"failed"}]
ClientRow == [at : Uploading \cup {"idle", "cancelling", "retrying"},
              job : DOMAIN jobs \cup {0}, source : Sources \cup {None},
              content : Contents, target : Folders]

(* Type correctness: ids of jobs are dense, rows and records have their     *)
(* shapes, files and songs have names in the library.                       *)
TypeOK ==
    /\ staged \in [Sources -> Contents \cup {None}]
    /\ DOMAIN music \subseteq Files /\ music \in [DOMAIN music -> Contents]
    /\ DOMAIN library \subseteq Files /\ library \in [DOMAIN library -> Contents]
    /\ IsFiniteSet(DOMAIN jobs) /\ DOMAIN jobs = 1 .. Cardinality(DOMAIN jobs)
    /\ jobs \in [DOMAIN jobs -> JobRow]
    /\ worker \in [Workers -> WorkerRow]
    /\ client \in [Clients -> ClientRow]
    /\ closing \in BOOLEAN
    /\ restarts \in 0 .. MaxRestarts
    /\ accepted \subseteq Recordings

Staged == {Recording[staged[s]] : s \in {t \in Sources : staged[t] # None}}
Shelf  == {Recording[library[p]] : p \in {q \in DOMAIN library :
                                             q \in DOMAIN music /\ music[q] = library[q]}}

\* Every song of the library has its file, and the file has the audio that the
\* row's hash was computed from.
RowsBacked == \A p \in DOMAIN library : p \in DOMAIN music /\ music[p] = library[p]

\* Audio whose upload was accepted is never lost, across failures, duplicates,
\* retries, cancellations and restarts: it is staged or it is in the library.
NothingLost == accepted \subseteq Staged \cup Shelf

\* No step of an import takes a recording away that the library could play,
\* whatever the other jobs do to files of the same name.
ShelfGrows == [][Shelf \subseteq Shelf']_vars

\* A job that ends with "Identical audio already exists" says the truth: the
\* library has that recording in a song whose file is there.
DuplicateExists ==
    [][\A w \in Workers :
          Report(w) /\ worker[w].outcome = "duplicate"
              => Recording[worker[w].content] \in Shelf]_vars

\* Every job comes to an end once the administrator stops retrying: it is not
\* left in the queue when a wake-up is lost, nor in "processing" after the
\* worker that claimed it has died.
Pending(j) == j \in DOMAIN jobs /\ jobs[j].status \in {"queued", "processing"}

JobsEnd ==
    <>[](\A c \in Clients : client[c].at # "retrying")
        => \A j \in 1 .. MaxJobs : Pending(j) ~> ~Pending(j)
=============================================================================
