------------------------------ MODULE Torrents ------------------------------
(***************************************************************************)
(* Torrent jobs in ekkoplay: Add, Delete, Extend and the sync loop of the  *)
(* torrent manager (src/backend/internal/media/torrents.go) with their     *)
(* handlers, over the table torrent_jobs and its rows in import_jobs.      *)
(*                                                                         *)
(* The Transmission daemon is external: it has torrents, downloads them    *)
(* into the directory of the job that added them, and answers calls or     *)
(* fails to.  The import workers are those of ImportPipeline, seen from    *)
(* here: a row of import_jobs ends, and may be opened again by a retry.    *)
(*                                                                         *)
(* One step is one SQL statement, one file operation or one call to the    *)
(* daemon.  Only audio files are counted as files of a torrent.            *)
(***************************************************************************)
EXTENDS Integers, Sequences, FiniteSets, FiniteSetsExt

CONSTANTS Requests,   \* HTTP requests that can be in flight at once
          TorrentSet, \* torrents that users may add
          NoHash,     \* torrent_hash of a job whose torrent is not known yet
          FileCount,  \* audio files of a torrent
          MaxJobs,    \* bound: rows of torrent_jobs
          MaxRows,    \* bound: rows of import_jobs
          MaxRestarts \* bound: deaths of playerd

ASSUME TorrentAssumption ==
    /\ NoHash \notin TorrentSet
    /\ FileCount \in Nat \ {0}
    /\ MaxJobs \in Nat /\ MaxRows \in Nat /\ MaxRestarts \in Nat

VARIABLES jobs,     \* table torrent_jobs
          imports,  \* table import_jobs: the rows that sync creates
          staged,   \* copies in the staging directory
          daemon,   \* the daemon's torrents
          data,     \* jobs whose download directory has their torrent's files
          pass,     \* where the sync loop is
          request,  \* where each handler is
          restarts, \* deaths so far
          leftOut   \* ghost: files that queueImports passed over as incomplete

vars == <<jobs, imports, staged, daemon, data, pass, request, restarts, leftOut>>

Ids   == 1 .. MaxJobs
Files == 1 .. FileCount

JobStatuses == {"adding", "downloading", "importing", "seeding", "expired", "failed", "deleted"}
Periods     == {"none", "running", "over"}
JobRow == [status : JobStatuses, hash : TorrentSet \cup {NoHash}, seedUntil : Periods]

\* "again" is a row that had ended and was queued once more.
ImportRow == [job : Ids, file : Files, linked : BOOLEAN, status : {"live", "done", "again"}]

\* home is the job whose directory the torrent is in, 0 if the daemon does not
\* have it; near says percentDone >= .9999, got the files that are complete.
Absent  == [home |-> 0, near |-> FALSE, got |-> {}]
Torrent == [home : Ids \cup {0}, near : BOOLEAN, got : SUBSET Files]

IdlePass    == [at |-> "idle", view |-> [t \in TorrentSet |-> Absent], seen |-> <<>>,
                job |-> 0, file |-> 0, row |-> 0]
IdleRequest == [at |-> "idle", job |-> 0, hash |-> NoHash]

PassStates    == {"idle", "list", "copy", "create", "link", "queued", "failing", "count",
                  "seed", "expire", "marking"}
Pass == [at : PassStates, view : [TorrentSet -> Torrent], seen : Seq(JobRow),
         job : Nat, file : Files \cup {0}, row : Nat]
RequestStates == {"idle", "inserted", "added", "refused", "read", "removed", "wiped"}

Init ==
    /\ jobs = <<>>
    /\ imports = <<>>
    /\ staged = {}
    /\ daemon = [t \in TorrentSet |-> Absent]
    /\ data = {}
    /\ pass = IdlePass
    /\ request = [r \in Requests |-> IdleRequest]
    /\ restarts = 0
    /\ leftOut = {}

-----------------------------------------------------------------------------
(* The daemon.                                                             *)

\* At 99.99 percent some file may still lack its last pieces.
AlmostDone(t) ==
    /\ daemon[t].home # 0 /\ ~daemon[t].near
    /\ \E got \in SUBSET Files :
          daemon' = [daemon EXCEPT ![t].near = TRUE, ![t].got = got]
    /\ data' = data \cup {daemon[t].home}
    /\ UNCHANGED <<jobs, imports, staged, pass, request, restarts, leftOut>>

Completes(t) ==
    /\ daemon[t].near /\ daemon[t].got # Files
    /\ daemon' = [daemon EXCEPT ![t].got = Files]
    /\ UNCHANGED <<jobs, imports, staged, data, pass, request, restarts, leftOut>>

\* torrent-remove with delete-local-data; a torrent it does not have is ignored.
Forget(t) ==
    IF t = NoHash THEN UNCHANGED <<daemon, data>>
    ELSE /\ daemon' = [daemon EXCEPT ![t] = Absent]
         /\ data' = data \ {daemon[t].home}

-----------------------------------------------------------------------------
(* The handlers.                                                           *)

RequestGoes(r, state) == request' = [request EXCEPT ![r] = state]

AddInsert(r) ==
    /\ request[r].at = "idle"
    /\ Len(jobs) < MaxJobs
    /\ jobs' = Append(jobs, [status |-> "adding", hash |-> NoHash, seedUntil |-> "none"])
    /\ RequestGoes(r, [at |-> "inserted", job |-> Len(jobs) + 1, hash |-> NoHash])
    /\ UNCHANGED <<imports, staged, daemon, data, pass, restarts, leftOut>>

\* torrent-add.  The daemon answers torrent-duplicate if it has the torrent,
\* and the call may fail whether or not the daemon has acted on it.
AddCall(r, t) ==
    /\ request[r].at = "inserted"
    /\ \/ /\ daemon' = [daemon EXCEPT ![t].home = IF @ = 0 THEN request[r].job ELSE @]
          /\ \/ RequestGoes(r, [request[r] EXCEPT !.at = "added", !.hash = t])
             \/ RequestGoes(r, [request[r] EXCEPT !.at = "refused"])
       \/ /\ RequestGoes(r, [request[r] EXCEPT !.at = "refused"])
          /\ UNCHANGED daemon
    /\ UNCHANGED <<jobs, imports, staged, data, pass, restarts, leftOut>>

AddDone(r) ==
    /\ request[r].at = "added"
    /\ jobs' = [jobs EXCEPT ![request[r].job].status = "downloading",
                            ![request[r].job].hash = request[r].hash]
    /\ RequestGoes(r, IdleRequest)
    /\ UNCHANGED <<imports, staged, daemon, data, pass, restarts, leftOut>>

AddFailed(r) ==
    /\ request[r].at = "refused"
    /\ jobs' = [jobs EXCEPT ![request[r].job].status = "failed"]
    /\ RequestGoes(r, IdleRequest)
    /\ UNCHANGED <<imports, staged, daemon, data, pass, restarts, leftOut>>

\* The client hangs up, which cancels the context of the statements left to
\* do, or MkdirAll fails: the row stays as it is.
RequestCut(r) ==
    /\ request[r].at # "idle"
    /\ RequestGoes(r, IdleRequest)
    /\ UNCHANGED <<jobs, imports, staged, daemon, data, pass, restarts, leftOut>>

DeleteRead(r, i) ==
    /\ request[r].at = "idle"
    /\ RequestGoes(r, [at |-> "read", job |-> i, hash |-> jobs[i].hash])
    /\ UNCHANGED <<jobs, imports, staged, daemon, data, pass, restarts, leftOut>>

\* An error of the call is ignored.
DeleteRemove(r) ==
    /\ request[r].at = "read"
    /\ Forget(request[r].hash) \/ UNCHANGED <<daemon, data>>
    /\ RequestGoes(r, [request[r] EXCEPT !.at = "removed"])
    /\ UNCHANGED <<jobs, imports, staged, pass, restarts, leftOut>>

DeleteWipe(r) ==
    /\ request[r].at = "removed"
    /\ data' = data \ {request[r].job}
    /\ RequestGoes(r, [request[r] EXCEPT !.at = "wiped"])
    /\ UNCHANGED <<jobs, imports, staged, daemon, pass, restarts, leftOut>>

DeleteMark(r) ==
    /\ request[r].at = "wiped"
    /\ jobs' = [jobs EXCEPT ![request[r].job].status = "deleted"]
    /\ RequestGoes(r, IdleRequest)
    /\ UNCHANGED <<imports, staged, daemon, data, pass, restarts, leftOut>>

Extend(i) ==
    /\ jobs[i].status \in {"seeding", "expired"}
    /\ jobs' = [jobs EXCEPT ![i].status = "seeding", ![i].seedUntil = "running"]
    /\ UNCHANGED <<imports, staged, daemon, data, pass, request, restarts, leftOut>>

SeedPeriodEnds(i) ==
    /\ jobs[i].seedUntil = "running"
    /\ jobs' = [jobs EXCEPT ![i].seedUntil = "over"]
    /\ UNCHANGED <<imports, staged, daemon, data, pass, request, restarts, leftOut>>

-----------------------------------------------------------------------------
(* sync: one torrent-get, one read of the table, then the jobs from the    *)
(* newest to the oldest, each on what was read.                            *)

SyncKeeps == <<daemon, data, request, restarts>>

\* The first file that queueImports copies after file f, 0 if there is none.
FileAfter(view, t, f) ==
    LET more == {g \in view[t].got : g > f} IN IF more = {} THEN 0 ELSE Min(more)

\* Mutant: a deleted job is looked at as well.
BeginAny(p, i) ==
    LET j == p.seen[i]
        known == j.hash # NoHash /\ p.view[j.hash].home # 0
    IN IF ~known THEN "nothing" ELSE
       CASE j.status \in {"adding", "downloading", "deleted"} /\ p.view[j.hash].near ->
                IF p.view[j.hash].got = {} THEN "failing" ELSE "copy"
         [] j.status = "importing"                    -> "count"
         [] j.status = "seeding" /\ j.seedUntil # "none" -> "expire"
         [] OTHER                                     -> "nothing"

\* What sync has to do for job i: a job that is deleted or failed, or whose
\* torrent the daemon did not list, is passed over.
Begin(p, i) ==
    LET j == p.seen[i]
        known == j.hash # NoHash /\ p.view[j.hash].home # 0
    IN IF ~known THEN "nothing" ELSE
       CASE j.status \in {"adding", "downloading"} /\ p.view[j.hash].near ->
                IF p.view[j.hash].got = {} THEN "failing" ELSE "copy"
         [] j.status = "importing"                    -> "count"
         [] j.status = "seeding" /\ j.seedUntil # "none" -> "expire"
         [] OTHER                                     -> "nothing"

\* On to the newest job that is older than i and has something to do.
OnFrom(p, i) ==
    LET due == {k \in 1 .. i - 1 : Begin(p, k) # "nothing"}
        next == Max(due)
    IN IF due = {} THEN IdlePass
       ELSE [p EXCEPT !.at = Begin(p, next), !.job = next, !.row = 0,
                      !.seen = SubSeq(@, 1, next),
                      !.file = FileAfter(p.view, p.seen[next].hash, 0)]

PassGoes(at) == pass' = [pass EXCEPT !.at = at]
PassOn       == pass' = OnFrom(pass, pass.job)

\* torrent-get; nothing is done in this pass for a torrent with an errorString,
\* as for one that is not listed.
SyncFetch ==
    /\ pass.at = "idle"
    /\ \E erring \in SUBSET TorrentSet :
          pass' = [IdlePass EXCEPT !.at = "list",
                      !.view = [t \in TorrentSet |->
                                   IF t \in erring THEN Absent ELSE daemon[t]]]
    /\ UNCHANGED <<jobs, imports, staged, leftOut, SyncKeeps>>

SyncList ==
    /\ pass.at = "list"
    /\ pass' = OnFrom([pass EXCEPT !.seen = jobs], Len(jobs) + 1)
    /\ UNCHANGED <<jobs, imports, staged, leftOut, SyncKeeps>>

\* Mutant: a file that cannot be copied is passed over.
CopySkips ==
    /\ pass.at = "copy"
    /\ LET next == FileAfter(pass.view, pass.seen[pass.job].hash, pass.file) IN
       \/ /\ pass.job \in data /\ <<pass.job, pass.file>> \notin staged
          /\ staged' = staged \cup {<<pass.job, pass.file>>}
          /\ PassGoes("create")
       \/ /\ UNCHANGED staged
          /\ pass' = [pass EXCEPT !.at = IF next = 0 THEN "queued" ELSE "copy", !.file = next]
    /\ UNCHANGED <<jobs, imports, leftOut, SyncKeeps>>

\* copyTorrentFile: the copy must not exist yet, and the disk may fail.
Copy ==
    /\ pass.at = "copy"
    /\ \/ /\ pass.job \in data /\ <<pass.job, pass.file>> \notin staged
          /\ staged' = staged \cup {<<pass.job, pass.file>>}
          /\ PassGoes("create")
       \/ /\ UNCHANGED staged
          /\ PassGoes("failing")
    /\ UNCHANGED <<jobs, imports, leftOut, SyncKeeps>>

\* CreateImportJob; the copy is removed if it fails.
CreateRow ==
    /\ pass.at = "create"
    /\ \/ /\ Len(imports) < MaxRows
          /\ imports' = Append(imports, [job |-> pass.job, file |-> pass.file,
                                         linked |-> FALSE, status |-> "live"])
          /\ pass' = [pass EXCEPT !.at = "link", !.row = Len(imports) + 1]
          /\ UNCHANGED staged
       \/ /\ staged' = staged \ {<<pass.job, pass.file>>}
          /\ PassGoes("failing")
          /\ UNCHANGED imports
    /\ UNCHANGED <<jobs, leftOut, SyncKeeps>>

\* After the link, the next file or the end of queueImports.
NextFile ==
    LET next == FileAfter(pass.view, pass.seen[pass.job].hash, pass.file) IN
    pass' = [pass EXCEPT !.at = IF next = 0 THEN "queued" ELSE "copy", !.file = next]

\* Mutant: torrent_job_id is not written.
LinkForgets ==
    /\ pass.at = "link"
    /\ NextFile
    /\ UNCHANGED <<jobs, imports, staged, leftOut, SyncKeeps>>

Link ==
    /\ pass.at = "link"
    /\ imports' = [imports EXCEPT ![pass.row].linked = TRUE]
    /\ NextFile
    /\ UNCHANGED <<jobs, staged, leftOut, SyncKeeps>>

\* Mutant: the row keeps its old status.
QueuedSpelled ==
    /\ pass.at = "queued"
    /\ jobs' = [jobs EXCEPT ![pass.job].status = "imported"]
    /\ UNCHANGED leftOut
    /\ PassGoes("count")
    /\ UNCHANGED <<imports, staged, SyncKeeps>>

Queued ==
    /\ pass.at = "queued"
    /\ jobs' = [jobs EXCEPT ![pass.job].status = "importing"]
    /\ leftOut' = leftOut \cup {<<pass.job, f>> :
                      f \in Files \ pass.view[pass.seen[pass.job].hash].got}
    /\ PassGoes("count")
    /\ UNCHANGED <<imports, staged, SyncKeeps>>

\* Mutant: the failure is logged and nothing else.
QueueFailsQuietly ==
    /\ pass.at = "failing"
    /\ PassOn
    /\ UNCHANGED <<jobs, imports, staged, leftOut, SyncKeeps>>

QueueFails ==
    /\ pass.at = "failing"
    /\ jobs' = [jobs EXCEPT ![pass.job].status = "failed"]
    /\ PassOn
    /\ UNCHANGED <<imports, staged, leftOut, SyncKeeps>>

RowsOf(i) == {k \in DOMAIN imports : imports[k].linked /\ imports[k].job = i}

\* Mutant: one row that has ended is enough.
SomeEnded(i) == \E k \in RowsOf(i) : imports[k].status = "done"

AllEnded(i) == RowsOf(i) # {} /\ \A k \in RowsOf(i) : imports[k].status = "done"

Count ==
    /\ pass.at = "count"
    /\ IF AllEnded(pass.job) THEN PassGoes("seed") ELSE PassOn
    /\ UNCHANGED <<jobs, imports, staged, leftOut, SyncKeeps>>

Seed ==
    /\ pass.at = "seed"
    /\ jobs' = [jobs EXCEPT ![pass.job].status = "seeding",
                            ![pass.job].seedUntil = IF @ = "none" THEN "running" ELSE @]
    /\ IF pass.seen[pass.job].seedUntil # "none" THEN PassGoes("expire") ELSE PassOn
    /\ UNCHANGED <<imports, staged, leftOut, SyncKeeps>>

Expire ==
    /\ pass.at = "expire"
    /\ IF jobs[pass.job].seedUntil = "over" THEN PassGoes("marking") ELSE PassOn
    /\ UNCHANGED <<jobs, imports, staged, leftOut, SyncKeeps>>

MarkExpired ==
    /\ pass.at = "marking"
    /\ jobs' = [jobs EXCEPT ![pass.job].status = "expired"]
    /\ PassOn
    /\ UNCHANGED <<imports, staged, leftOut, SyncKeeps>>

-----------------------------------------------------------------------------
(* The import workers, and the death of playerd.                           *)

Copied(k) == <<imports[k].job, imports[k].file>>

\* An import that failed or was cancelled leaves its copy in place; any other
\* needed the copy, and removes it unless playerd dies first.
ImportEnds(k) ==
    /\ imports[k].status # "done"
    /\ imports' = [imports EXCEPT ![k].status = "done"]
    /\ \/ UNCHANGED staged
       \/ staged' = staged \ {Copied(k)}
    /\ UNCHANGED <<jobs, daemon, data, pass, request, restarts, leftOut>>

\* Retry asks only that the copy exists.
ImportAgain(k) ==
    /\ imports[k].status = "done" /\ Copied(k) \in staged
    /\ imports' = [imports EXCEPT ![k].status = "again"]
    /\ UNCHANGED <<jobs, staged, daemon, data, pass, request, restarts, leftOut>>

Die ==
    /\ restarts < MaxRestarts
    /\ restarts' = restarts + 1
    /\ pass' = IdlePass
    /\ request' = [r \in Requests |-> IdleRequest]
    /\ UNCHANGED <<jobs, imports, staged, daemon, data, leftOut>>

-----------------------------------------------------------------------------
Handle(r) ==
    \/ AddInsert(r)
    \/ \E t \in TorrentSet : AddCall(r, t)
    \/ AddDone(r)
    \/ AddFailed(r)
    \/ RequestCut(r)
    \/ \E i \in DOMAIN jobs : DeleteRead(r, i)
    \/ DeleteRemove(r)
    \/ DeleteWipe(r)
    \/ DeleteMark(r)

Sync ==
    \/ SyncFetch  \/ SyncList
    \/ Copy       \/ CreateRow  \/ Link  \/ Queued  \/ QueueFails
    \/ Count      \/ Seed       \/ Expire \/ MarkExpired

Next ==
    \/ \E r \in Requests : Handle(r)
    \/ Sync
    \/ \E i \in DOMAIN jobs : Extend(i) \/ SeedPeriodEnds(i)
    \/ \E t \in TorrentSet : AlmostDone(t) \/ Completes(t)
    \/ \E k \in DOMAIN imports : ImportEnds(k) \/ ImportAgain(k)
    \/ Die

\* A call to the daemon that no torrent spoils with an error.
CleanFetch == SyncFetch /\ pass'.view = daemon

(***************************************************************************)
(* The ticker starts a pass every two seconds and a pass runs to its end;  *)
(* an error of a torrent does not last for ever; import jobs end           *)
(* (ImportPipeline, JobsEnd).                                              *)
(***************************************************************************)
Spec ==
    /\ Init /\ [][Next]_vars
    /\ WF_vars(Sync) /\ SF_vars(CleanFetch)
    /\ \A k \in 1 .. MaxRows : WF_vars(k \in DOMAIN imports /\ ImportEnds(k))

-----------------------------------------------------------------------------
(* Type correctness. *)
TypeOK ==
    /\ jobs \in Seq(JobRow) /\ Len(jobs) <= MaxJobs
    /\ imports \in Seq(ImportRow) /\ Len(imports) <= MaxRows
    /\ staged \subseteq Ids \X Files
    /\ daemon \in [TorrentSet -> Torrent]
    /\ data \subseteq Ids
    /\ pass \in Pass
    /\ request \in [Requests -> [at : RequestStates, job : Ids \cup {0},
                                 hash : TorrentSet \cup {NoHash}]]
    /\ restarts \in 0 .. MaxRestarts
    /\ leftOut \subseteq Ids \X Files

(* A job that is importing or beyond has queued every file of its torrent  *)
(* that was complete when it was queued, although queueImports can fail or *)
(* die between any two files and start over, and although a twin job, a    *)
(* delete or a retry takes files away under it.                            *)
WholeTorrentQueued ==
    \A i \in DOMAIN jobs : jobs[i].status \in {"importing", "seeding", "expired"} =>
        \A f \in Files : \/ <<i, f>> \in leftOut
                         \/ \E k \in RowsOf(i) : imports[k].file = f

(* The stronger promise of the page ("import supported audio into a named  *)
(* music folder"): every audio file of the torrent has been queued.  The    *)
(* code does not keep it: what lacks its last pieces is passed over.       *)
EveryFileQueued ==
    \A i \in DOMAIN jobs : jobs[i].status \in {"importing", "seeding", "expired"} =>
        \A f \in Files : \E k \in RowsOf(i) : imports[k].file = f

(* A job seeds only after each of its imports has ended: sync counts them  *)
(* in one statement and writes the status in another.                      *)
SeedsAfterImports ==
    \A i \in DOMAIN jobs : jobs[i].status \in {"seeding", "expired"} =>
        \A k \in RowsOf(i) : imports[k].status # "live"

(* A deleted job comes back to life only from a status that was read before *)
(* it was deleted: by a pass that listed it, or by the Add that made it.    *)
DeletedSpared ==
    [][\A i \in DOMAIN jobs : jobs[i].status = "deleted" /\ jobs'[i].status # "deleted" =>
          \/ pass.job = i /\ pass.seen[i].status # "deleted"
          \/ \E r \in Requests : request[r].job = i /\ request[r].at \in {"added", "refused"}]_vars

Is(i, status) == i \in DOMAIN jobs /\ jobs[i].status = status
Known(i)      == daemon[jobs[i].hash].home # 0

(* A job whose torrent has arrived is queued or fails, unless the torrent   *)
(* is removed, which a Delete of a twin job does too.                       *)
FinishedIsQueued ==
    \A i \in Ids :
        (Is(i, "downloading") /\ daemon[jobs[i].hash].near)
            ~> ~(Is(i, "downloading") /\ Known(i))

(* A job does not import for ever, unless its torrent is removed or one of  *)
(* its imports is tried again.                                              *)
ImportingEnds ==
    \A i \in Ids :
        Is(i, "importing")
            ~> \/ ~(Is(i, "importing") /\ Known(i))
               \/ \E k \in RowsOf(i) : imports[k].status = "again"
=============================================================================
