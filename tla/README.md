# A TLA+ model of ekkoplay

ekkoplay is a music appliance: a Go daemon (`playerd`) keeps a library in SQLite, plays a queue through a
supervised mpv process, imports audio files, and serves a player UI and an admin UI over HTTP and WebSocket.
This directory holds TLA+ modules for the parts of it whose correctness depends on the order of events, TLC runs
that check them on small instances, and proofs that TLAPS checks for every value of the constants.

Paths below are relative to `src/`; `internal/` stands for `backend/internal/`.

## 1. The system

| Component | Source | State | Operations |
|---|---|---|---|
| Play queue and shuffle order | `internal/db/store.go` | tables `queue_items`, `queue_shuffle`, `player_state.shuffle` | AddQueue, RemoveQueue, ReorderQueue, ClearQueue, ReplaceQueue, RebuildShuffle, QueueForPlayback, DeleteSong (cascade) |
| Playback controller | `internal/player/controller.go` | row `player_state`; `Controller.mu` | PlaySong, PlaySongs, PlayRadio, Pause, Recover, Stop, Shuffle, Repeat, Next, Previous, Seek, Volume, Mute; event loop; checkpoints; restorePaused |
| Engine and supervisor | `internal/player/mpv.go`, `supervisor.go` | the mpv process, a channel of 64 events | load, pause, stop; events `end-file`, `engine-exit`, `engine-restarted` |
| Mirrored zones | `internal/player/mirrored.go`, `internal/api/audio.go` | one supervisor per output | fan-out, per-zone settings, drift correction |
| Import pipeline | `internal/media/importer.go`, handlers in `internal/api/server.go` | staging directory, library directory, `import_jobs`, `songs` | upload, scan, retry, cancel; workers claim and process; requeue at start |
| Metadata enricher | `internal/media/enricher.go`, `tags.go` | `song_enrichment` | RunBatch, Retry, process |
| Torrents | `internal/media/torrents.go`, `internal/api/torrents.go` | `torrent_jobs`, Transmission daemon (external) | Add, sync, queueImports, Delete, Extend |
| Folders and files | `internal/api/folders.go` | directories next to `songs.file_path` | create, move, delete, move songs, rename |
| Administrator sessions | `internal/auth/service.go`, `internal/api/auth.go`, `admin-ui/src/lib` | `admins`, `refresh_sessions`, cookies | Login, Refresh, Logout, LogoutAll, ChangePassword |
| Playlists, radio | `internal/db/store.go`, `internal/api/playlist_artwork.go` | their tables | CRUD, single transactions |
| Hub and live clients | `internal/api/hub.go`, `useLiveEvents.ts`, `player.tsx` | connected sockets, last snapshot | Broadcast, reconnect |
| Backup and restore | `internal/backup/backup.go` | archives, database file | Create, Prune, Restore |
| Updates | `internal/update/service.go`, `deploy/update.sh` | request and status files, release symlink | Check, Request, install, roll back |
| Boot | `backend/cmd/playerd/main.go` | – | construction, signal, HTTP shutdown, closes |
| Configuration, migrations, seed | `internal/config`, `internal/installconfig`, `internal/db` | – | run once at start |

How they interact. HTTP handlers run concurrently. Those that drive playback call the `Controller`, whose operations
exclude each other under `Controller.mu`; those that edit the queue or delete songs go to the store directly and take
no lock. The event loop is one goroutine that receives the engine's events, reads `player_state` *before* it takes
the lock, and then calls Next, PlaySong or restorePaused. Import handlers talk to workers through two shared things:
the table `import_jobs` and the staging directory; the wake-up channel may lose signals and workers poll every five
seconds. `playerd` shuts HTTP down before it closes the managers (deferred closes in `main`), and systemd starts it
again.

What is hard, and where: statements of one operation interleaving with other requests (AddQueue, cancelImport,
upload against a worker), a death between two of them, decisions taken on state read earlier (event loop, worker,
count of shuffle rows, lock of a song, options of a restart), file operations without locks (`uniquePath`,
`os.Remove(dest)`, a check before a rename), two stores changed one after the other (files and rows, running and saved
settings), lost answers, and what must happen in the end (the queue plays out, a crash of mpv is recovered, a job ends,
a song's metadata comes to rest). `PROJECT.json` lists the hazards one by one at
their lines.

## 2. The modules

| Module | Models | One step is |
|---|---|---|
| `PlayQueue` | the queue and shuffle tables under concurrent requests and the event loop | one SQL statement or transaction |
| `Playback` | controller, event loop, `player_state`, queue, mpv and its events | one controller operation under `mu`; the event loop's unlocked read is a step of its own |
| `ImportPipeline` | upload, scan, retry, cancel, workers, stop, death, requeue | one SQL statement or file operation |
| `Torrents` | torrent jobs, the sync loop, Add, Delete, Extend, queueImports, deaths | one SQL statement, file operation or call to the daemon |
| `Enrichment` | batches, retries and restarts of the metadata enricher beside edits, pictures, deletions and imports | one SQL statement or question to a service |
| `SessionFamilies` | what sign-ins promise: families of tokens, one good at a time (abstract) | a sign-in, a rotation, an end |
| `Sessions` | refresh sessions, cookies, requests and refreshes of the pages | one SQL transaction, request or answer |
| `AudioZones` | one supervised mpv per zone, calls that fan out, live and saved settings | one command to one zone, or one statement |
| `LibraryFiles` | moving, renaming and deleting folders and songs beside imports | one system call or SQL transaction |
| `MC...` | constants and symmetry sets for TLC | – |
| `PlayQueueProofs`, `PlaybackProofs`, `ImportPipelineProofs`, `TorrentsProofs` | these modules for all constants | – |
| `SessionsProofs` | `Sessions` for all constants, and that it implements `SessionFamilies` | – |
| `EnrichmentProofs`, `LibraryFilesProofs`, `AudioZonesProofs` | these modules for all constants | – |

The same queue appears twice on purpose. `PlayQueue` forgets songs and takes the queue operations apart;
`Playback` keeps the songs, makes queue edits atomic, and asks what is played.

### PlayQueue

`position` is `queue_items` (row id to position), `order` is `queue_shuffle`, `pc` says between which two statements
a caller is, `seen` is the length of the queue QueueForPlayback read. `serial` and `holes` are ghosts for the
properties. `AddQueueInsert`, `AddQueueReadFlag` and
`AddQueueShuffleRow` are AddQueue's transaction and its two further statements. `ShuffleOn` and `SaveFlag` are
`Controller.Shuffle`; `PlaySongsReplace`, `PlaySongsRebuild`, `SaveFlag` and the read that follows are
`Controller.PlaySongs`. `ListQueue`, `CompareCount` and `Heal` are QueueForPlayback with shuffle on. Steps of the
controller require that no other caller is in `Locking`; queue edits require nothing, as in the code. Row numbers of
`queue_shuffle` are kept dense, since only their order is read. `RenumberCollides` is SQLite's row-by-row check of
`UNIQUE(position)` inside the renumbering UPDATE: rows are visited in the order of ids and a new position may not be
held by a row not yet visited.

### Playback

`st` is the row `player_state` without position and volume; `queue` holds songs by position and `order` positions of
the queue. `engine` is mpv behind its supervisor, `events` its channel, `handling` what the event loop decided when
it read the state. A call to a dead engine fails, and an operation that fails on it changes nothing, except that
`GoTo` has saved the index by then (`controller.go:467`). `synced` is a ghost: it is true from a selection until the
queue is edited or a Next or Previous fails, and says when `queue_index` is meant to be right. `quiet` is a ghost
that turns true once and switches off users, crashes and reboots, so that liveness can be stated for a player that
is left alone.

### ImportPipeline

`staged` and `music` are the two directories (name to content), `library` is `songs` (path to hash, both UNIQUE),
`jobs` is `import_jobs`, `worker` and `client` say where each worker is in `process()` and each request in its
handler. `closing` is the cancelled context: from then on every statement of a worker fails, while file operations
still succeed. A content is a file; `Recording` maps contents to recordings as `SongByImportIdentity` does, and the
hash identifies contents. All contents have the same title, so all imports into a folder ask for the same name: the
case `uniquePath` is there for. `Torn` is a file whose upload has not finished. `accepted` is a ghost: the
recordings whose upload reached `SetImportTarget`, after which the handler has no way to take the file back; a
request with several parts is answered once, at its end, and is counted per file here.

### Torrents

`jobs` is `torrent_jobs`, `imports` the rows of `import_jobs` that sync creates (`linked` is `torrent_job_id`),
`staged` the copies in the staging directory, `data` the jobs whose download directory has the torrent's files,
`daemon` the torrents Transmission has and, for each, the job whose directory it is in (`home`), whether
`percentDone` has reached .9999 (`near`) and the files that are complete (`got`). `pass` is one run of `sync`: the
answer of torrent-get (`view`), the rows read after it (`seen`, cut down to the jobs still to be looked at), and the
statement it is at. Every write of a pass is decided on `view` and `seen`, as in the code, while `Delete`, `Extend`,
`Add` and the import workers go on. The workers appear as what they do to a row and its copy (`ImportEnds`,
`ImportAgain`); `ImportPipeline` takes them apart. Passes skip jobs without work in one go (`OnFrom`), because their
UPDATE only refreshes numbers of the page. An orderly stop has no action of its own: cancelling the context in the middle of
`queueImports` leaves what a death at a neighbouring statement leaves, with the last copy removed. `leftOut` is a ghost:
the files that `queueImports` passed over because they were incomplete. SQL errors that the code ignores are not
modelled, and `/scan` requests over the staging directory are left to `ImportPipeline`.

### Enrichment

`songs` and `rows` are the tables `songs` and `song_enrichment`, `sleeves` the artwork of albums, `running` the flag that
RunBatch swaps, `batch` where each goroutine of RunBatch is (the timer's, and those of `POST
/admin/enrichment/run`, which use a context of their own), `edit` where a `PATCH /songs/{id}` is between
UpdateSongMetadata and LockSongMetadata. A step of `process` is one statement or one question to a service
whose answer is a choice: `IdentifyFails` (no usable title, a failing request, names that could not be written),
`IdentifyNothing`, `WriteNames`, `Cover`, `NoCover`. What a song is called is opaque: "imported", "edited" or the
recording it is of; `Album` says which album these names put it on, and so which sleeve it shows. `due` says that
`next_attempt_at` has passed (`DayPasses`). `NextId` is SQLite's choice of a row id, which gives the highest id again
after its song was deleted. A restart forgets batches and edits and leaves the tables.

### Sessions and SessionFamilies

`rows` is `refresh_sessions`; `jar` the two cookies of each browser; `call` a request of a page and `renew` the one
refresh that a page has in flight (`refreshOnce`). A request carries the cookies of the moment it was sent, an answer
changes those of the moment it arrives. `Refresh`, `Reuse`, `RenewExpired`, `RenewWithout` and `RenewFails` are the
outcomes of `POST /auth/refresh`; `AnswerRefused`, `RenewAnswered` are the second try of `req`. Answers to a browser in
`Lossy` may be lost. Login and ChangePassword read the hash (`ReadHash`) before they write. `born`, `closed` are
history variables. Ids of tokens are random, so the next one is the least that is unused; there is one administrator.

`SessionFamilies` is the promise: a sign-in begins a family of tokens, of which at most one is good at a time; `Rotate`
hands it to a token that was never issued; `End` ends any families for good. `Sessions` implements it
(`PromiseKept`) under the mapping `Tokens <- Ids`, `good[f]` the live rows of family f, `issued` the ids in use. Requests,
cookies, answers and expiry are stutters; Logout, reuse, LogoutAll and a password change are `End`.

### AudioZones

`conf` is `mirrorZone.config`, `saved` what `audio_output_overrides` gives a start, `sup` each `SupervisedMPV` (its
`current` engine, its stored volume and mute, the options of a start in progress), `proc` each mpv (what it has loaded, its
volume, its mute). `ctl` is the one call the controller may have in progress, zone by zone as `fanout`'s goroutines
come to them, with SetVolume's two halves (stored in the supervisor, sent to mpv). `patch` is a `PATCH
/admin/audio/outputs/{name}`: SetZone's commands, the two reads of Statuses, and the row that is saved. A command dials a
socket, so it reaches whichever mpv listens there. `reload` is the primary's `engine-restarted` event, which the event
loop answers with restorePaused. Settings that need a restart are one field, `device`. `amiss` and `unsaved` are
history variables: the zones that missed a change and those whose settings were changed without being saved, each added
to by the actions where the code does it.

### LibraryFiles

`disk` is what each path holds, `dirs` the folders, `trash` the directory `deleted` under the backups, `rows`
`songs.file_path`, `placed` the imports that have copied their file and not inserted their row. `req` is a request in
flight: what it has read (`songs`, `plan`), the renames it has made (`done`) and what it has taken to recovery storage
(`saved`). Each request checks, renames, updates and, when the update fails, renames back; every statement may
fail, as it does when the client hangs up and its context is cancelled. `rename(2)` replaces a file and refuses a folder that
exists; renames back ignore their errors, as in the code. `Alike` says which folders `LIKE` takes for a folder
(`MoveSongPathPrefix`). Four history variables say what happened: `known` songs, `strays` whose row and file a death, a
failing restoration or a move of the file as another song's took apart, `lost` files whose place another one took or
that a failed import removed as its own, `crossed` when two requests overlapped.

## 3. What the runs check

Passing runs:

| Run | Properties | Bounds |
|---|---|---|
| `queue_safety` | `TypeOK`, `ShuffleCoversQueue`, `PositionsDense` | 2 clients and the event loop, 3 items, 5 shuffle rows, song deletions, restarts anywhere |
| `playback_safety` | `TypeOK`, `LoadedIsSelected`, `UpNextIsNext`, `NextFollows` | 2 songs, 1 station, queue of 3, 2 pending events, load errors, all repeat modes |
| `playback_live` | `QueuePlaysOut`, `RestoredAfterCrash` | 2 songs, queue of 2, 2 pending events |
| `import_safety` | `TypeOK`, `RowsBacked`, `NothingLost`, `ShelfGrows`, `DuplicateExists`, `JobsEnd` | 1 worker, 1 request, 2 sources, 2 jobs, faults, orderly stop, 1 death |
| `torrents_live` | `TypeOK`, `WholeTorrentQueued`, `SeedsAfterImports`, `FinishedIsQueued`, `ImportingEnds`, `DeletedSpared` | 1 job, 2 files, 3 import rows, 1 request, 1 death |
| `enrich_safety` | `TypeOK`, `RetriesBounded`, `CompleteHasCover`, `OneStrandedPerLife`, `LockRespected`, `Settles` | 2 songs, 2 goroutines of RunBatch, 1 edit at a time, 4 requests and imports, 2 lives |
| `sessions_safety` | `TypeOK`, `OwnTokensGood`, `LiveSinceChange`, `PromiseKept` | 2 browsers with 3 tabs, 4 requests in flight, 3 that users ask for, 4 tokens, 1 family expires |
| `zones_safety` | `TypeOK`, `SoundsAsSet`, `LiveIsSaved`, `ZonesAgree`, `PrimaryRestored` | 2 enabled zones and a disabled one, 2 requests, 1 death of mpv, 2 lives |
| `files_safety` | `TypeOK`, `RowsBacked`, `NothingDestroyed`, `RetainedOnDelete` | 2 songs, 3 folders, 2 file names, 2 requests, 2 lives |

What they say:

- `ShuffleCoversQueue`: with shuffle on and nothing under way, no item of the queue is missing from the persisted
  order, as long as requests come one at a time and none was cut short by a death since the order was last drawn. The
  event loop and Next may fall between any two statements of a request. Overlapping requests break it.
- `PositionsDense`: positions are 0..n-1 unless a song was deleted from the library since the last removal or reorder,
  with two overlapping requests and deaths.
- `LoadedIsSelected`: whatever commands, ends of songs, crashes and restarts have crossed, mpv never has anything
  loaded but what the row selects (a song deleted while it plays is the one exception).
- `UpNextIsNext`, `NextFollows`: `queue_index` points at the current song, and Next goes to its successor in the
  order of playback, also when the event loop acts on a state it read before other commands.
- `QueuePlaysOut`, `RestoredAfterCrash`: a queue that is left alone ends; after a crash mpv runs with the selection.
- `RowsBacked`: a song of the library has its file, with the audio its hash was computed from.
- `NothingLost`: audio whose upload was accepted is still staged or is in the library.
- `ShelfGrows`: no step of an import takes a playable recording away.
- `DuplicateExists`: a job that ends as a duplicate has its recording in a song whose file is there.
- `JobsEnd`: every job leaves "queued" and "processing" once nobody retries.
- `WholeTorrentQueued`: a torrent job that is importing, seeding or expired has an import for every file that was
  complete when it was queued, although copies fail, jobs are deleted and playerd dies between files.
- `SeedsAfterImports`: it seeds only after each of these imports has ended at least once.
- `DeletedSpared`: only a pass or an Add that had read the job before its deletion writes another status over
  "deleted". They do: the data is gone and the row says "importing" or "failed" again.
- `FinishedIsQueued`, `ImportingEnds`: a finished download is queued or fails; an import ends, unless the torrent is
  removed or an import is tried again.
- `RetriesBounded`, `CompleteHasCover`: a song waits for another attempt only while it has had fewer than three, and is
  complete without a picture only after three, whatever was reset, deleted, imported again or interrupted.
- `OneStrandedPerLife`: a stop of playerd leaves at most one song marked as processing, because batches exclude each other.
- `LockRespected`: a locked song's names change only by an edit, or by a batch that had read the song before.
- `Settles`: a song the enricher may work on becomes complete or unmatched, unless it is locked, deleted or stranded.
- `PromiseKept`: the refinement of `SessionFamilies`: no crossing of refreshes, reuses, logouts and password changes
  leaves two good tokens of a sign-in or makes an old one good again.
- `OwnTokensGood`: a browser with one tab that gets its answers never presents a token it has spent, however many of its
  requests are refused at once. Two tabs can: the second use ends the family, and both are signed out.
- `LiveSinceChange`: sessions that were there before a password change or reset are over.
- `SoundsAsSet`, `LiveIsSaved`: a zone at rest sounds as it is set, through deaths of mpv, and the next start reads these
  settings; the exceptions are a change that met a starting mpv, crossed another one, or was refused halfway.
- `ZonesAgree`, `PrimaryRestored`: zones do not play different sources between calls, and after its crash the primary has
  the selection again.
- `RowsBacked` of `LibraryFiles`: where requests come one at a time, rows name their files after each, failed or not.
- `NothingDestroyed`, `RetainedOnDelete`: however requests and imports cross, the file of a song is in the library or in
  recovery storage; the file of a deleted song is in recovery storage.

Runs that find the documentation, a message or the user interface contradicted by the code (`findings` in
`PROJECT.json` quotes the line):

| Run | Property | What TLC shows |
|---|---|---|
| `import_twins` | `DuplicateExists` | two workers, one path: the loser removes the winner's file |
| `enrich_stranded` | `NothingStranded` | a song that was being enriched at a stop is never taken up again |
| `zones_settings` | `AcknowledgedLasts` | changing a zone's volume undoes a device that was saved for the next start |

Further behaviour that the models reach and a maintainer may want to look at, without a run of its own:

- two AddQueue requests both append the queue's last item to the shuffle order, which then has the right length and misses
  an item, although `README.md:119` says the order is "reconciled transactionally as the queue changes"
  (`CountsAgreeOnlyWhenWhole` with two clients, `MaxItem = 2`, `MaxRows = 4`);
- RemoveQueue rolls back on `UNIQUE(position)` after a reorder (`EveryItemRemovable` with one client and three items);
- a file mpv cannot load ends with the reason "error", which the event loop does not handle: the queue stops with the
  status "playing" (`QueuePlaysOut` with `LoadErrors = TRUE`);
- sync imports at 99.99 percent, and the file that lacks its last pieces is passed over for good (`EveryFileQueued` with
  one job of two files);
- moving the folder "rock" also rewrites the rows of songs in "Rock", because `LIKE` ignores case (and takes `_` and `%`
  as wildcards): with `Alike <- CaseOnly`, one client and a fourth folder, `RowsBacked` of `LibraryFiles` fails with one request;
- an import into a folder that is being moved or deleted leaves a row without its file;
- a secondary zone that restarted stays silent until the next Play, since only the primary's events are read; a Play that
  the primary refuses because it is restarting starts the other zones all the same;
- a volume or mute set while a zone's mpv is being started does not reach it (`supervisor.go:65`), and one that is refused
  with 409 stays in memory, sounds after the next restart of mpv and is not saved;
- mpv starts with `default_volume`, not with the volume of `player_state` (`main.go:116`);
- UpdateSongArtwork gives its picture to every song of the album, locked ones included, and UpdateSongMetadata leaves
  albums without songs;
- the id of a deleted song can be given to the next import while the enricher still works on the old one, which then
  gets the names of the other recording;
- a song queued twice sends `queue_index` back to its first occurrence, and the player loops (`QueuePlaysOut` with
  `UniqueQueue = FALSE`; `playback_live` assumes a queue of distinct songs);
- a scan that starts during an upload imports the part that has arrived and unlinks the file, and the upload is then
  answered with 202 (`NothingLost` with `ScanDuringUpload = TRUE` and two clients);
- a death inside AddQueue leaves a shuffle order that a later edit can bring back to the right length with the
  wrong rows (`CountsAgreeOnlyWhenWhole` with one client and `Restarts = TRUE`);
- any edit between QueueForPlayback's two reads makes it draw a new random order in the middle of a queue;
- Pause on a fresh database turns the status to "playing" with nothing loaded; a song played with an empty queue ends
  with the status still "playing";
- a cancellation that comes after the worker has read its job is overwritten, and the job is imported;
- deleting one of two jobs of the same torrent removes the data of both, and the other then stays "downloading" or
  "importing", because sync passes over a job whose torrent the daemon does not list;
- a death inside queueImports, while the copied file is still staged, fails the whole torrent at the next pass
  (`O_EXCL`), and a failed job is not looked at again;
- an Add that is cut short leaves a job "adding" for ever, with a torrent that nobody imports;
- cancelImport can overwrite "imported", and a worker that polls between CreateImportJob and SetImportTarget imports
  into the root folder;
- the queue page compares `queue_index`, an index in the order of playback, with positions of the queue;
- `Previous` panics when the queue has been shortened below `queue_index - 1` (`controller.go:494`; modelled as the index
  saved and nothing played);
- `Server.repeat` (`server.go:327`) is not routed although `player-ui/src/lib/api.ts` calls it, so `Repeat` stands for
  the operation of the controller.

### Bounds

Two clients and the event loop are enough for the interleavings of the queue, since an operation conflicts with one
other at a time. Three items are the fewest on which a reorder and a removal collide and on which a shuffle
order can double one item and miss another. Two songs in a queue of three give queues with a repeated song and every
shuffle order of three rows. Two sources and two jobs let two imports ask for one name, a file have two jobs, and a
recording be met twice; one restart and an orderly stop put an end before, between and after the steps of a job.
`MaxItem` bounds row ids and positions, `MaxRows` the rows of `queue_shuffle` at which no further AddQueue starts,
`MaxQueue` the queue, `MaxEvents` the events waiting for the loop, `MaxJobs`, `MaxFiles` and `MaxRestarts` what their
names say. `MaxFiles` is never below the number of imports that can ask for a name. Import runs switch the deadlock
check off: when the jobs are used up and ended, an idle pipeline has no step left. Symmetry is used in
`queue_safety`, `playback_safety` and `files_safety`, which have no liveness. A torrent of two files can fail between them, and three import rows let one be queued twice after a death;
the run has one job, and what several jobs of one torrent do to each other is left to the theorems. `MaxRows` of `Torrents` bounds its import rows: at the bound the insert fails, which it may do anyway. In the other
modules `MaxRequests` bounds what users ask for (imports included in `Enrichment`), `MaxFaults` the deaths of mpv,
`MaxSong`, `MaxId` and `MaxExpired` ids and expiries, and `MaxLives` the lives of playerd.

Enrichment: four requests are enough for an import of two songs and for two edits, deletions, pictures or resets between
the three attempts of one of them; two goroutines are what RunBatch's flag is there for; a second life shows what a stop leaves.
Sessions: one tab with two requests in flight is the case `refreshOnce` is there for, and two tabs whose answers get lost
are the case of reuse; four tokens are two sign-ins that refresh, or one that refreshes three times. Zones: a command can
fail in one zone and not in the other with two of them; one death of mpv falls anywhere in a call or a PATCH, and a
call and a PATCH cross. Volumes are 0 and 2 of 2 and trims 0 and -1, so that clamping happens. Files: two requests are a move crossing
a deletion or another move, two songs and names a collision, three folders a source, a target and the root; one death falls
between any two steps. These runs switch the deadlock check off, because requests and lives are used up.

### Fairness

`Playback!FairSpec`: the event loop is a goroutine that receives whenever an event waits (`controller.go:90`); the
supervisor retries until mpv starts (`supervisor.go:57-83`); a song that is loaded and not paused ends. Nothing is
assumed of users, crashes, load errors or of radio streams ending. `ImportPipeline!FairSpec`: each worker runs, because it polls every five
seconds even if its wake-up was dropped (`importer.go:60-80`); a `playerd` that has been stopped is started again by
systemd. Requests carry no fairness. `Torrents!Spec`: the ticker starts a pass every two seconds and a pass
runs to its end (`torrents.go:102-116`); again and again the daemon answers without an error for any torrent (strong
fairness of `CleanFetch`, since a failing answer ends in the same idle state); an import ends, which is `JobsEnd`. Nothing is assumed of the
daemon's downloads, of requests or of retries.
`Enrichment!Spec`: the timer starts a batch when it fires (`enricher.go:117-130`), a batch goes on because services answer or
fail within the client's 25 seconds (`enricher.go:111`), and days pass. `AudioZones!FairSpec`: supervisors run; a start that is
tried again and again succeeds in the end (strong fairness of `Restarted`, `supervisor.go:57-83`); a call returns, and the
event loop takes what waits. Users, edits, crashes and restarts are never forced. `Sessions` and `LibraryFiles` state safety
only and have no fairness.

## 4. What is proved

Every invariant, action property and refinement that a passing run checks is also a theorem, for all values of the constants;
where a theorem has a hypothesis, it is named below.

- `PlayQueueProofs`: `TypeCorrect`, `PositionsDenseAlways` and `ShuffleCoversQueueAlways`, for any number of requests, rows, deletions
  and restarts, from `PlayQueueAssumption` alone. `QueueInv` has three parts. `Tables` says that no two rows of the queue share a
  position and that positions are dense unless a song was deleted. `RankIs` shows that the numbers ROW_NUMBER() gives are 0..n-1,
  through an injection of the rows into an interval of their number. `Callers` has one operation of the controller at a time.
  `CoveredSerially` is what makes `ShuffleCoversQueue` inductive: while
  requests are serial, at most one is between two statements, and the order lacks at most the last item of the queue while an
  AddQueue is on its way to append it; Next, Previous and the end of a song may draw the order in between, which covers
  more and never less. Each request owes what it leaves covered (`Owes`, `RequestStep`).
- `PlaybackProofs!LoadedIsSelectedAlways`: `Spec => []LoadedIsSelected` for every set of songs and stations and every
  bound. `LoadedIsSelected` alone is not inductive: deleting the selected track must leave a row that refers to
  existing songs (`RowRefers`), and an engine that is dead has nothing loaded (`EngineShape`). The invariant is the conjunction of
  the three; there is a step per action.
- `PlaybackProofs!TypeCorrect`, `UpNextIsNextAlways`, `NextFollowsAlways`: for queues of any length. `UpNextIsNext` is inductive
  together with the types (`Core`), because every step that selects a song stores the index that `FirstIndexIs` speaks of,
  and every edit either clears `synced` or appends a song that is not the current one. The type of `order` is the hard part:
  that it stays a permutation when rows go is `KeptLists`, on lemmas about the place of a number in a finite set (`PlaceIs`,
  `AtIs`). `NextFollows` follows from the two invariants in one step (`NextGoesOn`).
- `ImportPipelineProofs!TypeCorrect`: `Spec => []TypeOK` for any number of workers, requests, files, jobs and restarts.
  The invariant adds which fields of a worker's and a request's record are meaningful at which point (`Holding`,
  `References`): a worker that is not idle holds a job that exists, a worker that has hashed has a content, and
  so on.
- `ImportPipelineProofs`: `RowsBackedAlways`, `NothingLostEver`, `ShelfOnlyGrows` and `DuplicateExistsAlways`, each under `OneWorker`
  and `ScansApart`. Both assumptions are needed: `import_twins` is the counterexample with two workers, and TLC finds one
  for a scan during an upload when `ScanDuringUpload` is set.
  The default configuration starts two workers (`internal/config/config.go`, `import_workers` in 1..4), so these
  theorems are about an appliance configured with one. The
  invariant says, for the uploads, that names are not shared, that the arriving file is kept and that what was accepted is
  kept; and for the worker, that its source does not change while it is worked on, that the path it chose has no
  song, and that once its outcome is "duplicate" or "imported" the library has the recording, which is why the
  source may be removed.
- `TorrentsProofs`: `TypeCorrect`, `WholeTorrentQueuedAlways`, `SeedsAfterImportsAlways` and `DeletedSparedAlways`, for
  any number of torrents, files, jobs, requests, import rows and deaths, from `TorrentAssumption` alone. The tables
  change under a pass, so the invariant `IInv` says what the rows that the pass read still tell (`Fits`): a job that
  was read as importing has its imports for good; one that was read as seeding has none that never ended; and one
  that was read as downloading is in no later stage, because only a pass takes a job there and there is one pass. The last is
  needed for `SeedsAfterImports`: otherwise a pass could add a fresh import to a job that seeds. `Queues` says how far
  `queueImports` has come: every complete file before `pass.file` has its linked row. The lemmas `FileAfterIs` and `OnFromIs` are what the loops
  over files and jobs come to: nothing is skipped. `OnFrom`'s Max and `FileAfter`'s Min need the existence of
  greatest and smallest members (`MaxExists`, `MinExists`), from the library's well-founded induction. One lemma per
  group of actions then shows the invariant kept.

- `SessionsProofs`: `TypeCorrect`, `LiveSinceChangeAlways`, `PromiseKeptAlways` and `OwnTokensGoodAlways`, for any number of
  browsers, tabs, requests, tokens and faults. The first three rest on the table alone (`Table`: a family goes by a row
  of its own, has one good token at most, and what is good was inserted under the current password). The refinement maps
  the initial state to the initial state of `SessionFamilies` and every step to a sign-in, a rotation, an end of families or a
  stutter. `OwnTokensGood` needs to know who else could spend a token: `FamiliesApart` says that every token that can still
  come to use in a browser (its cookie, a refresh it has in flight, an answer to a login) was issued, and that one
  browser holds a family; `LoginsFresh` that the token of a login that was not answered yet is nowhere else; and
  `TokensFine` that what a lone tab will present is good, wherever it is on its way. `NewIdUnused` shows the CHOOSE of
  the next token defined.
- `EnrichmentProofs`: `TypeCorrect`, `RetriesBoundedAlways`, `CompleteHasCoverAlways`, `OneStrandedPerLifeAlways` and
  `LockRespectedAlways`. The invariant says that the flag RunBatch swaps leaves one batch at a time
  (`OneBatch`), and what of a batch's local variables the tables still confirm (`Marked`): the row it has marked is as it
  left it or went with the song, so that "processing" with its number of attempts is what the batch is about to count up; the picture
  it has seen is there. `EveryRankTaken` shows that RunBatch's list (`Selected`) is well defined: `Before`
  orders the eligible songs, the rank of a song is injective into an interval of the same size, and so onto it.
- `LibraryFilesProofs`: `TypeCorrect` and `NothingDestroyedAlways` without assumptions; `RowsBackedAlways` and
  `RetainedOnDeleteAlways` under `Exact`: the `LIKE` of `MoveSongPathPrefix` takes a folder's name for that folder only. Names
  that differ by more than the case of letters and hold no `_` or `%` satisfy it, and so does the run's `Alike`; section 3
  has the counterexample without it. `Safe` is what crossing requests cannot break: a file is in one place, a request
  in recovery storage holds what no other request holds (`Hoards`), and a song that was in the table is somewhere (`Kept`).
  `Apart` says what one request at a time keeps besides: the rows name files (`Home`) except those of the songs the request has
  half done, and for each kind of request how far it is (`Progress`), which is what its rename back relies on. While
  proving it, `RowsBacked` turned out to need an exception that TLC's instance is too small to reach: a rename that is
  undone can move a file that an import put there meanwhile, whose song then is a stray. The model now also counts
  files that were moved as another's as strays, where they were counted as lost: `NothingDestroyed` covers them.
- `AudioZonesProofs`: `TypeCorrect`, `SoundsAsSetAlways`, `LiveIsSavedAlways` and `ZonesAgreeAlways`, for any zones, sources,
  settings, requests, deaths of mpv and lives. Where a zone has missed no change, at most one call is setting it
  (`Alone`); what its supervisor has stored is its volume unless that call is still to store it (`Level`), what mpv has is
  what is stored unless that call is still to send it, and an mpv that is being started was given what is stored; the same
  for mute (`Quieted`). A request's five steps go through one lemma (`PatchStep`), which asks of a step what it leaves fitting
  (`Fits`) and what it records as unsaved or missed. `Plays` says what the zones play in the middle of a call: those it has reached
  play its source or nothing.

Only model-checked: all liveness (outside the prover's reach), and what two import workers do to each other.

## 5. What is not modelled

Positions, seeking, delay and the ten-second checkpoint; metadata other than whether a song has names and a picture; how
candidates are scored (arithmetic on strings of outside services); drift correction, which polls positions of real
processes; a zone whose first start fails; wrong passwords, the login throttle and the comparison of origins (they change no
session); nested folders. The WebSocket hub keeps no state but its sockets. Restore runs while playerd is stopped, and the
update is a shell script under systemd: linear sequences without an actor beside them, each with one hazard that is listed.
Playlists and radio stations are edited in single transactions; configuration, migrations, seed and rendering have no
interleaving. Songs are deleted in `PlayQueue`, `Playback`, `Enrichment` and `LibraryFiles` but not in `ImportPipeline`,
whose `ShelfGrows` is about imports. The supervisor's channel does not drop events in the models, and mpv does not hang.

## 6. Plan

1. Proofs: what `ImportPipeline` keeps with two workers.
2. Abstract specifications: a job that is accepted and ends once, implemented by `ImportPipeline`; a player with a
   current item and a successor, implemented by `Playback`.
3. Compositions: `Torrents` with the staging directory of `ImportPipeline`; `LibraryFiles` with its workers.
4. `Backup` and `Update`, should they become more than linear scripts.
