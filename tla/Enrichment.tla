----------------------------- MODULE Enrichment -----------------------------
(***************************************************************************)
(* The metadata enricher of ekkoplay (src/backend/internal/media/          *)
(* enricher.go): batches that take songs one by one through MusicBrainz    *)
(* and the Cover Art Archive, beside the requests that edit, illustrate,   *)
(* delete and import songs and that run or reset the enricher.             *)
(*                                                                         *)
(* One step is one SQL statement or transaction, or one question to an     *)
(* outside service.  Names are opaque: what a song is called is            *)
(* "imported", "edited", or the canonical names of a recording.            *)
(***************************************************************************)
EXTENDS Integers, Sequences, FiniteSets, FiniteSetsExt

CONSTANTS Runners,     \* goroutines that may call RunBatch
          Loop,        \* the one of them that the timer drives
          Clients,     \* requests that may edit a song at once
          Recordings,  \* what the audio of a song may be a recording of
          None,        \* no recording: no such row
          Albums,      \* albums in the library or in MusicBrainz
          Album,       \* the album that some names put a song on
          Embedded,    \* whether imported files may bring a picture
          Limit,       \* songs of a batch (25)
          Attempts,    \* attempts before a song is given up (3)
          MaxSong,     \* bound: the highest id
          MaxRequests, \* bound: imports and users' requests
          MaxLives     \* bound: lives of playerd

Songs == 1 .. MaxSong
Names == {"imported", "edited"} \cup Recordings

ASSUME EnrichmentAssumption ==
    /\ Loop \in Runners
    /\ None \notin Recordings
    /\ Recordings \cap {"imported", "edited"} = {}
    /\ Album \in [Names -> Albums]
    /\ Embedded \subseteq BOOLEAN
    /\ Limit \in Nat \ {0} /\ Attempts \in Nat \ {0}
    /\ MaxSong \in Nat /\ MaxRequests \in Nat /\ MaxLives \in Nat

VARIABLES songs,    \* table songs
          rows,     \* table song_enrichment
          sleeves,  \* albums.artwork
          running,  \* Enricher.running
          batch,    \* where each runner is
          edit,     \* where each edit is
          requests, lives

vars == <<songs, rows, sleeves, running, batch, edit, requests, lives>>

Statuses == {"none", "processing", "complete", "retry", "unmatched"}
SongRow  == [audio : Recordings \cup {None}, names : Names, locked : BOOLEAN, art : BOOLEAN]
\* "none" is a song without a row; due says that next_attempt_at has passed.
Row      == [status : Statuses, attempts : Nat, due : BOOLEAN]

NoSong == [audio |-> None, names |-> "imported", locked |-> FALSE, art |-> FALSE]
NoRow  == [status |-> "none", attempts |-> 0, due |-> FALSE]

\* audio and locked are of the song as process read it, tries the attempts it
\* read, art whether cover found a picture.
BatchStates == {"idle", "next", "read", "marked", "written", "covered"}
Resting     == [at |-> "idle", list |-> <<>>, song |-> 0, audio |-> None, locked |-> FALSE,
                tries |-> 0, art |-> FALSE]
EditStates  == {"idle", "read", "saved"}
NoEdit      == [at |-> "idle", song |-> 0]

Init ==
    /\ songs = [s \in Songs |-> NoSong]
    /\ rows = [s \in Songs |-> NoRow]
    /\ sleeves = [a \in Albums |-> FALSE]
    /\ running = FALSE
    /\ batch = [b \in Runners |-> Resting]
    /\ edit = [c \in Clients |-> NoEdit]
    /\ requests = 0 /\ lives = 1

-----------------------------------------------------------------------------
(* Statements on the tables.                                               *)

Present(s) == songs[s].audio # None

On(a) == {s \in Songs : Present(s) /\ Album[songs[s].names] = a}

\* What the pages show: the song's own picture, else its album's.
Picture(s) == songs[s].art \/ sleeves[Album[songs[s].names]]

\* The row moves to the album of its new names and keeps its picture and lock.
UpdateSongMetadata(s, names) ==
    songs' = IF Present(s) THEN [songs EXCEPT ![s].names = names] ELSE songs

\* The album of the song and every song on it get the picture.
UpdateSongArtwork(s) ==
    IF Present(s)
    THEN LET a == Album[songs[s].names] IN
         /\ sleeves' = [sleeves EXCEPT ![a] = TRUE]
         /\ songs' = [t \in Songs |-> IF t \in On(a) THEN [songs[t] EXCEPT !.art = TRUE]
                                                     ELSE songs[t]]
    ELSE UNCHANGED <<songs, sleeves>>

\* An UPDATE of song_enrichment finds no row when the song has none; the mutant
\* inserts one.
UpsertRow(s, row) == rows' = [rows EXCEPT ![s] = row]

SetRow(s, row) == rows' = [rows EXCEPT ![s] = IF @.status = "none" THEN @ ELSE row]

-----------------------------------------------------------------------------
(* RunBatch.                                                               *)

\* The mutant does not look at songs that wait for another attempt.
EligibleNew == {s \in Songs : Present(s) /\ ~songs[s].locked /\ rows[s].status = "none"}

Eligible ==
    {s \in Songs : /\ Present(s) /\ ~songs[s].locked
                   /\ \/ rows[s].status = "none"
                      \/ rows[s].status = "retry" /\ rows[s].due}

Before(s, t) == \/ rows[s].attempts < rows[t].attempts
                \/ rows[s].attempts = rows[t].attempts /\ s < t

Rank(s) == Cardinality({t \in Eligible : Before(t, s)})

Selected == [i \in 1 .. Min({Limit, Cardinality(Eligible)}) |->
                CHOOSE s \in Eligible : Rank(s) = i - 1]

\* The mutant forgets the CompareAndSwap.
RunBatchTwice(b) ==
    /\ batch[b].at = "idle"
    /\ running' = TRUE
    /\ batch' = [batch EXCEPT ![b] = [Resting EXCEPT !.at = "next", !.list = Selected]]
    /\ UNCHANGED <<songs, rows, sleeves, edit, requests, lives>>

\* A batch that finds another one running returns at once.
RunBatch(b) ==
    /\ batch[b].at = "idle"
    /\ ~running
    /\ running' = TRUE
    /\ batch' = [batch EXCEPT ![b] = [Resting EXCEPT !.at = "next", !.list = Selected]]
    /\ UNCHANGED <<songs, rows, sleeves, edit, requests, lives>>

BatchDone(b) ==
    /\ batch[b].at = "next"
    /\ batch[b].list = <<>>
    /\ running' = FALSE
    /\ batch' = [batch EXCEPT ![b] = Resting]
    /\ UNCHANGED <<songs, rows, sleeves, edit, requests, lives>>

\* process reads the song; it is gone or locked, or is worked on.
\* The mutant relies on the lock as the batch's query saw it.
WantedAny(song) == song.audio # None

Wanted(song) == song.audio # None /\ ~song.locked

Take(b) ==
    /\ batch[b].at = "next"
    /\ batch[b].list # <<>>
    /\ LET s == Head(batch[b].list)
           rest == [Resting EXCEPT !.at = "next", !.list = Tail(batch[b].list)]
       IN  batch' = [batch EXCEPT ![b] =
                        IF Wanted(songs[s])
                        THEN [rest EXCEPT !.at = "read", !.song = s,
                                     !.audio = songs[s].audio, !.locked = songs[s].locked]
                        ELSE rest]
    /\ UNCHANGED <<songs, rows, sleeves, running, edit, requests, lives>>

\* The row is written and its attempts are read; a deleted song has none.
Mark(b) ==
    LET s == batch[b].song
        n == IF Present(s) THEN rows[s].attempts + 1 ELSE 0
    IN  /\ batch[b].at = "read"
        /\ rows' = IF Present(s)
                   THEN [rows EXCEPT ![s] = [status |-> "processing", attempts |-> n, due |-> FALSE]]
                   ELSE rows
        /\ batch' = [batch EXCEPT ![b].at = "marked", ![b].tries = n]
        /\ UNCHANGED <<songs, sleeves, running, edit, requests, lives>>

OnToNext(b) == batch' = [batch EXCEPT ![b] = [Resting EXCEPT !.at = "next", !.list = batch[b].list]]

\* fail and unmatched; the mutant counts one attempt too few.
GivesUpLate(attempts) == attempts > Attempts

GivesUp(attempts) == attempts >= Attempts

Fail(s) ==
    SetRow(s, [status |-> IF GivesUp(rows[s].attempts) THEN "unmatched" ELSE "retry",
               attempts |-> rows[s].attempts, due |-> FALSE])
Unmatched(s) == SetRow(s, [rows[s] EXCEPT !.status = "unmatched", !.due = FALSE])

\* No usable title, a request that failed, or names that could not be written.
IdentifyFails(b) ==
    /\ batch[b].at = "marked"
    /\ Fail(batch[b].song)
    /\ OnToNext(b)
    /\ UNCHANGED <<songs, sleeves, running, edit, requests, lives>>

\* No candidate has two facts in common with the song.
IdentifyNothing(b) ==
    /\ batch[b].at = "marked"
    /\ Unmatched(batch[b].song)
    /\ OnToNext(b)
    /\ UNCHANGED <<songs, sleeves, running, edit, requests, lives>>

\* The candidate that was found is the recording of the song that was read.
WriteNames(b) ==
    /\ batch[b].at = "marked"
    /\ UpdateSongMetadata(batch[b].song, batch[b].audio)
    /\ batch' = [batch EXCEPT ![b].at = "written"]
    /\ UNCHANGED <<rows, sleeves, running, edit, requests, lives>>

Cover(b) ==
    /\ batch[b].at = "written"
    /\ UpdateSongArtwork(batch[b].song)
    /\ batch' = [batch EXCEPT ![b].at = "covered", ![b].art = TRUE]
    /\ UNCHANGED <<rows, running, edit, requests, lives>>

NoCover(b) ==
    /\ batch[b].at = "written"
    /\ batch' = [batch EXCEPT ![b].at = "covered"]
    /\ UNCHANGED <<songs, rows, sleeves, running, edit, requests, lives>>

\* The mutant does not look for the picture again.
AgainNever(x) == FALSE

AgainForCover(x) == ~x.art /\ x.tries < Attempts

Finish(b) ==
    LET x == batch[b] IN
    /\ x.at = "covered"
    /\ SetRow(x.song, [rows[x.song] EXCEPT !.due = FALSE,
                       !.status = IF AgainForCover(x) THEN "retry" ELSE "complete"])
    /\ OnToNext(b)
    /\ UNCHANGED <<songs, sleeves, running, edit, requests, lives>>

Process(b) == \/ Take(b) \/ Mark(b) \/ IdentifyFails(b) \/ IdentifyNothing(b) \/ WriteNames(b)
              \/ Cover(b) \/ NoCover(b) \/ Finish(b)

-----------------------------------------------------------------------------
(* What happens beside it.                                                 *)

Requested == requests < MaxRequests /\ requests' = requests + 1

DayPasses(s) ==
    /\ rows[s].status = "retry" /\ ~rows[s].due
    /\ rows' = [rows EXCEPT ![s].due = TRUE]
    /\ UNCHANGED <<songs, sleeves, running, batch, edit, requests, lives>>

\* Retry, the page's "Reset and retry questionable matches".
Retry ==
    /\ Requested
    /\ rows' = [s \in Songs |->
                   IF rows[s].status \in {"unmatched", "retry"}
                   THEN [status |-> "retry", attempts |-> 0, due |-> TRUE] ELSE rows[s]]
    /\ UNCHANGED <<songs, sleeves, running, batch, edit, lives>>

\* SQLite gives a new row the highest id in use plus one.
NextId == 1 + Max({0} \cup {s \in Songs : Present(s)})

ImportSong(audio, art) ==
    /\ Requested
    /\ NextId \in Songs
    /\ songs' = [songs EXCEPT ![NextId] = [NoSong EXCEPT !.audio = audio, !.art = art]]
    /\ UNCHANGED <<rows, sleeves, running, batch, edit, lives>>

\* The row of song_enrichment goes with the song, the album with its last song.
DeleteSong(s) ==
    LET a == Album[songs[s].names] IN
    /\ Requested
    /\ Present(s)
    /\ songs' = [songs EXCEPT ![s] = NoSong]
    /\ rows' = [rows EXCEPT ![s] = NoRow]
    /\ sleeves' = IF On(a) = {s} THEN [sleeves EXCEPT ![a] = FALSE] ELSE sleeves
    /\ UNCHANGED <<running, batch, edit, lives>>

SongArtwork(s) ==
    /\ Requested
    /\ Present(s)
    /\ UpdateSongArtwork(s)
    /\ UNCHANGED <<rows, running, batch, edit, lives>>

EditRead(c, s) ==
    /\ Requested
    /\ edit[c].at = "idle" /\ Present(s)
    /\ edit' = [edit EXCEPT ![c] = [at |-> "read", song |-> s]]
    /\ UNCHANGED <<songs, rows, sleeves, running, batch, lives>>

\* RewriteTags works on a copy of the file; when it fails, nothing is saved.
EditFails(c) ==
    /\ edit[c].at = "read"
    /\ edit' = [edit EXCEPT ![c] = NoEdit]
    /\ UNCHANGED <<songs, rows, sleeves, running, batch, requests, lives>>

EditSave(c) ==
    /\ edit[c].at = "read"
    /\ UpdateSongMetadata(edit[c].song, "edited")
    /\ edit' = [edit EXCEPT ![c].at = "saved"]
    /\ UNCHANGED <<rows, sleeves, running, batch, requests, lives>>

LockSongMetadata(c) ==
    /\ edit[c].at = "saved"
    /\ songs' = IF Present(edit[c].song) THEN [songs EXCEPT ![edit[c].song].locked = TRUE] ELSE songs
    /\ edit' = [edit EXCEPT ![c] = NoEdit]
    /\ UNCHANGED <<rows, sleeves, running, batch, requests, lives>>

\* An orderly stop cancels the loop's context, with which every later statement
\* fails, and a death ends the batch just as abruptly; NewEnricher starts afresh.
Restart ==
    /\ lives < MaxLives
    /\ lives' = lives + 1
    /\ running' = FALSE
    /\ batch' = [b \in Runners |-> Resting]
    /\ edit' = [c \in Clients |-> NoEdit]
    /\ UNCHANGED <<songs, rows, sleeves, requests>>

Edit(c) == (\E s \in Songs : EditRead(c, s)) \/ EditFails(c) \/ EditSave(c) \/ LockSongMetadata(c)

Next ==
    \/ \E b \in Runners : RunBatch(b) \/ BatchDone(b) \/ Process(b)
    \/ \E s \in Songs : DayPasses(s) \/ DeleteSong(s) \/ SongArtwork(s)
    \/ \E r \in Recordings, art \in Embedded : ImportSong(r, art)
    \/ \E c \in Clients : Edit(c)
    \/ Retry
    \/ Restart

\* The timer fires every ten minutes, the service answers or fails within its
\* 25 seconds, and days pass.  Nothing makes users act.
Fairness ==
    /\ WF_vars(RunBatch(Loop))
    /\ \A b \in Runners : WF_vars(BatchDone(b) \/ Process(b))
    /\ \A s \in Songs : WF_vars(DayPasses(s))

Spec == Init /\ [][Next]_vars /\ Fairness

-----------------------------------------------------------------------------
(* Properties.                                                             *)

Held(s) == \E b \in Runners : batch[b].song = s /\ batch[b].at \notin {"idle", "next", "read"}
Stranded == {s \in Songs : rows[s].status = "processing" /\ ~Held(s)}

\* Songs, rows and batches have their shape, and a song that is gone has no row.
TypeOK ==
    /\ songs \in [Songs -> SongRow]
    /\ rows \in [Songs -> Row]
    /\ sleeves \in [Albums -> BOOLEAN]
    /\ running \in BOOLEAN
    /\ \A b \in Runners :
          /\ batch[b].at \in BatchStates
          /\ batch[b].list \in Seq(Songs)
          /\ batch[b].song \in Songs \cup {0}
          /\ batch[b].audio \in Recordings \cup {None}
          /\ batch[b].tries \in Nat
          /\ {batch[b].locked, batch[b].art} \subseteq BOOLEAN
    /\ edit \in [Clients -> [at : EditStates, song : Songs \cup {0}]]
    /\ \A s \in Songs : ~Present(s) => rows[s] = NoRow

\* "Failed requests retry up to three times": a song waits for another attempt
\* only while it has had fewer than three, whatever was interrupted, reset,
\* deleted or imported in between.
RetriesBounded == \A s \in Songs : rows[s].status = "retry" => rows[s].attempts < Attempts

\* A song is complete without a picture only after three attempts.
CompleteHasCover ==
    \A s \in Songs : rows[s].status = "complete" => Picture(s) \/ rows[s].attempts >= Attempts

\* Batches do not overlap and hold one song at a time, so a stop leaves at most
\* one song marked as processing behind, in each life.
OneStrandedPerLife == Cardinality(Stranded) < lives

\* The names of a locked song change only under an edit or by a batch that had
\* read the song before the lock.
LockRespected ==
    [][\A s \in Songs : songs[s].locked /\ songs'[s].audio # None /\ songs'[s].names # songs[s].names =>
          \/ \E c \in Clients : edit[c].song = s /\ edit[c].at = "read"
          \/ \E b \in Runners : batch[b].song = s /\ ~batch[b].locked]_vars

\* A song the enricher may work on comes to rest: it is complete or unmatched,
\* or was locked, deleted, or left behind by a stop.
AtRest(s) == \/ ~Present(s) \/ songs[s].locked
             \/ rows[s].status \in {"complete", "unmatched"}
             \/ s \in Stranded
Settles == \A s \in Songs : (s \in Eligible) ~> AtRest(s)

\* Migration 009 says of a song marked as processing when playerd stops that
\* "processing is not a durable state": the song is taken up again.
NothingStranded == \A s \in Songs : (s \in Stranded) ~> (s \notin Stranded)
=============================================================================
