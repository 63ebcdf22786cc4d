--------------------------- MODULE EnrichmentProofs ---------------------------
(***************************************************************************)
(* For any number of runners, songs, edits, requests and lives, and any    *)
(* limit of attempts: a song waits only while it has attempts left, it is  *)
(* complete without a picture only when it has none, a stop strands one    *)
(* song at most, and a lock is respected by every batch that reads the     *)
(* song after it.                                                          *)
(***************************************************************************)
EXTENDS Enrichment, TLAPS, FunctionTheorems, FiniteSetTheorems, WellFoundedInduction

-----------------------------------------------------------------------------
(* The inductive invariant.                                                *)

Batch == [at : BatchStates, list : Seq(Songs), song : Songs \cup {0},
          audio : Recordings \cup {None}, locked : BOOLEAN, tries : Nat, art : BOOLEAN]
EditRow == [at : EditStates, song : Songs \cup {0}]

Types ==
    /\ songs \in [Songs -> SongRow]
    /\ rows \in [Songs -> Row]
    /\ sleeves \in [Albums -> BOOLEAN]
    /\ running \in BOOLEAN
    /\ batch \in [Runners -> Batch]
    /\ edit \in [Clients -> EditRow]
    /\ requests \in Nat /\ lives \in Nat \ {0}

\* A song that is gone has neither lock nor row.
Gone == \A s \in Songs : ~Present(s) => ~songs[s].locked /\ rows[s] = NoRow

\* Runners that are not idle hold the flag, of which there is one.
OneBatch ==
    /\ \A b \in Runners : batch[b].at # "idle" => running
    /\ \A a, b \in Runners : batch[a].at # "idle" /\ batch[b].at # "idle" => a = b

Holds(b) == batch[b].at \in {"marked", "written", "covered"}

\* The row that a batch has marked is as it left it, or went with the song; an
\* edit in progress is of a song.
Marked ==
    \A b \in Runners :
        /\ batch[b].at \in {"read", "marked", "written", "covered"} =>
              batch[b].song \in Songs /\ ~batch[b].locked /\ batch[b].audio \in Recordings
        /\ batch[b].at # "covered" => ~batch[b].art
        /\ Holds(b) =>
              LET row == rows[batch[b].song] IN
              \/ row.status = "none"
              \/ /\ row.status = "processing" /\ row.attempts = batch[b].tries
                 /\ batch[b].art => songs[batch[b].song].art

Edits == \A c \in Clients : edit[c].at # "idle" => edit[c].song \in Songs

\* What the batches leave in the rows.
Waits == \A s \in Songs : rows[s].status = "retry" => rows[s].attempts < Attempts
Ends  == \A s \in Songs : rows[s].status = "complete" =>
             songs[s].art \/ rows[s].attempts >= Attempts

IInv == Types /\ Gone /\ OneBatch /\ Marked /\ Edits /\ Waits /\ Ends

-----------------------------------------------------------------------------
(* The songs of a batch, and the id of a new song.                         *)

LEMMA SongsFinite == IsFiniteSet(Songs) /\ Songs \subseteq Nat /\ 0 \notin Songs
<1>1. IsFiniteSet(1 .. MaxSong)
  BY FS_Interval, EnrichmentAssumption
<1> QED
  BY <1>1, EnrichmentAssumption DEF Songs

LEMMA EligibleFinite == IsFiniteSet(Eligible) /\ Eligible \subseteq Songs
<1>1. Eligible \in SUBSET Songs
  BY DEF Eligible
<1> QED
  BY <1>1, SongsFinite, FS_Subset

\* Before orders the songs, so that each has a rank of its own and every rank
\* below their number is one's.
LEMMA RanksApart ==
  ASSUME rows \in [Songs -> Row], NEW s \in Eligible, NEW t \in Eligible, Before(s, t)
  PROVE  Rank(s) < Rank(t)
<1> DEFINE S == {u \in Eligible : Before(u, s)}
           T == {u \in Eligible : Before(u, t)}
<1>1. \A u \in Eligible : rows[u].attempts \in Nat /\ u \in Nat
  BY EligibleFinite, SongsFinite DEF Row
<1>2. S \in SUBSET T /\ s \in T /\ s \notin S
  BY <1>1 DEF Before
<1>3. T \in SUBSET Eligible
  OBVIOUS
<1>4. IsFiniteSet(T) /\ Cardinality(T) \in Nat
  BY <1>3, EligibleFinite, FS_Subset, FS_CardinalityType
<1> HIDE DEF S, T
<1>5. IsFiniteSet(S) /\ Cardinality(S) \in Nat
  BY <1>2, <1>4, FS_Subset, FS_CardinalityType
<1>6. Cardinality(S) <= Cardinality(T) /\ Cardinality(S) # Cardinality(T)
  BY <1>2, <1>4, FS_Subset
<1> QED
  BY <1>4, <1>5, <1>6 DEF Rank, S, T

LEMMA RankType ==
  ASSUME rows \in [Songs -> Row], NEW s \in Eligible
  PROVE  Rank(s) \in 0 .. Cardinality(Eligible) - 1
<1> DEFINE S == {u \in Eligible : Before(u, s)}
<1>1. S \in SUBSET Eligible
  OBVIOUS
<1>2. ~ Before(s, s)
  BY EligibleFinite, SongsFinite DEF Before, Row
<1>3. s \notin S
  BY <1>2
<1> HIDE DEF S
<1>4. IsFiniteSet(S) /\ Cardinality(S) \in Nat /\ Cardinality(Eligible) \in Nat
  BY <1>1, EligibleFinite, FS_Subset, FS_CardinalityType
<1>5. Cardinality(S) <= Cardinality(Eligible) /\ Cardinality(S) # Cardinality(Eligible)
  BY <1>1, <1>3, EligibleFinite, FS_Subset
<1> QED
  BY <1>4, <1>5 DEF Rank, S

LEMMA EveryRankTaken ==
  ASSUME rows \in [Songs -> Row], NEW i \in 1 .. Cardinality(Eligible)
  PROVE  \E s \in Eligible : Rank(s) = i - 1
<1> DEFINE n == Cardinality(Eligible)
           R == 0 .. n - 1
           rank == [s \in Eligible |-> Rank(s)]
<1>1. n \in Nat
  BY EligibleFinite, FS_CardinalityType
<1>2. IsFiniteSet(R) /\ Cardinality(R) = n
  <2> HIDE DEF n
  <2>1. IsFiniteSet(R) /\ Cardinality(R) = IF 0 > n - 1 THEN 0 ELSE (n - 1) - 0 + 1
    BY <1>1, FS_Interval
  <2> QED
    BY <1>1, <2>1
<1>3. rank \in [Eligible -> R]
  BY RankType
<1>4. ASSUME NEW s \in Eligible, NEW t \in Eligible, rank[s] = rank[t] PROVE s = t
  <2>1. \A u \in Eligible : rows[u].attempts \in Nat /\ u \in Nat
    BY EligibleFinite, SongsFinite DEF Row
  <2>2. s # t => Before(s, t) \/ Before(t, s)
    BY <2>1 DEF Before
  <2>3. Rank(s) = Rank(t) /\ Rank(s) \in Nat /\ Rank(t) \in Nat
    BY <1>1, <1>4, RankType
  <2> QED
    BY <2>2, <2>3, RanksApart
<1>5. rank \in Injection(Eligible, R)
  BY <1>3, <1>4 DEF Injection, IsInjective
<1> HIDE DEF rank, R
<1>6. rank \in Surjection(Eligible, R)
  BY <1>2, <1>5, FS_Injection
<1>7. i - 1 \in R
  BY <1>1 DEF R
<1>8. \E s \in Eligible : rank[s] = i - 1
  BY <1>6, <1>7 DEF Surjection
<1> QED
  BY <1>8 DEF rank

LEMMA SelectedType ==
  ASSUME rows \in [Songs -> Row]
  PROVE  Selected \in Seq(Songs)
<1> DEFINE n == Cardinality(Eligible)
           m == Min({Limit, n})
<1>1. n \in Nat /\ Limit \in Nat
  BY EligibleFinite, FS_CardinalityType, EnrichmentAssumption
<1>2. m \in Nat /\ m <= n
  <2>1. \E x \in {Limit, n} : \A y \in {Limit, n} : x <= y
    BY <1>1
  <2>2. m \in {Limit, n} /\ \A y \in {Limit, n} : m <= y
    BY <2>1 DEF Min
  <2> QED
    BY <1>1, <2>2
<1>3. ASSUME NEW i \in 1 .. m
      PROVE  (CHOOSE s \in Eligible : Rank(s) = i - 1) \in Songs
  <2>1. i \in 1 .. n
    BY <1>1, <1>2
  <2>2. \E s \in Eligible : Rank(s) = i - 1
    BY <2>1, EveryRankTaken
  <2> QED
    BY <2>2, EligibleFinite
<1> HIDE DEF m
<1>4. [i \in 1 .. m |-> CHOOSE s \in Eligible : Rank(s) = i - 1] \in Seq(Songs)
  BY <1>2, <1>3
<1> QED
  BY <1>4 DEF Selected, m

LEMMA MaxExists ==
  ASSUME NEW n \in Nat, NEW S \in SUBSET (0 .. n), S # {}
  PROVE  Max(S) \in S /\ \A y \in S : y <= Max(S)
<1> DEFINE R == OpToRel(<, Nat)
           T == {n - y : y \in S}
<1>0. \A y \in S : y \in Nat /\ y <= n /\ n - y \in Nat
  OBVIOUS
<1>1. T \in SUBSET Nat /\ T # {}
  BY <1>0
<1>2. PICK x \in T : \A y \in T : ~ (<<y, x>> \in R)
  <2>1. IsWellFoundedOn(R, Nat)
    BY NatLessThanWellFounded
  <2> HIDE DEF R, T
  <2> QED
    BY <1>1, <2>1, WFMin
<1>3. PICK z \in S : x = n - z
  OBVIOUS
<1>4. ASSUME NEW y \in S PROVE y <= z
  <2>1. ~ (n - y < n - z)
    BY <1>0, <1>2, <1>3 DEF OpToRel
  <2> QED
    BY <1>0, <2>1
<1> QED
  BY <1>4 DEF Max

LEMMA NextIdIsFree ==
  ASSUME NextId \in Songs
  PROVE  ~ Present(NextId)
<1> DEFINE S == {0} \cup {s \in Songs : Present(s)}
<1>1. S \in SUBSET (0 .. MaxSong) /\ S # {}
  BY EnrichmentAssumption DEF Songs
<1> HIDE DEF S
<1>2. Max(S) \in S /\ \A y \in S : y <= Max(S)
  <2>1. MaxSong \in Nat
    BY EnrichmentAssumption
  <2> QED
    BY <1>1, <2>1, MaxExists
<1>3. S \subseteq Nat
  BY <1>1
<1>4. 1 + Max(S) \notin S
  <2>1. PICK m \in Nat : m = Max(S)
    BY <1>2, <1>3
  <2>2. \A y \in S : y <= m
    BY <1>2, <2>1
  <2>3. 1 + m \notin S
    BY <2>2
  <2> QED
    BY <2>1, <2>3
<1> QED
  BY <1>4 DEF S, NextId

-----------------------------------------------------------------------------
(* What the statements leave.                                              *)

LEMMA InvariantInit == Init => IInv
<1> SUFFICES ASSUME Init PROVE IInv
  OBVIOUS
<1> USE EnrichmentAssumption
<1>1. NoSong \in SongRow /\ NoRow \in Row /\ Resting \in Batch /\ NoEdit \in EditRow
  BY DEF NoSong, SongRow, Names, NoRow, Row, Statuses, Resting, Batch, BatchStates,
         NoEdit, EditRow, EditStates
<1>2. Types
  <2>1. songs \in [Songs -> SongRow] /\ rows \in [Songs -> Row] /\ sleeves \in [Albums -> BOOLEAN]
    BY <1>1 DEF Init
  <2>2. batch \in [Runners -> Batch] /\ edit \in [Clients -> EditRow]
    BY <1>1 DEF Init
  <2>3. running \in BOOLEAN
    BY DEF Init
  <2>4. requests \in Nat /\ lives \in Nat \ {0}
    BY DEF Init
  <2> QED
    BY <2>1, <2>2, <2>3, <2>4 DEF Types
<1>3. Gone /\ OneBatch /\ Marked /\ Edits /\ Waits /\ Ends
  BY DEF Init, NoSong, NoRow, Resting, NoEdit, Gone, OneBatch, Marked, Holds, Edits, Waits, Ends
<1> QED
  BY <1>2, <1>3 DEF IInv

\* The fields of the song that the statements on names and pictures leave alone.
LEMMA NamesUpdated ==
  ASSUME Types, NEW s \in Songs, NEW names \in Names, UpdateSongMetadata(s, names)
  PROVE  /\ songs' \in [Songs -> SongRow]
         /\ \A t \in Songs : /\ songs'[t].audio = songs[t].audio
                             /\ songs'[t].locked = songs[t].locked
                             /\ songs'[t].art = songs[t].art
                             /\ t # s => songs'[t] = songs[t]
<1>1. CASE Present(s)
  <2>1. songs[s] \in SongRow
    BY DEF Types
  <2> DEFINE new == [songs[s] EXCEPT !.names = names]
  <2>2. new \in SongRow /\ new.audio = songs[s].audio /\ new.locked = songs[s].locked
        /\ new.art = songs[s].art
    BY <2>1 DEF SongRow
  <2>3. songs' = [songs EXCEPT ![s] = new]
    BY <1>1 DEF UpdateSongMetadata, Types
  <2> HIDE DEF new
  <2>4. \A t \in Songs : songs'[t] = IF t = s THEN new ELSE songs[t]
    BY <2>3 DEF Types
  <2> QED
    BY <2>2, <2>3, <2>4 DEF Types
<1>2. CASE ~ Present(s)
  BY <1>2 DEF UpdateSongMetadata, Types
<1> QED
  BY <1>1, <1>2

LEMMA ArtworkUpdated ==
  ASSUME Types, NEW s \in Songs, UpdateSongArtwork(s)
  PROVE  /\ songs' \in [Songs -> SongRow]
         /\ sleeves' \in [Albums -> BOOLEAN]
         /\ \A t \in Songs : /\ songs'[t].audio = songs[t].audio
                             /\ songs'[t].locked = songs[t].locked
                             /\ songs'[t].names = songs[t].names
                             /\ songs[t].art => songs'[t].art
         /\ Present(s) => songs'[s].art
<1>1. CASE Present(s)
  <2> DEFINE a == Album[songs[s].names]
             new(t) == [songs[t] EXCEPT !.art = TRUE]
  <2>1. ASSUME NEW t \in Songs
        PROVE  /\ new(t) \in SongRow /\ new(t).audio = songs[t].audio
               /\ new(t).locked = songs[t].locked /\ new(t).names = songs[t].names
               /\ new(t).art
    <3>1. songs[t] \in SongRow
      BY DEF Types
    <3> QED
      BY <3>1 DEF SongRow
  <2>2. songs' = [t \in Songs |-> IF t \in On(a) THEN new(t) ELSE songs[t]]
    BY <1>1 DEF UpdateSongArtwork
  <2>3. s \in On(a)
    BY <1>1 DEF On
  <2>4. sleeves' \in [Albums -> BOOLEAN]
    BY <1>1 DEF UpdateSongArtwork, Types
  <2> HIDE DEF new, a
  <2>5. \A t \in Songs : songs'[t] = new(t) \/ songs'[t] = songs[t]
    BY <2>2
  <2>6. songs'[s] = new(s)
    BY <2>2, <2>3
  <2>7. songs' \in [Songs -> SongRow]
    BY <2>1, <2>2 DEF Types
  <2> QED
    BY <2>1, <2>4, <2>5, <2>6, <2>7
<1>2. CASE ~ Present(s)
  BY <1>2 DEF UpdateSongArtwork, Types
<1> QED
  BY <1>1, <1>2

LEMMA RowSet ==
  ASSUME Types, NEW s \in Songs, NEW row \in Row, SetRow(s, row)
  PROVE  /\ rows' \in [Songs -> Row]
         /\ rows'[s] = IF rows[s].status = "none" THEN rows[s] ELSE row
         /\ \A t \in Songs : t # s => rows'[t] = rows[t]
BY DEF SetRow, Types

LEMMA BatchUpdated ==
  ASSUME Types, NEW b \in Runners, NEW x \in Batch, batch' = [batch EXCEPT ![b] = x]
  PROVE  /\ batch' \in [Runners -> Batch]
         /\ batch'[b] = x
         /\ \A a \in Runners : a # b => batch'[a] = batch[a]
BY DEF Types

-----------------------------------------------------------------------------
(* The steps of a batch.                                                   *)

NextWith(list) == [Resting EXCEPT !.at = "next", !.list = list]

LEMMA NextWithIs ==
  ASSUME NEW list \in Seq(Songs)
  PROVE  /\ NextWith(list) \in Batch /\ NextWith(list).list = list
         /\ NextWith(list).at = "next" /\ ~ NextWith(list).art
<1>1. Resting \in Batch /\ ~ Resting.art
  BY DEF Resting, Batch, BatchStates
<1>2. NextWith(list).art = Resting.art
  BY <1>1 DEF NextWith, Batch
<1> QED
  BY <1>1, <1>2 DEF NextWith, Batch, BatchStates

LEMMA RestingIs == Resting \in Batch /\ Resting.at = "idle" /\ ~ Resting.art
BY DEF Resting, Batch, BatchStates

\* A batch that goes on to its next song, or ends, holds no row.
LEMMA BatchMoves ==
  ASSUME IInv, NEW b \in Runners, NEW x \in Batch, batch' = [batch EXCEPT ![b] = x],
         x.at \in {"idle", "next"}, ~ x.art, running' \in BOOLEAN,
         \/ batch[b].at # "idle" /\ x.at # "idle" /\ running' = running
         \/ batch[b].at = "idle" /\ ~ running /\ running'
         \/ batch[b].at # "idle" /\ x.at = "idle"
  PROVE  /\ batch' \in [Runners -> Batch] /\ OneBatch'
         /\ \A a \in Runners : batch'[a].at \in {"idle", "next"} /\ ~ batch'[a].art
<1>1. /\ batch' \in [Runners -> Batch]
      /\ batch'[b] = x
      /\ \A a \in Runners : a # b => batch'[a] = batch[a]
  BY BatchUpdated DEF IInv
<1>2. \A a \in Runners : a # b => batch[a].at = "idle" /\ ~ batch[a].art
  BY DEF IInv, OneBatch, Marked
<1>3. \A a \in Runners : batch'[a].at \in {"idle", "next"} /\ ~ batch'[a].art
  BY <1>1, <1>2
<1>4. \A a \in Runners : batch'[a].at # "idle" => a = b /\ x.at # "idle"
  BY <1>1, <1>2
<1>5. x.at # "idle" => running'
  BY DEF IInv, OneBatch
<1> QED
  BY <1>1, <1>3, <1>4, <1>5 DEF OneBatch

LEMMA RunBatchKeeps ==
  ASSUME IInv, NEW b \in Runners, RunBatch(b) \/ BatchDone(b)
  PROVE  IInv'
<1>1. CASE RunBatch(b)
  <2> DEFINE x == NextWith(Selected)
  <2>1. Selected \in Seq(Songs)
    BY SelectedType DEF IInv, Types
  <2>2. x \in Batch /\ x.at = "next" /\ ~ x.art
    BY <2>1, NextWithIs
  <2>3. batch' = [batch EXCEPT ![b] = x] /\ batch[b].at = "idle" /\ ~ running /\ running'
        /\ running' = TRUE
    BY <1>1 DEF RunBatch, NextWith
  <2> HIDE DEF x
  <2>4. /\ batch' \in [Runners -> Batch] /\ OneBatch'
        /\ \A a \in Runners : batch'[a].at \in {"idle", "next"} /\ ~ batch'[a].art
    BY <2>2, <2>3, BatchMoves
  <2>5. UNCHANGED <<songs, rows, sleeves, edit, requests, lives>>
    BY <1>1 DEF RunBatch
  <2> QED
    BY <2>3, <2>4, <2>5
    DEF IInv, Types, Gone, Present, Marked, Holds, Edits, Waits, Ends
<1>2. CASE BatchDone(b)
  <2>1. batch' = [batch EXCEPT ![b] = Resting] /\ batch[b].at = "next" /\ running' = FALSE
    BY <1>2 DEF BatchDone
  <2>2. /\ batch' \in [Runners -> Batch] /\ OneBatch'
        /\ \A a \in Runners : batch'[a].at \in {"idle", "next"} /\ ~ batch'[a].art
    BY <2>1, RestingIs, BatchMoves
  <2>3. UNCHANGED <<songs, rows, sleeves, edit, requests, lives>>
    BY <1>2 DEF BatchDone
  <2> QED
    BY <2>1, <2>2, <2>3
    DEF IInv, Types, Gone, Present, Marked, Holds, Edits, Waits, Ends
<1> QED
  BY <1>1, <1>2

LEMMA TakeKeeps ==
  ASSUME IInv, NEW b \in Runners, Take(b)
  PROVE  IInv'
<1> DEFINE s == Head(batch[b].list)
           rest == NextWith(Tail(batch[b].list))
           took == [rest EXCEPT !.at = "read", !.song = s, !.audio = songs[s].audio,
                                !.locked = songs[s].locked]
           x == IF Wanted(songs[s]) THEN took ELSE rest
<1>1. batch[b].list \in Seq(Songs) /\ batch[b].list # <<>> /\ batch[b].at = "next"
  BY DEF Take, IInv, Types, Batch
<1>2. s \in Songs /\ Tail(batch[b].list) \in Seq(Songs)
  BY <1>1
<1>3. rest \in Batch /\ rest.at = "next" /\ ~ rest.art
  BY <1>2, NextWithIs
<1>4. songs[s] \in SongRow
  BY <1>2 DEF IInv, Types
<1> HIDE DEF s, rest
<1>5. /\ took \in Batch /\ took.at = "read" /\ took.song = s /\ took.audio = songs[s].audio
      /\ took.locked = songs[s].locked /\ took.art = rest.art
  BY <1>2, <1>3, <1>4 DEF Batch, SongRow, BatchStates
<1> HIDE DEF took
<1>6. /\ x \in Batch /\ x.at \in {"next", "read"} /\ ~ x.art
      /\ x.at = "read" => x.song \in Songs /\ ~ x.locked /\ x.audio \in Recordings
  BY <1>2, <1>3, <1>4, <1>5 DEF Wanted, SongRow
<1>7. batch' = [batch EXCEPT ![b] = x]
  BY DEF Take, s, rest, took, NextWith
<1> HIDE DEF x
<1>8. /\ batch' \in [Runners -> Batch] /\ batch'[b] = x
      /\ \A a \in Runners : a # b => batch'[a] = batch[a]
  BY <1>6, <1>7, BatchUpdated DEF IInv
<1>9. UNCHANGED <<songs, rows, sleeves, running, edit, requests, lives>>
  BY DEF Take
<1>10. OneBatch'
  BY <1>1, <1>8, <1>9 DEF IInv, OneBatch
<1>11. Marked'
  BY <1>6, <1>8, <1>9 DEF IInv, Marked, Holds
<1> QED
  BY <1>8, <1>9, <1>10, <1>11 DEF IInv, Types, Gone, Present, Edits, Waits, Ends

\* What a batch at its song knows.
LEMMA AtSong ==
  ASSUME IInv, NEW b \in Runners, batch[b].at \in {"read", "marked", "written", "covered"}
  PROVE  /\ batch[b].song \in Songs /\ batch[b].audio \in Recordings /\ ~ batch[b].locked
         /\ running /\ \A a \in Runners : a # b => batch[a].at = "idle"
         /\ batch[b] \in Batch /\ rows[batch[b].song] \in Row
         /\ songs[batch[b].song] \in SongRow
BY DEF IInv, Types, Marked, OneBatch

\* A batch that stays at its song, whose row is as the batch leaves it.
LEMMA StaysAtSong ==
  ASSUME IInv, NEW b \in Runners, batch[b].at \in {"read", "marked", "written"},
         NEW x \in Batch, batch' = [batch EXCEPT ![b] = x], UNCHANGED running,
         x.at \in {"marked", "written", "covered"}, x.at # "covered" => ~ x.art,
         x.song = batch[b].song, x.audio = batch[b].audio, x.locked = batch[b].locked,
         \/ rows'[x.song].status = "none"
         \/ /\ rows'[x.song].status = "processing" /\ rows'[x.song].attempts = x.tries
            /\ x.art => songs'[x.song].art
  PROVE  batch' \in [Runners -> Batch] /\ OneBatch' /\ Marked'
<1>1. /\ batch' \in [Runners -> Batch] /\ batch'[b] = x
      /\ \A a \in Runners : a # b => batch'[a] = batch[a]
  BY BatchUpdated DEF IInv
<1>2. /\ x.song \in Songs /\ x.audio \in Recordings /\ ~ x.locked
      /\ \A a \in Runners : a # b => batch[a].at = "idle" /\ ~ batch[a].art
  BY AtSong DEF IInv, Marked
<1>3. OneBatch'
  BY <1>1 DEF IInv, OneBatch
<1>4. ASSUME NEW a \in Runners, a # b
      PROVE  batch'[a].at = "idle" /\ ~ batch'[a].art
  BY <1>1, <1>2, <1>4
<1>5. Marked'
  BY <1>1, <1>2, <1>4 DEF Marked, Holds
<1> QED
  BY <1>1, <1>3, <1>5

LEMMA MarkKeeps ==
  ASSUME IInv, NEW b \in Runners, Mark(b)
  PROVE  IInv'
<1> DEFINE s == batch[b].song
           n == IF Present(s) THEN rows[s].attempts + 1 ELSE 0
           row == [status |-> "processing", attempts |-> n, due |-> FALSE]
           x == [batch[b] EXCEPT !.at = "marked", !.tries = n]
<1>1. /\ s \in Songs /\ batch[b].audio \in Recordings /\ ~ batch[b].locked
      /\ \A a \in Runners : a # b => batch[a].at = "idle"
      /\ batch[b] \in Batch /\ rows[s] \in Row
  BY AtSong DEF Mark
<1>2. n \in Nat
  BY <1>1 DEF Row
<1>3. /\ rows' = IF Present(s) THEN [rows EXCEPT ![s] = row] ELSE rows
      /\ batch' = [batch EXCEPT ![b].at = "marked", ![b].tries = n]
      /\ UNCHANGED <<songs, sleeves, running, edit, requests, lives>>
      /\ batch[b].at = "read"
  BY DEF Mark
<1> HIDE DEF s, n
<1>4. row \in Row /\ row.status = "processing" /\ row.attempts = n
  BY <1>2 DEF Row, Statuses
<1>5. /\ x \in Batch /\ x.at = "marked" /\ x.tries = n /\ x.song = s
      /\ x.audio = batch[b].audio /\ x.locked = batch[b].locked /\ x.art = batch[b].art
  BY <1>1, <1>2 DEF Batch, BatchStates, s
<1>6. batch' = [batch EXCEPT ![b] = x]
  BY <1>3 DEF IInv, Types
<1> HIDE DEF row, x
<1>8. /\ rows' \in [Songs -> Row]
      /\ Present(s) => rows'[s] = row
      /\ ~ Present(s) => rows'[s] = rows[s] /\ rows[s].status = "none"
      /\ \A t \in Songs : t # s => rows'[t] = rows[t]
  BY <1>1, <1>3, <1>4 DEF IInv, Types, Gone, NoRow
<1>9. ~ x.art
  BY <1>3, <1>5 DEF IInv, Marked
<1>10. batch' \in [Runners -> Batch] /\ OneBatch' /\ Marked'
  <2>1. \/ rows'[x.song].status = "none"
        \/ rows'[x.song].status = "processing" /\ rows'[x.song].attempts = x.tries
    BY <1>4, <1>5, <1>8
  <2>2. x.song = batch[b].song
    BY <1>5 DEF s
  <2> QED
    BY <1>3, <1>5, <1>6, <1>9, <2>1, <2>2, StaysAtSong
<1>11. Gone'
  BY <1>3, <1>8 DEF IInv, Gone, Present
<1>12. Waits' /\ Ends'
  BY <1>3, <1>4, <1>8 DEF IInv, Waits, Ends
<1> QED
  BY <1>3, <1>8, <1>10, <1>11, <1>12 DEF IInv, Types, Edits

\* A batch that leaves its song with the row it had, or with a new one that
\* neither waits beyond the attempts nor is complete without reason.
LEMMA ToNextKeeps ==
  ASSUME IInv, NEW b \in Runners, Holds(b), NEW row \in Row,
         SetRow(batch[b].song, row), OnToNext(b),
         UNCHANGED <<songs, sleeves, running, edit, requests, lives>>,
         rows[batch[b].song].status # "none" =>
            /\ row.status = "retry" => row.attempts < Attempts
            /\ row.status = "complete" => songs[batch[b].song].art \/ row.attempts >= Attempts
  PROVE  IInv'
<1> DEFINE s == batch[b].song
           x == NextWith(batch[b].list)
<1>1. s \in Songs /\ batch[b].list \in Seq(Songs)
  BY AtSong DEF Holds, Batch
<1>2. x \in Batch /\ x.at = "next" /\ ~ x.art
  BY <1>1, NextWithIs
<1>3. batch' = [batch EXCEPT ![b] = x]
  BY DEF OnToNext, NextWith
<1>4. /\ rows' \in [Songs -> Row]
      /\ rows'[s] = IF rows[s].status = "none" THEN rows[s] ELSE row
      /\ \A t \in Songs : t # s => rows'[t] = rows[t]
  BY <1>1, RowSet DEF IInv
<1> HIDE DEF x
<1>5. /\ batch' \in [Runners -> Batch] /\ OneBatch'
      /\ \A a \in Runners : batch'[a].at \in {"idle", "next"} /\ ~ batch'[a].art
  <2>1. batch[b].at # "idle" /\ running' \in BOOLEAN
    BY DEF Holds, IInv, Types
  <2> QED
    BY <1>2, <1>3, <2>1, BatchMoves
<1>6. Marked'
  BY <1>5 DEF Marked, Holds
<1>7. Gone'
  BY <1>1, <1>4 DEF IInv, Gone, Present, NoRow
<1>8. Waits' /\ Ends'
  BY <1>1, <1>4 DEF IInv, Waits, Ends
<1> QED
  BY <1>4, <1>5, <1>6, <1>7, <1>8 DEF IInv, Types, Edits

LEMMA IdentifyKeeps ==
  ASSUME IInv, NEW b \in Runners, IdentifyFails(b) \/ IdentifyNothing(b)
  PROVE  IInv'
<1> DEFINE s == batch[b].song
<1>1. Holds(b) /\ OnToNext(b) /\ UNCHANGED <<songs, sleeves, running, edit, requests, lives>>
  BY DEF IdentifyFails, IdentifyNothing, Holds
<1>2. rows[s] \in Row
  BY <1>1, AtSong DEF Holds
<1>3. CASE IdentifyFails(b)
  <2> DEFINE row == [status |-> IF GivesUp(rows[s].attempts) THEN "unmatched" ELSE "retry",
                     attempts |-> rows[s].attempts, due |-> FALSE]
  <2>1. row \in Row /\ row.attempts = rows[s].attempts
    BY <1>2 DEF Row, Statuses
  <2>2. row.status = IF rows[s].attempts >= Attempts THEN "unmatched" ELSE "retry"
    BY DEF GivesUp
  <2>3. rows[s].attempts \in Nat /\ Attempts \in Nat
    BY <1>2, EnrichmentAssumption DEF Row
  <2>4. SetRow(s, row)
    BY <1>3 DEF IdentifyFails, Fail
  <2> HIDE DEF row
  <2>5. /\ row.status = "retry" => row.attempts < Attempts
        /\ row.status # "complete"
    BY <2>1, <2>2, <2>3
  <2> QED
    BY <1>1, <2>1, <2>4, <2>5, ToNextKeeps
<1>4. CASE IdentifyNothing(b)
  <2> DEFINE row == [rows[s] EXCEPT !.status = "unmatched", !.due = FALSE]
  <2>1. row \in Row /\ row.status = "unmatched"
    BY <1>2 DEF Row, Statuses
  <2>2. SetRow(s, row)
    BY <1>4 DEF IdentifyNothing, Unmatched
  <2> HIDE DEF row
  <2> QED
    BY <1>1, <2>1, <2>2, ToNextKeeps
<1> QED
  BY <1>3, <1>4

\* The batch knows the attempts of the row and whether there is a picture.
LEMMA FinishKeeps ==
  ASSUME IInv, NEW b \in Runners, Finish(b)
  PROVE  IInv'
<1> DEFINE s == batch[b].song
           row == [rows[s] EXCEPT !.due = FALSE,
                      !.status = IF AgainForCover(batch[b]) THEN "retry" ELSE "complete"]
<1>1. Holds(b) /\ OnToNext(b) /\ UNCHANGED <<songs, sleeves, running, edit, requests, lives>>
  BY DEF Finish, Holds
<1>2. rows[s] \in Row /\ batch[b] \in Batch
  BY <1>1, AtSong DEF Holds
<1>3. /\ row \in Row /\ row.attempts = rows[s].attempts
      /\ row.status = IF AgainForCover(batch[b]) THEN "retry" ELSE "complete"
  BY <1>2 DEF Row, Statuses
<1>4. SetRow(s, row)
  BY DEF Finish
<1> HIDE DEF row
<1>5. rows[s].status # "none" =>
         /\ rows[s].attempts = batch[b].tries
         /\ batch[b].art => songs[s].art
  BY <1>1 DEF IInv, Marked
<1>6. batch[b].tries \in Nat /\ Attempts \in Nat
  BY <1>2, EnrichmentAssumption DEF Batch
<1>7. AgainForCover(batch[b]) \/ batch[b].art \/ batch[b].tries >= Attempts
  BY <1>6 DEF AgainForCover
<1>8. rows[s].status # "none" =>
         /\ row.status = "retry" => row.attempts < Attempts
         /\ row.status = "complete" => songs[s].art \/ row.attempts >= Attempts
  BY <1>3, <1>5, <1>6, <1>7 DEF AgainForCover
<1> QED
  BY <1>1, <1>3, <1>4, <1>8, ToNextKeeps

LEMMA WriteNamesKeeps ==
  ASSUME IInv, NEW b \in Runners, WriteNames(b)
  PROVE  IInv'
<1> DEFINE s == batch[b].song
           x == [batch[b] EXCEPT !.at = "written"]
<1>1. /\ batch[b].at = "marked" /\ batch' = [batch EXCEPT ![b].at = "written"]
      /\ UNCHANGED <<rows, sleeves, running, edit, requests, lives>>
      /\ UpdateSongMetadata(s, batch[b].audio)
  BY DEF WriteNames
<1>2. s \in Songs /\ batch[b].audio \in Names /\ batch[b] \in Batch
  BY <1>1, AtSong DEF Names
<1>3. /\ songs' \in [Songs -> SongRow]
      /\ \A t \in Songs : /\ songs'[t].audio = songs[t].audio
                          /\ songs'[t].locked = songs[t].locked
                          /\ songs'[t].art = songs[t].art
  BY <1>1, <1>2, NamesUpdated DEF IInv
<1>4. /\ x \in Batch /\ x.at = "written" /\ x.song = s /\ x.tries = batch[b].tries
      /\ x.audio = batch[b].audio /\ x.locked = batch[b].locked /\ x.art = batch[b].art
  BY <1>2 DEF Batch, BatchStates
<1>5. batch' = [batch EXCEPT ![b] = x]
  BY <1>1 DEF IInv, Types
<1> HIDE DEF x
<1>6. batch' \in [Runners -> Batch] /\ OneBatch' /\ Marked'
  <2>1. ~ x.art
    BY <1>1, <1>4 DEF IInv, Marked
  <2>2. \/ rows'[x.song].status = "none"
        \/ rows'[x.song].status = "processing" /\ rows'[x.song].attempts = x.tries
    BY <1>1, <1>4 DEF IInv, Marked, Holds
  <2> QED
    BY <1>1, <1>4, <1>5, <2>1, <2>2, StaysAtSong
<1>7. Gone' /\ Waits' /\ Ends'
  BY <1>1, <1>3 DEF IInv, Gone, Present, Waits, Ends
<1> QED
  BY <1>1, <1>3, <1>6, <1>7 DEF IInv, Types, Edits

LEMMA CoverKeeps ==
  ASSUME IInv, NEW b \in Runners, Cover(b) \/ NoCover(b)
  PROVE  IInv'
<1> DEFINE s == batch[b].song
           found == [batch[b] EXCEPT !.at = "covered", !.art = TRUE]
           missing == [batch[b] EXCEPT !.at = "covered"]
<1>1. batch[b].at = "written" /\ UNCHANGED <<rows, running, edit, requests, lives>>
  BY DEF Cover, NoCover
<1>2. s \in Songs /\ batch[b] \in Batch
  BY <1>1, AtSong
<1>3. \/ rows'[s].status = "none"
      \/ rows'[s].status = "processing" /\ rows'[s].attempts = batch[b].tries
  BY <1>1 DEF IInv, Marked, Holds
<1>4. CASE Cover(b)
  <2>1. /\ songs' \in [Songs -> SongRow] /\ sleeves' \in [Albums -> BOOLEAN]
        /\ \A t \in Songs : /\ songs'[t].audio = songs[t].audio
                            /\ songs'[t].locked = songs[t].locked
                            /\ songs[t].art => songs'[t].art
        /\ Present(s) => songs'[s].art
    BY <1>2, <1>4, ArtworkUpdated DEF Cover, IInv
  <2>2. /\ found \in Batch /\ found.at = "covered" /\ found.song = s
        /\ found.tries = batch[b].tries /\ found.audio = batch[b].audio
        /\ found.locked = batch[b].locked
    BY <1>2 DEF Batch, BatchStates
  <2>3. batch' = [batch EXCEPT ![b] = found]
    BY <1>4 DEF Cover, IInv, Types
  <2>4. rows[s].status # "none" => Present(s)
    BY <1>2 DEF IInv, Gone, NoRow
  <2> HIDE DEF found
  <2>5. batch' \in [Runners -> Batch] /\ OneBatch' /\ Marked'
    <3>1. \/ rows'[found.song].status = "none"
          \/ /\ rows'[found.song].status = "processing"
             /\ rows'[found.song].attempts = found.tries
             /\ songs'[found.song].art
      BY <1>1, <1>3, <2>1, <2>2, <2>4
    <3> QED
      BY <1>1, <2>2, <2>3, <3>1, StaysAtSong
  <2>6. Gone' /\ Waits' /\ Ends'
    BY <1>1, <2>1 DEF IInv, Gone, Present, Waits, Ends
  <2> QED
    BY <1>1, <2>1, <2>5, <2>6 DEF IInv, Types, Edits
<1>5. CASE NoCover(b)
  <2>1. /\ missing \in Batch /\ missing.at = "covered" /\ missing.song = s
        /\ missing.tries = batch[b].tries /\ missing.audio = batch[b].audio
        /\ missing.locked = batch[b].locked /\ missing.art = batch[b].art
    BY <1>2 DEF Batch, BatchStates
  <2>2. batch' = [batch EXCEPT ![b] = missing] /\ UNCHANGED <<songs, sleeves>>
    BY <1>5 DEF NoCover, IInv, Types
  <2> HIDE DEF missing
  <2>3. ~ missing.art
    BY <1>1, <2>1 DEF IInv, Marked
  <2>4. batch' \in [Runners -> Batch] /\ OneBatch' /\ Marked'
    BY <1>1, <1>3, <2>1, <2>2, <2>3, StaysAtSong
  <2> QED
    BY <1>1, <2>2, <2>4 DEF IInv, Types, Gone, Present, Edits, Waits, Ends
<1> QED
  BY <1>4, <1>5

LEMMA BatchKeeps ==
  ASSUME IInv, NEW b \in Runners, RunBatch(b) \/ BatchDone(b) \/ Process(b)
  PROVE  IInv'
BY RunBatchKeeps, TakeKeeps, MarkKeeps, IdentifyKeeps, WriteNamesKeeps, CoverKeeps, FinishKeeps
   DEF Process

-----------------------------------------------------------------------------
(* The steps beside it.                                                    *)

\* Steps of users that leave the rows, and every song's audio, lock and picture
\* but for locks set and pictures added.
LEMMA SongsOnly ==
  ASSUME IInv, songs' \in [Songs -> SongRow], sleeves' \in [Albums -> BOOLEAN],
         edit' \in [Clients -> EditRow], requests' \in Nat, Edits',
         UNCHANGED <<rows, running, batch, lives>>,
         \A t \in Songs : ~ Present(t)' => ~ Present(t) /\ ~ songs'[t].locked,
         \A t \in Songs : songs[t].art => songs'[t].art
  PROVE  IInv'
<1>1. OneBatch' /\ Marked'
  BY DEF IInv, OneBatch, Marked, Holds
<1>2. Gone' /\ Waits' /\ Ends'
  BY DEF IInv, Gone, Waits, Ends
<1> QED
  BY <1>1, <1>2 DEF IInv, Types

LEMMA DayPassesKeeps ==
  ASSUME IInv, NEW s \in Songs, DayPasses(s)
  PROVE  IInv'
<1> DEFINE row == [rows[s] EXCEPT !.due = TRUE]
<1>1. /\ rows[s].status = "retry"
      /\ UNCHANGED <<songs, sleeves, running, batch, edit, requests, lives>>
  BY DEF DayPasses
<1>2. rows[s] \in Row
  BY DEF IInv, Types
<1>3. row \in Row /\ row.status = "retry" /\ row.attempts = rows[s].attempts
  BY <1>1, <1>2 DEF Row
<1>4. rows' = [rows EXCEPT ![s] = row]
  BY DEF DayPasses, IInv, Types
<1> HIDE DEF row
<1>5. /\ rows' \in [Songs -> Row] /\ rows'[s] = row
      /\ \A t \in Songs : t # s => rows'[t] = rows[t]
  BY <1>3, <1>4 DEF IInv, Types
<1>6. Gone' /\ Waits' /\ Ends'
  BY <1>1, <1>3, <1>5 DEF IInv, Gone, Present, NoRow, Waits, Ends
<1>7. Marked'
  <2>1. \A b \in Runners : Holds(b) => batch[b].song # s \/ rows'[batch[b].song].status = "none"
    BY <1>1 DEF IInv, Marked, Holds
  <2> QED
    BY <1>1, <1>5, <2>1 DEF IInv, Marked, Holds
<1> QED
  BY <1>1, <1>5, <1>6, <1>7 DEF IInv, Types, OneBatch, Edits

LEMMA RetryKeeps ==
  ASSUME IInv, Retry
  PROVE  IInv'
<1> DEFINE fresh == [status |-> "retry", attempts |-> 0, due |-> TRUE]
<1>1. /\ UNCHANGED <<songs, sleeves, running, batch, edit, lives>> /\ requests' \in Nat
      /\ rows' = [s \in Songs |-> IF rows[s].status \in {"unmatched", "retry"}
                                  THEN fresh ELSE rows[s]]
  BY DEF Retry, Requested, IInv, Types
<1>2. fresh \in Row /\ fresh.status = "retry" /\ fresh.attempts = 0
  BY DEF Row, Statuses
<1> HIDE DEF fresh
<1>3. /\ rows' \in [Songs -> Row]
      /\ \A s \in Songs : \/ rows'[s] = rows[s]
                          \/ rows[s].status \in {"unmatched", "retry"} /\ rows'[s] = fresh
  BY <1>1, <1>2 DEF IInv, Types
<1>4. Gone' /\ Ends'
  BY <1>1, <1>2, <1>3 DEF IInv, Gone, Present, NoRow, Ends
<1>5. Waits'
  <2>1. Attempts \in Nat \ {0}
    BY EnrichmentAssumption
  <2> QED
    BY <1>2, <1>3, <2>1 DEF IInv, Waits
<1>6. Marked'
  <2>1. \A b \in Runners : Holds(b) => rows'[batch[b].song] = rows[batch[b].song]
    BY <1>3 DEF IInv, Marked, Holds
  <2> QED
    BY <1>1, <2>1 DEF IInv, Marked, Holds
<1> QED
  BY <1>1, <1>3, <1>4, <1>5, <1>6 DEF IInv, Types, OneBatch, Edits

\* The id is free, so the row of the song that had it went with it.
LEMMA ImportKeeps ==
  ASSUME IInv, NEW audio \in Recordings, NEW art \in Embedded, ImportSong(audio, art)
  PROVE  IInv'
<1> DEFINE s == NextId
           song == [NoSong EXCEPT !.audio = audio, !.art = art]
<1>1. s \in Songs /\ ~ Present(s) /\ rows[s] = NoRow
  BY NextIdIsFree DEF ImportSong, IInv, Gone
<1>2. /\ UNCHANGED <<rows, sleeves, running, batch, edit, lives>> /\ requests' \in Nat
      /\ songs' = [songs EXCEPT ![s] = song]
  BY DEF ImportSong, Requested, IInv, Types
<1> HIDE DEF s
<1>3. audio # None /\ art \in BOOLEAN
  BY EnrichmentAssumption
<1>4. song \in SongRow /\ song.audio = audio
  BY <1>3 DEF NoSong, SongRow, Names
<1> HIDE DEF song
<1>5. /\ songs' \in [Songs -> SongRow] /\ songs'[s] = song
      /\ \A t \in Songs : t # s => songs'[t] = songs[t]
  BY <1>1, <1>2, <1>4 DEF IInv, Types
<1>6. Gone'
  BY <1>2, <1>3, <1>4, <1>5 DEF IInv, Gone, Present
<1>7. Waits' /\ Ends'
  BY <1>1, <1>2, <1>5 DEF IInv, Waits, Ends, NoRow
<1>8. Marked'
  <2>1. \A b \in Runners : Holds(b) => batch[b].song # s \/ rows'[batch[b].song].status = "none"
    BY <1>1, <1>2 DEF NoRow
  <2> QED
    BY <1>2, <1>5, <2>1 DEF IInv, Marked, Holds
<1> QED
  BY <1>2, <1>5, <1>6, <1>7, <1>8 DEF IInv, Types, OneBatch, Edits

LEMMA DeleteKeeps ==
  ASSUME IInv, NEW s \in Songs, DeleteSong(s)
  PROVE  IInv'
<1>1. /\ UNCHANGED <<running, batch, edit, lives>> /\ requests' \in Nat
      /\ songs' = [songs EXCEPT ![s] = NoSong] /\ rows' = [rows EXCEPT ![s] = NoRow]
  BY DEF DeleteSong, Requested, IInv, Types
<1>2. sleeves' \in [Albums -> BOOLEAN]
  <2>1. sleeves \in [Albums -> BOOLEAN]
    BY DEF IInv, Types
  <2>2. sleeves' = sleeves \/ \E a : sleeves' = [sleeves EXCEPT ![a] = FALSE]
    BY DEF DeleteSong
  <2> QED
    BY <2>1, <2>2
<1>3. /\ NoSong \in SongRow /\ ~ NoSong.locked /\ NoSong.audio = None
      /\ NoRow \in Row /\ NoRow.status = "none"
  BY DEF NoSong, SongRow, Names, NoRow, Row, Statuses
<1>4. /\ songs' \in [Songs -> SongRow] /\ rows' \in [Songs -> Row]
      /\ songs'[s] = NoSong /\ rows'[s] = NoRow
      /\ \A t \in Songs : t # s => songs'[t] = songs[t] /\ rows'[t] = rows[t]
  BY <1>1, <1>3 DEF IInv, Types
<1>5. Gone'
  BY <1>3, <1>4 DEF IInv, Gone, Present
<1>6. Waits' /\ Ends'
  BY <1>3, <1>4 DEF IInv, Waits, Ends
<1>7. Marked'
  BY <1>1, <1>3, <1>4 DEF IInv, Marked, Holds
<1> QED
  BY <1>1, <1>2, <1>4, <1>5, <1>6, <1>7 DEF IInv, Types, OneBatch, Edits

LEMMA ArtworkKeeps ==
  ASSUME IInv, NEW s \in Songs, SongArtwork(s)
  PROVE  IInv'
<1>1. /\ UNCHANGED <<rows, running, batch, edit, lives>> /\ requests' \in Nat
      /\ UpdateSongArtwork(s) /\ edit' \in [Clients -> EditRow]
  BY DEF SongArtwork, Requested, IInv, Types
<1>2. /\ songs' \in [Songs -> SongRow] /\ sleeves' \in [Albums -> BOOLEAN]
      /\ \A t \in Songs : /\ songs'[t].audio = songs[t].audio
                          /\ songs'[t].locked = songs[t].locked
                          /\ songs[t].art => songs'[t].art
  BY <1>1, ArtworkUpdated DEF IInv
<1>3. \A t \in Songs : ~ Present(t)' => ~ Present(t) /\ ~ songs'[t].locked
  BY <1>2 DEF IInv, Gone, Present
<1>4. Edits'
  BY <1>1 DEF IInv, Edits
<1> QED
  BY <1>1, <1>2, <1>3, <1>4, SongsOnly

LEMMA EditKeeps ==
  ASSUME IInv, NEW c \in Clients, Edit(c)
  PROVE  IInv'
<1>1. NoEdit \in EditRow /\ NoEdit.at = "idle"
  BY DEF NoEdit, EditRow, EditStates
<1>2. UNCHANGED <<rows, sleeves, running, batch, lives>> /\ requests' \in Nat
  BY DEF Edit, EditRead, EditFails, EditSave, LockSongMetadata, Requested, IInv, Types
<1>3. edit[c] \in EditRow /\ sleeves' \in [Albums -> BOOLEAN]
  BY <1>2 DEF IInv, Types
<1>4. CASE \E s \in Songs : EditRead(c, s)
  <2>1. PICK s \in Songs : EditRead(c, s)
    BY <1>4
  <2> DEFINE e == [at |-> "read", song |-> s]
  <2>2. e \in EditRow /\ e.song \in Songs
    BY DEF EditRow, EditStates
  <2>3. edit' = [edit EXCEPT ![c] = e] /\ songs' = songs
    BY <2>1 DEF EditRead
  <2> HIDE DEF e
  <2>4. edit' \in [Clients -> EditRow] /\ Edits'
    BY <2>2, <2>3 DEF IInv, Types, Edits
  <2> QED
    BY <1>2, <1>3, <2>3, <2>4, SongsOnly DEF IInv, Types, Gone, Present
<1>5. CASE EditFails(c)
  <2>1. edit' = [edit EXCEPT ![c] = NoEdit] /\ songs' = songs
    BY <1>5 DEF EditFails
  <2>2. edit' \in [Clients -> EditRow] /\ Edits'
    BY <1>1, <2>1 DEF IInv, Types, Edits
  <2> QED
    BY <1>2, <1>3, <2>1, <2>2, SongsOnly DEF IInv, Types, Gone, Present
<1>6. CASE EditSave(c)
  <2> DEFINE s == edit[c].song
             e == [edit[c] EXCEPT !.at = "saved"]
  <2>1. s \in Songs /\ "edited" \in Names
    BY <1>6 DEF EditSave, IInv, Edits, Names
  <2>2. e \in EditRow /\ e.song = s
    BY <1>3 DEF EditRow, EditStates
  <2>3. edit' = [edit EXCEPT ![c] = e] /\ UpdateSongMetadata(s, "edited")
    BY <1>6 DEF EditSave, IInv, Types
  <2> HIDE DEF e
  <2>4. edit' \in [Clients -> EditRow] /\ Edits'
    BY <2>1, <2>2, <2>3 DEF IInv, Types, Edits
  <2>5. /\ songs' \in [Songs -> SongRow]
        /\ \A t \in Songs : /\ songs'[t].audio = songs[t].audio
                            /\ songs'[t].locked = songs[t].locked
                            /\ songs'[t].art = songs[t].art
    BY <2>1, <2>3, NamesUpdated DEF IInv
  <2>6. \A t \in Songs : ~ Present(t)' => ~ Present(t) /\ ~ songs'[t].locked
    BY <2>5 DEF IInv, Gone, Present
  <2> QED
    BY <1>2, <1>3, <2>4, <2>5, <2>6, SongsOnly
<1>7. CASE LockSongMetadata(c)
  <2> DEFINE s == edit[c].song
             song == [songs[s] EXCEPT !.locked = TRUE]
  <2>1. s \in Songs /\ songs[s] \in SongRow
    BY <1>7 DEF LockSongMetadata, IInv, Types, Edits
  <2>2. song \in SongRow /\ song.audio = songs[s].audio /\ song.art = songs[s].art
    BY <2>1 DEF SongRow
  <2>3. /\ edit' = [edit EXCEPT ![c] = NoEdit]
        /\ songs' = IF Present(s) THEN [songs EXCEPT ![s] = song] ELSE songs
    BY <1>7 DEF LockSongMetadata, IInv, Types
  <2> HIDE DEF song
  <2>4. edit' \in [Clients -> EditRow] /\ Edits'
    BY <1>1, <2>3 DEF IInv, Types, Edits
  <2>5. /\ songs' \in [Songs -> SongRow]
        /\ \A t \in Songs : t # s => songs'[t] = songs[t]
        /\ songs'[s] = IF Present(s) THEN song ELSE songs[s]
    BY <2>1, <2>2, <2>3 DEF IInv, Types
  <2>6. \A t \in Songs : ~ Present(t)' => ~ Present(t) /\ ~ songs'[t].locked
    BY <2>1, <2>2, <2>5 DEF IInv, Gone, Present
  <2>7. \A t \in Songs : songs[t].art => songs'[t].art
    BY <2>1, <2>2, <2>5
  <2> QED
    BY <1>2, <1>3, <2>4, <2>5, <2>6, <2>7, SongsOnly
<1> QED
  BY <1>4, <1>5, <1>6, <1>7 DEF Edit

LEMMA RestartKeeps ==
  ASSUME IInv, Restart
  PROVE  IInv'
<1>1. /\ batch' = [b \in Runners |-> Resting] /\ edit' = [c \in Clients |-> NoEdit]
      /\ running' = FALSE /\ lives' = lives + 1 /\ UNCHANGED <<songs, rows, sleeves, requests>>
  BY DEF Restart
<1>2. NoEdit \in EditRow /\ NoEdit.at = "idle"
  BY DEF NoEdit, EditRow, EditStates
<1>3. /\ batch' \in [Runners -> Batch] /\ edit' \in [Clients -> EditRow]
      /\ \A b \in Runners : batch'[b].at = "idle" /\ ~ batch'[b].art
      /\ \A c \in Clients : edit'[c].at = "idle"
  BY <1>1, <1>2, RestingIs
<1>4. lives' \in Nat \ {0}
  BY <1>1 DEF IInv, Types
<1> QED
  BY <1>1, <1>3, <1>4
  DEF IInv, Types, Gone, Present, OneBatch, Marked, Holds, Edits, Waits, Ends

LEMMA InvariantKept == IInv /\ [Next]_vars => IInv'
<1> SUFFICES ASSUME IInv, [Next]_vars PROVE IInv'
  OBVIOUS
<1>1. CASE UNCHANGED vars
  BY <1>1 DEF vars, IInv, Types, Gone, Present, OneBatch, Marked, Holds, Edits, Waits, Ends
<1>2. CASE \E b \in Runners : RunBatch(b) \/ BatchDone(b) \/ Process(b)
  BY <1>2, BatchKeeps
<1>3. CASE \E s \in Songs : DayPasses(s) \/ DeleteSong(s) \/ SongArtwork(s)
  BY <1>3, DayPassesKeeps, DeleteKeeps, ArtworkKeeps
<1>4. CASE \E r \in Recordings, art \in Embedded : ImportSong(r, art)
  BY <1>4, ImportKeeps
<1>5. CASE \E c \in Clients : Edit(c)
  BY <1>5, EditKeeps
<1>6. CASE Retry
  BY <1>6, RetryKeeps
<1>7. CASE Restart
  BY <1>7, RestartKeeps
<1> QED
  BY <1>1, <1>2, <1>3, <1>4, <1>5, <1>6, <1>7 DEF Next

LEMMA InvariantAlways == Spec => []IInv
BY InvariantInit, InvariantKept, PTL DEF Spec

-----------------------------------------------------------------------------
(* What a stop leaves behind.                                              *)

LEMMA StrandedFinite == IsFiniteSet(Stranded) /\ Cardinality(Stranded) \in Nat
<1>1. Stranded \in SUBSET Songs
  BY DEF Stranded
<1> QED
  BY <1>1, SongsFinite, FS_Subset, FS_CardinalityType

\* A batch strands no song as long as playerd lives: it lets a song go only
\* with another status.
LEMMA StrandedByBatch ==
  ASSUME IInv, NEW b \in Runners, RunBatch(b) \/ BatchDone(b) \/ Process(b)
  PROVE  Stranded' \subseteq Stranded
<1> DEFINE s == batch[b].song
<1>1. batch \in [Runners -> Batch] /\ rows \in [Songs -> Row]
  BY DEF IInv, Types
<1>2. CASE RunBatch(b) \/ BatchDone(b) \/ Take(b)
  <2>1. /\ rows' = rows /\ batch[b].at \in {"idle", "next"}
        /\ \A a \in Runners : a # b => batch'[a] = batch[a]
    BY <1>1, <1>2 DEF RunBatch, BatchDone, Take
  <2> QED
    BY <2>1 DEF Stranded, Held
<1>3. CASE Mark(b)
  <2>1. /\ batch'[b].at = "marked" /\ batch'[b].song = s /\ batch[b].at = "read"
        /\ \A a \in Runners : a # b => batch'[a] = batch[a]
    BY <1>1, <1>3 DEF Mark, Batch
  <2>2. \A t \in Songs : t # s => rows'[t] = rows[t]
    BY <1>1, <1>3 DEF Mark
  <2> QED
    BY <2>1, <2>2 DEF Stranded, Held
<1>4. CASE WriteNames(b) \/ Cover(b) \/ NoCover(b)
  <2>1. /\ rows' = rows /\ batch'[b].song = s /\ batch'[b].at \in {"written", "covered"}
        /\ \A a \in Runners : a # b => batch'[a] = batch[a]
    BY <1>1, <1>4 DEF WriteNames, Cover, NoCover, Batch
  <2> QED
    BY <2>1 DEF Stranded, Held
<1>5. CASE IdentifyFails(b) \/ IdentifyNothing(b) \/ Finish(b)
  <2>1. s \in Songs /\ \A a \in Runners : a # b => batch'[a] = batch[a]
    BY <1>1, <1>5, AtSong DEF IdentifyFails, IdentifyNothing, Finish, OnToNext
  <2>2. \A t \in Songs : t # s => rows'[t] = rows[t]
    BY <1>1, <1>5 DEF IdentifyFails, IdentifyNothing, Finish, Fail, Unmatched, SetRow
  <2>3. rows'[s].status # "processing"
    <3>1. rows[s] \in Row
      BY <1>1, <2>1
    <3>2. \E row : SetRow(s, row) /\ row.status # "processing"
      <4>1. CASE IdentifyFails(b)
        BY <4>1 DEF IdentifyFails, Fail
      <4>2. CASE IdentifyNothing(b)
        <5>1. [rows[s] EXCEPT !.status = "unmatched", !.due = FALSE].status = "unmatched"
          BY <3>1 DEF Row
        <5> QED
          BY <4>2, <5>1 DEF IdentifyNothing, Unmatched
      <4>3. CASE Finish(b)
        <5> DEFINE row == [rows[s] EXCEPT !.due = FALSE,
                              !.status = IF AgainForCover(batch[b]) THEN "retry" ELSE "complete"]
        <5>1. row.status # "processing"
          BY <3>1 DEF Row
        <5>2. SetRow(s, row)
          BY <4>3 DEF Finish
        <5> QED
          BY <5>1, <5>2
      <4> QED
        BY <1>5, <4>1, <4>2, <4>3
    <3>3. PICK row : SetRow(s, row) /\ row.status # "processing"
      BY <3>2
    <3>4. rows'[s] = IF rows[s].status = "none" THEN rows[s] ELSE row
      BY <1>1, <2>1, <3>3 DEF SetRow
    <3> QED
      BY <3>3, <3>4
  <2> QED
    BY <2>1, <2>2, <2>3 DEF Stranded, Held
<1> QED
  BY <1>2, <1>3, <1>4, <1>5 DEF Process

\* No statement of a user marks a song as processing.
LEMMA StrandedByOthers ==
  ASSUME IInv, UNCHANGED batch,
         \A s \in Songs : rows'[s].status = "processing" => rows[s].status = "processing"
  PROVE  Stranded' \subseteq Stranded
BY DEF Stranded, Held

LEMMA StrandedKept ==
  ASSUME IInv, [Next]_vars, ~ Restart
  PROVE  Stranded' \subseteq Stranded
<1>1. rows \in [Songs -> Row]
  BY DEF IInv, Types
<1>2. CASE UNCHANGED vars
  BY <1>2 DEF vars, Stranded, Held
<1>3. CASE \E b \in Runners : RunBatch(b) \/ BatchDone(b) \/ Process(b)
  BY <1>3, StrandedByBatch
<1>4. CASE \E s \in Songs : DayPasses(s) \/ DeleteSong(s) \/ SongArtwork(s)
  <2>1. PICK s \in Songs : DayPasses(s) \/ DeleteSong(s) \/ SongArtwork(s)
    BY <1>4
  <2>2. batch' = batch /\ \A t \in Songs : t # s => rows'[t] = rows[t]
    BY <1>1, <2>1 DEF DayPasses, DeleteSong, SongArtwork
  <2>3. [rows[s] EXCEPT !.due = TRUE].status = rows[s].status /\ NoRow.status = "none"
    BY <1>1 DEF Row, NoRow
  <2>4. rows'[s] \in {[rows[s] EXCEPT !.due = TRUE], NoRow, rows[s]}
    BY <1>1, <2>1 DEF DayPasses, DeleteSong, SongArtwork
  <2>5. \A t \in Songs : rows'[t].status = "processing" => rows[t].status = "processing"
    BY <2>2, <2>3, <2>4
  <2> QED
    BY <2>2, <2>5, StrandedByOthers
<1>5. CASE \E r \in Recordings, art \in Embedded : ImportSong(r, art)
  BY <1>5, StrandedByOthers DEF ImportSong
<1>6. CASE \E c \in Clients : Edit(c)
  BY <1>6, StrandedByOthers DEF Edit, EditRead, EditFails, EditSave, LockSongMetadata
<1>7. CASE Retry
  BY <1>7, StrandedByOthers DEF Retry
<1> QED
  BY <1>2, <1>3, <1>4, <1>5, <1>6, <1>7 DEF Next

\* A stop strands the song of the one batch, when that had marked it.
LEMMA StrandedByRestart ==
  ASSUME IInv, Restart
  PROVE  Cardinality(Stranded') <= Cardinality(Stranded) + 1
<1> DEFINE S == Stranded
<1>1. rows' = rows
  BY DEF Restart
<1>2. CASE \E b \in Runners : Holds(b)
  <2>1. PICK b \in Runners : Holds(b)
    BY <1>2
  <2>2. PICK s : s = batch[b].song
    OBVIOUS
  <2>3. \A a \in Runners : a # b => batch[a].at = "idle"
    BY <2>1 DEF IInv, OneBatch, Holds
  <2>4. Stranded' \subseteq S \cup {s}
    BY <1>1, <2>2, <2>3 DEF Stranded, Held
  <2>5. IsFiniteSet(S) /\ Cardinality(S) \in Nat
    BY StrandedFinite
  <2> HIDE DEF S
  <2>6. /\ IsFiniteSet(S \cup {s})
        /\ Cardinality(S \cup {s}) = IF s \in S THEN Cardinality(S) ELSE Cardinality(S) + 1
    BY <2>5, FS_AddElement
  <2>7. Cardinality(Stranded') <= Cardinality(S \cup {s}) /\ IsFiniteSet(Stranded')
    BY <2>4, <2>6, FS_Subset
  <2>8. Cardinality(Stranded') \in Nat
    BY <2>7, FS_CardinalityType
  <2>9. Cardinality(Stranded') <= Cardinality(S) + 1
    BY <2>5, <2>6, <2>7, <2>8
  <2> QED
    BY <2>9 DEF S
<1>3. CASE ~ \E b \in Runners : Holds(b)
  <2>1. batch \in [Runners -> Batch]
    BY DEF IInv, Types
  <2>2. \A s : ~ Held(s)
    BY <1>3, <2>1 DEF Held, Holds, Batch, BatchStates
  <2>3. Stranded' \subseteq S
    BY <1>1, <2>2 DEF Stranded
  <2>4. IsFiniteSet(S) /\ Cardinality(S) \in Nat
    BY StrandedFinite
  <2> HIDE DEF S
  <2>5. Cardinality(Stranded') <= Cardinality(S) /\ IsFiniteSet(Stranded')
    BY <2>3, <2>4, FS_Subset
  <2>6. Cardinality(Stranded') \in Nat
    BY <2>5, FS_CardinalityType
  <2>7. Cardinality(Stranded') <= Cardinality(S) + 1
    BY <2>4, <2>5, <2>6
  <2> QED
    BY <2>7 DEF S
<1> QED
  BY <1>2, <1>3

LEMMA OneMoreStranded ==
  ASSUME IInv, OneStrandedPerLife, [Next]_vars
  PROVE  OneStrandedPerLife'
<1> DEFINE n == Cardinality(Stranded)
           m == Cardinality(Stranded')
<1>1. n \in Nat /\ lives \in Nat /\ n < lives
  BY StrandedFinite DEF IInv, Types, OneStrandedPerLife
<1>2. IsFiniteSet(Stranded) /\ IsFiniteSet(Stranded')
  <2>1. Stranded' \in SUBSET Songs
    BY DEF Stranded
  <2>2. IsFiniteSet(Stranded')
    BY <2>1, SongsFinite, FS_Subset
  <2> QED
    BY <2>2, StrandedFinite
<1>3. m \in Nat
  BY <1>2, FS_CardinalityType
<1>4. CASE Restart
  <2>1. m <= n + 1 /\ lives' = lives + 1
    BY <1>4, StrandedByRestart DEF Restart
  <2>2. m < lives'
    <3> HIDE DEF m, n
    <3> QED
      BY <1>1, <1>3, <2>1
  <2> QED
    BY <2>2 DEF OneStrandedPerLife
<1>5. CASE ~ Restart
  <2>1. m <= n
    BY <1>2, <1>5, StrandedKept, FS_Subset
  <2>2. lives' = lives
    BY <1>5 DEF Next, vars, RunBatch, BatchDone, Process, Take, Mark, IdentifyFails,
       IdentifyNothing, WriteNames, Cover, NoCover, Finish, DayPasses, DeleteSong, SongArtwork,
       ImportSong, Edit, EditRead, EditFails, EditSave, LockSongMetadata, Retry
  <2>3. m < lives'
    <3> HIDE DEF m, n
    <3> QED
      BY <1>1, <1>3, <2>1, <2>2
  <2> QED
    BY <2>3 DEF OneStrandedPerLife
<1> QED
  BY <1>4, <1>5

LEMMA NoneStrandedAtFirst == Init => OneStrandedPerLife
<1> SUFFICES ASSUME Init PROVE OneStrandedPerLife
  OBVIOUS
<1>1. Stranded = {} /\ lives = 1
  BY DEF Init, Stranded, NoRow
<1>2. Cardinality({}) = 0
  BY FS_EmptySet
<1> QED
  BY <1>1, <1>2 DEF OneStrandedPerLife

-----------------------------------------------------------------------------
(* Names that change.                                                      *)

\* The batch that writes names read its song unlocked; an import takes a free
\* id, of which the lock went with its song.
LEMMA LockIsRespected ==
  ASSUME IInv, [Next]_vars, NEW s \in Songs,
         songs[s].locked, songs'[s].audio # None, songs'[s].names # songs[s].names
  PROVE  \/ \E c \in Clients : edit[c].song = s /\ edit[c].at = "read"
         \/ \E b \in Runners : batch[b].song = s /\ ~batch[b].locked
<1>1. Present(s) /\ songs \in [Songs -> SongRow]
  BY DEF IInv, Gone, Types
<1>2. songs' # songs
  OBVIOUS
<1>3. CASE \E b \in Runners : RunBatch(b) \/ BatchDone(b) \/ Process(b)
  <2>1. PICK b \in Runners : WriteNames(b) \/ Cover(b)
    BY <1>2, <1>3 DEF RunBatch, BatchDone, Process, Take, Mark, IdentifyFails, IdentifyNothing,
                      NoCover, Finish
  <2>2. batch[b].song \in Songs /\ batch[b].audio \in Recordings /\ ~ batch[b].locked
    BY <2>1, AtSong DEF WriteNames, Cover
  <2>3. CASE WriteNames(b)
    BY <2>2, <2>3, NamesUpdated DEF WriteNames, IInv, Names
  <2>4. CASE Cover(b)
    BY <2>2, <2>4, ArtworkUpdated DEF Cover, IInv
  <2> QED
    BY <2>1, <2>3, <2>4
<1>4. CASE \E t \in Songs : DayPasses(t) \/ DeleteSong(t) \/ SongArtwork(t)
  <2>1. PICK t \in Songs : DeleteSong(t) \/ SongArtwork(t)
    BY <1>2, <1>4 DEF DayPasses
  <2>2. CASE DeleteSong(t)
    BY <1>1, <2>2 DEF DeleteSong, NoSong
  <2>3. CASE SongArtwork(t)
    BY <2>3, ArtworkUpdated DEF SongArtwork, IInv
  <2> QED
    BY <2>1, <2>2, <2>3
<1>5. CASE \E r \in Recordings, art \in Embedded : ImportSong(r, art)
  BY <1>1, <1>5, NextIdIsFree DEF ImportSong
<1>6. CASE \E c \in Clients : Edit(c)
  <2>1. PICK c \in Clients : EditSave(c) \/ LockSongMetadata(c)
    BY <1>2, <1>6 DEF Edit, EditRead, EditFails
  <2>2. edit[c].song \in Songs
    BY <2>1 DEF EditSave, LockSongMetadata, IInv, Edits
  <2>3. CASE EditSave(c)
    BY <2>2, <2>3, NamesUpdated DEF EditSave, IInv, Names
  <2>4. CASE LockSongMetadata(c)
    <3>1. [songs[s] EXCEPT !.locked = TRUE].names = songs[s].names
      BY <1>1 DEF SongRow
    <3> QED
      BY <1>1, <2>2, <2>4, <3>1 DEF LockSongMetadata
  <2> QED
    BY <2>1, <2>3, <2>4
<1>7. CASE Retry \/ Restart \/ UNCHANGED vars
  BY <1>2, <1>7 DEF Retry, Restart, vars
<1> QED
  BY <1>3, <1>4, <1>5, <1>6, <1>7 DEF Next

-----------------------------------------------------------------------------
(* The properties.                                                         *)

\* Songs, rows and batches keep their shape, and a song that is gone has no row.
THEOREM TypeCorrect == Spec => []TypeOK
<1>1. IInv => TypeOK
  <2> SUFFICES ASSUME IInv PROVE TypeOK
    OBVIOUS
  <2>1. \A b \in Runners : batch[b] \in Batch
    BY DEF IInv, Types
  <2>2. \A b \in Runners : /\ batch[b].at \in BatchStates /\ batch[b].list \in Seq(Songs)
                           /\ batch[b].song \in Songs \cup {0} /\ batch[b].tries \in Nat
                           /\ batch[b].audio \in Recordings \cup {None}
    BY <2>1 DEF Batch
  <2>3. \A b \in Runners : {batch[b].locked, batch[b].art} \subseteq BOOLEAN
    BY <2>1 DEF Batch
  <2> QED
    BY <2>2, <2>3 DEF TypeOK, IInv, Types, Gone, EditRow
<1> QED
  BY <1>1, InvariantAlways, PTL

\* A song waits for another attempt only while it has attempts left, whatever is
\* interrupted, reset, deleted or imported under a batch (fail and the query of
\* RunBatch, enricher.go).
THEOREM RetriesBoundedAlways == Spec => []RetriesBounded
<1>1. IInv => RetriesBounded
  BY DEF IInv, Waits, RetriesBounded
<1> QED
  BY <1>1, InvariantAlways, PTL

\* A song is complete without a picture only when its attempts are used up: what
\* the end of process decides from a local variable agrees with the tables.
THEOREM CompleteHasCoverAlways == Spec => []CompleteHasCover
<1>1. IInv => CompleteHasCover
  BY DEF IInv, Ends, CompleteHasCover, Picture
<1> QED
  BY <1>1, InvariantAlways, PTL

\* Each life of playerd leaves at most one song marked as processing behind.
THEOREM OneStrandedPerLifeAlways == Spec => []OneStrandedPerLife
<1>1. IInv /\ OneStrandedPerLife /\ [Next]_vars => OneStrandedPerLife'
  BY OneMoreStranded
<1> QED
  BY <1>1, NoneStrandedAtFirst, InvariantAlways, PTL DEF Spec

\* The names of a locked song change only under an edit that is in progress or
\* by a batch that read the song before the lock (UpdateSongMetadata against
\* metadata_locked, enricher.go).
THEOREM LockRespectedAlways == Spec => LockRespected
<1>1. IInv /\ [Next]_vars =>
        [\A s \in Songs :
            songs[s].locked /\ songs'[s].audio # None /\ songs'[s].names # songs[s].names =>
               \/ \E c \in Clients : edit[c].song = s /\ edit[c].at = "read"
               \/ \E b \in Runners : batch[b].song = s /\ ~batch[b].locked]_vars
  BY LockIsRespected
<1> QED
  BY <1>1, InvariantAlways, PTL DEF Spec, LockRespected
=============================================================================
