-------------------------- MODULE LibraryFilesProofs --------------------------
(***************************************************************************)
(* For any songs, folders, names and number of requests: disk and table    *)
(* keep their shape, and no file of a song that was in the library is      *)
(* destroyed, however requests, imports and deaths of playerd cross.       *)
(* Where requests come one at a time, rows name their songs' files and     *)
(* deleted songs are in recovery storage.                                  *)
(***************************************************************************)
EXTENDS LibraryFiles, TLAPS

-----------------------------------------------------------------------------
(* The inductive invariant: disk, recovery storage and requests.           *)

Ops   == {"none", "moveFolder", "deleteFolder", "deleteSong", "moveSongs", "renameFile"}
Moves == {"moveSongs", "renameFile"}
Content == Songs \cup {None}
Plans == UNION {[S -> Paths \X Paths \X Content] : S \in SUBSET Songs}

RequestRow == [at : States, op : Ops,
               from : Folders \cup Paths \cup {None}, to : Folders \cup Names \cup {None},
               songs : SUBSET Songs, plan : Plans \cup {<<>>}, done : SUBSET Songs,
               saved : [Names -> Content] \cup Content \cup {<<>>}]

Types ==
    /\ disk \in [Paths -> Content]
    /\ dirs \subseteq Folders /\ Root \in dirs
    /\ trash \subseteq Songs
    /\ rows \in [Songs -> Paths \cup {None}]
    /\ placed \in [Songs -> Paths \cup {None}]
    /\ req \in [Clients -> RequestRow]

\* A file lies in a folder that exists, and in one place.
OnDisk ==
    /\ \A p \in Paths : disk[p] # None => p[1] \in dirs /\ disk[p] \notin trash
    /\ \A p, q \in Paths : disk[p] # None /\ disk[p] = disk[q] => p = q

\* A song is imported once.
Table ==
    /\ Distinct(rows) /\ known \subseteq Songs
    /\ \A s \in Songs : rows[s] # None => s \in known
    /\ \A s \in Songs : placed[s] # None => s \notin known

\* Nothing goes unrecorded.
Kept ==
    \A s \in Songs \ lost : s \in known \/ placed[s] # None =>
        s \in trash \/ \E p \in Paths : disk[p] = s

\* What a request has in hand, by its kind.
Moving(r) == {s \in DOMAIN r.plan : r.plan[s][1] # r.plan[s][2]}

Sound(r) ==
    /\ r.at = "idle" => r = NoReq
    /\ r.op = "none" => r.at = "idle"
    /\ r.op \notin Moves => r.done = {}
    /\ r.op = "moveFolder" =>
          /\ r.at \in {"rename", "update", "back"}
          /\ r.from \in Folders \ {Root} /\ r.to \in Folders \ {Root} /\ r.from # r.to
    /\ r.op = "deleteFolder" =>
          /\ r.at \in {"rename", "update", "back"}
          /\ r.from \in Folders \ {Root}
          /\ r.at # "rename" => /\ r.saved \in [Names -> Content]
                                /\ \A m, n \in Names :
                                      r.saved[m] # None /\ r.saved[m] = r.saved[n] => m = n
    /\ r.op = "deleteSong" =>
          /\ r.at \in {"rename", "update", "back", "parents"}
          /\ r.from \in Paths
          /\ \E s \in Songs : r.songs = {s}
          /\ r.at \in {"update", "back"} => r.saved \in Songs
    /\ r.op \in Moves =>
          /\ r.at \in {"check", "rename", "back"}
          /\ r.plan \in Plans
          /\ r.done \subseteq Moving(r) /\ (r.at = "check" => r.done = {})
          /\ \A s \in Moving(r) : r.plan[s][3] = None
          /\ \A s, t \in DOMAIN r.plan : r.plan[s][2] = r.plan[t][2] => s = t
          /\ IF r.op = "moveSongs" THEN r.to \in Folders ELSE r.to \in Names

Asked == \A c \in Clients : Sound(req[c])

\* What a request may take out of recovery storage again.
Stash(r) ==
    IF r.at \notin {"update", "back"} THEN {}
    ELSE IF r.op = "deleteFolder" THEN {r.saved[n] : n \in Names} \ {None}
    ELSE IF r.op = "deleteSong" THEN {r.saved}
    ELSE {}

Hoards ==
    /\ \A c \in Clients : Stash(req[c]) \subseteq trash
    /\ \A c, d \in Clients : c # d => Stash(req[c]) \cap Stash(req[d]) = {}

Safe == Types /\ OnDisk /\ Table /\ Kept /\ Asked /\ Hoards

-----------------------------------------------------------------------------
(* The inductive invariant: rows and files, as long as no requests cross.  *)

Ok == Songs \ (strays \cup lost)

Alone == \A c, d \in Clients : Active(c) /\ Active(d) => c = d

\* An import that nothing came between has its file in place.
InPlace == \A s \in Ok : placed[s] # None => disk[placed[s]] = s

\* A row names its song's file, unless a request is between the two.
Home ==
    \A s \in Ok : rows[s] # None /\ (\A c \in Clients : s \notin HalfWay(c)) => disk[rows[s]] = s

\* How far the one request is.
FolderMoves(c) ==
    req[c].op = "moveFolder" /\ req[c].at \in {"update", "back"} =>
        /\ req[c].songs \subseteq InFolder(req[c].from)
        /\ InFolder(req[c].from) \subseteq req[c].songs \cup strays
        /\ InFolder(req[c].to) \cap Ok = {}
        /\ \A s \in req[c].songs \cap Ok : disk[<<req[c].to, rows[s][2]>>] = s

FolderGoes(c) ==
    req[c].op = "deleteFolder" =>
        /\ req[c].songs \subseteq InFolder(req[c].from)
        /\ req[c].at # "rename" => \A s \in req[c].songs \cap Ok : req[c].saved[rows[s][2]] = s

SongGoes(c) ==
    req[c].op = "deleteSong" /\ req[c].at # "parents" =>
        \A s \in req[c].songs :
            /\ rows[s] = req[c].from
            /\ req[c].at # "rename" /\ s \in Ok => req[c].saved = s

SongsMove(c) ==
    req[c].op \in Moves =>
        /\ \A s \in Planned(c) : rows[s] # None /\ req[c].plan[s][1] = rows[s]
        /\ \A s \in req[c].done \cap Ok : disk[req[c].plan[s][2]] = s

Progress == \A c \in Clients : FolderMoves(c) /\ FolderGoes(c) /\ SongGoes(c) /\ SongsMove(c)

\* A row is gone only when its file is in recovery storage, from where no
\* request takes it.
Retained ==
    /\ \A s \in known \cap Ok : rows[s] = None => s \in trash
    /\ \A c \in Clients : \A s \in Stash(req[c]) \cap known \cap Ok : rows[s] # None

Apart == ~crossed => Alone /\ InPlace /\ Home /\ Progress /\ Retained

-----------------------------------------------------------------------------
(* Paths and requests.                                                     *)

LEMMA PathIs ==
  /\ \A p \in Paths : p[1] \in Folders /\ p[2] \in Names /\ p = <<p[1], p[2]>>
  /\ \A f \in Folders, n \in Names : <<f, n>> \in Paths
BY DEF Paths

LEMMA NoReqIs ==
  /\ NoReq \in RequestRow /\ Sound(NoReq) /\ Stash(NoReq) = {}
  /\ NoReq.at = "idle" /\ NoReq.op = "none" /\ NoReq.done = {} /\ NoReq.songs = {}
<1>1. NoReq \in RequestRow
  BY DEF NoReq, RequestRow, States, Ops, Content
<1>2. /\ NoReq.at = "idle" /\ NoReq.op = "none" /\ NoReq.done = {} /\ NoReq.songs = {}
  BY DEF NoReq
<1> QED
  BY <1>1, <1>2 DEF Sound, Stash, Moves

\* A request takes from recovery storage what it put there, and puts there what
\* was on disk.
LEMMA RequestKeeps ==
  ASSUME Safe, NEW c \in Clients, NEW x \in RequestRow, Sound(x),
         req' = [req EXCEPT ![c] = x],
         Stash(x) \cap trash \subseteq Stash(req[c]), Stash(x) \subseteq trash',
         trash \ Stash(req[c]) \subseteq trash'
  PROVE  /\ req' \in [Clients -> RequestRow] /\ Asked' /\ Hoards'
         /\ req'[c] = x /\ \A d \in Clients : d # c => req'[d] = req[d]
<1>1. req' \in [Clients -> RequestRow]
  BY DEF Safe, Types
<1>2. req'[c] = x /\ \A d \in Clients : d # c => req'[d] = req[d]
  BY DEF Safe, Types
<1>3. Asked'
  BY <1>2 DEF Safe, Asked
<1>4. \A d \in Clients : d # c => Stash(req'[d]) = Stash(req[d])
  BY <1>2
<1>5. Stash(req'[c]) = Stash(x)
  BY <1>2
<1>6. \A d \in Clients : Stash(req'[d]) \subseteq trash'
  BY <1>4, <1>5 DEF Safe, Hoards
<1>7. \A d \in Clients : d # c => Stash(req'[c]) \cap Stash(req'[d]) = {}
  BY <1>4, <1>5 DEF Safe, Hoards
<1>8. \A d, e \in Clients : d # e => Stash(req'[d]) \cap Stash(req'[e]) = {}
  BY <1>4, <1>7 DEF Safe, Hoards
<1>9. Hoards'
  BY <1>6, <1>8 DEF Hoards
<1> QED
  BY <1>1, <1>2, <1>3, <1>9

\* Steps that leave the disk: rows are changed or removed.
LEMMA RowsOnly ==
  ASSUME Safe, NEW c \in Clients, NEW x \in RequestRow, Sound(x),
         req' = [req EXCEPT ![c] = x], Stash(x) \subseteq Stash(req[c]),
         UNCHANGED <<disk, dirs, trash, placed, known, lost>>,
         rows' \in [Songs -> Paths \cup {None}], Distinct(rows'),
         \A s \in Songs : rows'[s] # None => rows[s] # None
  PROVE  Safe'
<1>1. req' \in [Clients -> RequestRow] /\ Asked' /\ Hoards'
  <2>1. Stash(req[c]) \subseteq trash
    BY DEF Safe, Hoards
  <2> QED
    BY <2>1, RequestKeeps
<1>2. Types'
  BY <1>1 DEF Safe, Types
<1>3. OnDisk' /\ Kept'
  BY DEF Safe, OnDisk, Kept
<1>4. Table'
  BY DEF Safe, Table
<1> QED
  BY <1>1, <1>2, <1>3, <1>4 DEF Safe

LEMMA SafeInit == Init => Safe
<1> SUFFICES ASSUME Init PROVE Safe
  OBVIOUS
<1> USE LibraryAssumption
<1>1. Types
  BY NoReqIs DEF Init, Types, Content
<1>2. OnDisk /\ Table /\ Kept
  BY DEF Init, OnDisk, Table, Kept, Distinct
<1>3. \A c \in Clients : req[c] = NoReq
  BY DEF Init
<1>4. Asked /\ Hoards
  BY <1>3, NoReqIs DEF Asked, Hoards
<1> QED
  BY <1>1, <1>2, <1>4 DEF Safe

-----------------------------------------------------------------------------
(* Imports and folders.                                                    *)

LEMMA PlaceKeeps ==
  ASSUME Safe, NEW s \in Songs, NEW p \in Paths, Place(s, p)
  PROVE  Safe'
<1>1. /\ s \notin known /\ s \notin trash /\ placed[s] = None
      /\ \A q \in Paths : disk[q] # s
      /\ disk[p] = None /\ dirs' = dirs \cup {p[1]}
      /\ UNCHANGED <<trash, rows, req, known, lost>>
  BY DEF Place, history
<1>2. /\ disk' \in [Paths -> Content] /\ disk'[p] = s
      /\ \A q \in Paths : q # p => disk'[q] = disk[q]
  BY DEF Place, Safe, Types, Content
<1>3. /\ placed' \in [Songs -> Paths \cup {None}] /\ placed'[s] = p
      /\ \A t \in Songs : t # s => placed'[t] = placed[t]
  BY DEF Place, Safe, Types
<1>4. Types'
  BY <1>1, <1>2, <1>3, PathIs DEF Safe, Types
<1>5. OnDisk'
  BY <1>1, <1>2 DEF Safe, OnDisk
<1>6. Table'
  BY <1>1, <1>3 DEF Safe, Table
<1>7. Kept'
  <2> SUFFICES ASSUME NEW t \in Songs \ lost', t \in known' \/ placed'[t] # None
               PROVE  t \in trash' \/ \E q \in Paths : disk'[q] = t
    BY DEF Kept
  <2>1. CASE t = s
    BY <1>2, <2>1
  <2>2. CASE t # s
    <3>1. t \in trash \/ \E q \in Paths : disk[q] = t
      BY <1>1, <1>3, <2>2 DEF Safe, Kept
    <3>2. t # None
      BY LibraryAssumption
    <3> QED
      BY <1>1, <1>2, <3>1, <3>2
  <2> QED
    BY <2>1, <2>2
<1>8. Asked' /\ Hoards'
  BY <1>1 DEF Safe, Asked, Hoards
<1> QED
  BY <1>4, <1>5, <1>6, <1>7, <1>8 DEF Safe

LEMMA InsertRowKeeps ==
  ASSUME Safe, NEW s \in Songs, InsertRow(s)
  PROVE  Safe'
<1> DEFINE p == placed[s]
           table == [rows EXCEPT ![s] = p]
<1>1. /\ p # None /\ p \in Paths /\ UNCHANGED <<dirs, trash, req>>
      /\ placed' = [placed EXCEPT ![s] = None]
  BY DEF InsertRow, Safe, Types
<1>2. /\ placed' \in [Songs -> Paths \cup {None}] /\ placed'[s] = None
      /\ \A t \in Songs : t # s => placed'[t] = placed[t]
  BY <1>1 DEF Safe, Types
<1>3. Asked' /\ Hoards'
  BY <1>1 DEF Safe, Asked, Hoards
<1>4. CASE Distinct(table)
  <2>1. rows' = table /\ known' = known \cup {s} /\ UNCHANGED <<disk, lost>>
    BY <1>4 DEF InsertRow
  <2>2. /\ rows' \in [Songs -> Paths \cup {None}]
        /\ \A t \in Songs : t # s => rows'[t] = rows[t]
    BY <1>1, <2>1 DEF Safe, Types
  <2>3. Types' /\ OnDisk'
    BY <1>1, <1>2, <2>1, <2>2 DEF Safe, Types, OnDisk
  <2>4. Table'
    BY <1>2, <1>4, <2>1, <2>2 DEF Safe, Table
  <2>5. Kept'
    BY <1>1, <1>2, <2>1 DEF Safe, Kept
  <2> QED
    BY <1>3, <2>3, <2>4, <2>5 DEF Safe
<1>5. CASE ~ Distinct(table)
  <2>1. /\ disk' = [disk EXCEPT ![p] = None] /\ lost' = lost \cup ({disk[p]} \ {None, s})
        /\ UNCHANGED <<rows, known>>
    BY <1>5 DEF InsertRow
  <2>2. /\ disk' \in [Paths -> Content] /\ disk'[p] = None
        /\ \A q \in Paths : q # p => disk'[q] = disk[q]
    BY <1>1, <2>1 DEF Safe, Types, Content
  <2>3. Types'
    BY <1>1, <1>2, <2>1, <2>2 DEF Safe, Types
  <2>4. OnDisk'
    BY <1>1, <2>2 DEF Safe, OnDisk
  <2>5. Table'
    BY <1>2, <2>1 DEF Safe, Table
  <2>6. Kept'
    <3> SUFFICES ASSUME NEW t \in Songs \ lost', t \in known' \/ placed'[t] # None
                 PROVE  t \in trash' \/ \E q \in Paths : disk'[q] = t
      BY DEF Kept
    <3>1. t # s
      BY <1>1, <1>2, <2>1 DEF Safe, Table
    <3>2. t \in trash \/ \E q \in Paths : disk[q] = t
      BY <1>2, <2>1, <3>1 DEF Safe, Kept
    <3>3. disk[p] # t
      BY <2>1, <3>1, LibraryAssumption
    <3> QED
      BY <1>1, <2>2, <3>2, <3>3
  <2> QED
    BY <1>3, <2>3, <2>4, <2>5, <2>6 DEF Safe
<1> QED
  BY <1>4, <1>5

LEMMA CreateFolderKeeps ==
  ASSUME Safe, NEW f \in Folders, CreateFolder(f)
  PROVE  Safe'
BY DEF CreateFolder, history, Safe, Types, OnDisk, Table, Kept, Asked, Hoards

-----------------------------------------------------------------------------
(* Requests that begin, end, or go from one stage to the next.             *)

At(r, at) == [r EXCEPT !.at = at]

LEMMA AtIs ==
  ASSUME NEW r \in RequestRow, NEW at \in States
  PROVE  /\ At(r, at) \in RequestRow /\ At(r, at).at = at /\ At(r, at).op = r.op
         /\ At(r, at).from = r.from /\ At(r, at).to = r.to /\ At(r, at).songs = r.songs
         /\ At(r, at).plan = r.plan /\ At(r, at).done = r.done /\ At(r, at).saved = r.saved
BY DEF At, RequestRow

LEMMA AtRecord ==
  ASSUME Types, NEW c \in Clients, NEW at
  PROVE  [req EXCEPT ![c].at = at] = [req EXCEPT ![c] = At(req[c], at)]
BY DEF At, Types

\* After the rename on disk a request is about to change the table or to undo.
LEMMA GoesBack ==
  ASSUME NEW r \in RequestRow, Sound(r),
         r.at = "update" \/ (r.op \in Moves /\ r.at \in {"check", "rename"}),
         NEW at \in States, at = "back" \/ (at = "rename" /\ r.op \in Moves)
  PROVE  At(r, at) \in RequestRow /\ Sound(At(r, at)) /\ Stash(At(r, at)) = Stash(r)
<1>1. /\ At(r, at) \in RequestRow /\ At(r, at).at = at /\ At(r, at).op = r.op
      /\ At(r, at).from = r.from /\ At(r, at).to = r.to /\ At(r, at).songs = r.songs
      /\ At(r, at).plan = r.plan /\ At(r, at).done = r.done /\ At(r, at).saved = r.saved
  BY AtIs
<1> DEFINE x == At(r, at)
<1>2. r.op # "none"
  BY DEF Sound, Moves
<1> HIDE DEF x
<1>3. x.at = at /\ x.op = r.op /\ x.from = r.from /\ x.to = r.to /\ x.songs = r.songs
      /\ x.plan = r.plan /\ x.done = r.done /\ x.saved = r.saved
  BY <1>1 DEF x
<1>4. Moving(x) = Moving(r)
  BY <1>3 DEF Moving
<1>5. Sound(x)
  BY <1>2, <1>3, <1>4 DEF Sound, Moves
<1>6. Stash(x) = Stash(r)
  BY <1>2, <1>3 DEF Stash, Sound, Moves
<1> QED
  BY <1>1, <1>5, <1>6 DEF x

LEMMA Ends ==
  ASSUME Safe, NEW c \in Clients, End(c), UNCHANGED <<disk, dirs, trash, placed, known, lost>>,
         rows' \in [Songs -> Paths \cup {None}], Distinct(rows'),
         \A s \in Songs : rows'[s] # None => rows[s] # None
  PROVE  Safe'
BY NoReqIs, RowsOnly DEF End

LEMMA EndsOnly ==
  ASSUME Safe, NEW c \in Clients, End(c), UNCHANGED <<disk, dirs, trash, rows, placed, known, lost>>
  PROVE  Safe'
BY Ends DEF Safe, Types, Table

LEMMA GoesOn ==
  ASSUME Safe, NEW c \in Clients, NEW at \in {"rename", "back"},
         req' = [req EXCEPT ![c].at = at],
         req[c].at = "update" \/ (req[c].op \in Moves /\ req[c].at \in {"check", "rename"}),
         at = "back" \/ req[c].op \in Moves,
         UNCHANGED <<disk, dirs, trash, rows, placed, known, lost>>
  PROVE  Safe'
<1>1. req[c] \in RequestRow /\ Sound(req[c]) /\ Types
  BY DEF Safe, Types, Asked
<1>2. at \in States
  BY DEF States
<1>3. req' = [req EXCEPT ![c] = At(req[c], at)]
  BY <1>1, AtRecord
<1>4. At(req[c], at) \in RequestRow /\ Sound(At(req[c], at))
      /\ Stash(At(req[c], at)) = Stash(req[c])
  BY <1>1, <1>2, GoesBack
<1> QED
  BY <1>3, <1>4, RowsOnly DEF Safe, Types, Table

LEMMA GoesUndo ==
  ASSUME Safe, NEW c \in Clients, req' = [req EXCEPT ![c].at = "back"],
         req[c].at = "update" \/ (req[c].op \in Moves /\ req[c].at = "rename"),
         UNCHANGED <<disk, dirs, trash, placed, known, lost>>, UNCHANGED rows
  PROVE  Safe'
BY GoesOn

LEMMA BeginKeeps ==
  ASSUME Safe, NEW c \in Clients, NEW x \in RequestRow, Begin(c, x), Sound(x), Stash(x) = {},
         UNCHANGED <<disk, dirs, trash, rows, placed, known, lost>>
  PROVE  Safe'
BY RowsOnly DEF Begin, Safe, Types, Table

\* What each request begins with.
LEMMA MoveFolderBegins ==
  ASSUME Safe, NEW c \in Clients, NEW f \in Folders, NEW g \in Folders, MoveFolder(c, f, g)
  PROVE  \E x \in RequestRow :
            /\ Begin(c, x) /\ Sound(x) /\ Stash(x) = {}
            /\ x.op = "moveFolder" /\ x.at = "rename" /\ x.done = {}
<1> DEFINE x == [NoReq EXCEPT !.at = "rename", !.op = "moveFolder", !.from = f, !.to = g]
<1>1. /\ x \in RequestRow /\ x.op = "moveFolder" /\ x.at = "rename" /\ x.done = {}
      /\ x.from = f /\ x.to = g
  BY NoReqIs DEF RequestRow, States, Ops
<1>2. Begin(c, x) /\ f \in Folders \ {Root} /\ g \in Folders \ {Root} /\ f # g
  BY DEF MoveFolder, Safe, Types
<1> HIDE DEF x
<1>3. Sound(x) /\ Stash(x) = {}
  BY <1>1, <1>2 DEF Sound, Stash, Moves
<1> QED
  BY <1>1, <1>2, <1>3

LEMMA DeleteFolderBegins ==
  ASSUME Safe, NEW c \in Clients, NEW f \in Folders, DeleteFolder(c, f)
  PROVE  \E x \in RequestRow :
            /\ Begin(c, x) /\ Sound(x) /\ Stash(x) = {}
            /\ x.op = "deleteFolder" /\ x.at = "rename" /\ x.done = {}
            /\ x.from = f /\ x.songs = InFolder(f)
<1> DEFINE x == [NoReq EXCEPT !.at = "rename", !.op = "deleteFolder", !.from = f,
                              !.songs = InFolder(f)]
<1>1. InFolder(f) \in SUBSET Songs
  BY DEF InFolder
<1>2. /\ x \in RequestRow /\ x.op = "deleteFolder" /\ x.at = "rename" /\ x.done = {}
      /\ x.from = f /\ x.songs = InFolder(f)
  BY <1>1, NoReqIs DEF RequestRow, States, Ops
<1>3. Begin(c, x) /\ f \in Folders \ {Root}
  BY DEF DeleteFolder
<1> HIDE DEF x
<1>4. Sound(x) /\ Stash(x) = {}
  BY <1>2, <1>3 DEF Sound, Stash, Moves
<1> QED
  BY <1>2, <1>3, <1>4

LEMMA DeleteSongBegins ==
  ASSUME Safe, NEW c \in Clients, NEW s \in Songs, DeleteSong(c, s)
  PROVE  \E x \in RequestRow :
            /\ Begin(c, x) /\ Sound(x) /\ Stash(x) = {}
            /\ x.op = "deleteSong" /\ x.at = "rename" /\ x.done = {}
            /\ x.from = rows[s] /\ x.songs = {s}
<1> DEFINE x == [NoReq EXCEPT !.at = "rename", !.op = "deleteSong", !.from = rows[s],
                              !.songs = {s}]
<1>1. rows[s] \in Paths
  BY DEF DeleteSong, Safe, Types
<1>2. /\ x \in RequestRow /\ x.op = "deleteSong" /\ x.at = "rename" /\ x.done = {}
      /\ x.from = rows[s] /\ x.songs = {s}
  BY <1>1, NoReqIs DEF RequestRow, States, Ops
<1>3. Begin(c, x)
  BY DEF DeleteSong
<1> HIDE DEF x
<1>4. Sound(x) /\ Stash(x) = {}
  BY <1>1, <1>2 DEF Sound, Stash, Moves
<1> QED
  BY <1>2, <1>3, <1>4

LEMMA NoPlan == [s \in {} |-> None] \in Plans /\ DOMAIN [s \in {} |-> None] = {}
<1>1. [s \in {} |-> None] \in [{} -> Paths \X Paths \X Content]
  OBVIOUS
<1>2. {} \in SUBSET Songs
  OBVIOUS
<1> QED
  BY <1>1, <1>2 DEF Plans

LEMMA MovesBegin ==
  ASSUME Safe, NEW c \in Clients,
         \/ \E songs \in SUBSET Songs, f \in Folders : MoveSongs(c, songs, f)
         \/ \E s \in Songs, n \in Names : RenameMusicFile(c, s, n)
  PROVE  \E x \in RequestRow :
            /\ Begin(c, x) /\ Sound(x) /\ Stash(x) = {}
            /\ x.op \in Moves /\ x.at = "check" /\ x.done = {} /\ DOMAIN x.plan = {}
<1> DEFINE plan == [s \in {} |-> None]
<1>1. plan \in Plans /\ DOMAIN plan = {}
  BY NoPlan
<1>2. CASE \E songs \in SUBSET Songs, f \in Folders : MoveSongs(c, songs, f)
  <2>1. PICK songs \in SUBSET Songs, f \in Folders : MoveSongs(c, songs, f)
    BY <1>2
  <2> DEFINE x == [NoReq EXCEPT !.at = "check", !.op = "moveSongs", !.to = f, !.songs = songs,
                                !.plan = plan]
  <2>2. Begin(c, x)
    BY <2>1 DEF MoveSongs
  <2> HIDE DEF plan
  <2>3. /\ x \in RequestRow /\ x.op = "moveSongs" /\ x.at = "check" /\ x.done = {}
        /\ x.to = f /\ x.plan = plan
    BY <1>1, NoReqIs DEF RequestRow, States, Ops
  <2> HIDE DEF x
  <2>4. Sound(x) /\ Stash(x) = {}
    BY <1>1, <2>3 DEF Sound, Stash, Moves, Moving
  <2> QED
    BY <1>1, <2>2, <2>3, <2>4 DEF Moves
<1>3. CASE \E s \in Songs, n \in Names : RenameMusicFile(c, s, n)
  <2>1. PICK s \in Songs, n \in Names : RenameMusicFile(c, s, n)
    BY <1>3
  <2> DEFINE x == [NoReq EXCEPT !.at = "check", !.op = "renameFile", !.to = n, !.songs = {s},
                                !.plan = plan]
  <2>2. Begin(c, x)
    BY <2>1 DEF RenameMusicFile
  <2> HIDE DEF plan
  <2>3. /\ x \in RequestRow /\ x.op = "renameFile" /\ x.at = "check" /\ x.done = {}
        /\ x.to = n /\ x.plan = plan
    BY <1>1, NoReqIs DEF RequestRow, States, Ops
  <2> HIDE DEF x
  <2>4. Sound(x) /\ Stash(x) = {}
    BY <1>1, <2>3 DEF Sound, Stash, Moves, Moving
  <2> QED
    BY <1>1, <2>2, <2>3, <2>4 DEF Moves
<1> QED
  BY <1>2, <1>3

LEMMA RequestsKeep ==
  ASSUME Safe, NEW c \in Clients, Request(c)
  PROVE  Safe'
<1>1. UNCHANGED <<disk, dirs, trash, rows, placed, known, lost>>
  BY DEF Request, MoveFolder, DeleteFolder, DeleteSong, MoveSongs, RenameMusicFile
<1>2. \E x \in RequestRow : Begin(c, x) /\ Sound(x) /\ Stash(x) = {}
  <2>1. CASE \E f, g \in Folders : MoveFolder(c, f, g)
    BY <2>1, MoveFolderBegins
  <2>2. CASE \E f \in Folders : DeleteFolder(c, f)
    BY <2>2, DeleteFolderBegins
  <2>3. CASE \E s \in Songs : DeleteSong(c, s)
    BY <2>3, DeleteSongBegins
  <2>4. CASE \/ \E songs \in SUBSET Songs, f \in Folders : MoveSongs(c, songs, f)
             \/ \E s \in Songs, n \in Names : RenameMusicFile(c, s, n)
    BY <2>4, MovesBegin
  <2> QED
    BY <2>1, <2>2, <2>3, <2>4 DEF Request
<1> QED
  BY <1>1, <1>2, BeginKeeps

-----------------------------------------------------------------------------
(* Steps on the table.                                                     *)

LEMMA PrefixType ==
  ASSUME Types, NEW f \in Folders, NEW g \in Folders
  PROVE  /\ MovedPrefix(f, g) \in [Songs -> Paths \cup {None}]
         /\ \A s \in Songs : MovedPrefix(f, g)[s] # None <=> rows[s] # None
<1>1. \A s \in Songs : rows[s] # None => rows[s] \in Paths /\ rows[s][2] \in Names
  BY PathIs DEF Types
<1>2. \A s \in Songs : rows[s] # None => <<g, rows[s][2]>> \in Paths /\ <<g, rows[s][2]>> # None
  BY <1>1, PathIs, LibraryAssumption
<1> QED
  BY <1>1, <1>2 DEF MovedPrefix

LEMMA MoveSongPathPrefixKeeps ==
  ASSUME Safe, NEW c \in Clients, MoveSongPathPrefix(c)
  PROVE  Safe'
<1>1. /\ req[c].op = "moveFolder" /\ req[c].at = "update"
      /\ UNCHANGED <<disk, dirs, trash, placed, known, lost>>
  BY DEF MoveSongPathPrefix, history
<1>2. req[c].from \in Folders /\ req[c].to \in Folders
  BY <1>1 DEF Safe, Asked, Sound
<1> DEFINE table == MovedPrefix(req[c].from, req[c].to)
<1>3. CASE Distinct(table) /\ rows' = table /\ End(c)
  BY <1>1, <1>2, <1>3, PrefixType, Ends DEF Safe
<1>4. CASE req' = [req EXCEPT ![c].at = "back"] /\ UNCHANGED rows
  BY <1>1, <1>4, GoesUndo
<1> QED
  BY <1>3, <1>4 DEF MoveSongPathPrefix

LEMMA Removed ==
  ASSUME Safe, NEW ids \in SUBSET Songs,
         rows' = [s \in Songs |-> IF s \in ids THEN None ELSE rows[s]]
  PROVE  /\ rows' \in [Songs -> Paths \cup {None}] /\ Distinct(rows')
         /\ \A s \in Songs : rows'[s] # None => rows[s] # None
BY DEF Safe, Types, Table, Distinct

LEMMA DeleteSongsKeeps ==
  ASSUME Safe, NEW c \in Clients, DeleteSongs(c)
  PROVE  Safe'
<1>1. /\ req[c].op = "deleteFolder" /\ req[c].at = "update"
      /\ UNCHANGED <<disk, dirs, trash, placed, known, lost>>
  BY DEF DeleteSongs, history
<1>2. req[c].songs \in SUBSET Songs
  BY DEF Safe, Types, RequestRow
<1>3. CASE rows' = [s \in Songs |-> IF s \in req[c].songs THEN None ELSE rows[s]] /\ End(c)
  BY <1>1, <1>2, <1>3, Removed, Ends
<1>4. CASE req' = [req EXCEPT ![c].at = "back"] /\ UNCHANGED rows
  BY <1>1, <1>4, GoesUndo
<1> QED
  BY <1>3, <1>4 DEF DeleteSongs

LEMMA DeleteRowKeeps ==
  ASSUME Safe, NEW c \in Clients, DeleteRow(c)
  PROVE  Safe'
<1> DEFINE s == CHOOSE s \in req[c].songs : TRUE
<1>1. /\ req[c].op = "deleteSong" /\ req[c].at = "update"
      /\ UNCHANGED <<disk, dirs, trash, placed, known, lost>>
  BY DEF DeleteRow, history
<1>2. req[c] \in RequestRow /\ Sound(req[c]) /\ Types
  BY DEF Safe, Types, Asked
<1>3. CASE rows' = [rows EXCEPT ![s] = None] /\ req' = [req EXCEPT ![c].at = "parents"]
  <2> DEFINE x == At(req[c], "parents")
  <2>1. req' = [req EXCEPT ![c] = x]
    BY <1>2, <1>3, AtRecord
  <2>2. "parents" \in States
    BY DEF States
  <2>3. /\ x \in RequestRow /\ x.at = "parents" /\ x.op = req[c].op /\ x.from = req[c].from
        /\ x.songs = req[c].songs /\ x.done = req[c].done
    BY <1>2, <2>2, AtIs
  <2> HIDE DEF x
  <2>4. Sound(x) /\ Stash(x) = {}
    BY <1>1, <1>2, <2>3 DEF Sound, Stash, Moves
  <2>5. /\ rows' \in [Songs -> Paths \cup {None}] /\ Distinct(rows')
        /\ \A t \in Songs : rows'[t] # None => rows[t] # None
    BY <1>3 DEF Safe, Types, Table, Distinct
  <2> QED
    BY <1>1, <2>1, <2>3, <2>4, <2>5, RowsOnly
<1>4. CASE req' = [req EXCEPT ![c].at = "back"] /\ UNCHANGED rows
  BY <1>1, <1>4, GoesUndo
<1> QED
  BY <1>3, <1>4 DEF DeleteRow

\* The plan of a checked song.
LEMMA TargetType ==
  ASSUME Safe, NEW c \in Clients, NEW s \in Songs, req[c].op \in Moves, rows[s] # None
  PROVE  rows[s] \in Paths /\ Target(c, s) \in Paths /\ disk[Target(c, s)] \in Content
<1>1. rows[s] \in Paths
  BY DEF Safe, Types
<1>2. IF req[c].op = "moveSongs" THEN req[c].to \in Folders ELSE req[c].to \in Names
  BY DEF Safe, Asked, Sound
<1>3. Target(c, s) \in Paths
  BY <1>1, <1>2, PathIs DEF Target
<1> QED
  BY <1>1, <1>3 DEF Safe, Types

LEMMA InPlans ==
  ASSUME NEW plan \in Plans
  PROVE  /\ DOMAIN plan \subseteq Songs
         /\ \A s \in DOMAIN plan : /\ plan[s] \in Paths \X Paths \X Content
                                   /\ plan[s][1] \in Paths /\ plan[s][2] \in Paths
<1>1. PICK S \in SUBSET Songs : plan \in [S -> Paths \X Paths \X Content]
  BY DEF Plans
<1> QED
  BY <1>1

\* A song that is checked is planned, and nothing else changes.
LEMMA CheckSongPlans ==
  ASSUME Safe, NEW c \in Clients, NEW s \in Songs, CheckSong(c, s), Free(c, s)
  PROVE  \E x \in RequestRow :
            /\ req' = [req EXCEPT ![c] = x] /\ Sound(x) /\ Stash(x) = {}
            /\ x.op \in Moves /\ x.at = "check" /\ x.done = {}
            /\ DOMAIN x.plan = Planned(c) \cup {s} /\ x.plan[s][1] = rows[s]
            /\ \A t \in Planned(c) : x.plan[t] = req[c].plan[t]
<1>1. /\ req[c].at = "check" /\ s \in req[c].songs \ Planned(c)
      /\ UNCHANGED <<disk, dirs, trash, rows, placed, known, lost>>
  BY DEF CheckSong, history
<1>2. req[c] \in RequestRow /\ Sound(req[c])
  BY DEF Safe, Types, Asked
<1>3. req[c].op \in Moves /\ req[c].plan \in Plans
  BY <1>1, <1>2, NoReqIs DEF Sound, Moves, RequestRow, Ops
<1> DEFINE entry == <<rows[s], Target(c, s), disk[Target(c, s)]>>
           plan == [t \in Planned(c) \cup {s} |-> IF t = s THEN entry ELSE req[c].plan[t]]
           x == [req[c] EXCEPT !.plan = plan]
<1>4. rows[s] \in Paths /\ Target(c, s) \in Paths /\ disk[Target(c, s)] \in Content
  BY <1>3, TargetType DEF Free
<1>5. /\ entry \in Paths \X Paths \X Content
      /\ entry[1] = rows[s] /\ entry[2] = Target(c, s) /\ entry[3] = disk[Target(c, s)]
  BY <1>4
<1>6. req' = [req EXCEPT ![c] = x]
  BY DEF CheckSong, Safe, Types
<1> HIDE DEF entry
<1>7. /\ DOMAIN plan = Planned(c) \cup {s} /\ plan[s] = entry
      /\ \A t \in Planned(c) : t # s => plan[t] = req[c].plan[t]
  OBVIOUS
<1>8. /\ Planned(c) \subseteq Songs
      /\ \A t \in Planned(c) : req[c].plan[t] \in Paths \X Paths \X Content
  BY <1>3, InPlans DEF Planned
<1>9. plan \in [Planned(c) \cup {s} -> Paths \X Paths \X Content]
  BY <1>5, <1>8
<1>10. Planned(c) \cup {s} \in SUBSET Songs
  BY <1>8
<1>11. plan \in Plans
  BY <1>9, <1>10 DEF Plans
<1> HIDE DEF plan
<1>12. /\ x \in RequestRow /\ x.at = "check" /\ x.op = req[c].op /\ x.to = req[c].to
       /\ x.done = req[c].done /\ x.plan = plan
  BY <1>1, <1>2, <1>11 DEF RequestRow
<1> HIDE DEF x
<1>13. \A t \in Planned(c) : t # s
  BY <1>1
<1>14. Moving(req[c]) \subseteq Moving(x)
  BY <1>7, <1>12, <1>13 DEF Moving, Planned
<1>15. \A t \in Moving(x) : x.plan[t][3] = None
  <2>1. ASSUME NEW t \in Moving(x) PROVE x.plan[t][3] = None
    <3>1. CASE t = s
      BY <1>5, <1>7, <1>12, <2>1, <3>1 DEF Free, Moving
    <3>2. CASE t # s
      <4>1. t \in Moving(req[c]) /\ x.plan[t] = req[c].plan[t]
        BY <1>7, <1>12, <3>2 DEF Moving, Planned
      <4> QED
        BY <1>2, <1>3, <4>1 DEF Sound
    <3> QED
      BY <3>1, <3>2
  <2> QED
    BY <2>1
<1>16. \A t, u \in DOMAIN x.plan : x.plan[t][2] = x.plan[u][2] => t = u
  <2>1. \A t \in Planned(c) : plan[t][2] # plan[s][2]
    BY <1>5, <1>7, <1>13 DEF Free
  <2>2. \A t, u \in Planned(c) : plan[t][2] = plan[u][2] => t = u
    BY <1>2, <1>3, <1>7, <1>13 DEF Sound, Planned
  <2> QED
    BY <1>7, <1>12, <2>1, <2>2
<1>17. Sound(x) /\ Stash(x) = {}
  BY <1>1, <1>2, <1>3, <1>11, <1>12, <1>14, <1>15, <1>16 DEF Sound, Stash, Moves
<1>18. x.op \in Moves /\ x.done = {}
  BY <1>1, <1>2, <1>3, <1>12 DEF Sound
<1>19. /\ DOMAIN x.plan = Planned(c) \cup {s} /\ x.plan[s][1] = rows[s]
       /\ \A t \in Planned(c) : x.plan[t] = req[c].plan[t]
  BY <1>5, <1>7, <1>12, <1>13
<1> QED
  BY <1>6, <1>12, <1>17, <1>18, <1>19

LEMMA CheckSongKeeps ==
  ASSUME Safe, NEW c \in Clients, NEW s \in Songs, CheckSong(c, s)
  PROVE  Safe'
<1>1. UNCHANGED <<disk, dirs, trash, rows, placed, known, lost>>
  BY DEF CheckSong, history
<1>2. CASE Free(c, s)
  BY <1>1, <1>2, CheckSongPlans, RowsOnly DEF Safe, Types, Table
<1>3. CASE ~ Free(c, s)
  BY <1>1, <1>3, EndsOnly DEF CheckSong
<1> QED
  BY <1>2, <1>3

LEMMA CheckedKeeps ==
  ASSUME Safe, NEW c \in Clients, Checked(c)
  PROVE  Safe'
<1>1. /\ req[c].at = "check" /\ req' = [req EXCEPT ![c].at = "rename"]
      /\ UNCHANGED <<disk, dirs, trash, rows, placed, known, lost>>
  BY DEF Checked, history
<1>2. req[c] \in RequestRow /\ Sound(req[c])
  BY DEF Safe, Types, Asked
<1>3. req[c].op \in Moves
  BY <1>1, <1>2, NoReqIs DEF Sound, Moves, RequestRow, Ops
<1> QED
  BY <1>1, <1>3, GoesOn

LEMMA UpdateSongPathsKeeps ==
  ASSUME Safe, NEW c \in Clients, UpdateSongPaths(c)
  PROVE  Safe'
<1> DEFINE table == [s \in Songs |-> IF s \in ToMove(c) THEN req[c].plan[s][2] ELSE rows[s]]
<1>1. /\ req[c].op \in Moves /\ req[c].at = "rename"
      /\ UNCHANGED <<disk, dirs, trash, placed, known, lost>>
  BY DEF UpdateSongPaths, history, Moves
<1>2. req[c].plan \in Plans
  BY <1>1 DEF Safe, Asked, Sound
<1>3. CASE /\ \A s \in ToMove(c) : rows[s] # None
           /\ Distinct(table) /\ rows' = table /\ End(c)
  <2>1. \A s \in ToMove(c) : req[c].plan[s][2] \in Paths
    BY <1>2, InPlans DEF ToMove, Planned
  <2>2. /\ rows' \in [Songs -> Paths \cup {None}]
        /\ \A s \in Songs : rows'[s] # None => rows[s] # None
    BY <1>3, <2>1 DEF Safe, Types
  <2> HIDE DEF table
  <2> QED
    BY <1>1, <1>3, <2>2, Ends
<1>4. CASE req' = [req EXCEPT ![c].at = "back"] /\ UNCHANGED rows
  BY <1>1, <1>4, GoesUndo
<1> QED
  BY <1>3, <1>4 DEF UpdateSongPaths

LEMMA GiveUpKeeps ==
  ASSUME Safe, NEW c \in Clients, GiveUp(c)
  PROVE  Safe'
BY EndsOnly DEF GiveUp, history

-----------------------------------------------------------------------------
(* Steps on the disk.                                                      *)

\* A folder that is moved takes its files along.
LEMMA DirMoved ==
  ASSUME Types, OnDisk, NEW f \in dirs, NEW g \in Folders \ dirs, f # Root, MoveDir(f, g)
  PROVE  /\ disk' \in [Paths -> Content] /\ dirs' \subseteq Folders /\ Root \in dirs'
         /\ \A p \in Paths : p[1] = g => disk[p] = None /\ disk'[p] = disk[<<f, p[2]>>]
         /\ \A p \in Paths : p[1] = f => disk'[p] = None /\ disk'[<<g, p[2]>>] = disk[p]
         /\ \A p \in Paths : p[1] # f /\ p[1] # g => disk'[p] = disk[p]
         /\ \A p \in Paths : disk'[p] # None => p[1] \in dirs'
         /\ \A p, q \in Paths : disk'[p] # None /\ disk'[p] = disk'[q] => p = q
         /\ \A p \in Paths : \E q \in Paths : disk[p] # None => disk'[q] = disk[p]
         /\ \A q \in Paths : \E p \in Paths : disk'[q] # None => disk'[q] = disk[p]
<1>1. disk \in [Paths -> Content] /\ dirs \subseteq Folders /\ Root \in dirs /\ f # g
  BY DEF Types
<1>2. \A p \in Paths : disk[p] # None => p[1] \in dirs
  BY DEF OnDisk
<1>3. dirs' = (dirs \ {f}) \cup {g}
  BY DEF MoveDir
<1>4. disk' = [p \in Paths |-> CASE p[1] = g -> disk[<<f, p[2]>>]
                                 [] p[1] = f -> None
                                 [] OTHER -> disk[p]]
  BY DEF MoveDir
<1>5. \A p \in Paths : p[1] = g => disk[p] = None /\ disk'[p] = disk[<<f, p[2]>>]
  BY <1>2, <1>4
<1>6. \A p \in Paths : p[1] = f => disk'[p] = None
  BY <1>1, <1>4
<1>7. \A p \in Paths : p[1] # f /\ p[1] # g => disk'[p] = disk[p]
  BY <1>4
<1>8. \A p \in Paths : <<f, p[2]>> \in Paths /\ <<g, p[2]>> \in Paths
                       /\ <<f, p[2]>>[1] = f /\ <<g, p[2]>>[1] = g /\ <<g, p[2]>>[2] = p[2]
  BY <1>1, PathIs
<1>9. \A p \in Paths : p[1] = f => disk'[<<g, p[2]>>] = disk[p]
  <2>1. \A p \in Paths : p[1] = f => p = <<f, p[2]>>
    BY PathIs
  <2> QED
    BY <1>5, <1>8, <2>1
<1>10. disk' \in [Paths -> Content]
  <2>1. None \in Content /\ \A p \in Paths : disk[p] \in Content
    BY <1>1 DEF Content
  <2>2. ASSUME NEW p \in Paths
        PROVE  disk'[p] \in Content
    <3>1. CASE p[1] = g
      BY <1>5, <1>8, <2>1, <3>1
    <3>2. CASE p[1] = f
      BY <1>6, <2>1, <3>2
    <3>3. CASE p[1] # f /\ p[1] # g
      BY <1>7, <2>1, <3>3
    <3> QED
      BY <3>1, <3>2, <3>3
  <2> QED
    BY <1>4, <2>2
<1>11. \A p \in Paths : disk'[p] # None => p[1] \in dirs'
  BY <1>2, <1>3, <1>6, <1>7
<1> DEFINE From(p) == IF p[1] = g THEN <<f, p[2]>> ELSE p
<1>12. \A p \in Paths : disk'[p] # None => From(p) \in Paths /\ disk'[p] = disk[From(p)]
  BY <1>5, <1>6, <1>7, <1>8
<1>13. \A p, q \in Paths : From(p) = From(q) /\ disk'[p] # None /\ disk'[q] # None => p = q
  <2>1. ASSUME NEW p \in Paths, NEW q \in Paths, From(p) = From(q),
               disk'[p] # None, disk'[q] # None
        PROVE  p = q
    <3>1. p[1] # f /\ q[1] # f
      BY <1>6, <2>1
    <3>2. p = <<p[1], p[2]>> /\ q = <<q[1], q[2]>>
      BY PathIs
    <3>3. CASE p[1] = g /\ q[1] = g
      BY <2>1, <3>2, <3>3
    <3>4. CASE p[1] = g /\ q[1] # g
      BY <1>8, <2>1, <3>1, <3>4
    <3>5. CASE p[1] # g /\ q[1] = g
      BY <1>8, <2>1, <3>1, <3>5
    <3>6. CASE p[1] # g /\ q[1] # g
      BY <2>1, <3>6
    <3> QED
      BY <3>3, <3>4, <3>5, <3>6
  <2> QED
    BY <2>1
<1> HIDE DEF From
<1>14. \A p, q \in Paths : disk'[p] # None /\ disk'[p] = disk'[q] => p = q
  BY <1>12, <1>13 DEF OnDisk
<1>15. \A p \in Paths : \E q \in Paths : disk[p] # None => disk'[q] = disk[p]
  <2> SUFFICES ASSUME NEW p \in Paths PROVE \E q \in Paths : disk[p] # None => disk'[q] = disk[p]
    OBVIOUS
  <2>1. CASE p[1] = f
    BY <1>8, <1>9, <2>1
  <2>2. CASE p[1] # f
    BY <1>5, <1>7, <2>2
  <2> QED
    BY <2>1, <2>2
<1>16. \A q \in Paths : \E p \in Paths : disk'[q] # None => disk'[q] = disk[p]
  BY <1>12
<1> QED
  BY <1>1, <1>3, <1>5, <1>6, <1>7, <1>9, <1>10, <1>11, <1>14, <1>15, <1>16

\* A file that is renamed takes the place of what is there.
LEMMA FileMoved ==
  ASSUME Types, OnDisk, NEW old \in Paths, NEW new \in Paths, old # new,
         CanRename(old, new), RenameFile(old, new)
  PROVE  /\ disk' \in [Paths -> Content]
         /\ disk'[new] = disk[old] /\ disk[old] # None /\ disk'[old] = None
         /\ \A p \in Paths : p # old /\ p # new => disk'[p] = disk[p]
         /\ \A p \in Paths : disk'[p] # None => p[1] \in dirs /\ disk'[p] \notin trash
         /\ \A p, q \in Paths : disk'[p] # None /\ disk'[p] = disk'[q] => p = q
<1>1. /\ disk' \in [Paths -> Content]
      /\ disk'[new] = disk[old] /\ disk'[old] = None
      /\ \A p \in Paths : p # old /\ p # new => disk'[p] = disk[p]
  BY DEF RenameFile, Types, Content
<1>2. disk[old] # None /\ new[1] \in dirs
  BY DEF CanRename
<1> QED
  BY <1>1, <1>2 DEF OnDisk

LEMMA MovedFolderKeeps ==
  ASSUME Safe, NEW f \in dirs, NEW g \in Folders \ dirs, f # Root, MoveDir(f, g),
         UNCHANGED <<trash, rows, placed, known, lost>>,
         req' \in [Clients -> RequestRow], Asked', Hoards'
  PROVE  Safe'
<1>1. /\ disk' \in [Paths -> Content] /\ dirs' \subseteq Folders /\ Root \in dirs'
      /\ \A p \in Paths : disk'[p] # None => p[1] \in dirs'
      /\ \A p, q \in Paths : disk'[p] # None /\ disk'[p] = disk'[q] => p = q
      /\ \A p \in Paths : \E q \in Paths : disk[p] # None => disk'[q] = disk[p]
      /\ \A q \in Paths : \E p \in Paths : disk'[q] # None => disk'[q] = disk[p]
  BY DirMoved DEF Safe
<1>2. Types' /\ Table'
  BY <1>1 DEF Safe, Types, Table
<1>3. OnDisk'
  BY <1>1 DEF Safe, OnDisk
<1>4. Kept'
  <2> SUFFICES ASSUME NEW t \in Songs \ lost, t \in known \/ placed[t] # None
               PROVE  t \in trash \/ \E q \in Paths : disk'[q] = t
    BY DEF Kept
  <2>1. t \in trash \/ \E p \in Paths : disk[p] = t
    BY DEF Safe, Kept
  <2>2. t # None
    BY LibraryAssumption
  <2> QED
    BY <1>1, <2>1, <2>2, SMTT(30)
<1> QED
  BY <1>2, <1>3, <1>4 DEF Safe

LEMMA RenameFolderKeeps ==
  ASSUME Safe, NEW c \in Clients, RenameFolder(c)
  PROVE  Safe'
<1> DEFINE f == req[c].from
           g == req[c].to
           x == [req[c] EXCEPT !.at = "update", !.songs = InFolder(f)]
<1>1. /\ req[c].op = "moveFolder" /\ req[c].at = "rename"
      /\ UNCHANGED <<trash, rows, placed, known, lost>>
  BY DEF RenameFolder
<1>2. req[c] \in RequestRow /\ Sound(req[c]) /\ InFolder(f) \in SUBSET Songs
  BY DEF Safe, Types, Asked, InFolder
<1>3. f \in Folders \ {Root} /\ g \in Folders \ {Root} /\ f # g
  BY <1>1, <1>2 DEF Sound
<1>4. CASE CanMove(f, g)
  <2>1. /\ x \in RequestRow /\ x.at = "update" /\ x.op = "moveFolder" /\ x.from = f /\ x.to = g
        /\ x.done = req[c].done
    BY <1>1, <1>2 DEF RequestRow, States
  <2>2. req' = [req EXCEPT ![c] = x] /\ MoveDir(f, g)
    BY <1>4 DEF RenameFolder, Safe, Types
  <2> HIDE DEF x
  <2>3. Sound(x) /\ Stash(x) = {}
    BY <1>1, <1>2, <1>3, <2>1 DEF Sound, Stash, Moves
  <2>4. req' \in [Clients -> RequestRow] /\ Asked' /\ Hoards'
    BY <1>1, <2>1, <2>2, <2>3, RequestKeeps
  <2>5. f \in dirs /\ g \in Folders \ dirs /\ f # Root
    BY <1>3, <1>4 DEF CanMove
  <2> QED
    BY <1>1, <2>2, <2>4, <2>5, MovedFolderKeeps
<1>5. CASE ~ CanMove(f, g)
  BY <1>1, <1>5, EndsOnly DEF RenameFolder
<1> QED
  BY <1>4, <1>5

LEMMA MoveFolderBackKeeps ==
  ASSUME Safe, NEW c \in Clients, MoveFolderBack(c)
  PROVE  Safe'
<1> DEFINE f == req[c].from
           g == req[c].to
<1>1. /\ req[c].op = "moveFolder" /\ req[c].at = "back" /\ End(c)
      /\ UNCHANGED <<trash, rows, placed, known, lost>>
  BY DEF MoveFolderBack
<1>2. f \in Folders \ {Root} /\ g \in Folders \ {Root} /\ f # g
  BY <1>1 DEF Safe, Asked, Sound
<1>3. CASE CanMove(g, f)
  <2>1. MoveDir(g, f)
    BY <1>3 DEF MoveFolderBack
  <2>2. Stash(req[c]) = {}
    BY <1>1 DEF Stash
  <2>3. req' \in [Clients -> RequestRow] /\ Asked' /\ Hoards'
    BY <1>1, <2>2, NoReqIs, RequestKeeps DEF End
  <2>4. g \in dirs /\ f \in Folders \ dirs /\ g # Root
    BY <1>2, <1>3 DEF CanMove
  <2> QED
    BY <1>1, <2>1, <2>3, <2>4, MovedFolderKeeps
<1>4. CASE ~ CanMove(g, f)
  BY <1>1, <1>4, EndsOnly DEF MoveFolderBack
<1> QED
  BY <1>3, <1>4

LEMMA TrashFolderKeeps ==
  ASSUME Safe, NEW c \in Clients, TrashFolder(c)
  PROVE  Safe'
<1> DEFINE f == req[c].from
           saved == [n \in Names |-> disk[<<f, n>>]]
           x == [req[c] EXCEPT !.at = "update", !.saved = saved]
<1>1. /\ req[c].op = "deleteFolder" /\ req[c].at = "rename"
      /\ UNCHANGED <<rows, placed, known, lost>>
  BY DEF TrashFolder
<1>2. req[c] \in RequestRow /\ Sound(req[c]) /\ f \in Folders \ {Root}
  BY <1>1 DEF Safe, Types, Asked, Sound
<1>3. CASE f \in dirs
  <2>1. /\ trash' = trash \cup Files(f) /\ dirs' = dirs \ {f}
        /\ disk' = [p \in Paths |-> IF p[1] = f THEN None ELSE disk[p]]
        /\ req' = [req EXCEPT ![c] = x]
    BY <1>3 DEF TrashFolder, Safe, Types
  <2>2. \A n \in Names : <<f, n>> \in Paths /\ <<f, n>>[1] = f /\ <<f, n>>[2] = n
    BY <1>2, PathIs
  <2>3. saved \in [Names -> Content] /\ \A n \in Names : saved[n] = disk[<<f, n>>]
    BY <2>2 DEF Safe, Types
  <2>4. \A m, n \in Names : saved[m] # None /\ saved[m] = saved[n] => m = n
    BY <2>2, <2>3 DEF Safe, OnDisk
  <2>5. Files(f) = {saved[n] : n \in Names} \ {None}
    BY <2>3 DEF Files
  <2> HIDE DEF saved
  <2>6. /\ x \in RequestRow /\ x.at = "update" /\ x.op = "deleteFolder" /\ x.from = f
        /\ x.done = req[c].done /\ x.saved = saved
    BY <1>1, <1>2, <2>3 DEF RequestRow, States
  <2> HIDE DEF x
  <2>7. Sound(x)
    BY <1>1, <1>2, <2>3, <2>4, <2>6 DEF Sound, Moves
  <2>8. Stash(x) = Files(f) /\ Stash(req[c]) = {}
    BY <1>1, <2>5, <2>6 DEF Stash
  <2>9. Files(f) \subseteq Songs /\ Files(f) \cap trash = {}
    <3>1. ASSUME NEW s \in Files(f) PROVE s \in Songs /\ s \notin trash
      <4>1. PICK n \in Names : s = disk[<<f, n>>] /\ s # None /\ s \in Content
        BY <2>3, <2>5
      <4> QED
        BY <2>2, <4>1 DEF Safe, OnDisk, Content
    <3> QED
      BY <3>1
  <2>10. req' \in [Clients -> RequestRow] /\ Asked' /\ Hoards'
    BY <2>1, <2>6, <2>7, <2>8, <2>9, RequestKeeps
  <2>11. /\ \A p \in Paths : p[1] = f => disk'[p] = None /\ disk[p] \in Files(f) \cup {None}
         /\ \A p \in Paths : p[1] # f => disk'[p] = disk[p]
    <3>1. \A p \in Paths : p[1] = f => disk[p] = saved[p[2]] /\ p[2] \in Names
      BY <2>3, PathIs
    <3> QED
      BY <2>1, <2>5, <3>1
  <2>12. Types'
    BY <1>1, <1>2, <2>1, <2>9, <2>10 DEF Safe, Types, Content
  <2>13. OnDisk'
    <3>1. \A p \in Paths : disk'[p] # None => p[1] \in dirs' /\ disk'[p] \notin trash'
      <4>1. ASSUME NEW p \in Paths, disk'[p] # None, disk'[p] \in Files(f) PROVE FALSE
        <5>1. p[1] # f /\ disk[p] \in Files(f) /\ disk[p] # None
          BY <2>11, <4>1
        <5>2. PICK n \in Names : disk[p] = disk[<<f, n>>]
          BY <2>3, <2>5, <5>1
        <5> QED
          BY <2>2, <5>1, <5>2 DEF Safe, OnDisk
      <4> QED
        BY <2>1, <2>11, <4>1 DEF Safe, OnDisk
    <3>2. \A p, q \in Paths : disk'[p] # None /\ disk'[p] = disk'[q] => p = q
      BY <2>11 DEF Safe, OnDisk
    <3> QED
      BY <3>1, <3>2 DEF OnDisk
  <2>14. Table'
    BY <1>1 DEF Safe, Table
  <2>15. Kept'
    <3> SUFFICES ASSUME NEW t \in Songs \ lost, t \in known \/ placed[t] # None
                 PROVE  t \in trash' \/ \E q \in Paths : disk'[q] = t
      BY <1>1 DEF Kept
    <3>1. t \in trash \/ \E p \in Paths : disk[p] = t
      BY DEF Safe, Kept
    <3>2. t # None
      BY LibraryAssumption
    <3> QED
      BY <2>1, <2>11, <3>1, <3>2
  <2> QED
    BY <2>10, <2>12, <2>13, <2>14, <2>15 DEF Safe
<1>4. CASE f \notin dirs
  BY <1>1, <1>4, EndsOnly DEF TrashFolder
<1> QED
  BY <1>3, <1>4

LEMMA RestoreFolderKeeps ==
  ASSUME Safe, NEW c \in Clients, RestoreFolder(c)
  PROVE  Safe'
<1> DEFINE f == req[c].from
           saved == req[c].saved
           back == {saved[n] : n \in Names}
<1>1. /\ req[c].op = "deleteFolder" /\ req[c].at = "back" /\ End(c)
      /\ UNCHANGED <<rows, placed, known, lost>>
  BY DEF RestoreFolder
<1>2. /\ f \in Folders \ {Root} /\ saved \in [Names -> Content]
      /\ \A m, n \in Names : saved[m] # None /\ saved[m] = saved[n] => m = n
  BY <1>1 DEF Safe, Asked, Sound
<1>3. Stash(req[c]) = back \ {None} /\ back \ {None} \subseteq trash
  BY <1>1 DEF Stash, Safe, Hoards
<1>4. CASE f \notin dirs
  <2>1. /\ trash' = trash \ back /\ dirs' = dirs \cup {f}
        /\ disk' = [p \in Paths |-> IF p[1] = f THEN saved[p[2]] ELSE disk[p]]
    BY <1>4 DEF RestoreFolder
  <2> HIDE DEF saved
  <2>2. /\ \A p \in Paths : p[1] = f => disk'[p] = saved[p[2]] /\ disk[p] = None
        /\ \A p \in Paths : p[1] # f => disk'[p] = disk[p]
    BY <1>4, <2>1 DEF Safe, OnDisk
  <2>3. req' \in [Clients -> RequestRow] /\ Asked' /\ Hoards'
    <3>1. trash \ Stash(req[c]) \subseteq trash'
      BY <1>3, <2>1, LibraryAssumption DEF Safe, Types
    <3> QED
      BY <1>1, <3>1, NoReqIs, RequestKeeps DEF End
  <2>4. disk' \in [Paths -> Content]
    <3>1. \A p \in Paths : disk'[p] \in Content
      BY <1>2, <2>2, PathIs DEF Safe, Types
    <3> QED
      BY <2>1, <3>1
  <2>5. Types'
    BY <1>1, <1>2, <2>1, <2>3, <2>4 DEF Safe, Types
  <2>6. \A p \in Paths : p[1] = f => disk'[p] \in back
    BY <2>2, PathIs
  <2>7. OnDisk'
    <3>1. \A p \in Paths : disk'[p] # None => p[1] \in dirs' /\ disk'[p] \notin trash'
      BY <2>1, <2>2, <2>6 DEF Safe, OnDisk
    <3>2. ASSUME NEW p \in Paths, NEW q \in Paths, disk'[p] # None, disk'[p] = disk'[q]
          PROVE  p = q
      <4>1. CASE p[1] = f /\ q[1] = f
        <5>1. p[2] = q[2]
          BY <1>2, <2>2, <3>2, <4>1, PathIs
        <5> QED
          BY <4>1, <5>1, PathIs
      <4>2. CASE p[1] # f /\ q[1] # f
        BY <2>2, <3>2, <4>2 DEF Safe, OnDisk
      <4>3. CASE p[1] = f /\ q[1] # f
        BY <1>3, <2>2, <2>6, <3>2, <4>3 DEF Safe, OnDisk
      <4>4. CASE p[1] # f /\ q[1] = f
        BY <1>3, <2>2, <2>6, <3>2, <4>4 DEF Safe, OnDisk
      <4> QED
        BY <4>1, <4>2, <4>3, <4>4
    <3> QED
      BY <3>1, <3>2 DEF OnDisk
  <2>8. Table'
    BY <1>1 DEF Safe, Table
  <2>9. Kept'
    <3> SUFFICES ASSUME NEW t \in Songs \ lost, t \in known \/ placed[t] # None
                 PROVE  t \in trash' \/ \E q \in Paths : disk'[q] = t
      BY <1>1 DEF Kept
    <3>1. t \in trash \/ \E p \in Paths : disk[p] = t
      BY DEF Safe, Kept
    <3>2. t # None
      BY LibraryAssumption
    <3>3. t \in back => \E q \in Paths : disk'[q] = t
      <4>1. SUFFICES ASSUME t \in back PROVE \E q \in Paths : disk'[q] = t
        OBVIOUS
      <4>2. PICK n \in Names : t = saved[n]
        BY <4>1
      <4>3. <<f, n>> \in Paths /\ <<f, n>>[1] = f /\ <<f, n>>[2] = n
        BY <1>2, PathIs
      <4> QED
        BY <2>2, <4>2, <4>3
    <3> QED
      BY <2>1, <2>2, <3>1, <3>2, <3>3
  <2> QED
    BY <2>3, <2>5, <2>7, <2>8, <2>9 DEF Safe
<1>5. CASE f \in dirs
  BY <1>1, <1>5, EndsOnly DEF RestoreFolder
<1> QED
  BY <1>4, <1>5

LEMMA TrashFileKeeps ==
  ASSUME Safe, NEW c \in Clients, TrashFile(c)
  PROVE  Safe'
<1> DEFINE p == req[c].from
           x == [req[c] EXCEPT !.at = "update", !.saved = disk[p]]
<1>1. /\ req[c].op = "deleteSong" /\ req[c].at = "rename"
      /\ UNCHANGED <<dirs, rows, placed, known, lost>>
  BY DEF TrashFile
<1>2. req[c] \in RequestRow /\ Sound(req[c]) /\ p \in Paths /\ disk[p] \in Content
  BY <1>1 DEF Safe, Types, Asked, Sound
<1>3. CASE disk[p] # None
  <2>1. /\ trash' = trash \cup {disk[p]} /\ disk' = [disk EXCEPT ![p] = None]
        /\ req' = [req EXCEPT ![c] = x]
    BY <1>3 DEF TrashFile, Safe, Types
  <2>2. disk[p] \in Songs /\ disk[p] \notin trash
    BY <1>2, <1>3 DEF Content, Safe, OnDisk
  <2>3. /\ x \in RequestRow /\ x.at = "update" /\ x.op = "deleteSong" /\ x.from = p
        /\ x.done = req[c].done /\ x.songs = req[c].songs /\ x.saved = disk[p]
    BY <1>1, <1>2 DEF RequestRow, States
  <2> HIDE DEF x
  <2>4. Sound(x)
    BY <1>1, <1>2, <2>2, <2>3 DEF Sound, Moves
  <2>5. Stash(x) = {disk[p]} /\ Stash(req[c]) = {}
    BY <1>1, <2>3 DEF Stash
  <2>6. req' \in [Clients -> RequestRow] /\ Asked' /\ Hoards'
    BY <2>1, <2>2, <2>3, <2>4, <2>5, RequestKeeps
  <2>7. /\ disk' \in [Paths -> Content] /\ disk'[p] = None
        /\ \A q \in Paths : q # p => disk'[q] = disk[q]
    BY <1>2, <2>1 DEF Safe, Types, Content
  <2>8. Types'
    BY <1>1, <2>1, <2>2, <2>6, <2>7 DEF Safe, Types
  <2>9. OnDisk'
    BY <1>1, <1>2, <2>1, <2>7 DEF Safe, OnDisk
  <2>10. Table'
    BY <1>1 DEF Safe, Table
  <2>11. Kept'
    BY <1>1, <1>2, <2>1, <2>7 DEF Safe, Kept
  <2> QED
    BY <2>6, <2>8, <2>9, <2>10, <2>11 DEF Safe
<1>4. CASE disk[p] = None
  BY <1>1, <1>4, EndsOnly DEF TrashFile
<1> QED
  BY <1>3, <1>4

LEMMA RestoreFileKeeps ==
  ASSUME Safe, NEW c \in Clients, RestoreFile(c)
  PROVE  Safe'
<1> DEFINE p == req[c].from
           s == req[c].saved
<1>1. /\ req[c].op = "deleteSong" /\ req[c].at = "back" /\ End(c)
      /\ UNCHANGED <<dirs, rows, placed, known>>
  BY DEF RestoreFile
<1>2. p \in Paths /\ s \in Songs /\ s # None
  BY <1>1, LibraryAssumption DEF Safe, Asked, Sound
<1>3. Stash(req[c]) = {s} /\ s \in trash
  BY <1>1 DEF Stash, Safe, Hoards
<1>4. CASE p[1] \in dirs
  <2>1. /\ trash' = trash \ {s} /\ disk' = [disk EXCEPT ![p] = s]
        /\ lost' = lost \cup ({disk[p]} \ {None})
    BY <1>4 DEF RestoreFile
  <2>2. req' \in [Clients -> RequestRow] /\ Asked' /\ Hoards'
    BY <1>1, <1>3, <2>1, NoReqIs, RequestKeeps DEF End
  <2> HIDE DEF s
  <2>3. /\ disk' \in [Paths -> Content] /\ disk'[p] = s
        /\ \A q \in Paths : q # p => disk'[q] = disk[q]
    BY <1>2, <2>1 DEF Safe, Types, Content
  <2>4. Types'
    BY <1>1, <2>1, <2>2, <2>3 DEF Safe, Types
  <2>5. OnDisk'
    BY <1>1, <1>2, <1>3, <1>4, <2>1, <2>3 DEF Safe, OnDisk
  <2>6. Table'
    BY <1>1 DEF Safe, Table
  <2>7. Kept'
    <3> SUFFICES ASSUME NEW t \in Songs \ lost', t \in known \/ placed[t] # None
                 PROVE  t \in trash' \/ \E q \in Paths : disk'[q] = t
      BY <1>1 DEF Kept
    <3>1. t \in trash \/ \E q \in Paths : disk[q] = t
      BY <2>1 DEF Safe, Kept
    <3>2. t # None /\ disk[p] # t
      BY <2>1, LibraryAssumption
    <3> QED
      BY <1>2, <2>1, <2>3, <3>1, <3>2
  <2> QED
    BY <2>2, <2>4, <2>5, <2>6, <2>7 DEF Safe
<1>5. CASE p[1] \notin dirs
  BY <1>1, <1>5, EndsOnly DEF RestoreFile
<1> QED
  BY <1>4, <1>5

LEMMA RemoveEmptyParentsKeeps ==
  ASSUME Safe, NEW c \in Clients, RemoveEmptyParents(c)
  PROVE  Safe'
<1> DEFINE f == req[c].from[1]
<1>1. /\ req[c].at = "parents" /\ End(c) /\ UNCHANGED <<disk, trash, rows, placed, known, lost>>
      /\ dirs' = IF f # Root /\ Empty(f) THEN dirs \ {f} ELSE dirs
  BY DEF RemoveEmptyParents, history
<1>2. Stash(req[c]) = {}
  BY <1>1 DEF Stash
<1>3. req' \in [Clients -> RequestRow] /\ Asked' /\ Hoards'
  BY <1>1, <1>2, NoReqIs, RequestKeeps DEF End
<1>4. Types' /\ Table' /\ Kept'
  BY <1>1, <1>3 DEF Safe, Types, Table, Kept
<1>5. OnDisk'
  <2>1. \A p \in Paths : p[1] = f /\ Empty(f) => disk[p] = None
    BY PathIs DEF Empty
  <2> QED
    BY <1>1, <2>1 DEF Safe, OnDisk
<1> QED
  BY <1>3, <1>4, <1>5 DEF Safe

\* What a planned song's file is renamed from and to.
LEMMA PlanIs ==
  ASSUME Safe, NEW c \in Clients, req[c].op \in Moves, NEW s \in ToMove(c)
  PROVE  /\ s \in Songs /\ req[c].plan[s][1] \in Paths /\ req[c].plan[s][2] \in Paths
         /\ req[c].plan[s][1] # req[c].plan[s][2] /\ req[c].plan[s][3] = None
<1>1. req[c].plan \in Plans /\ s \in DOMAIN req[c].plan /\ s \in Moving(req[c])
  BY DEF Safe, Asked, Sound, ToMove, Planned, Moving
<1>2. req[c].plan[s][3] = None
  BY <1>1 DEF Safe, Asked, Sound
<1> QED
  BY <1>1, <1>2, InPlans DEF Moving

\* A rename of a request loses only what was put in its way.
LEMMA MovedFileKeeps ==
  ASSUME Safe, NEW c \in Clients, req[c].op \in Moves, NEW x \in RequestRow, Sound(x),
         Stash(x) = {}, req' = [req EXCEPT ![c] = x],
         NEW old \in Paths, NEW new \in Paths, old # new,
         CanRename(old, new), RenameFile(old, new), lost' = lost \cup ({disk[new]} \ {None}),
         UNCHANGED <<dirs, trash, rows, placed, known>>
  PROVE  Safe'
<1>1. /\ disk' \in [Paths -> Content]
      /\ disk'[new] = disk[old] /\ disk[old] # None /\ disk'[old] = None
      /\ \A p \in Paths : p # old /\ p # new => disk'[p] = disk[p]
      /\ \A p \in Paths : disk'[p] # None => p[1] \in dirs /\ disk'[p] \notin trash
      /\ \A p, q \in Paths : disk'[p] # None /\ disk'[p] = disk'[q] => p = q
  BY FileMoved DEF Safe
<1>2. Stash(req[c]) = {}
  BY DEF Stash, Moves
<1>3. req' \in [Clients -> RequestRow] /\ Asked' /\ Hoards'
  BY <1>2, RequestKeeps
<1>4. Types' /\ Table'
  BY <1>1, <1>3 DEF Safe, Types, Table
<1>5. OnDisk'
  BY <1>1 DEF OnDisk
<1>6. Kept'
  <2> SUFFICES ASSUME NEW t \in Songs \ lost', t \in known \/ placed[t] # None
               PROVE  t \in trash' \/ \E q \in Paths : disk'[q] = t
    BY DEF Kept
  <2>1. t \in trash \/ \E q \in Paths : disk[q] = t
    BY DEF Safe, Kept
  <2>2. t # None /\ disk[new] # t
    BY LibraryAssumption
  <2> QED
    BY <1>1, <2>1, <2>2
<1> QED
  BY <1>3, <1>4, <1>5, <1>6 DEF Safe

LEMMA RenameSongKeeps ==
  ASSUME Safe, NEW c \in Clients, NEW s \in Planned(c), RenameSong(c, s)
  PROVE  Safe'
<1> DEFINE old == req[c].plan[s][1]
           new == req[c].plan[s][2]
           x == [req[c] EXCEPT !.done = req[c].done \cup {s}]
<1>1. /\ req[c].op \in Moves /\ req[c].at = "rename" /\ s \in ToMove(c) \ req[c].done
      /\ UNCHANGED <<dirs, trash, rows, placed, known>>
  BY DEF RenameSong, Moves
<1>2. req[c] \in RequestRow /\ Sound(req[c])
  BY DEF Safe, Types, Asked
<1>3. s \in Songs /\ old \in Paths /\ new \in Paths /\ old # new /\ req[c].plan[s][3] = None
  BY <1>1, PlanIs
<1>4. CASE CanRename(old, new)
  <2>1. /\ RenameFile(old, new) /\ lost' = lost \cup ({disk[new]} \ {None})
        /\ req' = [req EXCEPT ![c] = x]
    BY <1>3, <1>4 DEF RenameSong, Safe, Types
  <2>2. /\ x \in RequestRow /\ x.at = "rename" /\ x.op = req[c].op /\ x.to = req[c].to
        /\ x.plan = req[c].plan /\ x.done = req[c].done \cup {s}
    BY <1>1, <1>2, <1>3 DEF RequestRow
  <2> HIDE DEF x, old, new
  <2>3. Moving(x) = Moving(req[c]) /\ s \in Moving(req[c])
    BY <1>1, <2>2 DEF Moving, ToMove, Planned
  <2>4. Sound(x)
    BY <1>1, <1>2, <2>2, <2>3 DEF Sound, Moves
  <2>5. Stash(x) = {}
    BY <2>2 DEF Stash
  <2> QED
    BY <1>1, <1>3, <1>4, <2>1, <2>2, <2>4, <2>5, MovedFileKeeps
<1>5. CASE ~ CanRename(old, new)
  BY <1>1, <1>5, GoesUndo DEF RenameSong
<1> QED
  BY <1>4, <1>5

LEMMA RenameBackKeeps ==
  ASSUME Safe, NEW c \in Clients, NEW s \in Planned(c), RenameBack(c, s)
  PROVE  Safe'
<1> DEFINE old == req[c].plan[s][1]
           new == req[c].plan[s][2]
           x == [req[c] EXCEPT !.done = req[c].done \ {s}]
<1>1. /\ req[c].op \in Moves /\ req[c].at = "back" /\ s \in req[c].done
      /\ UNCHANGED <<dirs, trash, rows, placed, known>>
      /\ req' = [req EXCEPT ![c].done = @ \ {s}]
  BY DEF RenameBack, Moves
<1>2. req[c] \in RequestRow /\ Sound(req[c])
  BY DEF Safe, Types, Asked
<1>3. s \in Songs /\ old \in Paths /\ new \in Paths /\ old # new
  <2>1. s \in ToMove(c)
    BY <1>1, <1>2 DEF Sound, Moving, ToMove, Planned
  <2> QED
    BY <1>1, <2>1, PlanIs
<1>4. /\ x \in RequestRow /\ x.at = "back" /\ x.op = req[c].op /\ x.to = req[c].to
      /\ x.plan = req[c].plan /\ x.done = req[c].done \ {s}
  BY <1>1, <1>2 DEF RequestRow
<1>5. req' = [req EXCEPT ![c] = x]
  BY <1>1 DEF Safe, Types
<1> HIDE DEF x, old, new
<1>6. Moving(x) = Moving(req[c])
  BY <1>4 DEF Moving
<1>7. Sound(x)
  BY <1>1, <1>2, <1>4, <1>6 DEF Sound, Moves
<1>8. Stash(x) = {} /\ Stash(req[c]) = {}
  BY <1>1, <1>4 DEF Stash, Moves
<1>9. CASE CanRename(new, old)
  <2>1. RenameFile(new, old) /\ lost' = lost \cup ({disk[old]} \ {None})
    BY <1>9 DEF RenameBack, old, new
  <2> QED
    BY <1>1, <1>3, <1>4, <1>5, <1>7, <1>8, <1>9, <2>1, MovedFileKeeps
<1>10. CASE ~ CanRename(new, old)
  <2>1. UNCHANGED <<disk, lost>>
    BY <1>10 DEF RenameBack, old, new
  <2> QED
    BY <1>1, <1>4, <1>5, <1>7, <1>8, <2>1, RowsOnly DEF Safe, Types, Table
<1> QED
  BY <1>9, <1>10

LEMMA DieKeeps ==
  ASSUME Safe, Die
  PROVE  Safe'
<1>1. /\ req' = [c \in Clients |-> NoReq] /\ placed' = [s \in Songs |-> None]
      /\ UNCHANGED <<disk, dirs, trash, rows, known, lost>>
  BY DEF Die
<1>2. \A c \in Clients : req'[c] = NoReq
  BY <1>1
<1>3. Asked' /\ Hoards' /\ req' \in [Clients -> RequestRow]
  BY <1>1, <1>2, NoReqIs DEF Asked, Hoards
<1>4. Types'
  BY <1>1, <1>3 DEF Safe, Types
<1> QED
  BY <1>1, <1>3, <1>4 DEF Safe, OnDisk, Table, Kept

LEMMA SafeKept == Safe /\ [Next]_vars => Safe'
<1> SUFFICES ASSUME Safe, [Next]_vars PROVE Safe'
  OBVIOUS
<1>1. CASE UNCHANGED vars
  BY <1>1 DEF vars, Safe, Types, OnDisk, Table, Kept, Asked, Hoards
<1>2. CASE Import
  BY <1>2, PlaceKeeps, InsertRowKeeps DEF Import
<1>3. CASE \E f \in Folders : CreateFolder(f)
  BY <1>3, CreateFolderKeeps
<1>4. CASE \E c \in Clients : Request(c)
  BY <1>4, RequestsKeep
<1>5. CASE \E c \in Clients : FolderStep(c)
  BY <1>5, RenameFolderKeeps, MoveSongPathPrefixKeeps, MoveFolderBackKeeps, TrashFolderKeeps,
     DeleteSongsKeeps, RestoreFolderKeeps DEF FolderStep
<1>6. CASE \E c \in Clients : SongStep(c)
  BY <1>6, TrashFileKeeps, DeleteRowKeeps, RestoreFileKeeps, RemoveEmptyParentsKeeps,
     CheckSongKeeps, CheckedKeeps, RenameSongKeeps, UpdateSongPathsKeeps, RenameBackKeeps,
     GiveUpKeeps DEF SongStep
<1>7. CASE Die
  BY <1>7, DieKeeps
<1> QED
  BY <1>1, <1>2, <1>3, <1>4, <1>5, <1>6, <1>7 DEF Next

LEMMA SafeAlways == Spec => []Safe
BY SafeInit, SafeKept, PTL DEF Spec

-----------------------------------------------------------------------------
(* One request at a time.                                                  *)

HalfOf(r) == IF r.at \in {"update", "back"} /\ r.op \notin Moves THEN r.songs ELSE r.done

LEMMA HalfWayIs ==
  ASSUME NEW c \in Clients
  PROVE  HalfWay(c) = HalfOf(req[c]) /\ HalfWay(c)' = HalfOf(req'[c])
BY DEF HalfWay, HalfOf, Moves

\* What holds of the only request, and of rows and files beside it.
HomeBut(c) == \A s \in Ok : rows[s] # None /\ s \notin HalfWay(c) => disk[rows[s]] = s

InHand(c) ==
  /\ FolderMoves(c) /\ FolderGoes(c) /\ SongGoes(c) /\ SongsMove(c)
  /\ \A s \in Stash(req[c]) \cap known \cap Ok : rows[s] # None

InTrash == \A s \in known \cap Ok : rows[s] = None => s \in trash

Foremost(c) == Active(c) \/ \A d \in Clients : ~ Active(d)

LEMMA Focus ==
  ASSUME Safe, Apart, ~ crossed, NEW c \in Clients, Foremost(c)
  PROVE  /\ HomeBut(c) /\ InHand(c) /\ InPlace /\ InTrash
         /\ \A d \in Clients : d # c => req[d] = NoReq
<1>1. Alone /\ InPlace /\ Home /\ Progress /\ Retained
  BY DEF Apart
<1>2. \A d \in Clients : d # c => req[d] = NoReq
  BY <1>1 DEF Foremost, Alone, Active, Safe, Asked, Sound
<1>3. \A d \in Clients : d # c => HalfWay(d) = {}
  <2>1. HalfOf(NoReq) = {}
    BY NoReqIs DEF HalfOf
  <2> QED
    BY <1>2, <2>1, HalfWayIs
<1>4. HomeBut(c)
  BY <1>1, <1>3 DEF Home, HomeBut
<1>5. InHand(c) /\ InTrash
  BY <1>1 DEF Progress, Retained, InHand, InTrash
<1> QED
  BY <1>1, <1>2, <1>4, <1>5

LEMMA Unfocus ==
  ASSUME NEW c \in Clients, \A d \in Clients : d # c => req'[d] = NoReq,
         HomeBut(c)', InHand(c)', InPlace', InTrash'
  PROVE  Apart'
<1>1. Alone'
  BY NoReqIs DEF Alone, Active
<1>2. Home'
  BY DEF Home, HomeBut
<1>3. Progress'
  <2> SUFFICES ASSUME NEW d \in Clients
               PROVE  FolderMoves(d)' /\ FolderGoes(d)' /\ SongGoes(d)' /\ SongsMove(d)'
    BY DEF Progress
  <2>1. CASE d = c
    BY <2>1 DEF InHand
  <2>2. CASE d # c
    <3>1. req'[d].op = "none"
      BY <2>2, NoReqIs
    <3> QED
      BY <3>1 DEF FolderMoves, FolderGoes, SongGoes, SongsMove, Moves
  <2> QED
    BY <2>1, <2>2
<1>4. Retained'
  <2>1. \A d \in Clients : d # c => Stash(req'[d]) = {}
    BY NoReqIs
  <2> QED
    BY <2>1 DEF InHand, InTrash, Retained
<1> QED
  BY <1>1, <1>2, <1>3, <1>4 DEF Apart

\* Steps of a request that leave disk and table.
LEMMA Still ==
  ASSUME Safe, Apart, ~ crossed, NEW c \in Clients, Foremost(c),
         \A d \in Clients : d # c => req'[d] = req[d],
         UNCHANGED <<disk, rows, placed, known>>, Ok' \subseteq Ok, trash \subseteq trash',
         HalfWay(c) \cap Ok' \subseteq HalfWay(c)', Stash(req'[c]) \subseteq Stash(req[c]),
         FolderMoves(c)', FolderGoes(c)', SongGoes(c)', SongsMove(c)'
  PROVE  Apart'
<1>1. /\ HomeBut(c) /\ InHand(c) /\ InPlace /\ InTrash
      /\ \A d \in Clients : d # c => req[d] = NoReq
  BY Focus
<1>2. HomeBut(c)'
  BY <1>1 DEF HomeBut
<1>3. InPlace' /\ InTrash'
  BY <1>1 DEF InPlace, InTrash
<1>4. InHand(c)'
  BY <1>1 DEF InHand
<1> QED
  BY <1>1, <1>2, <1>3, <1>4, Unfocus

LEMMA NothingInHand ==
  ASSUME NEW c \in Clients, req'[c] = NoReq
  PROVE  /\ FolderMoves(c)' /\ FolderGoes(c)' /\ SongGoes(c)' /\ SongsMove(c)'
         /\ Stash(req'[c]) = {} /\ HalfWay(c)' = {}
<1>1. req'[c].op = "none"
  BY NoReqIs
<1>2. HalfOf(NoReq) = {}
  BY NoReqIs DEF HalfOf
<1> QED
  BY <1>1, <1>2, NoReqIs, HalfWayIs
  DEF FolderMoves, FolderGoes, SongGoes, SongsMove, Moves

LEMMA Ended ==
  ASSUME Safe, NEW c \in Clients, End(c)
  PROVE  req'[c] = NoReq /\ \A d \in Clients : d # c => req'[d] = req[d]
BY DEF End, Safe, Types

\* A request ends where it is: what it has moved is recorded.
LEMMA EndsApart ==
  ASSUME Safe, Apart, ~ crossed, NEW c \in Clients, Active(c), End(c),
         UNCHANGED <<disk, rows, placed, known>>, Ok' \subseteq Ok, trash \subseteq trash',
         HalfWay(c) \cap Ok' = {}
  PROVE  Apart'
<1>1. req'[c] = NoReq /\ \A d \in Clients : d # c => req'[d] = req[d]
  BY Ended
<1>2. /\ FolderMoves(c)' /\ FolderGoes(c)' /\ SongGoes(c)' /\ SongsMove(c)'
      /\ Stash(req'[c]) \subseteq Stash(req[c])
  BY <1>1, NothingInHand
<1>3. Foremost(c)
  BY DEF Foremost
<1> QED
  BY <1>1, <1>2, <1>3, Still

\* A request goes back: what it has moved stays what it was.
LEMMA BackApart ==
  ASSUME Safe, Apart, ~ crossed, NEW c \in Clients, NEW at \in {"rename", "back"},
         req' = [req EXCEPT ![c].at = at],
         req[c].at = "update" \/ (req[c].op \in Moves /\ req[c].at \in {"check", "rename"}),
         at = "back" \/ req[c].op \in Moves,
         UNCHANGED <<disk, rows, placed, known, strays, lost, trash>>
  PROVE  Apart'
<1> DEFINE x == At(req[c], at)
<1>1. /\ req[c] \in RequestRow /\ Sound(req[c]) /\ at \in States /\ Active(c)
  BY DEF Safe, Types, Asked, Active, States
<1>2. /\ x.at = at /\ x.op = req[c].op
      /\ x.from = req[c].from /\ x.to = req[c].to /\ x.songs = req[c].songs
      /\ x.plan = req[c].plan /\ x.done = req[c].done /\ x.saved = req[c].saved
  BY <1>1, AtIs
<1>3. req'[c] = x /\ \A d \in Clients : d # c => req'[d] = req[d]
  <2>1. Types
    BY DEF Safe
  <2>2. req' = [req EXCEPT ![c] = x]
    BY <2>1, AtRecord
  <2> QED
    BY <2>1, <2>2 DEF Types
<1>4. Stash(x) = Stash(req[c])
  BY <1>1, GoesBack
<1> HIDE DEF x
<1>5. HalfWay(c)' = HalfWay(c)
  <2>1. HalfOf(x) = HalfOf(req[c])
    BY <1>1, <1>2 DEF HalfOf, Sound
  <2> QED
    BY <1>3, <2>1, HalfWayIs
<1>6. Foremost(c)
  BY <1>1 DEF Foremost
<1>7. InHand(c)
  BY <1>6, Focus
<1>8. Ok' = Ok
  BY DEF Ok
<1>9. FolderMoves(c)'
  BY <1>2, <1>3, <1>7, <1>8 DEF InHand, FolderMoves, InFolder, Moves
<1>10. FolderGoes(c)'
  BY <1>1, <1>2, <1>3, <1>7, <1>8 DEF InHand, FolderGoes, InFolder, Moves
<1>11. SongGoes(c)'
  BY <1>1, <1>2, <1>3, <1>7, <1>8 DEF InHand, SongGoes, Moves
<1>12. SongsMove(c)'
  BY <1>1, <1>2, <1>3, <1>7, <1>8 DEF InHand, SongsMove, Planned
<1> QED
  BY <1>3, <1>4, <1>5, <1>6, <1>8, <1>9, <1>10, <1>11, <1>12, Still

-----------------------------------------------------------------------------
(* One request at a time: requests begin.                                  *)

\* A request that begins while no other is in flight has nothing in hand yet.
LEMMA BeginApart ==
  ASSUME Safe, Apart, ~ crossed', NEW c \in Clients, NEW x \in RequestRow, Begin(c, x),
         Stash(x) = {}, x.at \notin {"update", "back"}, x.done = {},
         x.op = "deleteFolder" => x.songs = InFolder(x.from) /\ x.at = "rename",
         x.op = "deleteSong" => \A s \in x.songs : rows[s] = x.from /\ x.at = "rename",
         x.op \in Moves => DOMAIN x.plan = {},
         UNCHANGED <<disk, trash, rows, placed, known, strays, lost>>
  PROVE  Apart'
<1>1. /\ ~ crossed /\ ~ Active(c) /\ \A d \in Clients \ {c} : ~ Active(d)
      /\ req' = [req EXCEPT ![c] = x]
  BY DEF Begin
<1>2. req'[c] = x /\ \A d \in Clients : d # c => req'[d] = req[d]
  BY <1>1 DEF Safe, Types
<1>3. Foremost(c)
  BY <1>1 DEF Foremost
<1>4. req[c] = NoReq
  BY <1>1 DEF Active, Safe, Asked, Sound
<1>5. HalfWay(c) = {}
  BY <1>4, NoReqIs, HalfWayIs DEF HalfOf
<1>6. /\ FolderMoves(c)' /\ FolderGoes(c)'
  BY <1>2 DEF FolderMoves, FolderGoes, InFolder
<1>7. SongGoes(c)'
  BY <1>2 DEF SongGoes
<1>8. SongsMove(c)'
  BY <1>2 DEF SongsMove, Planned
<1>9. Ok' = Ok
  BY DEF Ok
<1> QED
  BY <1>1, <1>2, <1>3, <1>5, <1>6, <1>7, <1>8, <1>9, Still

LEMMA RequestsApart ==
  ASSUME Safe, Apart, ~ crossed', NEW c \in Clients, Request(c)
  PROVE  Apart'
<1>1. UNCHANGED <<disk, trash, rows, placed, known, strays, lost>>
  BY DEF Request, MoveFolder, DeleteFolder, DeleteSong, MoveSongs, RenameMusicFile
<1>2. CASE \E f, g \in Folders : MoveFolder(c, f, g)
  <2>1. PICK x \in RequestRow : /\ Begin(c, x) /\ Stash(x) = {}
                                /\ x.op = "moveFolder" /\ x.at = "rename" /\ x.done = {}
    BY <1>2, MoveFolderBegins
  <2> QED
    BY <1>1, <2>1, BeginApart DEF Moves
<1>3. CASE \E f \in Folders : DeleteFolder(c, f)
  <2>1. PICK x \in RequestRow : /\ Begin(c, x) /\ Stash(x) = {}
                                /\ x.op = "deleteFolder" /\ x.at = "rename" /\ x.done = {}
                                /\ x.songs = InFolder(x.from)
    BY <1>3, DeleteFolderBegins
  <2> QED
    BY <1>1, <2>1, BeginApart DEF Moves
<1>4. CASE \E s \in Songs : DeleteSong(c, s)
  <2>1. PICK s \in Songs : DeleteSong(c, s)
    BY <1>4
  <2>2. PICK x \in RequestRow : /\ Begin(c, x) /\ Stash(x) = {}
                                /\ x.op = "deleteSong" /\ x.at = "rename" /\ x.done = {}
                                /\ x.from = rows[s] /\ x.songs = {s}
    BY <2>1, DeleteSongBegins
  <2> QED
    BY <1>1, <2>2, BeginApart DEF Moves
<1>5. CASE \/ \E songs \in SUBSET Songs, f \in Folders : MoveSongs(c, songs, f)
           \/ \E s \in Songs, n \in Names : RenameMusicFile(c, s, n)
  <2>1. PICK x \in RequestRow : /\ Begin(c, x) /\ Stash(x) = {}
                                /\ x.op \in Moves /\ x.at = "check" /\ x.done = {}
                                /\ DOMAIN x.plan = {}
    BY <1>5, MovesBegin
  <2> QED
    BY <1>1, <2>1, BeginApart DEF Moves
<1> QED
  BY <1>2, <1>3, <1>4, <1>5 DEF Request

-----------------------------------------------------------------------------
(* One request at a time: imports.                                         *)

\* Imports leave what requests have in hand: rows there are stay, and so do files.
LEMMA ProgressKept ==
  ASSUME Safe, Progress, UNCHANGED req, Ok' \subseteq Ok, strays \subseteq strays',
         \A t \in Songs : rows[t] # None => rows'[t] = rows[t],
         \A q \in Paths, t \in Ok' : rows[t] # None /\ disk[q] = t => disk'[q] = t,
         \A c \in Clients, t \in Songs :
            /\ req[c].op = "moveFolder" /\ rows[t] = None /\ rows'[t] # None
            /\ rows'[t][1] \in {req[c].from, req[c].to}
            => t \in strays'
  PROVE  Progress'
<1> SUFFICES ASSUME NEW c \in Clients
             PROVE  FolderMoves(c)' /\ FolderGoes(c)' /\ SongGoes(c)' /\ SongsMove(c)'
  BY DEF Progress
<1>1. FolderMoves(c) /\ FolderGoes(c) /\ SongGoes(c) /\ SongsMove(c)
  BY DEF Progress
<1>2. /\ \A f \in Folders : InFolder(f) \subseteq InFolder(f)'
      /\ Ok' \subseteq Songs /\ Ok' \cap strays' = {}
      /\ req[c] \in RequestRow /\ Sound(req[c]) /\ req'[c] = req[c]
  BY DEF InFolder, Ok, Safe, Types, Asked
<1>3. FolderMoves(c)'
  <2> SUFFICES ASSUME req[c].op = "moveFolder", req[c].at \in {"update", "back"}
               PROVE  FolderMoves(c)'
    BY <1>2 DEF FolderMoves
  <2>1. req[c].from \in Folders /\ req[c].to \in Folders
    BY <1>2 DEF Sound
  <2>2. /\ InFolder(req[c].from)' \subseteq InFolder(req[c].from) \cup strays'
        /\ InFolder(req[c].to)' \subseteq InFolder(req[c].to) \cup strays'
    BY DEF InFolder
  <2>3. InFolder(req[c].from)' \subseteq req[c].songs \cup strays'
    BY <1>1, <2>2 DEF FolderMoves
  <2>4. \A t \in req[c].songs \cap Ok' : disk'[<<req[c].to, rows'[t][2]>>] = t
    <3> TAKE t \in req[c].songs \cap Ok'
    <3>1. t \in Songs /\ rows[t] # None /\ rows[t] \in Paths /\ rows'[t] = rows[t]
      BY <1>1, <1>2 DEF FolderMoves, InFolder, Safe, Types
    <3>2. <<req[c].to, rows[t][2]>> \in Paths
      BY <2>1, <3>1, PathIs
    <3> QED
      BY <1>1, <3>1, <3>2 DEF FolderMoves
  <2> QED
    BY <1>1, <1>2, <2>1, <2>2, <2>3, <2>4 DEF FolderMoves
<1>4. FolderGoes(c)'
  <2> SUFFICES ASSUME req[c].op = "deleteFolder"
               PROVE  FolderGoes(c)'
    BY <1>2 DEF FolderGoes
  <2>1. req[c].from \in Folders /\ \A t \in req[c].songs : t \in Songs /\ rows[t] # None
    BY <1>1, <1>2 DEF Sound, FolderGoes, InFolder
  <2> QED
    BY <1>1, <1>2, <2>1 DEF FolderGoes
<1>5. SongGoes(c)'
  <2> SUFFICES ASSUME req[c].op = "deleteSong", req[c].at # "parents"
               PROVE  SongGoes(c)'
    BY <1>2 DEF SongGoes
  <2>1. \A t \in req[c].songs : t \in Songs /\ rows[t] # None
    BY <1>1, <1>2, LibraryAssumption DEF Sound, SongGoes
  <2> QED
    BY <1>1, <1>2, <2>1 DEF SongGoes
<1>6. SongsMove(c)'
  <2> SUFFICES ASSUME req[c].op \in Moves
               PROVE  SongsMove(c)'
    BY <1>2 DEF SongsMove
  <2>1. /\ req[c].plan \in Plans /\ req[c].done \subseteq DOMAIN req[c].plan
    BY <1>2 DEF Sound, Moving
  <2>2. \A t \in DOMAIN req[c].plan :
           /\ t \in Songs /\ rows[t] # None /\ rows'[t] = rows[t]
           /\ req[c].plan[t][2] \in Paths
    BY <1>1, <2>1, InPlans DEF SongsMove, Planned
  <2> QED
    BY <1>1, <1>2, <2>1, <2>2 DEF SongsMove, Planned
<1> QED
  BY <1>3, <1>4, <1>5, <1>6

LEMMA PlaceApart ==
  ASSUME Safe, Apart, ~ crossed', NEW s \in Songs, NEW p \in Paths, Place(s, p)
  PROVE  Apart'
<1>1. /\ s \notin known /\ placed[s] = None /\ disk[p] = None
      /\ UNCHANGED <<trash, rows, req, known, strays, lost, crossed>>
  BY DEF Place, history
<1>2. /\ disk'[p] = s /\ \A q \in Paths : q # p => disk'[q] = disk[q]
  BY DEF Place, Safe, Types
<1>3. /\ placed'[s] = p /\ \A t \in Songs : t # s => placed'[t] = placed[t]
  BY DEF Place, Safe, Types
<1>4. Ok' = Ok /\ \A c \in Clients : HalfWay(c)' = HalfWay(c)
  BY <1>1, HalfWayIs DEF Ok
<1>5. /\ Alone /\ InPlace /\ Home /\ Progress /\ Retained
  BY <1>1 DEF Apart
<1>6. \A q \in Paths, t \in Songs : disk[q] = t => disk'[q] = t
  BY <1>1, <1>2, LibraryAssumption
<1>7. InPlace'
  <2> SUFFICES ASSUME NEW t \in Ok', placed'[t] # None
               PROVE  disk'[placed'[t]] = t
    BY DEF InPlace
  <2>1. CASE t = s
    BY <1>2, <1>3, <2>1
  <2>2. CASE t # s
    <3>1. t \in Songs /\ placed'[t] = placed[t] /\ placed[t] \in Paths
      BY <1>3, <2>2 DEF Ok, Safe, Types
    <3> QED
      BY <1>4, <1>5, <1>6, <3>1 DEF InPlace
  <2> QED
    BY <2>1, <2>2
<1>8. Home'
  <2> SUFFICES ASSUME NEW t \in Ok', rows'[t] # None, \A c \in Clients : t \notin HalfWay(c)'
               PROVE  disk'[rows'[t]] = t
    BY DEF Home
  <2>1. t \in Songs /\ rows'[t] = rows[t] /\ rows[t] \in Paths /\ disk[rows[t]] = t
    BY <1>1, <1>4, <1>5 DEF Home, Ok, Safe, Types
  <2> QED
    BY <1>6, <2>1
<1>9. Progress'
  BY <1>1, <1>4, <1>5, <1>6, ProgressKept DEF Ok
<1>10. Alone' /\ Retained'
  BY <1>1, <1>4, <1>5 DEF Alone, Active, Retained
<1> QED
  BY <1>7, <1>8, <1>9, <1>10 DEF Apart

LEMMA InsertRowApart ==
  ASSUME Safe, Apart, ~ crossed', NEW s \in Songs, InsertRow(s)
  PROVE  Apart'
<1> DEFINE p == placed[s]
           table == [rows EXCEPT ![s] = p]
<1>1. /\ p # None /\ p \in Paths /\ UNCHANGED <<trash, req, crossed>>
      /\ s \notin known /\ rows[s] = None
  BY DEF InsertRow, Safe, Types, Table
<1>2. /\ placed'[s] = None /\ \A t \in Songs : t # s => placed'[t] = placed[t]
  BY <1>1 DEF InsertRow, Safe, Types
<1>3. /\ Alone /\ InPlace /\ Home /\ Progress /\ Retained
  BY <1>1 DEF Apart
<1>4. /\ Ok' \subseteq Ok /\ Ok \subseteq Songs /\ \A c \in Clients : HalfWay(c)' = HalfWay(c)
  BY <1>1, HalfWayIs DEF Ok, InsertRow
<1>5. Alone'
  BY <1>1, <1>3 DEF Alone, Active
<1>6. CASE Distinct(table)
  <2>1. /\ rows' = table /\ known' = known \cup {s} /\ UNCHANGED disk
        /\ p[1] \in InMotion => s \in strays'
    BY <1>6 DEF InsertRow
  <2>2. /\ rows'[s] = p /\ \A t \in Songs : t # s => rows'[t] = rows[t]
    BY <2>1 DEF Safe, Types
  <2> HIDE DEF table, p
  <2>3. InPlace'
    BY <1>2, <1>3, <1>4, <2>1 DEF InPlace
  <2>4. Home'
    <3> SUFFICES ASSUME NEW t \in Ok', rows'[t] # None, \A c \in Clients : t \notin HalfWay(c)'
                 PROVE  disk'[rows'[t]] = t
      BY DEF Home
    <3>1. CASE t = s
      BY <1>1, <1>3, <1>4, <2>1, <2>2, <3>1 DEF InPlace, p
    <3>2. CASE t # s
      BY <1>3, <1>4, <2>1, <2>2, <3>2 DEF Home
    <3> QED
      BY <3>1, <3>2
  <2>5. Progress'
    <3>1. \A c \in Clients : req[c].op = "moveFolder" /\ p[1] \in {req[c].from, req[c].to} =>
                                 s \in strays'
      BY <2>1 DEF InMotion, FolderRequests
    <3>2. \A t \in Songs : rows[t] # None => rows'[t] = rows[t]
      BY <1>1, <2>2
    <3>3. \A t \in Songs : rows[t] = None /\ rows'[t] # None => t = s
      BY <2>2
    <3> QED
      BY <1>1, <1>3, <1>4, <2>1, <2>2, <3>1, <3>2, <3>3, ProgressKept DEF InsertRow
  <2>6. Retained'
    BY <1>1, <1>3, <1>4, <2>1, <2>2 DEF Retained
  <2> QED
    BY <1>5, <2>3, <2>4, <2>5, <2>6 DEF Apart
<1>7. CASE ~ Distinct(table)
  <2>1. /\ disk' = [disk EXCEPT ![p] = None] /\ lost' = lost \cup ({disk[p]} \ {None, s})
        /\ UNCHANGED <<rows, known, strays>>
    BY <1>7 DEF InsertRow
  <2>2. /\ disk'[p] = None /\ \A q \in Paths : q # p => disk'[q] = disk[q]
    BY <1>1, <2>1 DEF Safe, Types
  <2> HIDE DEF table, p
  <2>3. \A q \in Paths, t \in Ok' : t # s /\ disk[q] = t => disk'[q] = t
    BY <1>4, <2>1, <2>2, LibraryAssumption DEF Ok
  <2>4. InPlace'
    <3> SUFFICES ASSUME NEW t \in Ok', placed'[t] # None
                 PROVE  disk'[placed'[t]] = t
      BY DEF InPlace
    <3>1. t # s /\ t \in Songs /\ placed'[t] = placed[t] /\ placed[t] \in Paths
      BY <1>2, <1>4 DEF Safe, Types
    <3> QED
      BY <1>3, <1>4, <2>3, <3>1 DEF InPlace
  <2>5. Home'
    <3> SUFFICES ASSUME NEW t \in Ok', rows'[t] # None, \A c \in Clients : t \notin HalfWay(c)'
                 PROVE  disk'[rows'[t]] = t
      BY DEF Home
    <3>1. /\ t # s /\ t \in Songs /\ rows'[t] = rows[t] /\ rows[t] \in Paths
          /\ disk[rows[t]] = t
      BY <1>1, <1>3, <1>4, <2>1 DEF Home, Safe, Types
    <3> QED
      BY <2>3, <3>1
  <2>6. Progress'
    <3>1. \A t \in Songs : rows[t] # None => t # s
      BY <1>1
    <3> QED
      BY <1>1, <1>3, <1>4, <2>1, <2>3, <3>1, ProgressKept
  <2>7. Retained'
    BY <1>1, <1>3, <1>4, <2>1 DEF Retained
  <2> QED
    BY <1>5, <2>4, <2>5, <2>6, <2>7 DEF Apart
<1> QED
  BY <1>6, <1>7

LEMMA CreateFolderApart ==
  ASSUME Safe, Apart, ~ crossed', NEW f \in Folders, CreateFolder(f)
  PROVE  Apart'
<1>1. UNCHANGED <<disk, trash, rows, placed, req, known, strays, lost, crossed>>
  BY DEF CreateFolder, history
<1>2. Ok' = Ok /\ \A c \in Clients : HalfWay(c)' = HalfWay(c)
  BY <1>1, HalfWayIs DEF Ok
<1>3. Alone /\ InPlace /\ Home /\ Progress /\ Retained
  BY <1>1 DEF Apart
<1>4. Progress'
  BY <1>1, <1>2, <1>3, ProgressKept
<1> QED
  BY <1>1, <1>2, <1>3, <1>4 DEF Alone, Active, InPlace, Home, Retained, Apart

\* What requests have moved when playerd dies is recorded.
LEMMA DieApart ==
  ASSUME Safe, Apart, ~ crossed', Die
  PROVE  Apart'
<1>1. /\ \A c \in Clients : req'[c] = NoReq
      /\ \A s \in Songs : placed'[s] = None
      /\ strays' = strays \cup UNION {HalfWay(c) : c \in Clients}
      /\ UNCHANGED <<disk, trash, rows, known, lost, crossed>>
  BY DEF Die
<1>2. /\ InPlace /\ Home /\ Progress /\ Retained
  BY <1>1 DEF Apart
<1>3. Ok' \subseteq Ok /\ \A s \in Ok', c \in Clients : s \notin HalfWay(c)
  BY <1>1 DEF Ok
<1>4. \A c \in Clients : /\ FolderMoves(c)' /\ FolderGoes(c)' /\ SongGoes(c)' /\ SongsMove(c)'
                          /\ Stash(req'[c]) = {}
  BY <1>1, NothingInHand
<1>5. Alone' /\ InPlace'
  BY <1>1, NoReqIs DEF Alone, Active, InPlace, Ok
<1>6. Home'
  BY <1>1, <1>2, <1>3 DEF Home
<1>7. Progress' /\ Retained'
  BY <1>1, <1>2, <1>3, <1>4 DEF Progress, Retained
<1> QED
  BY <1>5, <1>6, <1>7 DEF Apart

-----------------------------------------------------------------------------
(* One request at a time: folders move.                                    *)

\* LIKE takes a folder for itself only.
Exact == \A f \in Folders : Alike[f] = {f}

\* A request ends with every row at its song's file.
LEMMA EndsHome ==
  ASSUME Safe, Apart, ~ crossed, NEW c \in Clients, Active(c), End(c),
         \A s \in Ok' : rows'[s] # None => disk'[rows'[s]] = s,
         InPlace', InTrash'
  PROVE  Apart'
<1>1. req'[c] = NoReq /\ \A d \in Clients : d # c => req'[d] = req[d]
  BY Ended
<1>2. \A d \in Clients : d # c => req'[d] = NoReq
  BY <1>1, Focus DEF Foremost
<1>3. HomeBut(c)'
  BY DEF HomeBut
<1>4. InHand(c)'
  BY <1>1, NothingInHand DEF InHand
<1> QED
  BY <1>2, <1>3, <1>4, Unfocus

\* A step of the only request, which it stays.
LEMMA StaysApart ==
  ASSUME Safe, Apart, ~ crossed, NEW c \in Clients, Active(c), NEW x \in RequestRow,
         req' = [req EXCEPT ![c] = x], HomeBut(c)', InHand(c)', InPlace', InTrash'
  PROVE  Apart'
<1>1. \A d \in Clients : d # c => req'[d] = req[d]
  BY DEF Safe, Types
<1>2. \A d \in Clients : d # c => req'[d] = NoReq
  BY <1>1, Focus DEF Foremost
<1> QED
  BY <1>2, Unfocus

LEMMA RenameFolderApart ==
  ASSUME Safe, Apart, ~ crossed, NEW c \in Clients, RenameFolder(c)
  PROVE  Apart'
<1> DEFINE f == req[c].from
           g == req[c].to
           x == [req[c] EXCEPT !.at = "update", !.songs = InFolder(f)]
<1>1. /\ req[c].op = "moveFolder" /\ req[c].at = "rename" /\ Active(c)
      /\ UNCHANGED <<trash, rows, placed, known, lost>>
  BY DEF RenameFolder, Active
<1>2. req[c] \in RequestRow /\ Sound(req[c]) /\ InFolder(f) \in SUBSET Songs
  BY DEF Safe, Types, Asked, InFolder
<1>3. f \in Folders \ {Root} /\ g \in Folders \ {Root} /\ f # g /\ req[c].done = {}
  BY <1>1, <1>2 DEF Sound, Moves
<1>4. HalfWay(c) = {}
  BY <1>1, <1>3, HalfWayIs DEF HalfOf
<1>5. HomeBut(c) /\ InPlace /\ InTrash
  BY <1>1, Focus DEF Foremost
<1>6. CASE CanMove(f, g)
  <2>1. /\ x \in RequestRow /\ x.at = "update" /\ x.op = "moveFolder" /\ x.from = f /\ x.to = g
        /\ x.songs = InFolder(f)
    BY <1>1, <1>2 DEF RequestRow, States
  <2>2. req' = [req EXCEPT ![c] = x] /\ MoveDir(f, g) /\ strays' = strays \cup Caught(f)
    BY <1>6 DEF RenameFolder, Safe, Types
  <2> HIDE DEF x
  <2>3. req'[c] = x
    BY <2>2 DEF Safe, Types
  <2>4. Stash(x) = {} /\ HalfWay(c)' = InFolder(f)
    BY <2>1, <2>3, HalfWayIs DEF Stash, HalfOf, Moves
  <2>5. f \in dirs /\ g \in Folders \ dirs /\ f # Root
    BY <1>3, <1>6 DEF CanMove
  <2>6. /\ \A p \in Paths : p[1] = f => disk'[<<g, p[2]>>] = disk[p]
        /\ \A p \in Paths : p[1] # f /\ p[1] # g => disk'[p] = disk[p]
    BY <2>2, <2>5, DirMoved DEF Safe
  <2>7. \A p \in Paths : disk[p] # None => p[1] # g
    BY <2>5 DEF Safe, OnDisk
  <2>8. /\ Ok' \subseteq Ok /\ Ok \subseteq Songs /\ None \notin Songs
        /\ \A s \in Ok' : s \notin Caught(f)
    BY <1>1, <2>2, LibraryAssumption DEF Ok
  <2>9. HomeBut(c)'
    <3> SUFFICES ASSUME NEW s \in Ok', rows[s] # None, s \notin InFolder(f)
                 PROVE  disk'[rows[s]] = s
      BY <1>1, <2>4 DEF HomeBut
    <3>1. s \in Songs /\ rows[s] \in Paths /\ rows[s][1] # f /\ disk[rows[s]] = s
      BY <1>4, <1>5, <2>8 DEF HomeBut, InFolder, Safe, Types
    <3> QED
      BY <2>6, <2>7, <2>8, <3>1
  <2>10. InPlace'
    <3> SUFFICES ASSUME NEW s \in Ok', placed[s] # None
                 PROVE  disk'[placed[s]] = s
      BY <1>1 DEF InPlace
    <3>1. s \in Songs /\ placed[s] \in Paths /\ placed[s][1] # f /\ disk[placed[s]] = s
      BY <1>5, <2>8 DEF InPlace, Caught, Safe, Types
    <3> QED
      BY <2>6, <2>7, <2>8, <3>1
  <2>11. InTrash'
    BY <1>1, <1>5, <2>8 DEF InTrash
  <2>12. FolderMoves(c)'
    <3>1. \A h \in Folders : InFolder(h)' = InFolder(h)
      BY <1>1 DEF InFolder
    <3>2. \A s \in InFolder(f) \cup InFolder(g) : s \in Songs /\ rows[s] # None /\ rows[s] \in Paths
      BY DEF InFolder, Safe, Types
    <3>3. \A s \in (InFolder(f) \cup InFolder(g)) \cap Ok' : disk[rows[s]] = s
      BY <1>4, <1>5, <2>8, <3>2 DEF HomeBut
    <3>4. InFolder(g) \cap Ok' = {}
      <4> SUFFICES ASSUME NEW s \in InFolder(g) \cap Ok' PROVE FALSE
        OBVIOUS
      <4>1. rows[s][1] = g
        BY DEF InFolder
      <4> QED
        BY <2>7, <2>8, <3>2, <3>3, <4>1
    <3>5. \A s \in InFolder(f) \cap Ok' : disk'[<<g, rows[s][2]>>] = s
      <4> TAKE s \in InFolder(f) \cap Ok'
      <4>1. rows[s][1] = f
        BY DEF InFolder
      <4> QED
        BY <2>6, <3>2, <3>3, <4>1
    <3> QED
      BY <1>1, <1>3, <2>1, <2>3, <3>1, <3>4, <3>5 DEF FolderMoves
  <2>13. InHand(c)'
    BY <2>1, <2>3, <2>4, <2>12 DEF InHand, FolderGoes, SongGoes, SongsMove, Moves
  <2> QED
    BY <1>1, <2>1, <2>2, <2>9, <2>10, <2>11, <2>13, StaysApart
<1>7. CASE ~ CanMove(f, g)
  <2>1. End(c) /\ UNCHANGED <<disk, strays>>
    BY <1>7 DEF RenameFolder
  <2> QED
    BY <1>1, <1>4, <2>1, EndsApart DEF Ok
<1> QED
  BY <1>6, <1>7

LEMMA MoveSongPathPrefixApart ==
  ASSUME Exact, Safe, Apart, ~ crossed, NEW c \in Clients, MoveSongPathPrefix(c)
  PROVE  Apart'
<1> DEFINE f == req[c].from
           g == req[c].to
<1>1. /\ req[c].op = "moveFolder" /\ req[c].at = "update" /\ Active(c)
      /\ UNCHANGED <<disk, trash, placed, known, strays, lost>>
  BY DEF MoveSongPathPrefix, history, Active
<1>2. f \in Folders /\ g \in Folders
  BY <1>1 DEF Safe, Asked, Sound
<1>3. HomeBut(c) /\ InPlace /\ InTrash /\ FolderMoves(c)
  BY <1>1, Focus DEF Foremost, InHand
<1>4. HalfWay(c) = req[c].songs /\ Ok' = Ok /\ Ok \subseteq Songs /\ Ok \cap strays = {}
  BY <1>1, HalfWayIs DEF HalfOf, Moves, Ok
<1>5. CASE rows' = MovedPrefix(f, g) /\ End(c)
  <2>1. \A s \in Songs : rows'[s] = IF s \in InFolder(f) THEN <<g, rows[s][2]>> ELSE rows[s]
    BY <1>2, <1>5 DEF MovedPrefix, InFolder, Exact
  <2>2. \A s \in Songs : rows'[s] # None <=> rows[s] # None
    BY <1>2, <1>5, PrefixType DEF Safe
  <2>3. \A s \in Ok' : rows'[s] # None => disk'[rows'[s]] = s
    <3> SUFFICES ASSUME NEW s \in Ok, rows[s] # None
                 PROVE  disk[rows'[s]] = s
      BY <1>1, <1>4, <2>2
    <3>1. CASE s \in InFolder(f)
      <4>1. s \in req[c].songs
        BY <1>1, <1>3, <1>4, <3>1 DEF FolderMoves
      <4> QED
        BY <1>1, <1>3, <1>4, <2>1, <3>1, <4>1 DEF FolderMoves
    <3>2. CASE s \notin InFolder(f)
      <4>1. s \notin req[c].songs
        BY <1>1, <1>3, <3>2 DEF FolderMoves
      <4> QED
        BY <1>3, <1>4, <2>1, <3>2, <4>1 DEF HomeBut
    <3> QED
      BY <3>1, <3>2
  <2>4. InPlace'
    BY <1>1, <1>3, <1>4 DEF InPlace
  <2>5. InTrash'
    BY <1>1, <1>3, <1>4, <2>2 DEF InTrash
  <2> QED
    BY <1>1, <1>5, <2>3, <2>4, <2>5, EndsHome
<1>6. CASE req' = [req EXCEPT ![c].at = "back"] /\ UNCHANGED rows
  BY <1>1, <1>6, BackApart
<1> QED
  BY <1>5, <1>6 DEF MoveSongPathPrefix

LEMMA MoveFolderBackApart ==
  ASSUME Safe, Apart, ~ crossed, NEW c \in Clients, MoveFolderBack(c)
  PROVE  Apart'
<1> DEFINE f == req[c].from
           g == req[c].to
<1>1. /\ req[c].op = "moveFolder" /\ req[c].at = "back" /\ Active(c) /\ End(c)
      /\ UNCHANGED <<trash, rows, placed, known, lost>>
  BY DEF MoveFolderBack, Active
<1>2. f \in Folders \ {Root} /\ g \in Folders \ {Root} /\ f # g
  BY <1>1 DEF Safe, Asked, Sound
<1>3. HomeBut(c) /\ InPlace /\ InTrash /\ FolderMoves(c)
  BY <1>1, Focus DEF Foremost, InHand
<1>4. HalfWay(c) = req[c].songs
  BY <1>1, HalfWayIs DEF HalfOf, Moves
<1>5. CASE CanMove(g, f)
  <2>1. MoveDir(g, f) /\ strays' = strays \cup Caught(g)
    BY <1>5 DEF MoveFolderBack
  <2>2. g \in dirs /\ f \in Folders \ dirs /\ g # Root
    BY <1>2, <1>5 DEF CanMove
  <2>3. /\ \A p \in Paths : p[1] = f => disk'[p] = disk[<<g, p[2]>>]
        /\ \A p \in Paths : p[1] # g /\ p[1] # f => disk'[p] = disk[p]
    BY <2>1, <2>2, DirMoved, SMTT(30) DEF Safe
  <2>4. \A p \in Paths : disk[p] # None => p[1] # f
    BY <2>2 DEF Safe, OnDisk
  <2>5. /\ Ok' \subseteq Ok /\ Ok \subseteq Songs /\ Ok \cap strays = {} /\ None \notin Songs
        /\ \A s \in Ok' : s \notin Caught(g)
    BY <1>1, <2>1, LibraryAssumption DEF Ok
  <2>6. \A s \in Ok' : rows'[s] # None => disk'[rows'[s]] = s
    <3> SUFFICES ASSUME NEW s \in Ok', rows[s] # None
                 PROVE  disk'[rows[s]] = s
      BY <1>1
    <3>1. s \in Songs /\ rows[s] \in Paths
      BY <2>5 DEF Safe, Types
    <3>2. CASE s \in InFolder(f)
      <4>1. s \in req[c].songs /\ rows[s][1] = f
        BY <1>1, <1>3, <2>5, <3>2 DEF FolderMoves, InFolder
      <4>2. disk[<<g, rows[s][2]>>] = s
        BY <1>1, <1>3, <2>5, <4>1 DEF FolderMoves
      <4> QED
        BY <2>3, <3>1, <4>1, <4>2
    <3>3. CASE s \notin InFolder(f)
      <4>1. s \notin req[c].songs /\ rows[s][1] # f /\ rows[s][1] # g
        BY <1>1, <1>3, <2>5, <3>1, <3>3 DEF FolderMoves, InFolder
      <4> QED
        BY <1>3, <1>4, <2>3, <2>5, <3>1, <4>1 DEF HomeBut
    <3> QED
      BY <3>2, <3>3
  <2>7. InPlace'
    <3> SUFFICES ASSUME NEW s \in Ok', placed[s] # None
                 PROVE  disk'[placed[s]] = s
      BY <1>1 DEF InPlace
    <3>1. s \in Songs /\ placed[s] \in Paths /\ placed[s][1] # g /\ disk[placed[s]] = s
      BY <1>3, <2>5 DEF InPlace, Caught, Safe, Types
    <3> QED
      BY <2>3, <2>4, <2>5, <3>1
  <2>8. InTrash'
    BY <1>1, <1>3, <2>5 DEF InTrash
  <2> QED
    BY <1>1, <2>6, <2>7, <2>8, EndsHome
<1>6. CASE ~ CanMove(g, f)
  <2>1. strays' = strays \cup req[c].songs /\ UNCHANGED disk
    BY <1>6 DEF MoveFolderBack
  <2>2. Ok' \subseteq Ok /\ HalfWay(c) \cap Ok' = {}
    BY <1>1, <1>4, <2>1 DEF Ok
  <2> QED
    BY <1>1, <2>1, <2>2, EndsApart
<1> QED
  BY <1>5, <1>6

LEMMA TrashFolderApart ==
  ASSUME Safe, Apart, ~ crossed, NEW c \in Clients, TrashFolder(c)
  PROVE  Apart'
<1> DEFINE f == req[c].from
           saved == [n \in Names |-> disk[<<f, n>>]]
           x == [req[c] EXCEPT !.at = "update", !.saved = saved]
<1>1. /\ req[c].op = "deleteFolder" /\ req[c].at = "rename" /\ Active(c)
      /\ UNCHANGED <<rows, placed, known, lost>>
  BY DEF TrashFolder, Active
<1>2. req[c] \in RequestRow /\ Sound(req[c]) /\ f \in Folders \ {Root} /\ req[c].done = {}
  BY <1>1 DEF Safe, Types, Asked, Sound, Moves
<1>3. HalfWay(c) = {}
  BY <1>1, <1>2, HalfWayIs DEF HalfOf
<1>4. HomeBut(c) /\ InPlace /\ InTrash /\ FolderGoes(c)
  BY <1>1, Focus DEF Foremost, InHand
<1>5. CASE f \in dirs
  <2>1. /\ trash' = trash \cup Files(f)
        /\ disk' = [p \in Paths |-> IF p[1] = f THEN None ELSE disk[p]]
        /\ strays' = strays \cup Caught(f) \cup (InFolder(f) \ req[c].songs)
        /\ req' = [req EXCEPT ![c] = x]
    BY <1>5 DEF TrashFolder, Safe, Types
  <2>2. \A n \in Names : <<f, n>> \in Paths /\ disk[<<f, n>>] \in Content
    BY <1>2, PathIs DEF Safe, Types
  <2>3. saved \in [Names -> Content] /\ \A n \in Names : saved[n] = disk[<<f, n>>]
    BY <2>2
  <2> HIDE DEF saved
  <2>4. /\ x \in RequestRow /\ x.at = "update" /\ x.op = "deleteFolder" /\ x.from = f
        /\ x.songs = req[c].songs /\ x.saved = saved
    BY <1>1, <1>2, <2>3 DEF RequestRow, States
  <2> HIDE DEF x
  <2>5. req'[c] = x
    BY <2>1 DEF Safe, Types
  <2>6. HalfWay(c)' = req[c].songs
    BY <2>4, <2>5, HalfWayIs DEF HalfOf, Moves
  <2>7. \A p \in Paths : p[1] # f => disk'[p] = disk[p]
    BY <2>1
  <2>8. /\ Ok' \subseteq Ok /\ Ok \subseteq Songs
        /\ \A s \in Ok' : s \notin Caught(f) /\ (s \in InFolder(f) => s \in req[c].songs)
    BY <1>1, <2>1 DEF Ok
  <2>9. HomeBut(c)'
    <3> SUFFICES ASSUME NEW s \in Ok', rows[s] # None, s \notin req[c].songs
                 PROVE  disk'[rows[s]] = s
      BY <1>1, <2>6 DEF HomeBut
    <3>1. s \in Songs /\ rows[s] \in Paths /\ rows[s][1] # f /\ disk[rows[s]] = s
      BY <1>3, <1>4, <2>8 DEF HomeBut, InFolder, Safe, Types
    <3> QED
      BY <2>7, <3>1
  <2>10. InPlace'
    <3> SUFFICES ASSUME NEW s \in Ok', placed[s] # None
                 PROVE  disk'[placed[s]] = s
      BY <1>1 DEF InPlace
    <3>1. s \in Songs /\ placed[s] \in Paths /\ placed[s][1] # f /\ disk[placed[s]] = s
      BY <1>4, <2>8 DEF InPlace, Caught, Safe, Types
    <3> QED
      BY <2>7, <3>1
  <2>11. InTrash'
    BY <1>1, <1>4, <2>1, <2>8 DEF InTrash
  <2>12. FolderGoes(c)'
    <3>1. \A s \in req[c].songs : /\ s \in Songs /\ rows[s] \in Paths /\ rows[s] # None
                                   /\ rows[s][1] = f
      BY <1>1, <1>4 DEF FolderGoes, InFolder, Safe, Types
    <3>2. \A s \in req[c].songs : rows[s] = <<f, rows[s][2]>> /\ rows[s][2] \in Names
      BY <3>1, PathIs
    <3>3. \A s \in req[c].songs \cap Ok : disk[rows[s]] = s
      BY <1>3, <1>4, <3>1 DEF HomeBut
    <3>4. \A s \in req[c].songs \cap Ok' : saved[rows[s][2]] = s
      BY <2>3, <2>8, <3>2, <3>3
    <3>5. \A h \in Folders : InFolder(h)' = InFolder(h)
      BY <1>1 DEF InFolder
    <3>6. req[c].songs \subseteq InFolder(f)
      BY <1>1, <1>4 DEF FolderGoes
    <3> QED
      BY <1>1, <1>2, <2>4, <2>5, <3>4, <3>5, <3>6 DEF FolderGoes
  <2>13. \A s \in Stash(x) \cap known \cap Ok : rows[s] # None
    <3> SUFFICES ASSUME NEW s \in Stash(x), s \in known, s \in Ok, rows[s] = None
                 PROVE  FALSE
      OBVIOUS
    <3>1. PICK n \in Names : s = saved[n] /\ s # None
      BY <2>4 DEF Stash
    <3>2. s \notin trash
      BY <2>2, <2>3, <3>1 DEF Safe, OnDisk
    <3> QED
      BY <1>4, <3>2 DEF InTrash
  <2>14. InHand(c)'
    BY <1>1, <2>4, <2>5, <2>8, <2>12, <2>13 DEF InHand, FolderMoves, SongGoes, SongsMove, Moves
  <2> QED
    BY <1>1, <2>1, <2>4, <2>9, <2>10, <2>11, <2>14, StaysApart
<1>6. CASE f \notin dirs
  <2>1. End(c) /\ UNCHANGED <<disk, trash, strays>>
    BY <1>6 DEF TrashFolder
  <2> QED
    BY <1>1, <1>3, <2>1, EndsApart DEF Ok
<1> QED
  BY <1>5, <1>6

\* A folder that is in recovery storage holds what its songs' rows name there.
LEMMA FolderStashed ==
  ASSUME Safe, NEW c \in Clients, FolderGoes(c),
         req[c].op = "deleteFolder", req[c].at \in {"update", "back"}
  PROVE  /\ \A s \in req[c].songs : /\ s \in Songs /\ rows[s] # None /\ rows[s] \in Paths
                                    /\ rows[s][1] = req[c].from /\ rows[s][2] \in Names
         /\ \A s \in req[c].songs \cap Ok : req[c].saved[rows[s][2]] = s
         /\ req[c].songs \cap Ok \subseteq Stash(req[c])
<1>1. \A s \in req[c].songs : /\ s \in Songs /\ rows[s] # None /\ rows[s] \in Paths
                              /\ rows[s][1] = req[c].from /\ rows[s][2] \in Names
  BY PathIs DEF FolderGoes, InFolder, Safe, Types
<1>2. \A s \in req[c].songs \cap Ok : req[c].saved[rows[s][2]] = s
  BY DEF FolderGoes
<1>3. ASSUME NEW s \in req[c].songs \cap Ok
      PROVE  s \in Stash(req[c])
  <2>1. s # None /\ rows[s][2] \in Names /\ req[c].saved[rows[s][2]] = s
    BY <1>1, <1>2, LibraryAssumption
  <2> QED
    BY <2>1 DEF Stash
<1> QED
  BY <1>1, <1>2, <1>3

LEMMA DeleteSongsApart ==
  ASSUME Safe, Apart, ~ crossed, NEW c \in Clients, DeleteSongs(c)
  PROVE  Apart'
<1> DEFINE ids == req[c].songs
<1>1. /\ req[c].op = "deleteFolder" /\ req[c].at = "update" /\ Active(c)
      /\ UNCHANGED <<disk, trash, placed, known, strays, lost>>
  BY DEF DeleteSongs, history, Active
<1>2. HomeBut(c) /\ InPlace /\ InTrash /\ FolderGoes(c)
  BY <1>1, Focus DEF Foremost, InHand
<1>3. HalfWay(c) = ids /\ Ok' = Ok /\ Ok \subseteq Songs
  BY <1>1, HalfWayIs DEF HalfOf, Moves, Ok
<1>4. CASE rows' = [s \in Songs |-> IF s \in ids THEN None ELSE rows[s]] /\ End(c)
  <2>1. \A s \in Songs : rows'[s] = IF s \in ids THEN None ELSE rows[s]
    BY <1>4
  <2>2. \A s \in Ok' : rows'[s] # None => disk'[rows'[s]] = s
    BY <1>1, <1>2, <1>3, <2>1 DEF HomeBut
  <2>3. InPlace'
    BY <1>1, <1>2, <1>3 DEF InPlace
  <2>4. ids \cap Ok \subseteq trash
    BY <1>1, <1>2, FolderStashed DEF Safe, Hoards
  <2>5. InTrash'
    BY <1>1, <1>2, <1>3, <2>1, <2>4 DEF InTrash
  <2> QED
    BY <1>1, <1>4, <2>2, <2>3, <2>5, EndsHome
<1>5. CASE req' = [req EXCEPT ![c].at = "back"] /\ UNCHANGED rows
  BY <1>1, <1>5, BackApart
<1> QED
  BY <1>4, <1>5 DEF DeleteSongs

LEMMA RestoreFolderApart ==
  ASSUME Safe, Apart, ~ crossed, NEW c \in Clients, RestoreFolder(c)
  PROVE  Apart'
<1> DEFINE f == req[c].from
           saved == req[c].saved
<1>1. /\ req[c].op = "deleteFolder" /\ req[c].at = "back" /\ Active(c) /\ End(c)
      /\ UNCHANGED <<rows, placed, known, lost>>
  BY DEF RestoreFolder, Active
<1>2. HomeBut(c) /\ InPlace /\ InTrash /\ FolderGoes(c) /\ InHand(c)
  BY <1>1, Focus DEF Foremost, InHand
<1>3. HalfWay(c) = req[c].songs
  BY <1>1, HalfWayIs DEF HalfOf, Moves
<1>4. CASE f \notin dirs
  <2>1. /\ disk' = [p \in Paths |-> IF p[1] = f THEN saved[p[2]] ELSE disk[p]]
        /\ trash' = trash \ {saved[n] : n \in Names} /\ UNCHANGED strays
    BY <1>4 DEF RestoreFolder
  <2>2. Ok' = Ok /\ Ok \subseteq Songs /\ None \notin Songs
    BY <1>1, <2>1, LibraryAssumption DEF Ok
  <2>3. \A p \in Paths : disk[p] # None => p[1] # f
    BY <1>4 DEF Safe, OnDisk
  <2>4. \A p \in Paths : disk'[p] = IF p[1] = f THEN saved[p[2]] ELSE disk[p]
    BY <2>1
  <2>5. \A s \in Ok' : rows'[s] # None => disk'[rows'[s]] = s
    <3> SUFFICES ASSUME NEW s \in Ok, rows[s] # None
                 PROVE  disk'[rows[s]] = s
      BY <1>1, <2>2
    <3>1. rows[s] \in Paths
      BY <2>2 DEF Safe, Types
    <3>2. CASE s \in req[c].songs
      BY <1>1, <1>2, <2>4, <3>1, <3>2, FolderStashed
    <3>3. CASE s \notin req[c].songs
      BY <1>2, <1>3, <2>2, <2>3, <2>4, <3>1, <3>3 DEF HomeBut
    <3> QED
      BY <3>2, <3>3
  <2>6. InPlace'
    <3> SUFFICES ASSUME NEW s \in Ok, placed[s] # None
                 PROVE  disk'[placed[s]] = s
      BY <1>1, <2>2 DEF InPlace
    <3>1. placed[s] \in Paths /\ disk[placed[s]] = s
      BY <1>2, <2>2 DEF InPlace, Safe, Types
    <3> QED
      BY <2>2, <2>3, <2>4, <3>1
  <2>7. InTrash'
    <3> SUFFICES ASSUME NEW s \in known \cap Ok, rows[s] = None
                 PROVE  s \in trash'
      BY <1>1, <2>2 DEF InTrash
    <3>1. s \in trash /\ s \notin Stash(req[c]) /\ s # None
      BY <1>2, <2>2 DEF InTrash, InHand
    <3>2. Stash(req[c]) = {saved[n] : n \in Names} \ {None}
      BY <1>1 DEF Stash
    <3> QED
      BY <2>1, <3>1, <3>2
  <2> QED
    BY <1>1, <2>5, <2>6, <2>7, EndsHome
<1>5. CASE f \in dirs
  <2>1. strays' = strays \cup req[c].songs /\ UNCHANGED <<disk, trash>>
    BY <1>5 DEF RestoreFolder
  <2>2. Ok' \subseteq Ok /\ HalfWay(c) \cap Ok' = {}
    BY <1>1, <1>3, <2>1 DEF Ok
  <2> QED
    BY <1>1, <2>1, <2>2, EndsApart
<1> QED
  BY <1>4, <1>5

-----------------------------------------------------------------------------
(* One request at a time: a song is deleted.                               *)

LEMMA TrashFileApart ==
  ASSUME Safe, Apart, ~ crossed, NEW c \in Clients, TrashFile(c)
  PROVE  Apart'
<1> DEFINE p == req[c].from
           x == [req[c] EXCEPT !.at = "update", !.saved = disk[p]]
<1>1. /\ req[c].op = "deleteSong" /\ req[c].at = "rename" /\ Active(c)
      /\ UNCHANGED <<rows, placed, known, lost>>
  BY DEF TrashFile, Active
<1>2. /\ req[c] \in RequestRow /\ Sound(req[c]) /\ req[c].done = {}
      /\ p \in Paths /\ disk[p] \in Content
  BY <1>1 DEF Safe, Types, Asked, Sound, Moves
<1>3. HalfWay(c) = {}
  BY <1>1, <1>2, HalfWayIs DEF HalfOf
<1>4. HomeBut(c) /\ InPlace /\ InTrash
  BY <1>1, Focus DEF Foremost
<1>5. \A s \in req[c].songs : s \in Songs /\ rows[s] = p /\ rows[s] # None /\ placed[s] = None
  <2>1. \A s \in req[c].songs : s \in Songs /\ rows[s] = p
    BY <1>1, <1>2, Focus DEF Foremost, InHand, SongGoes, Sound
  <2> QED
    BY <1>2, <2>1, LibraryAssumption DEF Safe, Table
<1>6. CASE disk[p] # None
  <2>1. /\ trash' = trash \cup {disk[p]} /\ disk' = [disk EXCEPT ![p] = None]
        /\ strays' = strays \cup ({disk[p]} \ req[c].songs)
        /\ req' = [req EXCEPT ![c] = x]
    BY <1>6 DEF TrashFile, Safe, Types
  <2>2. /\ x \in RequestRow /\ x.at = "update" /\ x.op = "deleteSong" /\ x.from = p
        /\ x.songs = req[c].songs /\ x.saved = disk[p]
    BY <1>1, <1>2 DEF RequestRow, States
  <2> HIDE DEF x
  <2>3. req'[c] = x
    BY <2>1 DEF Safe, Types
  <2>4. HalfWay(c)' = req[c].songs /\ Stash(x) = {disk[p]}
    BY <2>2, <2>3, HalfWayIs DEF HalfOf, Moves, Stash
  <2>5. /\ Ok' \subseteq Ok /\ Ok \subseteq Songs
        /\ \A s \in Ok' : disk[p] = s => s \in req[c].songs
    BY <1>1, <2>1 DEF Ok
  <2>6. \A q \in Paths, s \in Ok' : s \notin req[c].songs /\ disk[q] = s => disk'[q] = s
    BY <2>1, <2>5 DEF Safe, Types
  <2>7. HomeBut(c)'
    <3> SUFFICES ASSUME NEW s \in Ok', rows[s] # None, s \notin req[c].songs
                 PROVE  disk'[rows[s]] = s
      BY <1>1, <2>4 DEF HomeBut
    <3>1. s \in Songs /\ rows[s] \in Paths /\ disk[rows[s]] = s
      BY <1>3, <1>4, <2>5 DEF HomeBut, Safe, Types
    <3> QED
      BY <2>6, <3>1
  <2>8. InPlace'
    <3> SUFFICES ASSUME NEW s \in Ok', placed[s] # None
                 PROVE  disk'[placed[s]] = s
      BY <1>1 DEF InPlace
    <3>1. s \in Songs /\ placed[s] \in Paths /\ disk[placed[s]] = s /\ s \notin req[c].songs
      BY <1>4, <1>5, <2>5 DEF InPlace, Safe, Types
    <3> QED
      BY <2>6, <3>1
  <2>9. InTrash'
    BY <1>1, <1>4, <2>1, <2>5 DEF InTrash
  <2>10. SongGoes(c)'
    <3>1. \A s \in req[c].songs : s \in Ok' => disk[p] = s
      BY <1>3, <1>4, <1>5, <2>5 DEF HomeBut
    <3> QED
      BY <1>1, <1>5, <2>2, <2>3, <3>1 DEF SongGoes
  <2>11. \A s \in Stash(x) \cap known' \cap Ok' : rows'[s] # None
    BY <1>1, <1>5, <2>4, <2>5
  <2>12. InHand(c)'
    BY <2>2, <2>3, <2>10, <2>11 DEF InHand, FolderMoves, FolderGoes, SongsMove, Moves
  <2> QED
    BY <1>1, <2>1, <2>2, <2>7, <2>8, <2>9, <2>12, StaysApart
<1>7. CASE disk[p] = None
  <2>1. End(c) /\ UNCHANGED <<disk, trash, strays>>
    BY <1>7 DEF TrashFile
  <2> QED
    BY <1>1, <1>3, <2>1, EndsApart DEF Ok
<1> QED
  BY <1>6, <1>7

LEMMA DeleteRowApart ==
  ASSUME Safe, Apart, ~ crossed, NEW c \in Clients, DeleteRow(c)
  PROVE  Apart'
<1> DEFINE u == CHOOSE s \in req[c].songs : TRUE
           x == At(req[c], "parents")
<1>1. /\ req[c].op = "deleteSong" /\ req[c].at = "update" /\ Active(c)
      /\ UNCHANGED <<disk, trash, placed, known, strays, lost>>
  BY DEF DeleteRow, history, Active
<1>2. PICK s \in Songs : req[c].songs = {s}
  BY <1>1 DEF Safe, Asked, Sound
<1>3. u = s
  BY <1>2
<1> HIDE DEF u
<1>4. HomeBut(c) /\ InPlace /\ InTrash /\ SongGoes(c)
  BY <1>1, Focus DEF Foremost, InHand
<1>5. HalfWay(c) = {s} /\ Ok' = Ok /\ Ok \subseteq Songs
  BY <1>1, <1>2, HalfWayIs DEF HalfOf, Moves, Ok
<1>6. s \in Ok => s \in trash
  <2>1. Stash(req[c]) = {req[c].saved}
    BY <1>1 DEF Stash
  <2> QED
    BY <1>1, <1>2, <1>4, <2>1 DEF SongGoes, Safe, Hoards
<1>7. CASE rows' = [rows EXCEPT ![s] = None] /\ req' = [req EXCEPT ![c].at = "parents"]
  <2>1. rows'[s] = None /\ \A t \in Songs : t # s => rows'[t] = rows[t]
    BY <1>7 DEF Safe, Types
  <2>2. /\ x \in RequestRow /\ x.at = "parents" /\ x.op = "deleteSong" /\ x.done = {}
    BY <1>1, AtIs DEF Safe, Types, States, Asked, Sound, Moves
  <2>3. req' = [req EXCEPT ![c] = x]
    BY <1>7, AtRecord DEF Safe
  <2> HIDE DEF x
  <2>4. req'[c] = x
    BY <2>3 DEF Safe, Types
  <2>5. HalfWay(c)' = {} /\ Stash(x) = {}
    BY <2>2, <2>4, HalfWayIs DEF HalfOf, Stash
  <2>6. HomeBut(c)'
    BY <1>1, <1>4, <1>5, <2>1 DEF HomeBut
  <2>7. InPlace'
    BY <1>1, <1>4, <1>5 DEF InPlace
  <2>8. InTrash'
    BY <1>1, <1>4, <1>5, <1>6, <2>1 DEF InTrash
  <2>9. InHand(c)'
    BY <2>2, <2>4, <2>5 DEF InHand, FolderMoves, FolderGoes, SongGoes, SongsMove, Moves
  <2> QED
    BY <1>1, <2>2, <2>3, <2>6, <2>7, <2>8, <2>9, StaysApart
<1>8. CASE req' = [req EXCEPT ![c].at = "back"] /\ UNCHANGED rows
  BY <1>1, <1>8, BackApart
<1> QED
  BY <1>3, <1>7, <1>8 DEF DeleteRow, u

LEMMA RestoreFileApart ==
  ASSUME Safe, Apart, ~ crossed, NEW c \in Clients, RestoreFile(c)
  PROVE  Apart'
<1> DEFINE p == req[c].from
           saved == req[c].saved
<1>1. /\ req[c].op = "deleteSong" /\ req[c].at = "back" /\ Active(c) /\ End(c)
      /\ UNCHANGED <<rows, placed, known>>
  BY DEF RestoreFile, Active
<1>2. HomeBut(c) /\ InPlace /\ InTrash /\ SongGoes(c) /\ InHand(c)
  BY <1>1, Focus DEF Foremost, InHand
<1>3. HalfWay(c) = req[c].songs /\ Stash(req[c]) = {saved} /\ p \in Paths
  BY <1>1, HalfWayIs DEF HalfOf, Moves, Stash, Safe, Asked, Sound
<1>4. CASE p[1] \in dirs
  <2>1. /\ disk' = [disk EXCEPT ![p] = saved] /\ trash' = trash \ {saved}
        /\ lost' = lost \cup ({disk[p]} \ {None}) /\ UNCHANGED strays
    BY <1>4 DEF RestoreFile
  <2>2. /\ Ok' \subseteq Ok /\ Ok \subseteq Songs /\ None \notin Songs
        /\ \A s \in Ok' : disk[p] # s
    BY <1>1, <2>1, LibraryAssumption DEF Ok
  <2>3. disk'[p] = saved /\ \A q \in Paths : q # p => disk'[q] = disk[q]
    BY <1>3, <2>1 DEF Safe, Types
  <2>4. \A s \in Ok' : rows'[s] # None => disk'[rows'[s]] = s
    <3> SUFFICES ASSUME NEW s \in Ok', rows[s] # None
                 PROVE  disk'[rows[s]] = s
      BY <1>1
    <3>1. rows[s] \in Paths
      BY <2>2 DEF Safe, Types
    <3>2. CASE s \in req[c].songs
      BY <1>1, <1>2, <2>2, <2>3, <3>2 DEF SongGoes
    <3>3. CASE s \notin req[c].songs
      BY <1>2, <1>3, <2>2, <2>3, <3>1, <3>3 DEF HomeBut
    <3> QED
      BY <3>2, <3>3
  <2>5. InPlace'
    <3> SUFFICES ASSUME NEW s \in Ok', placed[s] # None
                 PROVE  disk'[placed[s]] = s
      BY <1>1 DEF InPlace
    <3>1. placed[s] \in Paths /\ disk[placed[s]] = s
      BY <1>2, <2>2 DEF InPlace, Safe, Types
    <3> QED
      BY <2>2, <2>3, <3>1
  <2>6. InTrash'
    <3> SUFFICES ASSUME NEW s \in known \cap Ok, rows[s] = None
                 PROVE  s \in trash'
      BY <1>1, <2>2 DEF InTrash
    <3>1. s \in trash /\ s \notin Stash(req[c])
      BY <1>2 DEF InTrash, InHand
    <3> QED
      BY <1>3, <2>1, <3>1
  <2> QED
    BY <1>1, <2>4, <2>5, <2>6, EndsHome
<1>5. CASE p[1] \notin dirs
  <2>1. strays' = strays \cup req[c].songs /\ UNCHANGED <<disk, trash, lost>>
    BY <1>5 DEF RestoreFile
  <2>2. Ok' \subseteq Ok /\ HalfWay(c) \cap Ok' = {}
    BY <1>1, <1>3, <2>1 DEF Ok
  <2> QED
    BY <1>1, <2>1, <2>2, EndsApart
<1> QED
  BY <1>4, <1>5

LEMMA RemoveEmptyParentsApart ==
  ASSUME Safe, Apart, ~ crossed, NEW c \in Clients, RemoveEmptyParents(c)
  PROVE  Apart'
<1>1. /\ req[c].at = "parents" /\ Active(c) /\ End(c)
      /\ UNCHANGED <<disk, rows, placed, known, strays, lost, trash>>
  BY DEF RemoveEmptyParents, history, Active
<1>2. req[c].done = {}
  BY <1>1 DEF Safe, Asked, Sound
<1>3. HalfWay(c) = {} /\ Ok' = Ok
  BY <1>1, <1>2, HalfWayIs DEF HalfOf, Ok
<1> QED
  BY <1>1, <1>3, EndsApart

-----------------------------------------------------------------------------
(* One request at a time: songs move.                                      *)

LEMMA CheckedApart ==
  ASSUME Safe, Apart, ~ crossed, NEW c \in Clients, Checked(c)
  PROVE  Apart'
<1>1. /\ req[c].at = "check" /\ req' = [req EXCEPT ![c].at = "rename"]
      /\ UNCHANGED <<disk, rows, placed, known, strays, lost, trash>>
  BY DEF Checked, history
<1>2. req[c].op \in Moves
  BY <1>1, NoReqIs DEF Safe, Types, Asked, Sound, Moves, RequestRow, Ops
<1> QED
  BY <1>1, <1>2, BackApart

LEMMA CheckSongApart ==
  ASSUME Safe, Apart, ~ crossed, NEW c \in Clients, NEW s \in Songs, CheckSong(c, s)
  PROVE  Apart'
<1>1. /\ req[c].at = "check" /\ Active(c)
      /\ UNCHANGED <<disk, rows, placed, known, strays, lost, trash>>
  BY DEF CheckSong, history, Active
<1>2. req[c].op \in Moves
  BY <1>1, NoReqIs DEF Safe, Types, Asked, Sound, Moves, RequestRow, Ops
<1>3. req[c].done = {}
  BY <1>1, <1>2 DEF Safe, Asked, Sound
<1>4. HalfWay(c) = {} /\ Ok' = Ok
  BY <1>1, <1>3, HalfWayIs DEF HalfOf, Ok
<1>5. HomeBut(c) /\ InPlace /\ InTrash /\ SongsMove(c)
  BY <1>1, Focus DEF Foremost, InHand
<1>6. CASE Free(c, s)
  <2>1. PICK x \in RequestRow :
            /\ req' = [req EXCEPT ![c] = x] /\ Stash(x) = {}
            /\ x.op \in Moves /\ x.at = "check" /\ x.done = {}
            /\ DOMAIN x.plan = Planned(c) \cup {s} /\ x.plan[s][1] = rows[s]
            /\ \A t \in Planned(c) : x.plan[t] = req[c].plan[t]
    BY <1>6, CheckSongPlans
  <2>2. req'[c] = x
    BY <2>1 DEF Safe, Types
  <2>3. HomeBut(c)' /\ InPlace' /\ InTrash'
    BY <1>1, <1>4, <1>5 DEF HomeBut, InPlace, InTrash
  <2>4. rows[s] # None
    BY <1>6 DEF Free
  <2>5. \A t \in Planned(c) : rows[t] # None /\ req[c].plan[t][1] = rows[t]
    BY <1>2, <1>5 DEF SongsMove
  <2>6. SongsMove(c)'
    BY <1>1, <2>1, <2>2, <2>4, <2>5 DEF SongsMove, Planned
  <2>7. InHand(c)'
    BY <2>1, <2>2, <2>6 DEF InHand, FolderMoves, FolderGoes, SongGoes, Moves
  <2> QED
    BY <1>1, <2>1, <2>3, <2>7, StaysApart
<1>7. CASE ~ Free(c, s)
  BY <1>1, <1>4, <1>7, EndsApart DEF CheckSong
<1> QED
  BY <1>6, <1>7

\* A file that is moved leaves the others, or they are recorded.
LEMMA OthersStay ==
  ASSUME Safe, NEW old \in Paths, NEW new \in Paths, old # new, NEW s,
         CanRename(old, new), RenameFile(old, new),
         {disk[new]} \ {None} \subseteq lost', {disk[old]} \ {s} \subseteq strays'
  PROVE  \A p \in Paths, t \in Ok' : t # s /\ disk[p] = t => disk'[p] = t
<1>1. \A p \in Paths : p # old /\ p # new => disk'[p] = disk[p]
  BY FileMoved DEF Safe
<1> QED
  BY <1>1, LibraryAssumption DEF Ok

LEMMA RenameSongApart ==
  ASSUME Safe, Apart, ~ crossed, NEW c \in Clients, NEW s \in Planned(c), RenameSong(c, s)
  PROVE  Apart'
<1> DEFINE old == req[c].plan[s][1]
           new == req[c].plan[s][2]
           x == [req[c] EXCEPT !.done = req[c].done \cup {s}]
<1>1. /\ req[c].op \in Moves /\ req[c].at = "rename" /\ Active(c)
      /\ s \in ToMove(c) \ req[c].done
      /\ UNCHANGED <<trash, rows, placed, known>>
  BY DEF RenameSong, Moves, Active
<1>2. req[c] \in RequestRow /\ Sound(req[c]) /\ req[c].plan \in Plans
  BY <1>1 DEF Safe, Types, Asked, Sound
<1>3. s \in Songs /\ old \in Paths /\ new \in Paths /\ old # new /\ req[c].plan[s][3] = None
  BY <1>1, PlanIs
<1>4. HomeBut(c) /\ InPlace /\ InTrash /\ SongsMove(c)
  BY <1>1, Focus DEF Foremost, InHand
<1>5. HalfWay(c) = req[c].done
  BY <1>1, HalfWayIs DEF HalfOf
<1>6. rows[s] = old /\ rows[s] # None /\ placed[s] = None
  <2>1. rows[s] = old /\ rows[s] # None
    BY <1>1, <1>4 DEF SongsMove
  <2> QED
    BY <1>3, <2>1 DEF Safe, Table
<1>7. CASE CanRename(old, new)
  <2>1. /\ RenameFile(old, new) /\ lost' = lost \cup ({disk[new]} \ {None})
        /\ strays' = strays \cup ({disk[old]} \ {s})
        /\ req' = [req EXCEPT ![c] = x]
    BY <1>3, <1>7 DEF RenameSong, Safe, Types
  <2>2. /\ x \in RequestRow /\ x.at = "rename" /\ x.op = req[c].op
        /\ x.plan = req[c].plan /\ x.done = req[c].done \cup {s}
    BY <1>1, <1>2, <1>3 DEF RequestRow
  <2> HIDE DEF x
  <2>3. req'[c] = x
    BY <2>1 DEF Safe, Types
  <2>4. HalfWay(c)' = req[c].done \cup {s} /\ Stash(x) = {}
    BY <2>2, <2>3, HalfWayIs DEF HalfOf, Stash
  <2>5. Ok' \subseteq Ok /\ Ok \subseteq Songs
    BY <2>1 DEF Ok
  <2>6. \A q \in Paths, t \in Ok' : t # s /\ disk[q] = t => disk'[q] = t
    <3>1. {disk[new]} \ {None} \subseteq lost' /\ {disk[old]} \ {s} \subseteq strays'
      BY <2>1
    <3> HIDE DEF old, new
    <3> QED
      BY <1>3, <1>7, <2>1, <3>1, OthersStay
  <2>7. HomeBut(c)'
    <3> SUFFICES ASSUME NEW t \in Ok', rows[t] # None, t \notin req[c].done, t # s
                 PROVE  disk'[rows[t]] = t
      BY <1>1, <2>4 DEF HomeBut
    <3>1. rows[t] \in Paths /\ disk[rows[t]] = t
      BY <1>4, <1>5, <2>5 DEF HomeBut, Safe, Types
    <3> QED
      BY <2>6, <3>1
  <2>8. InPlace'
    <3> SUFFICES ASSUME NEW t \in Ok', placed[t] # None
                 PROVE  disk'[placed[t]] = t
      BY <1>1 DEF InPlace
    <3>1. t # s /\ placed[t] \in Paths /\ disk[placed[t]] = t
      BY <1>4, <1>6, <2>5 DEF InPlace, Safe, Types
    <3> QED
      BY <2>6, <3>1
  <2>9. InTrash'
    BY <1>1, <1>4, <2>5 DEF InTrash
  <2>10. \A t \in (req[c].done \cup {s}) \cap Ok' : disk'[req[c].plan[t][2]] = t
    <3> TAKE t \in (req[c].done \cup {s}) \cap Ok'
    <3>1. CASE t = s
      <4>1. disk[old] = s
        BY <1>1, <1>4, <1>5, <1>6, <2>5, <3>1 DEF HomeBut
      <4>2. disk'[new] = disk[old]
        BY <1>3, <1>7, <2>1, FileMoved DEF Safe
      <4> QED
        BY <3>1, <4>1, <4>2
    <3>2. CASE t # s
      <4>1. t \in req[c].done /\ t \in DOMAIN req[c].plan
        BY <1>1, <1>2, <3>2 DEF Sound, Moving
      <4>2. req[c].plan[t][2] \in Paths /\ disk[req[c].plan[t][2]] = t
        BY <1>1, <1>2, <1>4, <2>5, <4>1, InPlans DEF SongsMove
      <4> QED
        BY <2>6, <3>2, <4>2
    <3> QED
      BY <3>1, <3>2
  <2>11. SongsMove(c)'
    BY <1>1, <1>4, <2>2, <2>3, <2>10 DEF SongsMove, Planned
  <2>12. InHand(c)'
    BY <1>1, <2>2, <2>3, <2>4, <2>11 DEF InHand, FolderMoves, FolderGoes, SongGoes, Moves
  <2> QED
    BY <1>1, <2>1, <2>2, <2>7, <2>8, <2>9, <2>12, StaysApart
<1>8. CASE ~ CanRename(old, new)
  <2>1. req' = [req EXCEPT ![c].at = "back"] /\ UNCHANGED <<disk, lost, strays>>
    BY <1>8 DEF RenameSong
  <2> QED
    BY <1>1, <2>1, BackApart
<1> QED
  BY <1>7, <1>8

LEMMA UpdateSongPathsApart ==
  ASSUME Safe, Apart, ~ crossed, NEW c \in Clients, UpdateSongPaths(c)
  PROVE  Apart'
<1> DEFINE plan == req[c].plan
           table == [s \in Songs |-> IF s \in ToMove(c) THEN plan[s][2] ELSE rows[s]]
<1>1. /\ req[c].op \in Moves /\ req[c].at = "rename" /\ Active(c)
      /\ req[c].done = ToMove(c)
      /\ UNCHANGED <<disk, trash, placed, known, strays, lost>>
  BY DEF UpdateSongPaths, history, Moves, Active
<1>2. HomeBut(c) /\ InPlace /\ InTrash /\ SongsMove(c)
  BY <1>1, Focus DEF Foremost, InHand
<1>3. HalfWay(c) = ToMove(c) /\ Ok' = Ok /\ Ok \subseteq Songs
  BY <1>1, HalfWayIs DEF HalfOf, Ok
<1>4. CASE rows' = table /\ End(c)
  <2>1. \A s \in Songs : rows'[s] = IF s \in ToMove(c) THEN plan[s][2] ELSE rows[s]
    BY <1>4
  <2>2. \A s \in ToMove(c) : plan[s][2] # None
    BY <1>1, PlanIs, LibraryAssumption
  <2>3. \A s \in Ok' : rows'[s] # None => disk'[rows'[s]] = s
    BY <1>1, <1>2, <1>3, <2>1 DEF HomeBut, SongsMove
  <2>4. InPlace'
    BY <1>1, <1>2, <1>3 DEF InPlace
  <2>5. InTrash'
    BY <1>1, <1>2, <1>3, <2>1, <2>2 DEF InTrash
  <2> QED
    BY <1>1, <1>4, <2>3, <2>4, <2>5, EndsHome
<1>5. CASE req' = [req EXCEPT ![c].at = "back"] /\ UNCHANGED rows
  BY <1>1, <1>5, BackApart
<1> QED
  BY <1>4, <1>5 DEF UpdateSongPaths

LEMMA RenameBackApart ==
  ASSUME Safe, Apart, ~ crossed, NEW c \in Clients, NEW s \in Planned(c), RenameBack(c, s)
  PROVE  Apart'
<1> DEFINE old == req[c].plan[s][1]
           new == req[c].plan[s][2]
           x == [req[c] EXCEPT !.done = req[c].done \ {s}]
<1>1. /\ req[c].op \in Moves /\ req[c].at = "back" /\ Active(c) /\ s \in req[c].done
      /\ UNCHANGED <<trash, rows, placed, known>>
      /\ req' = [req EXCEPT ![c].done = @ \ {s}]
  BY DEF RenameBack, Moves, Active
<1>2. req[c] \in RequestRow /\ Sound(req[c]) /\ req[c].plan \in Plans
  BY <1>1 DEF Safe, Types, Asked, Sound
<1>3. s \in Songs /\ old \in Paths /\ new \in Paths /\ old # new
  <2>1. s \in ToMove(c)
    BY <1>1, <1>2 DEF Sound, Moving, ToMove, Planned
  <2> QED
    BY <1>1, <2>1, PlanIs
<1>4. HomeBut(c) /\ InPlace /\ InTrash /\ SongsMove(c)
  BY <1>1, Focus DEF Foremost, InHand
<1>5. HalfWay(c) = req[c].done
  BY <1>1, HalfWayIs DEF HalfOf
<1>6. rows[s] = old /\ placed[s] = None
  <2>1. rows[s] = old /\ rows[s] # None
    BY <1>1, <1>4 DEF SongsMove
  <2> QED
    BY <1>3, <2>1 DEF Safe, Table
<1>7. req' = [req EXCEPT ![c] = x]
  BY <1>1 DEF Safe, Types
<1>8. /\ x \in RequestRow /\ x.at = "back" /\ x.op = req[c].op
      /\ x.plan = req[c].plan /\ x.done = req[c].done \ {s}
  BY <1>1, <1>2 DEF RequestRow
<1> HIDE DEF x
<1>9. req'[c] = x
  BY <1>7 DEF Safe, Types
<1>10. HalfWay(c)' = req[c].done \ {s} /\ Stash(x) = {}
  BY <1>1, <1>8, <1>9, HalfWayIs DEF HalfOf, Stash, Moves
\* Back in place, or recorded; the others stay.
<1>11. /\ Ok' \subseteq Ok /\ Ok \subseteq Songs
       /\ s \in Ok' => disk'[old] = s
       /\ \A q \in Paths, t \in Ok' : t # s /\ disk[q] = t => disk'[q] = t
  <2>1. CASE CanRename(new, old)
    <3>1. /\ RenameFile(new, old) /\ lost' = lost \cup ({disk[old]} \ {None})
          /\ strays' = strays \cup ({disk[new]} \ {s})
      BY <2>1 DEF RenameBack
    <3>2. Ok' \subseteq Ok /\ Ok \subseteq Songs
      BY <3>1 DEF Ok
    <3>3. \A q \in Paths, t \in Ok' : t # s /\ disk[q] = t => disk'[q] = t
      <4>1. {disk[old]} \ {None} \subseteq lost' /\ {disk[new]} \ {s} \subseteq strays'
        BY <3>1
      <4> HIDE DEF old, new
      <4> QED
        BY <1>3, <2>1, <3>1, <4>1, OthersStay
    <3>4. disk'[old] = disk[new]
      BY <1>3, <2>1, <3>1, FileMoved DEF Safe
    <3> QED
      BY <1>1, <1>4, <3>2, <3>3, <3>4 DEF SongsMove
  <2>2. CASE ~ CanRename(new, old)
    <3>1. strays' = strays \cup {s} /\ UNCHANGED <<disk, lost>>
      BY <2>2 DEF RenameBack
    <3> QED
      BY <3>1 DEF Ok
  <2> QED
    BY <2>1, <2>2
<1>12. HomeBut(c)'
  <2> SUFFICES ASSUME NEW t \in Ok', rows[t] # None, t \notin req[c].done \ {s}
               PROVE  disk'[rows[t]] = t
    BY <1>1, <1>10 DEF HomeBut
  <2>1. CASE t = s
    BY <1>6, <1>11, <2>1
  <2>2. CASE t # s
    <3>1. rows[t] \in Paths /\ disk[rows[t]] = t
      BY <1>4, <1>5, <1>11, <2>2 DEF HomeBut, Safe, Types
    <3> QED
      BY <1>11, <2>2, <3>1
  <2> QED
    BY <2>1, <2>2
<1>13. InPlace'
  <2> SUFFICES ASSUME NEW t \in Ok', placed[t] # None
               PROVE  disk'[placed[t]] = t
    BY <1>1 DEF InPlace
  <2>1. t # s /\ placed[t] \in Paths /\ disk[placed[t]] = t
    BY <1>4, <1>6, <1>11 DEF InPlace, Safe, Types
  <2> QED
    BY <1>11, <2>1
<1>14. InTrash'
  BY <1>1, <1>4, <1>11 DEF InTrash
<1>15. \A t \in (req[c].done \ {s}) \cap Ok' : disk'[req[c].plan[t][2]] = t
  <2> TAKE t \in (req[c].done \ {s}) \cap Ok'
  <2>1. t \in req[c].done /\ t \in DOMAIN req[c].plan /\ t # s
    BY <1>1, <1>2 DEF Sound, Moving
  <2>2. req[c].plan[t][2] \in Paths /\ disk[req[c].plan[t][2]] = t
    BY <1>1, <1>2, <1>4, <1>11, <2>1, InPlans DEF SongsMove
  <2> QED
    BY <1>11, <2>1, <2>2
<1>16. SongsMove(c)'
  BY <1>1, <1>4, <1>8, <1>9, <1>15 DEF SongsMove, Planned
<1>17. InHand(c)'
  BY <1>1, <1>8, <1>9, <1>10, <1>16 DEF InHand, FolderMoves, FolderGoes, SongGoes, Moves
<1> QED
  BY <1>1, <1>7, <1>8, <1>12, <1>13, <1>14, <1>17, StaysApart

LEMMA GiveUpApart ==
  ASSUME Safe, Apart, ~ crossed, NEW c \in Clients, GiveUp(c)
  PROVE  Apart'
<1>1. /\ req[c].op \in Moves /\ req[c].at = "back" /\ req[c].done = {}
      /\ Active(c) /\ End(c)
      /\ UNCHANGED <<disk, rows, placed, known, strays, lost, trash>>
  BY DEF GiveUp, history, Moves, Active
<1>2. HalfWay(c) = {} /\ Ok' = Ok
  BY <1>1, HalfWayIs DEF HalfOf, Ok
<1> QED
  BY <1>1, <1>2, EndsApart

-----------------------------------------------------------------------------
(* The theorems.                                                           *)

LEMMA ApartInit == Init => Apart
<1> SUFFICES ASSUME Init PROVE Apart
  OBVIOUS
<1>1. /\ \A c \in Clients : req[c] = NoReq
      /\ \A s \in Songs : rows[s] = None /\ placed[s] = None
      /\ known = {}
  BY DEF Init
<1>2. Alone /\ InPlace /\ Home /\ Retained
  BY <1>1, NoReqIs DEF Alone, Active, InPlace, Home, Retained, Ok
<1>3. Progress
  BY <1>1, NoReqIs DEF Progress, FolderMoves, FolderGoes, SongGoes, SongsMove, Moves
<1> QED
  BY <1>2, <1>3 DEF Apart

LEMMA ApartKept == Exact /\ Safe /\ Apart /\ [Next]_vars => Apart'
<1> SUFFICES ASSUME Exact, Safe, Apart, [Next]_vars, ~ crossed'
             PROVE  Apart'
  BY DEF Apart
<1>1. CASE Import
  BY <1>1, PlaceApart, InsertRowApart DEF Import
<1>2. CASE \E f \in Folders : CreateFolder(f)
  BY <1>2, CreateFolderApart
<1>3. ASSUME NEW c \in Clients, Request(c)
      PROVE  Apart'
  BY <1>3, RequestsApart
<1>4. ASSUME NEW c \in Clients, FolderStep(c)
      PROVE  Apart'
  <2>1. ~ crossed
    BY <1>4 DEF FolderStep, RenameFolder, MoveSongPathPrefix, MoveFolderBack, TrashFolder,
                DeleteSongs, RestoreFolder, history
  <2> QED
    BY <1>4, <2>1, RenameFolderApart, MoveSongPathPrefixApart, MoveFolderBackApart,
       TrashFolderApart, DeleteSongsApart, RestoreFolderApart DEF FolderStep
<1>5. ASSUME NEW c \in Clients, SongStep(c)
      PROVE  Apart'
  <2>1. ~ crossed
    BY <1>5 DEF SongStep, TrashFile, DeleteRow, RestoreFile, RemoveEmptyParents, Checked,
                UpdateSongPaths, GiveUp, CheckSong, RenameSong, RenameBack, history
  <2> QED
    BY <1>5, <2>1, TrashFileApart, DeleteRowApart, RestoreFileApart, RemoveEmptyParentsApart,
       CheckedApart, UpdateSongPathsApart, GiveUpApart, CheckSongApart, RenameSongApart,
       RenameBackApart DEF SongStep
<1>6. CASE Die
  BY <1>6, DieApart
<1>7. CASE UNCHANGED vars
  <2>1. Ok' = Ok /\ \A c \in Clients : HalfWay(c)' = HalfWay(c)
    BY <1>7, HalfWayIs DEF vars, Ok
  <2>2. Alone /\ InPlace /\ Home /\ Progress /\ Retained
    BY <1>7 DEF Apart, vars
  <2>3. Progress'
    BY <1>7, <2>1, <2>2, ProgressKept DEF vars
  <2> QED
    BY <1>7, <2>1, <2>2, <2>3 DEF Apart, vars, Alone, Active, InPlace, Home, Retained
<1> QED
  BY <1>1, <1>2, <1>3, <1>4, <1>5, <1>6, <1>7 DEF Next

\* Disk, table and requests keep their shape: a file is in one place, in a folder
\* that exists, and no two rows share a path, however requests, imports and deaths
\* of playerd cross.
THEOREM TypeCorrect == Spec => []TypeOK
<1>1. Safe => TypeOK
  <2> SUFFICES ASSUME Safe PROVE TypeOK
    OBVIOUS
  <2>1. /\ disk \in [Paths -> Songs \cup {None}] /\ dirs \subseteq Folders /\ Root \in dirs
        /\ trash \subseteq Songs /\ rows \in [Songs -> Paths \cup {None}] /\ Distinct(rows)
    BY DEF Safe, Types, Content, Table
  <2>2. \A p, q \in Paths : disk[p] # None => /\ p[1] \in dirs /\ disk[p] \notin trash
                                              /\ disk[q] = disk[p] => p = q
    BY DEF Safe, OnDisk
  <2>3. \A c \in Clients : req[c].at \in States
    BY DEF Safe, Types, RequestRow
  <2> QED
    BY <2>1, <2>2, <2>3 DEF TypeOK
<1> QED
  BY <1>1, SafeAlways, PTL

\* The file of a song that was in the library is in it or in recovery storage:
\* os.Rename moves files there and back and no step of a request deletes one.
THEOREM NothingDestroyedAlways == Spec => []NothingDestroyed
<1>1. Safe => NothingDestroyed
  <2> SUFFICES ASSUME Safe, NEW s \in known \ lost
               PROVE  s \in trash \/ \E p \in Paths : disk[p] = s
    BY DEF NothingDestroyed
  <2>1. s \in Songs
    BY DEF Safe, Table
  <2> QED
    BY <2>1 DEF Safe, Kept
<1> QED
  BY <1>1, SafeAlways, PTL

LEMMA ApartAlways ==
  ASSUME Exact
  PROVE  Spec => [](Safe /\ Apart)
<1>1. Init => Safe /\ Apart
  BY SafeInit, ApartInit
<1>2. Safe /\ Apart /\ [Next]_vars => (Safe /\ Apart)'
  BY SafeKept, ApartKept
<1> QED
  BY <1>1, <1>2, PTL DEF Spec

\* One request after another leaves each row at its song's file, where LIKE takes
\* a folder's name for that folder only.
THEOREM RowsBackedAlways ==
  ASSUME Exact
  PROVE  Spec => []RowsBacked
<1>1. Safe /\ Apart => RowsBacked
  <2> SUFFICES ASSUME Safe, Apart, Quiet, ~ crossed,
                      NEW s \in Songs \ (strays \cup lost), rows[s] # None
               PROVE  disk[rows[s]] = s
    BY DEF RowsBacked
  <2>1. \A c \in Clients : req[c] = NoReq
    BY DEF Quiet, Active, Safe, Asked, Sound
  <2>2. \A c \in Clients : HalfWay(c) = {}
    BY <2>1, NoReqIs, HalfWayIs DEF HalfOf
  <2> QED
    BY <2>2 DEF Apart, Home, Ok
<1> QED
  BY <1>1, ApartAlways, PTL

\* A song whose row a request deleted is in recovery storage, where LIKE takes a
\* folder's name for that folder only.
THEOREM RetainedOnDeleteAlways ==
  ASSUME Exact
  PROVE  Spec => []RetainedOnDelete
<1>1. Safe /\ Apart => RetainedOnDelete
  <2> SUFFICES ASSUME Safe, Apart, ~ crossed,
                      NEW s \in known \ (strays \cup lost), rows[s] = None
               PROVE  s \in trash
    BY DEF RetainedOnDelete
  <2>1. s \in Songs
    BY DEF Safe, Table
  <2> QED
    BY <2>1 DEF Apart, Retained, Ok
<1> QED
  BY <1>1, ApartAlways, PTL
=============================================================================
