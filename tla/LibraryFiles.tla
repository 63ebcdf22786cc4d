---------------------------- MODULE LibraryFiles ----------------------------
(***************************************************************************)
(* The administrator's work on the files of the library: folders created,  *)
(* moved and deleted, songs moved, renamed and deleted (src/backend/       *)
(* internal/api/folders.go, deleteSong in api/server.go).  Each request    *)
(* checks, renames on disk, updates the table songs in a transaction, and  *)
(* renames back when that fails; imports put files and rows beside it.     *)
(*                                                                         *)
(* One step is one system call or one statement or transaction.  Folders   *)
(* are not nested.  A file is known by the song it holds.                  *)
(***************************************************************************)
EXTENDS Integers, FiniteSets

CONSTANTS Songs,       \* songs that may be imported, and the audio of each
          Folders,     \* folders that may be in the library
          Root,        \* the library itself
          Names,       \* file names
          None,
          Clients,     \* requests that may be in flight at once
          Alike,       \* the folders that LIKE takes for a folder
          MaxRequests, \* bound: requests
          MaxLives     \* bound: lives of playerd

Paths == Folders \X Names

ASSUME LibraryAssumption ==
    /\ Root \in Folders
    /\ None \notin Songs /\ None \notin Paths
    /\ Alike \in [Folders -> SUBSET Folders] /\ \A f \in Folders : f \in Alike[f]
    /\ MaxRequests \in Nat /\ MaxLives \in Nat

VARIABLES disk,      \* what each path holds
          dirs,      \* folders on disk
          trash,     \* recovery storage
          rows,      \* songs.file_path
          placed,    \* imports whose file is in place and whose row is not
          req,       \* requests
          known,     \* songs that were ever in the table (history)
          strays,    \* songs whose row and file may have come apart (history)
          lost,      \* files that were replaced, or removed by a failed import (history)
          crossed,   \* two requests were in flight at once (history)
          requests, lives

vars == <<disk, dirs, trash, rows, placed, req, known, strays, lost, crossed, requests, lives>>
history == <<known, strays, lost, crossed>>

\* songs: what the request is about; plan: where each goes from and to; done: the
\* renames that were made; saved: what was moved to recovery storage, by name.
States  == {"idle", "check", "rename", "update", "back", "parents"}
NoReq   == [at |-> "idle", op |-> "none", from |-> None, to |-> None, songs |-> {},
            plan |-> <<>>, done |-> {}, saved |-> <<>>]

Init ==
    /\ disk = [p \in Paths |-> None]
    /\ dirs = {Root}
    /\ trash = {}
    /\ rows = [s \in Songs |-> None]
    /\ placed = [s \in Songs |-> None]
    /\ req = [c \in Clients |-> NoReq]
    /\ known = {} /\ strays = {} /\ lost = {} /\ crossed = FALSE
    /\ requests = 0 /\ lives = 1

-----------------------------------------------------------------------------
(* Disk and table.                                                         *)

Empty(f) == \A n \in Names : disk[<<f, n>>] = None
Files(f) == {disk[<<f, n>>] : n \in Names} \ {None}
InFolder(f) == {s \in Songs : rows[s] # None /\ rows[s][1] = f}

\* UNIQUE(file_path): the update stands only if no two rows share a path.
Distinct(table) == \A s, t \in Songs : s # t /\ table[s] # None => table[s] # table[t]

Active(c) == req[c].at # "idle"

Begin(c, r) ==
    /\ ~Active(c)
    /\ requests < MaxRequests
    /\ requests' = requests + 1
    /\ req' = [req EXCEPT ![c] = r]
    /\ crossed' = (crossed \/ \E d \in Clients \ {c} : Active(d))

End(c) == req' = [req EXCEPT ![c] = NoReq]

-----------------------------------------------------------------------------
(* Imports, as the worker makes them.                                      *)

Place(s, p) ==
    /\ s \notin known \cup trash /\ placed[s] = None /\ \A q \in Paths : disk[q] # s
    /\ disk[p] = None
    /\ disk' = [disk EXCEPT ![p] = s]
    /\ dirs' = dirs \cup {p[1]}
    /\ placed' = [placed EXCEPT ![s] = p]
    /\ UNCHANGED <<trash, rows, req, history, requests, lives>>

FolderRequests == {"moveFolder", "deleteFolder"}
InMotion == UNION {{req[c].from, req[c].to} : c \in {d \in Clients : req[d].op \in FolderRequests}}

\* Somebody else's row has the path: the worker removes the file there.
InsertRow(s) ==
    LET table == [rows EXCEPT ![s] = placed[s]] IN
    /\ placed[s] # None
    /\ placed' = [placed EXCEPT ![s] = None]
    /\ IF Distinct(table)
       THEN /\ rows' = table
            /\ known' = known \cup {s}
            /\ strays' = IF placed[s][1] \in InMotion THEN strays \cup {s} ELSE strays
            /\ UNCHANGED <<disk, lost>>
       ELSE /\ disk' = [disk EXCEPT ![placed[s]] = None]
            /\ lost' = lost \cup ({disk[placed[s]]} \ {None, s})
            /\ UNCHANGED <<rows, known, strays>>
    /\ UNCHANGED <<dirs, trash, req, crossed, requests, lives>>

\* Files of imports that are in a folder when it is moved away.
Caught(f) == {s \in Songs : placed[s] # None /\ placed[s][1] = f}

-----------------------------------------------------------------------------
(* POST and PATCH /admin/folders.                                          *)

CreateFolder(f) ==
    /\ requests < MaxRequests
    /\ requests' = requests + 1
    /\ f \notin dirs
    /\ dirs' = dirs \cup {f}
    /\ UNCHANGED <<disk, trash, rows, placed, req, history, lives>>

MoveFolder(c, f, g) ==
    /\ f \in dirs \ {Root} /\ g \notin dirs
    /\ Begin(c, [NoReq EXCEPT !.at = "rename", !.op = "moveFolder", !.from = f, !.to = g])
    /\ UNCHANGED <<disk, dirs, trash, rows, placed, known, strays, lost, lives>>

\* os.Rename refuses to put a folder where one exists.
CanMove(f, g) == f \in dirs /\ g \notin dirs

MoveDir(f, g) ==
    /\ disk' = [p \in Paths |-> CASE p[1] = g -> disk[<<f, p[2]>>]
                                  [] p[1] = f -> None
                                  [] OTHER -> disk[p]]
    /\ dirs' = (dirs \ {f}) \cup {g}

RenameFolder(c) ==
    LET f == req[c].from  g == req[c].to IN
    /\ req[c].op = "moveFolder" /\ req[c].at = "rename"
    /\ IF CanMove(f, g)
       THEN /\ MoveDir(f, g)
            /\ req' = [req EXCEPT ![c].at = "update", ![c].songs = InFolder(f)]
            /\ strays' = strays \cup Caught(f)
       ELSE End(c) /\ UNCHANGED <<disk, dirs, strays>>
    /\ UNCHANGED <<trash, rows, placed, known, lost, crossed, requests, lives>>

MovedPrefix(f, g) ==
    [s \in Songs |-> IF rows[s] # None /\ rows[s][1] \in Alike[f]
                     THEN <<g, rows[s][2]>> ELSE rows[s]]

\* The statement fails on a path that exists, or with the request's context.
MoveSongPathPrefix(c) ==
    LET table == MovedPrefix(req[c].from, req[c].to) IN
    /\ req[c].op = "moveFolder" /\ req[c].at = "update"
    /\ \/ Distinct(table) /\ rows' = table /\ End(c)
       \/ req' = [req EXCEPT ![c].at = "back"] /\ UNCHANGED rows
    /\ UNCHANGED <<disk, dirs, trash, placed, history, requests, lives>>

\* The mutant leaves the folder where it is.
StayFolder(c) ==
    /\ req[c].op = "moveFolder" /\ req[c].at = "back"
    /\ End(c)
    /\ UNCHANGED <<disk, dirs, trash, rows, placed, history, requests, lives>>

MoveFolderBack(c) ==
    LET f == req[c].from  g == req[c].to IN
    /\ req[c].op = "moveFolder" /\ req[c].at = "back"
    /\ IF CanMove(g, f)
       THEN MoveDir(g, f) /\ strays' = strays \cup Caught(g)
       ELSE strays' = strays \cup req[c].songs /\ UNCHANGED <<disk, dirs>>
    /\ End(c)
    /\ UNCHANGED <<trash, rows, placed, known, lost, crossed, requests, lives>>

-----------------------------------------------------------------------------
(* DELETE /admin/folders.                                                  *)

DeleteFolder(c, f) ==
    /\ f \in dirs \ {Root}
    /\ Begin(c, [NoReq EXCEPT !.at = "rename", !.op = "deleteFolder", !.from = f,
                              !.songs = InFolder(f)])
    /\ UNCHANGED <<disk, dirs, trash, rows, placed, known, strays, lost, lives>>

\* Songs that were imported or moved here since the list was read lose their file.
TrashFolder(c) ==
    LET f == req[c].from IN
    /\ req[c].op = "deleteFolder" /\ req[c].at = "rename"
    /\ IF f \in dirs
       THEN /\ trash' = trash \cup Files(f)
            /\ disk' = [p \in Paths |-> IF p[1] = f THEN None ELSE disk[p]]
            /\ dirs' = dirs \ {f}
            /\ req' = [req EXCEPT ![c].at = "update",
                                  ![c].saved = [n \in Names |-> disk[<<f, n>>]]]
            /\ strays' = strays \cup Caught(f) \cup (InFolder(f) \ req[c].songs)
       ELSE End(c) /\ UNCHANGED <<disk, dirs, trash, strays>>
    /\ UNCHANGED <<rows, placed, known, lost, crossed, requests, lives>>

\* The mutant deletes the songs without a transaction.
DeleteOneByOne(c) ==
    /\ req[c].op = "deleteFolder" /\ req[c].at = "update"
    /\ \E ids \in SUBSET req[c].songs :
          /\ rows' = [s \in Songs |-> IF s \in ids THEN None ELSE rows[s]]
          /\ IF ids = req[c].songs THEN End(c) ELSE req' = [req EXCEPT ![c].at = "back"]
    /\ UNCHANGED <<disk, dirs, trash, placed, history, requests, lives>>

\* A song that is gone by now fails the transaction.
DeleteSongs(c) ==
    LET ids == req[c].songs IN
    /\ req[c].op = "deleteFolder" /\ req[c].at = "update"
    /\ \/ /\ \A s \in ids : rows[s] # None
          /\ rows' = [s \in Songs |-> IF s \in ids THEN None ELSE rows[s]]
          /\ End(c)
       \/ req' = [req EXCEPT ![c].at = "back"] /\ UNCHANGED rows
    /\ UNCHANGED <<disk, dirs, trash, placed, history, requests, lives>>

RestoreFolder(c) ==
    LET f == req[c].from IN
    /\ req[c].op = "deleteFolder" /\ req[c].at = "back"
    /\ IF f \notin dirs
       THEN /\ disk' = [p \in Paths |-> IF p[1] = f THEN req[c].saved[p[2]] ELSE disk[p]]
            /\ dirs' = dirs \cup {f}
            /\ trash' = trash \ {req[c].saved[n] : n \in Names}
            /\ UNCHANGED strays
       ELSE strays' = strays \cup req[c].songs /\ UNCHANGED <<disk, dirs, trash>>
    /\ End(c)
    /\ UNCHANGED <<rows, placed, known, lost, crossed, requests, lives>>

-----------------------------------------------------------------------------
(* DELETE /songs/{id}.                                                     *)

DeleteSong(c, s) ==
    /\ rows[s] # None
    /\ Begin(c, [NoReq EXCEPT !.at = "rename", !.op = "deleteSong", !.from = rows[s],
                              !.songs = {s}])
    /\ UNCHANGED <<disk, dirs, trash, rows, placed, known, strays, lost, lives>>

TrashFile(c) ==
    LET p == req[c].from IN
    /\ req[c].op = "deleteSong" /\ req[c].at = "rename"
    /\ IF disk[p] # None
       THEN /\ trash' = trash \cup {disk[p]}
            /\ disk' = [disk EXCEPT ![p] = None]
            /\ strays' = strays \cup ({disk[p]} \ req[c].songs)
            /\ req' = [req EXCEPT ![c].at = "update", ![c].saved = disk[p]]
       ELSE End(c) /\ UNCHANGED <<disk, trash, strays>>
    /\ UNCHANGED <<dirs, rows, placed, known, lost, crossed, requests, lives>>

DeleteRow(c) ==
    LET s == CHOOSE s \in req[c].songs : TRUE IN
    /\ req[c].op = "deleteSong" /\ req[c].at = "update"
    /\ \/ /\ rows[s] # None
          /\ rows' = [rows EXCEPT ![s] = None]
          /\ req' = [req EXCEPT ![c].at = "parents"]
       \/ req' = [req EXCEPT ![c].at = "back"] /\ UNCHANGED rows
    /\ UNCHANGED <<disk, dirs, trash, placed, history, requests, lives>>

\* rename(2) of a file replaces what is there.
RestoreFile(c) ==
    LET p == req[c].from IN
    /\ req[c].op = "deleteSong" /\ req[c].at = "back"
    /\ IF p[1] \in dirs
       THEN /\ disk' = [disk EXCEPT ![p] = req[c].saved]
            /\ trash' = trash \ {req[c].saved}
            /\ lost' = lost \cup ({disk[p]} \ {None})
            /\ UNCHANGED strays
       ELSE strays' = strays \cup req[c].songs /\ UNCHANGED <<disk, trash, lost>>
    /\ End(c)
    /\ UNCHANGED <<dirs, rows, placed, known, crossed, requests, lives>>

RemoveEmptyParents(c) ==
    LET f == req[c].from[1] IN
    /\ req[c].at = "parents"
    /\ dirs' = IF f # Root /\ Empty(f) THEN dirs \ {f} ELSE dirs
    /\ End(c)
    /\ UNCHANGED <<disk, trash, rows, placed, history, requests, lives>>

-----------------------------------------------------------------------------
(* POST /admin/folders/move-songs and PATCH /admin/files/{id}.             *)

\* plan gives each checked song its old and new path and what the new one held.
MoveSongs(c, songs, f) ==
    /\ songs # {} /\ f \in dirs
    /\ Begin(c, [NoReq EXCEPT !.at = "check", !.op = "moveSongs", !.to = f, !.songs = songs,
                              !.plan = [s \in {} |-> None]])
    /\ UNCHANGED <<disk, dirs, trash, rows, placed, known, strays, lost, lives>>

RenameMusicFile(c, s, n) ==
    /\ rows[s] # None
    /\ Begin(c, [NoReq EXCEPT !.at = "check", !.op = "renameFile", !.to = n, !.songs = {s},
                              !.plan = [t \in {} |-> None]])
    /\ UNCHANGED <<disk, dirs, trash, rows, placed, known, strays, lost, lives>>

Planned(c) == DOMAIN req[c].plan
Target(c, s) == IF req[c].op = "moveSongs" THEN <<req[c].to, rows[s][2]>>
                                           ELSE <<rows[s][1], req[c].to>>

\* The mutant does not look whether the new path is free.
Allowed(c, s) == rows[s] # None

Free(c, s) ==
    /\ rows[s] # None
    /\ Target(c, s) = rows[s] \/ disk[Target(c, s)] = None
    /\ \A t \in Planned(c) : req[c].plan[t][2] # Target(c, s)

CheckSong(c, s) ==
    /\ req[c].at = "check" /\ s \in req[c].songs \ Planned(c)
    /\ IF Free(c, s)
       THEN req' = [req EXCEPT ![c].plan =
                [t \in Planned(c) \cup {s} |->
                    IF t = s THEN <<rows[s], Target(c, s), disk[Target(c, s)]>> ELSE @[t]]]
       ELSE End(c)
    /\ UNCHANGED <<disk, dirs, trash, rows, placed, history, requests, lives>>

Checked(c) ==
    /\ req[c].at = "check" /\ Planned(c) = req[c].songs
    /\ req' = [req EXCEPT ![c].at = "rename"]
    /\ UNCHANGED <<disk, dirs, trash, rows, placed, history, requests, lives>>

ToMove(c) == {s \in Planned(c) : req[c].plan[s][1] # req[c].plan[s][2]}

CanRename(old, new) == disk[old] # None /\ new[1] \in dirs

\* The mutant copies.
CopyFile(old, new) == disk' = [disk EXCEPT ![new] = disk[old]]

RenameFile(old, new) == disk' = [disk EXCEPT ![new] = disk[old], ![old] = None]

RenameSong(c, s) ==
    LET old == req[c].plan[s][1]  new == req[c].plan[s][2] IN
    /\ req[c].op \in {"moveSongs", "renameFile"} /\ req[c].at = "rename"
    /\ s \in ToMove(c) \ req[c].done
    /\ IF CanRename(old, new)
       THEN /\ RenameFile(old, new)
            /\ lost' = lost \cup ({disk[new]} \ {None, req[c].plan[s][3]})
            /\ strays' = strays \cup ({disk[old]} \ {s})
            /\ req' = [req EXCEPT ![c].done = @ \cup {s}]
       ELSE req' = [req EXCEPT ![c].at = "back"] /\ UNCHANGED <<disk, lost, strays>>
    /\ UNCHANGED <<dirs, trash, rows, placed, known, crossed, requests, lives>>

UpdateSongPaths(c) ==
    LET table == [s \in Songs |-> IF s \in ToMove(c) THEN req[c].plan[s][2] ELSE rows[s]] IN
    /\ req[c].op \in {"moveSongs", "renameFile"} /\ req[c].at = "rename"
    /\ req[c].done = ToMove(c)
    /\ \/ /\ \A s \in ToMove(c) : rows[s] # None
          /\ Distinct(table)
          /\ rows' = table /\ End(c)
       \/ req' = [req EXCEPT ![c].at = "back"] /\ UNCHANGED rows
    /\ UNCHANGED <<disk, dirs, trash, placed, history, requests, lives>>

RenameBack(c, s) ==
    LET old == req[c].plan[s][1]  new == req[c].plan[s][2] IN
    /\ req[c].op \in {"moveSongs", "renameFile"} /\ req[c].at = "back"
    /\ s \in req[c].done
    /\ IF CanRename(new, old)
       THEN /\ RenameFile(new, old)
            /\ lost' = lost \cup ({disk[old]} \ {None})
            /\ strays' = strays \cup ({disk[new]} \ {s})
       ELSE strays' = strays \cup {s} /\ UNCHANGED <<disk, lost>>
    /\ req' = [req EXCEPT ![c].done = @ \ {s}]
    /\ UNCHANGED <<dirs, trash, rows, placed, known, crossed, requests, lives>>

GiveUp(c) ==
    /\ req[c].op \in {"moveSongs", "renameFile"} /\ req[c].at = "back"
    /\ req[c].done = {}
    /\ End(c)
    /\ UNCHANGED <<disk, dirs, trash, rows, placed, history, requests, lives>>

-----------------------------------------------------------------------------
\* Songs whose file a request has moved and whose row it has not.
HalfWay(c) ==
    CASE req[c].at \in {"update", "back"} /\ req[c].op # "moveSongs" /\ req[c].op # "renameFile"
           -> req[c].songs
      [] OTHER -> req[c].done

Die ==
    /\ lives < MaxLives
    /\ lives' = lives + 1
    /\ req' = [c \in Clients |-> NoReq]
    /\ placed' = [s \in Songs |-> None]
    /\ strays' = strays \cup UNION {HalfWay(c) : c \in Clients}
    /\ UNCHANGED <<disk, dirs, trash, rows, known, lost, crossed, requests>>

FolderStep(c) == \/ RenameFolder(c) \/ MoveSongPathPrefix(c) \/ MoveFolderBack(c)
                 \/ TrashFolder(c) \/ DeleteSongs(c) \/ RestoreFolder(c)
SongStep(c)   == \/ TrashFile(c) \/ DeleteRow(c) \/ RestoreFile(c) \/ RemoveEmptyParents(c)
                 \/ Checked(c) \/ UpdateSongPaths(c) \/ GiveUp(c)
                 \/ \E s \in Songs : CheckSong(c, s)
                 \/ \E s \in Planned(c) : RenameSong(c, s) \/ RenameBack(c, s)
Import        == \E s \in Songs : InsertRow(s) \/ \E p \in Paths : Place(s, p)
Request(c)    == \/ \E f, g \in Folders : MoveFolder(c, f, g)
                 \/ \E f \in Folders : DeleteFolder(c, f)
                 \/ \E s \in Songs : DeleteSong(c, s)
                 \/ \E songs \in SUBSET Songs, f \in Folders : MoveSongs(c, songs, f)
                 \/ \E s \in Songs, n \in Names : RenameMusicFile(c, s, n)

Next == \/ Import
        \/ \E f \in Folders : CreateFolder(f)
        \/ \E c \in Clients : Request(c) \/ FolderStep(c) \/ SongStep(c)
        \/ Die

Spec == Init /\ [][Next]_vars

-----------------------------------------------------------------------------
(* Properties.                                                             *)

\* Paths hold songs, a file lies in a folder that exists and in one place only,
\* and no two rows share a path.
TypeOK ==
    /\ disk \in [Paths -> Songs \cup {None}]
    /\ dirs \subseteq Folders /\ Root \in dirs
    /\ trash \subseteq Songs
    /\ rows \in [Songs -> Paths \cup {None}] /\ Distinct(rows)
    /\ \A p, q \in Paths : disk[p] # None => /\ p[1] \in dirs
                                             /\ disk[p] \notin trash
                                             /\ disk[q] = disk[p] => p = q
    /\ \A c \in Clients : req[c].at \in States

Quiet == \A c \in Clients : ~Active(c)

\* Where requests come one at a time, a song's row names the song's file again
\* after each of them, failed or not, while imports go on beside.  The exceptions
\* are songs that a request was moving when playerd died, songs whose import or
\* whose folder's restoration met a move of the folder, and files that another
\* took the place of or that were moved as another's.
RowsBacked ==
    Quiet /\ ~crossed =>
        \A s \in Songs \ (strays \cup lost) : rows[s] # None => disk[rows[s]] = s

\* However requests and imports cross and whenever playerd dies, the file of a
\* song that was in the library is in it or in recovery storage.  The exceptions
\* are a file that came to a path after a request had found it free, and one
\* that a failed import removed in its stead.
NothingDestroyed ==
    \A s \in known \ lost : s \in trash \/ \E p \in Paths : disk[p] = s

\* A song that was deleted is in recovery storage.
RetainedOnDelete ==
    ~crossed => \A s \in known \ (strays \cup lost) : rows[s] = None => s \in trash
=============================================================================
