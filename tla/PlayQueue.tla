----------------------------- MODULE PlayQueue -----------------------------
(***************************************************************************)
(* The play queue of ekkoplay as it lies in SQLite, one statement or       *)
(* transaction per step: the tables queue_items and queue_shuffle and the  *)
(* shuffle flag of player_state (src/backend/internal/db/store.go), with   *)
(* the callers that touch them concurrently: HTTP handlers, which take no  *)
(* lock for queue edits, and the controller, whose operations exclude each *)
(* other under Controller.mu but not the HTTP queue edits.                 *)
(*                                                                         *)
(* Queue items are row ids.  Which song an item holds does not matter      *)
(* here: a song may be queued any number of times, so deleting a song may  *)
(* delete any set of items.                                                *)
(***************************************************************************)
EXTENDS Integers, FiniteSets

CONSTANTS Clients,     \* HTTP requests that can be in flight at once
          EventLoop,   \* the goroutine Controller.eventLoop
          MaxItem,     \* bound: largest row id and position of queue_items
          MaxRows,     \* bound: rows of queue_shuffle above which no AddQueue starts
          SongDeletes, \* whether songs are deleted from the library
          Restarts     \* whether playerd may die and start again

ASSUME PlayQueueAssumption ==
    /\ EventLoop \notin Clients
    /\ MaxItem \in Nat
    /\ MaxRows \in Nat
    /\ SongDeletes \in BOOLEAN
    /\ Restarts \in BOOLEAN

VARIABLES position,   \* queue_items: row id -> position
          order,      \* queue_shuffle: row -> queue item id, rows kept as 0..n-1
          shuffle,    \* player_state.shuffle
          pc,         \* where each caller is between two statements
          seen,       \* len(queue) read by QueueForPlayback, for the lock holder
          holes,      \* ghost: a song was deleted and the queue not renumbered since
          serial      \* ghost: no request overlapped another or was cut short
                      \* since the shuffle order was last drawn

vars == <<position, order, shuffle, pc, seen, holes, serial>>

Threads == Clients \cup {EventLoop}

Ids == DOMAIN position

(***************************************************************************)
(* Between two statements a caller of AddQueue holds nothing; the callers  *)
(* in Locking are operations of the controller and hold Controller.mu.     *)
(***************************************************************************)
Adding  == {"inserted", "flagged"}
Writing == {"rebuilt", "replaced", "replacedPlain", "reshuffled"}
Locking == Writing \cup {"reading", "listed", "mismatch"}
PCs     == {"idle"} \cup Adding \cup Locking

Locked == \E t \in Threads : pc[t] \in Locking

Goto(t, label) == pc' = [pc EXCEPT ![t] = label]

-----------------------------------------------------------------------------
(* SQL the operations are built from.                                      *)

Largest(S) == CHOOSE m \in S : \A n \in S : n <= m

\* COALESCE(MAX(x), -1) + 1
After(S) == IF S = {} THEN 0 ELSE Largest(S) + 1

\* The row id SQLite gives an INSERT into an INTEGER PRIMARY KEY table.
NewId == IF Ids = {} THEN 1 ELSE Largest(Ids) + 1

Positions == {position[x] : x \in Ids}

Restricted(f, S) == [x \in DOMAIN f \cap S |-> f[x]]

\* ROW_NUMBER() OVER (ORDER BY position) - 1
Rank(p, x) == Cardinality({y \in DOMAIN p : p[y] < p[x]})

Renumbered(p) == [x \in DOMAIN p |-> Rank(p, x)]

\* UPDATE visits the rows by id and checks UNIQUE(position) row by row: a row
\* may not take a position that a row not yet visited still holds.
RenumberCollides(p) == \E x, y \in DOMAIN p : x < y /\ p[y] = Rank(p, x)

\* The rows of queue_shuffle that survive a cascade, with dense row numbers:
\* only their order is ever read.
Surviving(o, kept) ==
    LET rows == {i \in DOMAIN o : o[i] \in kept}
        Below(i) == Cardinality({j \in rows : j < i})
    IN  [n \in {Below(i) : i \in rows} |->
            o[CHOOSE i \in rows : Below(i) = n]]

HasDuplicate(o) == \E i, j \in DOMAIN o : i # j /\ o[i] = o[j]

\* All enumerations of S: INSERT ... ROW_NUMBER() OVER (ORDER BY random()) - 1
Enumerations(S) ==
    {f \in [0 .. Cardinality(S) - 1 -> S] : ~HasDuplicate(f) /\ S = {f[i] : i \in DOMAIN f}}

Rebuild == order' \in Enumerations(Ids)

-----------------------------------------------------------------------------
Init ==
    /\ position = [x \in {} |-> 0]
    /\ order = [i \in {} |-> 0]
    /\ shuffle = FALSE
    /\ pc = [t \in Threads |-> "idle"]
    /\ seen = 0
    /\ holes = FALSE
    /\ serial = TRUE

(***************************************************************************)
(* AddQueue: the item is appended and committed in one transaction; the    *)
(* shuffle flag is read and the LAST item of the queue is appended to the  *)
(* shuffle order in two further statements.                                *)
(***************************************************************************)
AddQueueInsert(c) ==
    /\ pc[c] = "idle"
    /\ NewId <= MaxItem /\ After(Positions) <= MaxItem
    /\ Cardinality(DOMAIN order) <= MaxRows
    /\ position' = [x \in Ids \cup {NewId} |->
                       IF x = NewId THEN After(Positions) ELSE position[x]]
    /\ Goto(c, "inserted")
    /\ UNCHANGED <<order, shuffle, seen, holes>>

\* Mutant: the item is never appended to the shuffle order.
AddQueueReadFlagForgets(c) ==
    /\ pc[c] = "inserted"
    /\ Goto(c, "idle")
    /\ UNCHANGED <<position, order, shuffle, seen, holes>>

AddQueueReadFlag(c) ==
    /\ pc[c] = "inserted"
    /\ Goto(c, IF shuffle THEN "flagged" ELSE "idle")
    /\ UNCHANGED <<position, order, shuffle, seen, holes>>

LastItem == CHOOSE x \in Ids : \A y \in Ids : position[y] <= position[x]

\* On an emptied queue the subselect is NULL and the insert fails.
AddQueueShuffleRow(c) ==
    /\ pc[c] = "flagged"
    /\ LET row == After(DOMAIN order)
       IN  order' = IF Ids = {} THEN order
                    ELSE [i \in DOMAIN order \cup {row} |->
                             IF i = row THEN LastItem ELSE order[i]]
    /\ Goto(c, "idle")
    /\ UNCHANGED <<position, shuffle, seen, holes>>

\* The transaction commits unless a renumbering meets a UNIQUE constraint;
\* two shuffle rows of one item are renumbered to the same row.
Removable(x) ==
    /\ ~RenumberCollides(Restricted(position, Ids \ {x}))
    /\ ~HasDuplicate(Surviving(order, Ids \ {x}))

\* Mutant: the rows left keep their positions.
RemoveQueueLeavesGap(c, x) ==
    /\ pc[c] = "idle"
    /\ Removable(x)
    /\ position' = Restricted(position, Ids \ {x})
    /\ order' = Surviving(order, Ids \ {x})
    /\ holes' = FALSE
    /\ UNCHANGED <<shuffle, pc, seen>>

RemoveQueue(c, x) ==
    /\ pc[c] = "idle"
    /\ Removable(x)
    /\ position' = Renumbered(Restricted(position, Ids \ {x}))
    /\ order' = Surviving(order, Ids \ {x})
    /\ holes' = FALSE
    /\ UNCHANGED <<shuffle, pc, seen>>

\* A list that is not a permutation of the current items is refused.
ReorderQueue(c) ==
    /\ pc[c] = "idle"
    /\ \E ids \in Enumerations(Ids) :
          position' = [x \in Ids |-> CHOOSE i \in DOMAIN ids : ids[i] = x]
    /\ holes' = FALSE
    /\ UNCHANGED <<order, shuffle, pc, seen>>

ClearQueue(c) ==
    /\ pc[c] = "idle"
    /\ position' = [x \in {} |-> 0]
    /\ order' = [i \in {} |-> 0]
    /\ holes' = FALSE
    /\ UNCHANGED <<shuffle, pc, seen>>

\* DeleteSong: queue_items and queue_shuffle lose the song's rows by cascade,
\* and nothing renumbers the positions that are left.
DeleteSong(c, gone) ==
    /\ SongDeletes
    /\ pc[c] = "idle"
    /\ position' = Restricted(position, Ids \ gone)
    /\ order' = Surviving(order, Ids \ gone)
    /\ holes' = TRUE
    /\ UNCHANGED <<shuffle, pc, seen>>

-----------------------------------------------------------------------------
(* Controller.Shuffle and Controller.PlaySongs, under Controller.mu.        *)

ShuffleOff(c) ==
    /\ pc[c] = "idle" /\ ~Locked
    /\ shuffle' = FALSE
    /\ UNCHANGED <<position, order, pc, seen, holes>>

\* Mutant: Controller.mu is not taken.
ShuffleOnUnlocked(c) ==
    /\ pc[c] = "idle"
    /\ Rebuild
    /\ Goto(c, "rebuilt")
    /\ UNCHANGED <<position, shuffle, seen, holes>>

ShuffleOn(c) ==
    /\ pc[c] = "idle" /\ ~Locked
    /\ Rebuild
    /\ Goto(c, "rebuilt")
    /\ UNCHANGED <<position, shuffle, seen, holes>>

\* ReplaceQueue empties the table first, so row ids start from 1 again.
PlaySongsReplace(c, n, wanted) ==
    /\ pc[c] = "idle" /\ ~Locked
    /\ position' = [x \in 1 .. n |-> x - 1]
    /\ order' = [i \in {} |-> 0]
    /\ Goto(c, IF wanted THEN "replaced" ELSE "replacedPlain")
    /\ holes' = FALSE
    /\ UNCHANGED <<shuffle, seen>>

PlaySongsRebuild(c) ==
    /\ pc[c] = "replaced"
    /\ Rebuild
    /\ Goto(c, "reshuffled")
    /\ UNCHANGED <<position, shuffle, seen, holes>>

\* SavePlayerState of Shuffle (which ends there) and of PlaySongs (which goes
\* on to read the queue for playback; without shuffle that reads one table).
SaveFlag(c) ==
    /\ pc[c] \in {"rebuilt", "reshuffled", "replacedPlain"}
    /\ shuffle' = (pc[c] # "replacedPlain")
    /\ Goto(c, IF pc[c] = "reshuffled" THEN "reading" ELSE "idle")
    /\ UNCHANGED <<position, order, seen, holes>>

(***************************************************************************)
(* QueueForPlayback with shuffle on: list the queue, compare the number of *)
(* shuffle rows with it, rebuild the order when they differ.               *)
(***************************************************************************)
ListQueue(t) ==
    /\ \/ pc[t] = "reading"
       \/ pc[t] = "idle" /\ ~Locked /\ shuffle
    /\ seen' = Cardinality(Ids)
    /\ Goto(t, "listed")
    /\ UNCHANGED <<position, order, shuffle, holes>>

CompareCount(t) ==
    /\ pc[t] = "listed"
    /\ Goto(t, IF Cardinality(DOMAIN order) = seen THEN "idle" ELSE "mismatch")
    /\ seen' = 0
    /\ UNCHANGED <<position, order, shuffle, holes>>

Heal(t) ==
    /\ pc[t] = "mismatch"
    /\ Rebuild
    /\ Goto(t, "idle")
    /\ UNCHANGED <<position, shuffle, seen, holes>>

-----------------------------------------------------------------------------
Request(c) ==
    \/ AddQueueInsert(c)
    \/ AddQueueReadFlag(c)
    \/ AddQueueShuffleRow(c)
    \/ \E x \in 1 .. MaxItem : RemoveQueue(c, x)
    \/ ReorderQueue(c)
    \/ ClearQueue(c)
    \/ \E gone \in SUBSET Ids : DeleteSong(c, gone)
    \/ ShuffleOff(c)
    \/ ShuffleOn(c)
    \/ \E n \in 1 .. MaxItem, wanted \in BOOLEAN : PlaySongsReplace(c, n, wanted)
    \/ PlaySongsRebuild(c)
    \/ SaveFlag(c)

\* Next and Previous of a client, and the event loop at the end of a song.
Advance(t) ==
    \/ ListQueue(t)
    \/ CompareCount(t)
    \/ Heal(t)

\* Requests that have more statements to execute.
Unfinished(S) == \E c \in S : pc[c] \in Adding \cup Writing

\* playerd dies between two statements; the tables stay as they are.
Restart ==
    /\ Restarts
    /\ serial' = (serial /\ ~Unfinished(Clients))
    /\ pc' = [t \in Threads |-> "idle"]
    /\ seen' = 0
    /\ UNCHANGED <<position, order, shuffle, holes>>

Next ==
    \/ \E c \in Clients :
          /\ Request(c)
          /\ serial' = /\ ~Unfinished(Clients \ {c})
                       /\ serial \/ pc'[c] \in {"rebuilt", "reshuffled"}
    \/ \E t \in Threads :
          /\ Advance(t)
          /\ serial' = \/ serial
                       \/ pc[t] = "mismatch" /\ ~Unfinished(Clients \ {t})
    \/ Restart

Spec == Init /\ [][Next]_vars

-----------------------------------------------------------------------------
(* Type correctness.  The tables are finite functions whose shuffle rows   *)
(* refer to queue items (foreign key with cascade), one controller         *)
(* operation runs at a time.                                               *)
TypeOK ==
    /\ Ids \subseteq 1 .. MaxItem
    /\ position \in [Ids -> Nat]
    /\ DOMAIN order = 0 .. Cardinality(DOMAIN order) - 1
    /\ order \in [DOMAIN order -> Ids]
    /\ shuffle \in BOOLEAN
    /\ pc \in [Threads -> PCs]
    /\ \A t, u \in Threads : pc[t] \in Locking /\ pc[u] \in Locking => t = u
    /\ seen \in Nat
    /\ holes \in BOOLEAN /\ serial \in BOOLEAN

Resting == \A t \in Threads : pc[t] = "idle"

\* As long as requests come one at a time and none dies half-way, every queue
\* item is in the persisted shuffle order whenever shuffle is on and nothing is
\* under way, whatever songs end and whoever presses Next in the meantime (the
\* rebuild of QueueForPlayback between two statements of AddQueue).
ShuffleCoversQueue ==
    shuffle /\ Resting /\ serial => Ids \subseteq {order[i] : i \in DOMAIN order}

\* What QueueForPlayback returns when it finds as many shuffle rows as queue
\* items, and so rebuilds nothing, holds every item of the queue.  It need not
\* after two requests of AddQueue at once, or one that was cut short.
CountsAgreeOnlyWhenWhole ==
    shuffle /\ Resting /\ Cardinality(DOMAIN order) = Cardinality(Ids)
        => Ids = {order[i] : i \in DOMAIN order}

\* The positions of the queue are 0..n-1, as the queue page assumes of its last
\* item.  Only the deletion of a song from the library makes holes, and the next
\* removal or reorder closes them: appends, removals and reorders by any number
\* of requests at once, and restarts, leave none.
PositionsDense == holes \/ Positions = 0 .. Cardinality(Ids) - 1

\* Every item the queue shows can be removed: RemoveQueue's renumbering does
\* not run into UNIQUE(position).  After a reorder it may.
EveryItemRemovable == Resting => \A x \in Ids : Removable(x)
=============================================================================
