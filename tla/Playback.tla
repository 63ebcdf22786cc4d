------------------------------ MODULE Playback ------------------------------
(***************************************************************************)
(* Playback in ekkoplay: the Controller and its event loop                 *)
(* (src/backend/internal/player/controller.go), the persisted row          *)
(* player_state, the play queue, and the supervised mpv engine with the    *)
(* events it sends back.                                                   *)
(*                                                                         *)
(* A controller operation runs under Controller.mu and is one action.  The *)
(* event loop is two steps for an "eof": it reads player_state without the *)
(* lock and then calls Next or PlaySong.  Queue edits are atomic here;     *)
(* PlayQueue.tla takes them apart.  A call to an engine that is restarting *)
(* fails; any other engine call succeeds.  Positions and volume are left   *)
(* out.                                                                    *)
(***************************************************************************)
EXTENDS Integers, Sequences, FiniteSets

CONSTANTS Songs, Stations, None,
          MaxQueue,     \* bound: length of the queue
          MaxEvents,    \* bound: engine events waiting for the event loop
          UniqueQueue,  \* whether users refrain from queueing a song twice
          LoadErrors,   \* whether mpv may fail to load or decode a source
          RepeatModes   \* the repeat modes in use

ASSUME PlaybackAssumption ==
    /\ None \notin Songs \cup Stations
    /\ Songs \cap Stations = {}
    /\ MaxQueue \in Nat /\ MaxEvents \in Nat
    /\ UniqueQueue \in BOOLEAN /\ LoadErrors \in BOOLEAN
    /\ "off" \in RepeatModes /\ RepeatModes \subseteq {"off", "track", "queue"}

VARIABLES songs,     \* the songs of the library
          queue,     \* queue_items by position: the songs
          order,     \* queue_shuffle by row: positions of queue; << >> if off
          st,        \* player_state
          engine,    \* mpv behind its supervisor
          events,    \* Engine.Events(), oldest first
          handling,  \* what the event loop decided on when it read the state
          quiet,     \* ghost: from now on nobody gives a command, nothing dies
          synced     \* ghost: no queue edit or failed Next since the last selection

vars == <<songs, queue, order, st, engine, events, handling, quiet, synced>>

-----------------------------------------------------------------------------
(* The state the operations read.                                          *)

Selected(p) == IF p.track # None THEN p.track ELSE p.station

\* QueueForPlayback
PlayList(q, o, p) == IF p.shuffle THEN [i \in DOMAIN o |-> q[o[i]]] ELSE q
List == PlayList(queue, order, st)

Orders(n) == {f \in [1 .. n -> 1 .. n] : \A i, j \in 1 .. n : f[i] = f[j] => i = j}

\* The index playSongLocked stores: the first item that holds the song, or -1.
FirstIndex(list, s) ==
    IF \E i \in DOMAIN list : list[i] = s
    THEN (CHOOSE i \in DOMAIN list :
             list[i] = s /\ \A j \in 1 .. i - 1 : list[j] # s) - 1
    ELSE -1

Playable(s) == s \in songs /\ engine.alive

Loaded(source)  == [alive |-> TRUE, source |-> source, paused |-> FALSE]
Unloaded        == [engine EXCEPT !.source = None]
Dead            == [alive |-> FALSE, source |-> None, paused |-> FALSE]

\* Mutant: the index of the song that played before is kept.
PlayingKeepsIndex(p, s, list) ==
    [p EXCEPT !.status = "playing", !.track = s, !.station = None]

\* player_state after playSongLocked, from the row p with the list it reads.
Playing(p, s, list) ==
    [p EXCEPT !.status = "playing", !.track = s, !.station = None,
              !.index = FirstIndex(list, s)]

\* playSongLocked on the row p: the row stays as it was if the song cannot play.
PlaySongLocked(p, s, list) ==
    /\ st' = IF Playable(s) THEN Playing(p, s, list) ELSE p
    /\ engine' = IF Playable(s) THEN Loaded(s) ELSE engine

\* restorePaused: the selection is loaded and paused, whatever was going on.
RestorePaused(e) ==
    /\ engine' = IF e.alive /\ Selected(st) # None
                 THEN [Loaded(Selected(st)) EXCEPT !.paused = TRUE] ELSE e
    /\ st' = [st EXCEPT !.status = "paused"]

-----------------------------------------------------------------------------
(* A fresh boot on a database whose queue has already been filled.         *)
Queues == UNION {[1 .. n -> Songs] : n \in 0 .. MaxQueue}
Distinct(q) == \A i, j \in DOMAIN q : q[i] = q[j] => i = j

Init ==
    /\ songs = Songs
    /\ queue \in {q \in Queues : UniqueQueue => Distinct(q)}
    /\ order = <<>>
    /\ st = [status |-> "paused", track |-> None, station |-> None,
             repeat |-> "off", shuffle |-> FALSE, index |-> 0]
    /\ engine = [alive |-> TRUE, source |-> None, paused |-> FALSE]
    /\ events = <<>>
    /\ handling = [call |-> "none", song |-> None]
    /\ quiet = FALSE
    /\ synced = FALSE

-----------------------------------------------------------------------------
(* Commands, each under Controller.mu.                                     *)

PlaySong(s) ==
    /\ Playable(s)
    /\ PlaySongLocked(st, s, List)
    /\ synced' = TRUE
    /\ UNCHANGED <<songs, queue, order, events, handling>>

\* A playlist, whose songs are distinct, replaces the queue and starts.
PlaySongs(q, shuffled) ==
    /\ queue' = q
    /\ order' \in IF shuffled THEN Orders(Len(q)) ELSE {<<>>}
    /\ LET p    == [st EXCEPT !.shuffle = shuffled, !.index = 0]
           list == PlayList(q, order', p)
       IN  PlaySongLocked(p, list[1], list)
    /\ synced' = engine.alive
    /\ UNCHANGED <<songs, events, handling>>

\* Mutant: the track that played before stays selected.
PlayRadioKeepsTrack(r) ==
    /\ engine.alive
    /\ engine' = Loaded(r)
    /\ st' = [st EXCEPT !.status = "playing", !.station = r]
    /\ UNCHANGED <<songs, queue, order, events, handling, synced>>

PlayRadio(r) ==
    /\ engine.alive
    /\ engine' = Loaded(r)
    /\ st' = [st EXCEPT !.status = "playing", !.track = None, !.station = r]
    /\ UNCHANGED <<songs, queue, order, events, handling, synced>>

\* Pause toggles; from "stopped" it loads the selection again.
Pause ==
    /\ engine.alive
    /\ \/ /\ st.status = "stopped" /\ Selected(st) # None
          /\ engine' = Loaded(Selected(st))
          /\ st' = [st EXCEPT !.status = "playing"]
       \/ /\ st.status # "stopped"
          /\ engine' = [engine EXCEPT !.paused = (st.status = "playing")]
          /\ st' = [st EXCEPT !.status = IF @ = "playing" THEN "paused" ELSE "playing"]
    /\ UNCHANGED <<songs, queue, order, events, handling, synced>>

Recover ==
    /\ engine.alive /\ Selected(st) # None
    /\ engine' = Loaded(Selected(st))
    /\ st' = [st EXCEPT !.status = "playing"]
    /\ UNCHANGED <<songs, queue, order, events, handling, synced>>

Stop ==
    /\ engine.alive
    /\ engine' = Unloaded
    /\ st' = [st EXCEPT !.status = "stopped"]
    /\ UNCHANGED <<songs, queue, order, events, handling, synced>>

Shuffle(on) ==
    /\ order' \in IF on THEN Orders(Len(queue)) ELSE {<<>>}
    /\ st' = [st EXCEPT !.shuffle = on, !.index = IF on THEN 0 ELSE @]
    /\ synced' = FALSE
    /\ UNCHANGED <<songs, queue, engine, events, handling>>

Repeat(mode) ==
    /\ st' = [st EXCEPT !.repeat = mode]
    /\ UNCHANGED <<songs, queue, order, engine, events, handling, synced>>

\* Mutant: the index is looked up in the queue even when shuffled.
GoToUnshuffled(idx) ==
    LET s == queue[idx + 1]
    IN  /\ PlaySongLocked([st EXCEPT !.index = idx], s, List)
        /\ synced' = Playable(s)

\* Next and Previous save the new index before they try to play its song.
GoTo(idx) ==
    LET s == List[idx + 1]
    IN  /\ PlaySongLocked([st EXCEPT !.index = idx], s, List)
        /\ synced' = Playable(s)

\* Mutant: the end of the queue is not recorded in player_state.
StopAtEndUnsaved ==
    /\ engine' = IF engine.alive THEN Unloaded ELSE engine
    /\ UNCHANGED <<st, synced>>

StopAtEnd ==
    /\ engine' = IF engine.alive THEN Unloaded ELSE engine
    /\ st' = [st EXCEPT !.status = "stopped"]
    /\ UNCHANGED synced

NextLocked ==
    /\ \/ /\ st.index + 1 < Len(queue)
          /\ GoTo(st.index + 1)
       \/ /\ st.index + 1 >= Len(queue) /\ st.repeat = "queue"
          /\ GoTo(0)
       \/ /\ st.index + 1 >= Len(queue) /\ st.repeat # "queue"
          /\ StopAtEnd
    /\ UNCHANGED <<songs, queue, order>>

NextSong ==
    /\ queue # <<>>
    /\ NextLocked
    /\ UNCHANGED <<events, handling>>

\* An index past the end of the queue is saved before indexing with it panics.
PreviousSong ==
    LET idx == IF st.index < 1 THEN 0 ELSE st.index - 1
    IN  /\ queue # <<>>
        /\ \/ idx < Len(queue) /\ GoTo(idx)
           \/ /\ idx >= Len(queue)
              /\ st' = [st EXCEPT !.index = idx]
              /\ synced' = FALSE
              /\ UNCHANGED engine
    /\ UNCHANGED <<songs, queue, order, events, handling>>

-----------------------------------------------------------------------------
(* Queue edits and deletions, which do not go through the controller.  They *)
(* leave player_state.queue_index and the engine as they are.              *)

AddQueue(s) ==
    /\ Len(queue) < MaxQueue
    /\ UniqueQueue => \A i \in DOMAIN queue : queue[i] # s
    /\ queue' = Append(queue, s)
    /\ order' = IF st.shuffle THEN Append(order, Len(queue) + 1) ELSE order
    /\ synced' = (synced /\ s # st.track)
    /\ UNCHANGED <<songs, st, engine, events, handling>>

\* The place of k among the numbers of S, and the number at a place.
Place(S, k) == Cardinality({j \in S : j <= k})
At(S, i)    == CHOOSE k \in S : Place(S, k) = i

\* The positions of queue and order that are left without those in K.
KeepAllBut(K) ==
    LET kept == DOMAIN queue \ K
        rows == {i \in DOMAIN order : order[i] \notin K}
    IN  /\ queue' = [i \in 1 .. Cardinality(kept) |-> queue[At(kept, i)]]
        /\ order' = [i \in 1 .. Cardinality(rows) |-> Place(kept, order[At(rows, i)])]

RemoveQueue(i) ==
    /\ KeepAllBut({i})
    /\ synced' = FALSE
    /\ UNCHANGED <<songs, st, engine, events, handling>>

ReorderQueue(to) ==
    /\ queue' = [i \in DOMAIN queue |-> queue[to[i]]]
    /\ order' = [i \in DOMAIN order |-> CHOOSE j \in DOMAIN to : to[j] = order[i]]
    /\ synced' = FALSE
    /\ UNCHANGED <<songs, st, engine, events, handling>>

ClearQueue ==
    /\ queue' = <<>> /\ order' = <<>>
    /\ synced' = FALSE
    /\ UNCHANGED <<songs, st, engine, events, handling>>

\* Mutant: player_state still refers to the deleted song.
DeleteSongKeepsTrack(s) ==
    /\ songs' = songs \ {s}
    /\ KeepAllBut({i \in DOMAIN queue : queue[i] = s})
    /\ synced' = FALSE
    /\ UNCHANGED <<st, engine, events, handling>>

DeleteSong(s) ==
    /\ songs' = songs \ {s}
    /\ KeepAllBut({i \in DOMAIN queue : queue[i] = s})
    /\ st' = IF st.track = s
             THEN [st EXCEPT !.track = None, !.status = "stopped"] ELSE st
    /\ synced' = FALSE
    /\ UNCHANGED <<engine, events, handling>>

-----------------------------------------------------------------------------
(* The engine.                                                             *)

Report(event) == /\ Len(events) < MaxEvents
                 /\ events' = Append(events, event)

Ends(sources) ==
    /\ engine.alive /\ engine.source \in sources /\ ~engine.paused
    /\ engine' = Unloaded
    /\ Report("eof")
    /\ UNCHANGED <<songs, queue, order, st, handling, quiet, synced>>

SongEnds   == Ends(Songs)
StreamEnds == Ends(Stations)

\* mpv reports end-file with reason "error", which the event loop ignores.
LoadFails ==
    /\ LoadErrors
    /\ engine.source # None
    /\ engine' = Unloaded
    /\ UNCHANGED <<songs, queue, order, st, events, handling, quiet, synced>>

EngineDies ==
    /\ ~quiet
    /\ engine.alive
    /\ engine' = Dead
    /\ Report("engine-exit")
    /\ UNCHANGED <<songs, queue, order, st, handling, quiet, synced>>

EngineRestarts ==
    /\ ~engine.alive
    /\ engine' = [Dead EXCEPT !.alive = TRUE]
    /\ Report("engine-restarted")
    /\ UNCHANGED <<songs, queue, order, st, handling, quiet, synced>>

-----------------------------------------------------------------------------
(* The event loop.                                                         *)

Waiting(event) ==
    /\ handling.call = "none"
    /\ events # <<>> /\ Head(events) = event
    /\ events' = Tail(events)

ReadAtEof ==
    /\ Waiting("eof")
    /\ handling' = IF st.repeat = "track" /\ st.track # None
                   THEN [call |-> "replay", song |-> st.track]
                   ELSE [call |-> "next", song |-> None]
    /\ UNCHANGED <<songs, queue, order, st, engine, quiet, synced>>

Handled == handling' = [call |-> "none", song |-> None]

\* The song read at eof plays again, unless it cannot.
Replay ==
    /\ handling.call = "replay"
    /\ PlaySongLocked(st, handling.song, List)
    /\ synced' = (synced \/ Playable(handling.song))
    /\ Handled
    /\ UNCHANGED <<songs, queue, order, events, quiet>>

\* On an empty queue Next fails and nothing changes.
AdvanceAtEof ==
    /\ handling.call = "next"
    /\ IF queue = <<>> THEN UNCHANGED <<songs, queue, order, st, engine, synced>>
                       ELSE NextLocked
    /\ Handled
    /\ UNCHANGED <<events, quiet>>

HandleExit ==
    /\ Waiting("engine-exit")
    /\ st' = [st EXCEPT !.status = "paused"]
    /\ UNCHANGED <<songs, queue, order, engine, handling, quiet, synced>>

\* Mutant: the selection is not loaded into the new mpv.
HandleRestartedIdle ==
    /\ Waiting("engine-restarted")
    /\ st' = [st EXCEPT !.status = "paused"]
    /\ UNCHANGED <<songs, queue, order, engine, handling, quiet, synced>>

HandleRestarted ==
    /\ Waiting("engine-restarted")
    /\ RestorePaused(engine)
    /\ UNCHANGED <<songs, queue, order, handling, quiet, synced>>

EventLoop == ReadAtEof \/ Replay \/ AdvanceAtEof \/ HandleExit \/ HandleRestarted

\* playerd starts again with a new mpv and restores the persisted selection.
Reboot ==
    /\ ~quiet
    /\ RestorePaused([Dead EXCEPT !.alive = TRUE])
    /\ events' = <<>>
    /\ Handled
    /\ UNCHANGED <<songs, queue, order, quiet, synced>>

-----------------------------------------------------------------------------
Command ==
    /\ ~quiet
    /\ UNCHANGED quiet
    /\ \/ \E s \in songs : PlaySong(s)
       \/ \E q \in Queues \ {<<>>}, shuffled \in BOOLEAN :
             /\ Distinct(q) /\ \A i \in DOMAIN q : q[i] \in songs
             /\ PlaySongs(q, shuffled)
       \/ \E r \in Stations : PlayRadio(r)
       \/ Pause
       \/ Recover
       \/ Stop
       \/ \E on \in BOOLEAN : Shuffle(on)
       \/ \E mode \in RepeatModes : Repeat(mode)
       \/ NextSong
       \/ PreviousSong

Edit ==
    /\ ~quiet
    /\ UNCHANGED quiet
    /\ \/ \E s \in songs : AddQueue(s)
       \/ \E i \in DOMAIN queue : RemoveQueue(i)
       \/ \E to \in Orders(Len(queue)) : ReorderQueue(to)
       \/ ClearQueue
       \/ \E s \in songs : DeleteSong(s)

Engine == SongEnds \/ StreamEnds \/ LoadFails \/ EngineDies \/ EngineRestarts

\* The users leave the appliance alone from here on.
FallQuiet ==
    /\ quiet' = TRUE
    /\ UNCHANGED <<songs, queue, order, st, engine, events, handling, synced>>

Next == Command \/ Edit \/ Engine \/ EventLoop \/ Reboot \/ FallQuiet

Spec == Init /\ [][Next]_vars

(***************************************************************************)
(* The event loop is a goroutine that receives whenever an event waits,    *)
(* the supervisor retries until mpv starts, and a song that plays ends.    *)
(***************************************************************************)
FairSpec ==
    /\ Spec
    /\ WF_vars(EventLoop)
    /\ WF_vars(EngineRestarts)
    /\ WF_vars(SongEnds)

-----------------------------------------------------------------------------
(* Type correctness: the persisted row, the queue, the engine and the      *)
(* events have their shapes, and the row refers to rows that exist.        *)
TypeOK ==
    /\ songs \subseteq Songs
    /\ queue \in Seq(songs) /\ Len(queue) <= MaxQueue
    /\ order \in IF st.shuffle THEN Orders(Len(queue)) ELSE {<<>>}
    /\ st \in [status : {"playing", "paused", "stopped"},
               track : songs \cup {None}, station : Stations \cup {None},
               repeat : RepeatModes, shuffle : BOOLEAN, index : -1 .. MaxQueue]
    /\ engine \in [alive : BOOLEAN, source : Songs \cup Stations \cup {None},
                   paused : BOOLEAN]
    /\ events \in Seq({"eof", "engine-exit", "engine-restarted"})
    /\ Len(events) <= MaxEvents
    /\ handling \in [call : {"none", "next", "replay"}, song : Songs \cup {None}]
    /\ quiet \in BOOLEAN /\ synced \in BOOLEAN

\* What mpv has loaded is what player_state selects, whatever commands, ends of
\* songs, crashes and restarts have crossed; the one exception is a song that
\* was deleted from the library while it was loaded.
LoadedIsSelected ==
    engine.source # None =>
        \/ engine.source = Selected(st)
        \/ engine.source \in Songs \ songs

\* As long as the queue has not been edited and no Next has failed since the
\* current song was selected, queue_index points at that song, so the item the
\* player shows as up next is the one that follows it.
UpNextIsNext ==
    synced /\ st.track # None /\ (\E i \in DOMAIN List : List[i] = st.track)
        => st.index + 1 \in DOMAIN List /\ List[st.index + 1] = st.track

\* Next, pressed or at the end of a song, moves from the current song to the
\* song that follows it in the order of playback, if the current song is in the
\* queue once.
NextFollows ==
    [][synced /\ engine.alive /\ st.track # None /\ queue' = queue
          /\ (NextSong \/ AdvanceAtEof)
       => \A k \in 1 .. Len(queue) - 1 :
             (\A j \in DOMAIN List : List[j] = st.track <=> j = k)
                => st'.track = List[k + 1]]_vars

\* Left alone, the player keeps advancing through its queue: a song that plays
\* without repeat is not played for ever, the queue comes to its end.
QueuePlaysOut ==
    (quiet /\ st.status = "playing" /\ st.repeat = "off" /\ queue # <<>>
        /\ st.track # None /\ engine.source = st.track)
    ~> st.status # "playing"

\* After mpv has died, mpv runs again with the persisted selection loaded,
\* without a command and without a restart of playerd.
RestoredAfterCrash ==
    (quiet /\ ~engine.alive) ~> (engine.alive /\ engine.source = Selected(st))
=============================================================================
