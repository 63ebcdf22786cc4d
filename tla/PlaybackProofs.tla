--------------------------- MODULE PlaybackProofs ---------------------------
(***************************************************************************)
(* The properties of Playback for every library, every length of the queue *)
(* and every number of pending events.                                     *)
(*                                                                         *)
(* LoadedIsSelected alone is not inductive: Recover and the restart of mpv *)
(* load whatever the row player_state selects, so the row must not select  *)
(* a song that is gone from the library, which is the work of DeleteSong.  *)
(*                                                                         *)
(* UpNextIsNext is inductive together with the type invariant (CoreInv).   *)
(* The work is in the queue: removals renumber the positions and close the *)
(* gaps of the order, which must stay a permutation for List to be defined. *)
(* NextFollows is a consequence of the two.                                *)
(***************************************************************************)
EXTENDS Playback, TLAPS, FunctionTheorems, FiniteSetTheorems

Fields == {"status", "track", "station", "repeat", "shuffle", "index"}

\* The row is complete and refers to a song of the library, or to none.
RowRefers ==
    /\ songs \subseteq Songs
    /\ DOMAIN st = Fields
    /\ st.track \in songs \cup {None}
    /\ st.station \in Stations \cup {None}

\* A source is loaded only while mpv runs.
EngineShape ==
    /\ engine \in [alive : BOOLEAN, source : Songs \cup Stations \cup {None},
                   paused : BOOLEAN]
    /\ ~engine.alive => engine.source = None

IInv == RowRefers /\ EngineShape /\ LoadedIsSelected

\* The initial state satisfies the invariant.
LEMMA InitIInv == Init => IInv
  BY PlaybackAssumption
  DEF Init, IInv, RowRefers, EngineShape, LoadedIsSelected, Fields

\* playSongLocked, called with a row p that differs from the stored one in
\* neither selection: what it loads is what it stores.
LEMMA PlaySongLockedKeeps ==
  ASSUME IInv, NEW p, NEW s, NEW list,
         DOMAIN p = Fields, p.track = st.track, p.station = st.station,
         PlaySongLocked(p, s, list), UNCHANGED songs
  PROVE  IInv'
<1>1. CASE Playable(s)
  <2>1. s \in songs /\ s # None
    BY <1>1, PlaybackAssumption DEF Playable, IInv, RowRefers
  <2>2. st' = Playing(p, s, list) /\ engine' = Loaded(s)
    BY <1>1 DEF PlaySongLocked
  <2>3. DOMAIN st' = Fields /\ st'.track = s /\ st'.station = None
    BY <2>2 DEF Playing, Fields
  <2> QED
    BY <2>1, <2>2, <2>3
    DEF IInv, RowRefers, EngineShape, LoadedIsSelected, Selected, Loaded
<1>2. CASE ~Playable(s)
  <2>1. st' = p /\ engine' = engine
    BY <1>2 DEF PlaySongLocked
  <2> QED
    BY <2>1 DEF IInv, RowRefers, EngineShape, LoadedIsSelected, Selected
<1> QED
  BY <1>1, <1>2

\* A step that loads the selection of a row it leaves alone in that respect.
LEMMA SelectionLoaded ==
  ASSUME IInv, UNCHANGED songs,
         DOMAIN st' = Fields, st'.track = st.track, st'.station = st.station,
         engine' \in [alive : BOOLEAN, source : {Selected(st)}, paused : BOOLEAN],
         engine'.alive
  PROVE  IInv'
<1>1. Selected(st)' = Selected(st)
  BY DEF Selected
<1>2. Selected(st) \in Songs \cup Stations \cup {None}
  BY DEF Selected, IInv, RowRefers
<1> QED
  BY <1>1, <1>2 DEF IInv, RowRefers, EngineShape, LoadedIsSelected, Selected

\* A step that loads nothing: it leaves the engine alone or unloads it.
LEMMA NothingLoaded ==
  ASSUME IInv, UNCHANGED songs,
         DOMAIN st' = Fields, st'.track = st.track, st'.station = st.station,
         \/ engine' \in [alive : BOOLEAN, source : {None}, paused : BOOLEAN]
         \/ engine' \in [alive : {engine.alive}, source : {engine.source},
                         paused : BOOLEAN]
  PROVE  IInv'
<1>1. engine' \in [alive : BOOLEAN, source : Songs \cup Stations \cup {None},
                   paused : BOOLEAN]
  BY DEF IInv, EngineShape
<1>2. \/ engine'.source = None
      \/ engine'.source = engine.source /\ engine'.alive = engine.alive
  OBVIOUS
<1> QED
  BY <1>1, <1>2 DEF IInv, RowRefers, EngineShape, LoadedIsSelected, Selected

\* restorePaused, at boot and when mpv has been started again.
LEMMA RestorePausedKeeps ==
  ASSUME IInv, NEW e, RestorePaused(e), UNCHANGED songs,
         e = engine \/ e = [Dead EXCEPT !.alive = TRUE]
  PROVE  IInv'
<1>1. DOMAIN st' = Fields /\ st'.track = st.track /\ st'.station = st.station
  BY DEF RestorePaused, IInv, RowRefers, Fields
<1>2. CASE e.alive /\ Selected(st) # None
  <2>1. engine' = [Loaded(Selected(st)) EXCEPT !.paused = TRUE]
    BY <1>2 DEF RestorePaused
  <2> QED
    BY <1>1, <2>1, SelectionLoaded DEF Loaded
<1>3. CASE ~(e.alive /\ Selected(st) # None)
  <2>1. engine' = e
    BY <1>3 DEF RestorePaused
  <2>2. e \in [alive : BOOLEAN, source : {None}, paused : BOOLEAN]
          \/ e \in [alive : {engine.alive}, source : {engine.source}, paused : BOOLEAN]
    BY DEF Dead, IInv, EngineShape
  <2> QED
    BY <1>1, <2>1, <2>2, NothingLoaded
<1> QED
  BY <1>2, <1>3

\* Next, pressed or at the end of a song.
LEMMA NextLockedKeeps ==
  ASSUME IInv, NextLocked
  PROVE  IInv'
<1>1. UNCHANGED songs
  BY DEF NextLocked
<1>2. ASSUME NEW idx, GoTo(idx)
      PROVE  IInv'
  <2> DEFINE p == [st EXCEPT !.index = idx]
  <2>1. DOMAIN p = Fields /\ p.track = st.track /\ p.station = st.station
    BY DEF IInv, RowRefers, Fields
  <2>2. PlaySongLocked(p, List[idx + 1], List)
    BY <1>2 DEF GoTo
  <2> QED
    BY <1>1, <2>1, <2>2, PlaySongLockedKeeps
<1>3. CASE StopAtEnd
  <2>1. DOMAIN st' = Fields /\ st'.track = st.track /\ st'.station = st.station
    BY <1>3 DEF StopAtEnd, IInv, RowRefers, Fields
  <2> QED
    BY <1>1, <1>3, <2>1, NothingLoaded DEF StopAtEnd, Unloaded, IInv, EngineShape
<1> QED
  BY <1>2, <1>3 DEF NextLocked
-----------------------------------------------------------------------------
(* Every step keeps the invariant.                                         *)

LEMMA CommandKeeps ==
  ASSUME IInv, Command
  PROVE  IInv'
<1> DEFINE RowKept == /\ DOMAIN st' = Fields
                      /\ st'.track = st.track /\ st'.station = st.station
<1>1. ASSUME NEW s, PlaySong(s)
      PROVE  IInv'
  <2>1. DOMAIN st = Fields
    BY DEF IInv, RowRefers
  <2> QED
    BY <1>1, <2>1, PlaySongLockedKeeps DEF PlaySong
<1>2. ASSUME NEW q, NEW shuffled, PlaySongs(q, shuffled)
      PROVE  IInv'
  <2> DEFINE p    == [st EXCEPT !.shuffle = shuffled, !.index = 0]
             list == PlayList(q, order', p)
  <2>1. DOMAIN p = Fields /\ p.track = st.track /\ p.station = st.station
    BY DEF IInv, RowRefers, Fields
  <2>2. PlaySongLocked(p, list[1], list) /\ UNCHANGED songs
    BY <1>2 DEF PlaySongs
  <2> HIDE DEF p, list
  <2> QED
    BY <2>1, <2>2, PlaySongLockedKeeps
<1>3. ASSUME NEW r \in Stations, PlayRadio(r)
      PROVE  IInv'
  <2>1. r # None /\ r \notin Songs
    BY PlaybackAssumption
  <2>2. DOMAIN st' = Fields /\ st'.track = None /\ st'.station = r
    BY <1>3 DEF PlayRadio, IInv, RowRefers, Fields
  <2> QED
    BY <1>3, <2>1, <2>2
    DEF PlayRadio, Loaded, IInv, RowRefers, EngineShape, LoadedIsSelected, Selected
<1>4. ASSUME Pause
      PROVE  IInv'
  <2>1. RowKept /\ UNCHANGED songs
    BY <1>4 DEF Pause, IInv, RowRefers, Fields
  <2>2. CASE engine' = Loaded(Selected(st))
    BY <2>1, <2>2, SelectionLoaded DEF Loaded
  <2>3. CASE engine' = [engine EXCEPT !.paused = (st.status = "playing")]
    BY <2>1, <2>3, NothingLoaded DEF IInv, EngineShape
  <2> QED
    BY <1>4, <2>2, <2>3 DEF Pause
<1>5. ASSUME Recover
      PROVE  IInv'
  <2>1. RowKept /\ UNCHANGED songs
    BY <1>5 DEF Recover, IInv, RowRefers, Fields
  <2> QED
    BY <1>5, <2>1, SelectionLoaded DEF Recover, Loaded
<1>6. ASSUME Stop
      PROVE  IInv'
  <2>1. RowKept /\ UNCHANGED songs
    BY <1>6 DEF Stop, IInv, RowRefers, Fields
  <2> QED
    BY <1>6, <2>1, NothingLoaded DEF Stop, Unloaded, IInv, EngineShape
<1>7. ASSUME NEW on, Shuffle(on)
      PROVE  IInv'
  <2>1. RowKept /\ UNCHANGED songs
    BY <1>7 DEF Shuffle, IInv, RowRefers, Fields
  <2> QED
    BY <1>7, <2>1, NothingLoaded DEF Shuffle, IInv, EngineShape
<1>8. ASSUME NEW mode, Repeat(mode)
      PROVE  IInv'
  <2>1. RowKept /\ UNCHANGED songs
    BY <1>8 DEF Repeat, IInv, RowRefers, Fields
  <2> QED
    BY <1>8, <2>1, NothingLoaded DEF Repeat, IInv, EngineShape
<1>9. ASSUME NextSong
      PROVE  IInv'
  BY <1>9, NextLockedKeeps DEF NextSong
<1>10. ASSUME PreviousSong
       PROVE  IInv'
  <2>1. PICK idx : \/ GoTo(idx)
                   \/ st' = [st EXCEPT !.index = idx] /\ UNCHANGED engine
    BY <1>10 DEF PreviousSong
  <2>2. UNCHANGED songs
    BY <1>10 DEF PreviousSong
  <2>3. CASE GoTo(idx)
    <3>1. DOMAIN [st EXCEPT !.index = idx] = Fields
          /\ [st EXCEPT !.index = idx].track = st.track
          /\ [st EXCEPT !.index = idx].station = st.station
      BY DEF IInv, RowRefers, Fields
    <3> QED
      BY <2>2, <2>3, <3>1, PlaySongLockedKeeps DEF GoTo
  <2>4. CASE st' = [st EXCEPT !.index = idx] /\ UNCHANGED engine
    <3>1. RowKept
      BY <2>4 DEF IInv, RowRefers, Fields
    <3> QED
      BY <2>2, <2>4, <3>1, NothingLoaded DEF IInv, EngineShape
  <2> QED
    BY <2>1, <2>3, <2>4
<1> QED
  BY <1>1, <1>2, <1>3, <1>4, <1>5, <1>6, <1>7, <1>8, <1>9, <1>10 DEF Command

LEMMA EditKeeps ==
  ASSUME IInv, Edit
  PROVE  IInv'
<1>1. ASSUME NEW s \in songs, DeleteSong(s)
      PROVE  IInv'
  <2>1. songs' = songs \ {s} /\ engine' = engine
    BY <1>1 DEF DeleteSong
  <2>2. CASE st.track = s
    <3>1. DOMAIN st' = Fields /\ st'.track = None /\ st'.station = st.station
      BY <1>1, <2>2 DEF DeleteSong, IInv, RowRefers, Fields
    <3>2. Selected(st) = s /\ s \in Songs
      BY <2>2, PlaybackAssumption DEF Selected, IInv, RowRefers
    <3> QED
      BY <2>1, <3>1, <3>2 DEF IInv, RowRefers, EngineShape, LoadedIsSelected
  <2>3. CASE st.track # s
    <3>1. st' = st
      BY <1>1, <2>3 DEF DeleteSong
    <3> QED
      BY <2>1, <2>3, <3>1 DEF IInv, RowRefers, EngineShape, LoadedIsSelected, Selected
  <2> QED
    BY <2>2, <2>3
<1>2. ASSUME UNCHANGED <<songs, st, engine>>
      PROVE  IInv'
  BY <1>2 DEF IInv, RowRefers, EngineShape, LoadedIsSelected, Selected
<1> QED
  BY <1>1, <1>2 DEF Edit, AddQueue, RemoveQueue, ReorderQueue, ClearQueue

LEMMA EngineKeeps ==
  ASSUME IInv, Engine
  PROVE  IInv'
<1>1. DOMAIN st' = Fields /\ st'.track = st.track /\ st'.station = st.station
      /\ UNCHANGED songs
  BY DEF Engine, SongEnds, StreamEnds, Ends, LoadFails, EngineDies, EngineRestarts,
         IInv, RowRefers
<1>2. engine' \in {Unloaded, Dead, [Dead EXCEPT !.alive = TRUE]}
  BY DEF Engine, SongEnds, StreamEnds, Ends, LoadFails, EngineDies, EngineRestarts
<1>3. {Unloaded, Dead, [Dead EXCEPT !.alive = TRUE]}
        \subseteq [alive : BOOLEAN, source : {None}, paused : BOOLEAN]
  <2>1. Unloaded \in [alive : BOOLEAN, source : {None}, paused : BOOLEAN]
    BY DEF Unloaded, IInv, EngineShape
  <2>2. Dead \in [alive : BOOLEAN, source : {None}, paused : BOOLEAN]
        /\ [Dead EXCEPT !.alive = TRUE] \in [alive : BOOLEAN, source : {None}, paused : BOOLEAN]
    BY DEF Dead
  <2> QED
    BY <2>1, <2>2
<1>4. engine' \in [alive : BOOLEAN, source : {None}, paused : BOOLEAN]
  BY <1>2, <1>3
<1> QED
  BY <1>1, <1>4, NothingLoaded

LEMMA EventLoopKeeps ==
  ASSUME IInv, EventLoop
  PROVE  IInv'
<1>1. ASSUME UNCHANGED <<songs, st, engine>>
      PROVE  IInv'
  BY <1>1 DEF IInv, RowRefers, EngineShape, LoadedIsSelected, Selected
<1>2. CASE ReadAtEof
  BY <1>1, <1>2 DEF ReadAtEof
<1>3. CASE Replay
  <2>1. DOMAIN st = Fields
    BY DEF IInv, RowRefers
  <2> QED
    BY <1>3, <2>1, PlaySongLockedKeeps DEF Replay
<1>4. CASE AdvanceAtEof
  BY <1>1, <1>4, NextLockedKeeps DEF AdvanceAtEof
<1>5. CASE HandleExit
  <2>1. DOMAIN st' = Fields /\ st'.track = st.track /\ st'.station = st.station
    BY <1>5 DEF HandleExit, IInv, RowRefers, Fields
  <2> QED
    BY <1>5, <2>1, NothingLoaded DEF HandleExit, IInv, EngineShape
<1>6. CASE HandleRestarted
  BY <1>6, RestorePausedKeeps DEF HandleRestarted
<1> QED
  BY <1>2, <1>3, <1>4, <1>5, <1>6 DEF EventLoop

LEMMA NextIInv == IInv /\ [Next]_vars => IInv'
<1> SUFFICES ASSUME IInv, [Next]_vars
             PROVE  IInv'
  OBVIOUS
<1>1. CASE Reboot
  BY <1>1, RestorePausedKeeps DEF Reboot
<1>2. CASE FallQuiet \/ UNCHANGED vars
  BY <1>2 DEF FallQuiet, vars, IInv, RowRefers, EngineShape, LoadedIsSelected, Selected
<1> QED
  BY <1>1, <1>2, CommandKeeps, EditKeeps, EngineKeeps, EventLoopKeeps DEF Next

\* What mpv has loaded is what player_state selects, or a song deleted since:
\* controller.go keeps the two in step on every path, for any library, any
\* queue and any number of engine events that wait.
THEOREM LoadedIsSelectedAlways == Spec => []LoadedIsSelected
<1>1. IInv => LoadedIsSelected
  BY DEF IInv
<1> QED
  BY InitIInv, NextIInv, <1>1, PTL DEF Spec

-----------------------------------------------------------------------------
(* The queue and the order of playback.                                    *)

\* A queue of songs of set, and the order that goes with it.
Lists(q, o, on, set) ==
    /\ q \in Seq(set) /\ Len(q) <= MaxQueue
    /\ o \in IF on THEN Orders(Len(q)) ELSE {<<>>}

\* Numbers of a finite set have one place each, from first to last.
LEMMA PlaceIs ==
  ASSUME NEW n \in Nat, NEW S \in SUBSET (1 .. n)
  PROVE  /\ IsFiniteSet(S) /\ Cardinality(S) \in 0 .. n
         /\ \A k \in S : Place(S, k) \in 1 .. Cardinality(S)
         /\ \A j, k \in S : j < k => Place(S, j) < Place(S, k)
         /\ \A j, k \in S : Place(S, j) = Place(S, k) => j = k
<1>1. IsFiniteSet(1 .. n) /\ Cardinality(1 .. n) = n
  BY FS_Interval
<1>2. IsFiniteSet(S) /\ Cardinality(S) \in Nat /\ Cardinality(S) <= n
  BY <1>1, FS_Subset, FS_CardinalityType
<1>3. ASSUME NEW k \in S
      PROVE  /\ Place(S, k) \in 1 .. Cardinality(S)
             /\ \A j \in S : j < k => Place(S, j) < Place(S, k)
  <2> DEFINE T == {j \in S : j <= k}
  <2>1. T \in SUBSET S /\ k \in T
    OBVIOUS
  <2>2. IsFiniteSet(T) /\ Cardinality(T) \in Nat /\ Cardinality(T) <= Cardinality(S)
    BY <1>2, <2>1, FS_Subset, FS_CardinalityType
  <2>3. Cardinality(T) # 0
    BY <2>1, <2>2, FS_EmptySet
  <2>4. ASSUME NEW j \in S, j < k
        PROVE  Place(S, j) < Cardinality(T)
    <3> DEFINE U == {i \in S : i <= j}
    <3>1. U \in SUBSET T /\ k \notin U
      <4>1. \A i \in S : i \in Nat
        OBVIOUS
      <4>2. j \in Nat /\ k \in Nat /\ j < k
        BY <2>4, <4>1
      <4>3. \A i \in S : i <= j => i <= k
        BY <4>1, <4>2
      <4>4. ~ (k <= j)
        BY <4>2
      <4> QED
        BY <4>3, <4>4
    <3> HIDE DEF T, U
    <3>2. /\ Cardinality(U) \in Nat /\ Cardinality(U) <= Cardinality(T)
          /\ Cardinality(U) # Cardinality(T)
      BY <2>1, <2>2, <3>1, FS_Subset, FS_CardinalityType
    <3> QED
      BY <2>2, <3>2 DEF Place, U
  <2> HIDE DEF T
  <2>5. Place(S, k) = Cardinality(T)
    BY DEF Place, T
  <2> QED
    BY <1>2, <2>2, <2>3, <2>4, <2>5
<1>4. ASSUME NEW j \in S, NEW k \in S, Place(S, j) = Place(S, k)
      PROVE  j = k
  <2>1. j \in Nat /\ k \in Nat /\ Place(S, j) \in Nat /\ Place(S, k) \in Nat
    BY <1>2, <1>3
  <2>2. ~ (j < k) /\ ~ (k < j)
    BY <1>3, <1>4, <2>1
  <2> QED
    BY <2>1, <2>2
<1> QED
  BY <1>2, <1>3, <1>4

LEMMA AtIs ==
  ASSUME NEW n \in Nat, NEW S \in SUBSET (1 .. n), NEW i \in 1 .. Cardinality(S)
  PROVE  At(S, i) \in S /\ Place(S, At(S, i)) = i
<1> DEFINE m == Cardinality(S)
           place == [k \in S |-> Place(S, k)]
<1>1. IsFiniteSet(S) /\ m \in Nat
  BY PlaceIs
<1>2. IsFiniteSet(1 .. m) /\ Cardinality(1 .. m) = m
  <2> HIDE DEF m
  <2> QED
    BY <1>1, FS_Interval
<1>3. place \in Injection(S, 1 .. m)
  BY PlaceIs DEF Injection, IsInjective
<1> HIDE DEF place
<1>4. place \in Surjection(S, 1 .. m)
  BY <1>2, <1>3, FS_Injection
<1>5. \E k \in S : place[k] = i
  BY <1>4 DEF Surjection
<1>6. \E k \in S : Place(S, k) = i
  BY <1>5 DEF place
<1> QED
  BY <1>6 DEF At

\* An order is onto: every position is somewhere in it.
LEMMA OrderIsOnto ==
  ASSUME NEW n \in Nat, NEW o \in Orders(n)
  PROVE  /\ o \in [1 .. n -> 1 .. n] /\ o \in Injection(1 .. n, 1 .. n)
         /\ \A j \in 1 .. n : \E i \in 1 .. n : o[i] = j
<1>1. IsFiniteSet(1 .. n)
  BY FS_Interval
<1>2. o \in Injection(1 .. n, 1 .. n)
  BY DEF Orders, Injection, IsInjective
<1>3. o \in Surjection(1 .. n, 1 .. n)
  BY <1>1, <1>2, FS_Injection
<1> QED
  BY <1>2, <1>3 DEF Orders, Surjection

\* What is left of the queue and of the order when items go.
LEMMA KeptLists ==
  ASSUME NEW on, NEW set, Lists(queue, order, on, set),
         NEW K, KeepAllBut(K),
         NEW T, \A i \in DOMAIN queue : i \notin K => queue[i] \in T
  PROVE  Lists(queue', order', on, T)
<1> DEFINE n == Len(queue)
           kept == DOMAIN queue \ K
           rows == {i \in DOMAIN order : order[i] \notin K}
<1>1. n \in Nat /\ n <= MaxQueue /\ DOMAIN queue = 1 .. n /\ MaxQueue \in Nat
  BY PlaybackAssumption DEF Lists
<1>2. kept \in SUBSET (1 .. n)
  BY <1>1
<1>3. /\ queue' = [i \in 1 .. Cardinality(kept) |-> queue[At(kept, i)]]
      /\ order' = [i \in 1 .. Cardinality(rows) |-> Place(kept, order[At(rows, i)])]
  BY DEF KeepAllBut
<1>4. \A k \in kept : queue[k] \in T
  OBVIOUS
<1> HIDE DEF n, kept
<1>5. Cardinality(kept) \in 0 .. n
  BY <1>1, <1>2, PlaceIs
<1>6. /\ queue' \in [1 .. Cardinality(kept) -> T]
      /\ queue' \in Seq(T) /\ Len(queue') = Cardinality(kept)
  <2>1. \A i \in 1 .. Cardinality(kept) : queue[At(kept, i)] \in T
    BY <1>1, <1>2, <1>4, AtIs
  <2> QED
    BY <1>3, <1>5, <2>1
<1>7. ASSUME order = <<>>
      PROVE  order' = <<>>
  <2>1. rows = {}
    BY <1>7
  <2>2. Cardinality(rows) = 0
    BY <2>1, FS_EmptySet
  <2> HIDE DEF rows
  <2>3. order' = [i \in {} |-> Place(kept, order[At(rows, i)])]
    BY <1>3, <2>2
  <2> QED
    BY <2>3
<1>8. ASSUME order \in Orders(n)
      PROVE  order' \in Orders(Cardinality(kept))
  <2>1. /\ order \in [1 .. n -> 1 .. n] /\ order \in Injection(1 .. n, 1 .. n)
        /\ \A j \in 1 .. n : \E i \in 1 .. n : order[i] = j
    BY <1>1, <1>8, OrderIsOnto
  <2>2. rows \in SUBSET (1 .. n) /\ \A i \in rows : order[i] \in kept
    BY <1>1, <1>2, <2>1 DEF kept
  <2>3. \A k \in kept : \E i \in rows : order[i] = k
    BY <1>1, <1>2, <2>1 DEF kept
  <2> DEFINE f == [i \in rows |-> order[i]]
  <2> HIDE DEF rows
  <2>4. f \in Bijection(rows, kept)
    BY <2>1, <2>2, <2>3 DEF Bijection, Injection, IsInjective, Surjection
  <2>5. Cardinality(rows) = Cardinality(kept)
    <3>1. ExistsBijection(rows, kept)
      BY <2>4 DEF ExistsBijection
    <3>2. IsFiniteSet(rows)
      BY <1>1, <2>2, PlaceIs
    <3> QED
      BY <3>1, <3>2, FS_Bijection
  <2> DEFINE m == Cardinality(kept)
  <2>6. ASSUME NEW i \in 1 .. m
        PROVE  /\ At(rows, i) \in rows /\ order[At(rows, i)] \in kept
               /\ order'[i] = Place(kept, order[At(rows, i)]) /\ order'[i] \in 1 .. m
               /\ Place(rows, At(rows, i)) = i
    <3>1. At(rows, i) \in rows /\ Place(rows, At(rows, i)) = i
      BY <1>1, <2>2, <2>5, AtIs
    <3>2. order[At(rows, i)] \in kept
      BY <2>2, <3>1
    <3>3. Place(kept, order[At(rows, i)]) \in 1 .. m
      BY <1>1, <1>2, <3>2, PlaceIs
    <3> QED
      BY <1>3, <2>5, <3>1, <3>2, <3>3
  <2>7. ASSUME NEW i \in 1 .. m, NEW j \in 1 .. m, order'[i] = order'[j]
        PROVE  i = j
    <3> DEFINE a == order[At(rows, i)]
               b == order[At(rows, j)]
    <3>1. a = b
      <4>1. a \in kept /\ b \in kept /\ Place(kept, a) = Place(kept, b)
        BY <2>6, <2>7
      <4> HIDE DEF a, b
      <4> QED
        BY <1>1, <1>2, <4>1, PlaceIs
    <3>2. At(rows, i) = At(rows, j)
      BY <2>1, <2>2, <2>6, <3>1 DEF Injection, IsInjective
    <3> QED
      BY <2>6, <3>2
  <2>8. order' \in [1 .. m -> 1 .. m]
    BY <1>3, <2>5, <2>6
  <2> HIDE DEF m
  <2> QED
    BY <2>7, <2>8 DEF Orders, m
<1> QED
  BY <1>1, <1>5, <1>6, <1>7, <1>8 DEF Lists, n

\* The numbers that hold somewhere have a least one.
LEMMA FirstExists ==
  ASSUME NEW n \in Nat, NEW list, DOMAIN list = 1 .. n, NEW s,
         \E i \in DOMAIN list : list[i] = s
  PROVE  \E i \in DOMAIN list : list[i] = s /\ \A j \in 1 .. i - 1 : list[j] # s
<1> DEFINE T == {i \in 1 .. n : list[i] = s}
<1>1. T \in SUBSET (1 .. n) /\ T # {}
  OBVIOUS
<1> HIDE DEF T
<1>2. 1 \in 1 .. Cardinality(T)
  <2>1. IsFiniteSet(T) /\ Cardinality(T) \in Nat
    BY <1>1, PlaceIs
  <2>2. Cardinality(T) # 0
    BY <1>1, <2>1, FS_EmptySet
  <2> QED
    BY <2>1, <2>2
<1>3. PICK i \in T : Place(T, i) = 1
  BY <1>1, <1>2, AtIs
<1>4. ASSUME NEW j \in T, j < i
      PROVE  FALSE
  <2>1. /\ Cardinality(T) \in Nat
        /\ \A k \in T : Place(T, k) \in 1 .. Cardinality(T)
        /\ \A h, k \in T : h < k => Place(T, h) < Place(T, k)
    BY <1>1, PlaceIs
  <2>2. Place(T, j) < Place(T, i) /\ Place(T, j) \in 1 .. Cardinality(T)
    BY <1>4, <2>1
  <2> QED
    BY <1>3, <2>1, <2>2
<1>5. i \in 1 .. n /\ list[i] = s
  BY <1>3 DEF T
<1>6. \A j \in 1 .. i - 1 : j \in 1 .. n /\ j < i /\ (list[j] = s => j \in T)
  BY <1>5 DEF T
<1> QED
  BY <1>4, <1>5, <1>6

\* The index that is stored is a position of the song, if it has one.
LEMMA FirstIndexIs ==
  ASSUME NEW n \in Nat, NEW list, DOMAIN list = 1 .. n, NEW s
  PROVE  /\ FirstIndex(list, s) \in -1 .. n - 1
         /\ (\E i \in DOMAIN list : list[i] = s) =>
               /\ FirstIndex(list, s) + 1 \in DOMAIN list
               /\ list[FirstIndex(list, s) + 1] = s
<1>1. CASE \E i \in DOMAIN list : list[i] = s
  <2> DEFINE First(i) == list[i] = s /\ \A j \in 1 .. i - 1 : list[j] # s
             k        == CHOOSE i \in DOMAIN list : First(i)
  <2>1. \E i \in DOMAIN list : First(i)
    BY <1>1, FirstExists
  <2>2. k \in 1 .. n /\ list[k] = s
    BY <2>1
  <2>3. FirstIndex(list, s) = k - 1
    BY <1>1 DEF FirstIndex
  <2> HIDE DEF k
  <2> QED
    BY <2>2, <2>3
<1>2. CASE ~ \E i \in DOMAIN list : list[i] = s
  BY <1>2 DEF FirstIndex
<1> QED
  BY <1>1, <1>2

-----------------------------------------------------------------------------
(* The shapes of the row, the engine and the event loop.                   *)

PlayRows(set) ==
    [status : {"playing", "paused", "stopped"},
     track : set \cup {None}, station : Stations \cup {None},
     repeat : RepeatModes, shuffle : BOOLEAN, index : -1 .. MaxQueue]

EngineStates ==
    [alive : BOOLEAN, source : Songs \cup Stations \cup {None}, paused : BOOLEAN]

LoopTyped ==
    /\ events \in Seq({"eof", "engine-exit", "engine-restarted"})
    /\ Len(events) <= MaxEvents
    /\ handling \in [call : {"none", "next", "replay"}, song : Songs \cup {None}]
    /\ quiet \in BOOLEAN

\* The index of the row p points at its track, if the list has it.
PointsAt(p, list) ==
    p.track # None /\ (\E i \in DOMAIN list : list[i] = p.track)
        => p.index + 1 \in DOMAIN list /\ list[p.index + 1] = p.track

Core ==
    /\ songs \subseteq Songs
    /\ Lists(queue, order, st.shuffle, songs)
    /\ st \in PlayRows(songs) /\ engine \in EngineStates
    /\ synced \in BOOLEAN /\ (synced => PointsAt(st, List))

CoreInv == Core /\ LoopTyped

LEMMA CoreInvSays == CoreInv => TypeOK /\ UpNextIsNext
  BY DEF CoreInv, Core, LoopTyped, Lists, PlayRows, EngineStates, PointsAt, TypeOK,
         UpNextIsNext

\* The list that is played has an entry for every position of the queue.
LEMMA PlayListIs ==
  ASSUME NEW q, NEW o, NEW p, NEW set, p.shuffle \in BOOLEAN,
         Lists(q, o, p.shuffle, set)
  PROVE  /\ Len(q) \in 0 .. MaxQueue
         /\ DOMAIN PlayList(q, o, p) = 1 .. Len(q)
         /\ \A i \in 1 .. Len(q) : PlayList(q, o, p)[i] \in set
<1>1. Len(q) \in Nat /\ DOMAIN q = 1 .. Len(q) /\ \A i \in 1 .. Len(q) : q[i] \in set
  BY DEF Lists
<1>2. Len(q) \in 0 .. MaxQueue
  BY <1>1, PlaybackAssumption DEF Lists
<1>3. CASE p.shuffle
  <2>1. o \in [1 .. Len(q) -> 1 .. Len(q)]
    BY <1>3 DEF Lists, Orders
  <2> QED
    BY <1>1, <1>2, <1>3, <2>1 DEF PlayList
<1>4. CASE ~ p.shuffle
  BY <1>1, <1>2, <1>4 DEF PlayList
<1> QED
  BY <1>3, <1>4

\* playSongLocked on a row p: the song is selected with its index, or nothing
\* but what the caller saved has changed.
LEMMA PlaySongLockedTyped ==
  ASSUME songs \subseteq Songs, engine \in EngineStates,
         NEW p \in PlayRows(songs), NEW s, NEW n \in 0 .. MaxQueue,
         NEW list, DOMAIN list = 1 .. n, PlaySongLocked(p, s, list)
  PROVE  /\ st' \in PlayRows(songs) /\ engine' \in EngineStates
         /\ st'.shuffle = p.shuffle
         /\ Playable(s) => st'.track = s /\ PointsAt(st', list)
         /\ ~ Playable(s) => st' = p
<1>1. CASE Playable(s)
  <2>1. s \in songs /\ st' = Playing(p, s, list) /\ engine' = Loaded(s)
    BY <1>1 DEF Playable, PlaySongLocked
  <2>2. n \in Nat /\ n <= MaxQueue /\ MaxQueue \in Nat
    BY PlaybackAssumption
  <2>3. FirstIndex(list, s) \in -1 .. MaxQueue
    BY <2>2, FirstIndexIs
  <2>4. st' \in PlayRows(songs) /\ st'.shuffle = p.shuffle
        /\ st'.track = s /\ st'.index = FirstIndex(list, s)
    BY <2>1, <2>3 DEF Playing, PlayRows
  <2>5. PointsAt(st', list)
    BY <2>2, <2>4, FirstIndexIs DEF PointsAt
  <2>6. engine' \in EngineStates
    BY <2>1 DEF Loaded, EngineStates
  <2> QED
    BY <1>1, <2>4, <2>5, <2>6
<1>2. CASE ~ Playable(s)
  BY <1>2 DEF PlaySongLocked
<1> QED
  BY <1>1, <1>2

-----------------------------------------------------------------------------
(* What the operations have in common.                                     *)

\* A row with its shuffle and index replaced.  The sets are kept general.
LEMMA RowWith ==
  ASSUME NEW A, NEW B, NEW C, NEW D, NEW E, NEW F,
         NEW r \in [status : A, track : B, station : C, repeat : D, shuffle : E, index : F],
         NEW on \in E, NEW i \in F
  PROVE  LET p == [r EXCEPT !.shuffle = on, !.index = i]
         IN  /\ p \in [status : A, track : B, station : C, repeat : D, shuffle : E, index : F]
             /\ p.shuffle = on
  OBVIOUS

LEMMA RowWithIs ==
  ASSUME NEW set, NEW r \in PlayRows(set), NEW on \in BOOLEAN,
         NEW i \in -1 .. MaxQueue
  PROVE  LET p == [r EXCEPT !.shuffle = on, !.index = i]
         IN  p \in PlayRows(set) /\ p.shuffle = on
  BY RowWith, Zenon DEF PlayRows

\* The list that is played, under Core.
LEMMA ListIs ==
  ASSUME Core
  PROVE  /\ Len(queue) \in 0 .. MaxQueue /\ DOMAIN List = 1 .. Len(queue)
         /\ \A i \in 1 .. Len(queue) : List[i] \in songs
  BY PlayListIs DEF Core, PlayRows, List

\* Queue and order stay; the row, if it still has a track, has the same one.
LEMMA RowKeptCore ==
  ASSUME Core, UNCHANGED <<songs, queue, order, synced>>,
         st' \in PlayRows(songs), st'.shuffle = st.shuffle, st'.index = st.index,
         st'.track \in {st.track, None}, engine' \in EngineStates
  PROVE  Core'
<1>1. List' = List
  BY DEF List, PlayList
<1>2. PointsAt(st, List) => PointsAt(st', List)
  BY DEF PointsAt
<1> QED
  BY <1>1, <1>2 DEF Core

\* A step after which nothing is promised of the index.
LEMMA UnsyncedCore ==
  ASSUME songs' \subseteq Songs, Lists(queue', order', st'.shuffle, songs'),
         st' \in PlayRows(songs'), engine' \in EngineStates, synced' = FALSE
  PROVE  Core'
  BY DEF Core

\* playSongLocked on a row p that keeps the order of playback.
LEMMA PlaySongLockedCore ==
  ASSUME Core, UNCHANGED <<songs, queue, order>>,
         NEW p \in PlayRows(songs), p.shuffle = st.shuffle, NEW s,
         PlaySongLocked(p, s, List), synced' = Playable(s)
  PROVE  Core'
<1>1. songs \subseteq Songs /\ engine \in EngineStates
  BY DEF Core
<1>2. Len(queue) \in 0 .. MaxQueue /\ DOMAIN List = 1 .. Len(queue)
  BY ListIs
<1>3. /\ st' \in PlayRows(songs) /\ engine' \in EngineStates
      /\ st'.shuffle = st.shuffle
      /\ Playable(s) => PointsAt(st', List)
  BY <1>1, <1>2, PlaySongLockedTyped
<1>4. List' = List
  BY <1>3 DEF List, PlayList
<1>5. synced' \in BOOLEAN /\ (synced' => Playable(s))
  BY DEF Playable
<1> QED
  BY <1>3, <1>4, <1>5 DEF Core

LEMMA GoToCore ==
  ASSUME Core, UNCHANGED <<songs, queue, order>>,
         NEW idx \in 0 .. MaxQueue, GoTo(idx)
  PROVE  Core'
<1> DEFINE p == [st EXCEPT !.index = idx]
<1>1. p \in PlayRows(songs) /\ p.shuffle = st.shuffle
  BY PlaybackAssumption DEF Core, PlayRows
<1>2. PlaySongLocked(p, List[idx + 1], List) /\ synced' = Playable(List[idx + 1])
  BY DEF GoTo
<1> HIDE DEF p
<1> QED
  BY <1>1, <1>2, PlaySongLockedCore

\* Next, pressed or at the end of a song.
LEMMA NextLockedCore ==
  ASSUME Core, NextLocked
  PROVE  Core'
<1>1. UNCHANGED <<songs, queue, order>>
  BY DEF NextLocked
<1>2. Len(queue) \in 0 .. MaxQueue /\ st.index \in -1 .. MaxQueue /\ MaxQueue \in Nat
  BY ListIs, PlaybackAssumption DEF Core, PlayRows
<1>3. CASE st.index + 1 < Len(queue) /\ GoTo(st.index + 1)
  <2>1. st.index + 1 \in 0 .. MaxQueue
    BY <1>2, <1>3
  <2> QED
    BY <1>1, <1>3, <2>1, GoToCore
<1>4. CASE GoTo(0)
  BY <1>1, <1>2, <1>4, GoToCore
<1>5. CASE StopAtEnd
  <2>1. st' \in PlayRows(songs) /\ st'.shuffle = st.shuffle /\ st'.index = st.index
        /\ st'.track = st.track
    BY <1>5 DEF StopAtEnd, Core, PlayRows
  <2>2. engine' \in EngineStates
    BY <1>5 DEF StopAtEnd, Unloaded, Core, EngineStates
  <2> QED
    BY <1>1, <1>5, <2>1, <2>2, RowKeptCore DEF StopAtEnd
<1> QED
  BY <1>3, <1>4, <1>5 DEF NextLocked

\* restorePaused, at boot and when mpv has been started again.
LEMMA RestorePausedCore ==
  ASSUME Core, NEW e \in EngineStates, RestorePaused(e),
         UNCHANGED <<songs, queue, order, synced>>
  PROVE  Core'
<1>1. st' \in PlayRows(songs) /\ st'.shuffle = st.shuffle /\ st'.index = st.index
      /\ st'.track = st.track
  BY DEF RestorePaused, Core, PlayRows
<1>2. Selected(st) \in Songs \cup Stations \cup {None}
  BY DEF Selected, Core, PlayRows
<1>3. engine' \in EngineStates
  BY <1>2 DEF RestorePaused, Loaded, EngineStates
<1> QED
  BY <1>1, <1>3, RowKeptCore

-----------------------------------------------------------------------------
(* Every step keeps Core.                                                  *)

\* A playlist is queued and its first song is started.
LEMMA PlaySongsCore ==
  ASSUME Core, NEW q \in Queues \ {<<>>}, NEW shuffled \in BOOLEAN,
         \A i \in DOMAIN q : q[i] \in songs, PlaySongs(q, shuffled)
  PROVE  Core'
<1> DEFINE p    == [st EXCEPT !.shuffle = shuffled, !.index = 0]
           list == PlayList(q, order', p)
<1>1. PICK n \in 0 .. MaxQueue : q \in [1 .. n -> Songs]
  BY DEF Queues
<1>2. n \in Nat /\ n <= MaxQueue /\ q \in Seq(songs) /\ Len(q) = n
  <2>1. n \in Nat /\ n <= MaxQueue
    BY PlaybackAssumption
  <2>2. q \in [1 .. n -> songs]
    BY <1>1
  <2> QED
    BY <2>1, <2>2
<1>3. Len(q) # 0
  BY <1>1, <1>2
<1>4. /\ queue' = q /\ songs' = songs /\ synced' = engine.alive
      /\ order' \in IF shuffled THEN Orders(Len(q)) ELSE {<<>>}
      /\ PlaySongLocked(p, list[1], list)
  <2>1. queue' = q /\ songs' = songs
    BY DEF PlaySongs
  <2>2. synced' = engine.alive
    BY Zenon DEF PlaySongs
  <2>3. order' \in IF shuffled THEN Orders(Len(q)) ELSE {<<>>}
    BY Zenon DEF PlaySongs
  <2>4. PlaySongLocked(p, list[1], list)
    BY Zenon DEF PlaySongs
  <2> HIDE DEF p, list
  <2> QED
    BY <2>1, <2>2, <2>3, <2>4
<1>5. p \in PlayRows(songs) /\ p.shuffle = shuffled /\ p.shuffle \in BOOLEAN
  <2>1. st \in PlayRows(songs) /\ 0 \in -1 .. MaxQueue
    BY PlaybackAssumption DEF Core
  <2> QED
    BY <2>1, RowWithIs, Zenon
<1> HIDE DEF p
<1>6. Lists(q, order', p.shuffle, songs)
  BY <1>2, <1>4, <1>5 DEF Lists
<1>7. Len(q) \in 0 .. MaxQueue /\ DOMAIN list = 1 .. Len(q) /\ list[1] \in songs
  <2>1. 1 \in 1 .. Len(q)
    BY <1>2, <1>3
  <2> QED
    BY <1>5, <1>6, <2>1, PlayListIs
<1>8. songs \subseteq Songs /\ engine \in EngineStates
  BY DEF Core
<1> HIDE DEF list
<1>9. /\ st' \in PlayRows(songs) /\ engine' \in EngineStates
      /\ st'.shuffle = p.shuffle
      /\ Playable(list[1]) => PointsAt(st', list)
  BY <1>4, <1>5, <1>7, <1>8, PlaySongLockedTyped
<1>10. List' = list
  BY <1>4, <1>9 DEF List, list, PlayList
<1>11. synced' \in BOOLEAN /\ (synced' => PointsAt(st', list))
  BY <1>4, <1>7, <1>8, <1>9 DEF Playable, EngineStates
<1> QED
  BY <1>4, <1>5, <1>6, <1>8, <1>9, <1>10, <1>11 DEF Core

LEMMA CommandCore ==
  ASSUME Core, Command
  PROVE  Core'
<1> DEFINE Kept == /\ st' \in PlayRows(songs) /\ st'.shuffle = st.shuffle
                   /\ st'.index = st.index /\ st'.track \in {st.track, None}
<1>1. engine \in EngineStates /\ st \in PlayRows(songs) /\ songs \subseteq Songs
  BY DEF Core
<1>2. Selected(st) \in Songs \cup Stations \cup {None}
  BY <1>1 DEF Selected, PlayRows
<1>3. ASSUME NEW s \in songs, PlaySong(s)
      PROVE  Core'
  <2>1. PlaySongLocked(st, s, List) /\ UNCHANGED <<songs, queue, order>>
        /\ synced' = Playable(s)
    BY <1>3 DEF PlaySong, Playable
  <2> QED
    BY <1>1, <2>1, PlaySongLockedCore
<1>4. ASSUME NEW q \in Queues \ {<<>>}, NEW shuffled \in BOOLEAN,
             \A i \in DOMAIN q : q[i] \in songs, PlaySongs(q, shuffled)
      PROVE  Core'
  BY <1>4, PlaySongsCore
<1>5. ASSUME NEW r \in Stations, PlayRadio(r)
      PROVE  Core'
  <2>1. Kept
    BY <1>1, <1>5 DEF PlayRadio, PlayRows
  <2>2. engine' \in EngineStates
    BY <1>5 DEF PlayRadio, Loaded, EngineStates
  <2> QED
    BY <1>5, <2>1, <2>2, RowKeptCore DEF PlayRadio
<1>6. ASSUME Pause
      PROVE  Core'
  <2>1. Kept
    BY <1>1, <1>6 DEF Pause, PlayRows
  <2>2. CASE engine' = Loaded(Selected(st))
    <3>1. engine' \in EngineStates
      BY <1>2, <2>2 DEF Loaded, EngineStates
    <3> QED
      BY <1>6, <2>1, <3>1, RowKeptCore DEF Pause
  <2>3. CASE engine' = [engine EXCEPT !.paused = (st.status = "playing")]
    <3>1. engine' \in EngineStates
      BY <1>1, <2>3 DEF EngineStates
    <3> QED
      BY <1>6, <2>1, <3>1, RowKeptCore DEF Pause
  <2> QED
    BY <1>6, <2>2, <2>3 DEF Pause
<1>7. ASSUME Recover
      PROVE  Core'
  <2>1. Kept
    BY <1>1, <1>7 DEF Recover, PlayRows
  <2>2. engine' \in EngineStates
    BY <1>2, <1>7 DEF Recover, Loaded, EngineStates
  <2> QED
    BY <1>7, <2>1, <2>2, RowKeptCore DEF Recover
<1>8. ASSUME Stop
      PROVE  Core'
  <2>1. Kept
    BY <1>1, <1>8 DEF Stop, PlayRows
  <2>2. engine' \in EngineStates
    BY <1>1, <1>8 DEF Stop, Unloaded, EngineStates
  <2> QED
    BY <1>8, <2>1, <2>2, RowKeptCore DEF Stop
<1>9. ASSUME NEW on \in BOOLEAN, Shuffle(on)
      PROVE  Core'
  <2> DEFINE i == IF on THEN 0 ELSE st.index
  <2>1. st' \in PlayRows(songs) /\ st'.shuffle = on
    <3>1. st' = [st EXCEPT !.shuffle = on, !.index = i]
      BY <1>9, Zenon DEF Shuffle
    <3>2. i \in -1 .. MaxQueue
      BY <1>1, PlaybackAssumption DEF PlayRows
    <3> HIDE DEF i
    <3> QED
      BY <1>1, <3>1, <3>2, RowWithIs, Zenon
  <2>2. queue \in Seq(songs) /\ Len(queue) <= MaxQueue
    BY DEF Core, Lists
  <2>3. Lists(queue', order', st'.shuffle, songs')
    BY <1>9, <2>1, <2>2 DEF Shuffle, Lists
  <2> QED
    BY <1>1, <1>9, <2>1, <2>3, UnsyncedCore DEF Shuffle
<1>10. ASSUME NEW mode \in RepeatModes, Repeat(mode)
       PROVE  Core'
  <2>1. Kept
    BY <1>1, <1>10 DEF Repeat, PlayRows
  <2> QED
    BY <1>1, <1>10, <2>1, RowKeptCore DEF Repeat
<1>11. ASSUME NextSong
       PROVE  Core'
  BY <1>11, NextLockedCore DEF NextSong
<1>12. ASSUME PreviousSong
       PROVE  Core'
  <2> DEFINE idx == IF st.index < 1 THEN 0 ELSE st.index - 1
  <2>1. idx \in 0 .. MaxQueue
    BY <1>1, PlaybackAssumption DEF PlayRows
  <2>2. UNCHANGED <<songs, queue, order>>
    BY <1>12 DEF PreviousSong
  <2>3. CASE GoTo(idx)
    <3> HIDE DEF idx
    <3> QED
      BY <2>1, <2>2, <2>3, GoToCore
  <2>4. CASE st' = [st EXCEPT !.index = idx] /\ synced' = FALSE /\ engine' = engine
    <3>1. st' \in PlayRows(songs) /\ st'.shuffle = st.shuffle
      <4> HIDE DEF idx
      <4> QED
        BY <1>1, <2>1, <2>4, PlaybackAssumption DEF PlayRows
    <3>2. Lists(queue', order', st'.shuffle, songs')
      BY <2>2, <3>1 DEF Core
    <3> QED
      BY <1>1, <2>2, <2>4, <3>1, <3>2, UnsyncedCore
  <2> QED
    BY <1>12, <2>3, <2>4 DEF PreviousSong
<1> QED
  BY <1>3, <1>4, <1>5, <1>6, <1>7, <1>8, <1>9, <1>10, <1>11, <1>12 DEF Command

\* What ReorderQueue makes of an order: the rows follow their items.
LEMMA ReorderedOrder ==
  ASSUME NEW n \in Nat, NEW to \in Orders(n), NEW o \in Orders(n)
  PROVE  [i \in DOMAIN o |-> CHOOSE j \in DOMAIN to : to[j] = o[i]] \in Orders(n)
<1> DEFINE back == [i \in DOMAIN o |-> CHOOSE j \in DOMAIN to : to[j] = o[i]]
<1>1. /\ DOMAIN to = 1 .. n /\ \A j \in 1 .. n : \E i \in 1 .. n : to[i] = j
      /\ o \in [1 .. n -> 1 .. n]
      /\ \A i, j \in 1 .. n : o[i] = o[j] => i = j
  <2>1. to \in [1 .. n -> 1 .. n] /\ \A j \in 1 .. n : \E i \in 1 .. n : to[i] = j
    BY OrderIsOnto
  <2>2. o \in [1 .. n -> 1 .. n] /\ \A i, j \in 1 .. n : o[i] = o[j] => i = j
    BY DEF Orders
  <2> HIDE DEF back
  <2> QED
    BY <2>1, <2>2
<1>2. \A i \in 1 .. n : back[i] \in 1 .. n /\ to[back[i]] = o[i]
  <2> SUFFICES ASSUME NEW i \in 1 .. n
               PROVE  back[i] \in 1 .. n /\ to[back[i]] = o[i]
    OBVIOUS
  <2>1. \E j \in DOMAIN to : to[j] = o[i]
    BY <1>1
  <2>2. back[i] = CHOOSE j \in DOMAIN to : to[j] = o[i]
    BY <1>1
  <2> HIDE DEF back
  <2> QED
    BY <1>1, <2>1, <2>2
<1>3. back = [i \in 1 .. n |-> back[i]]
  BY <1>1
<1> HIDE DEF back
<1>4. back \in [1 .. n -> 1 .. n]
  BY <1>2, <1>3
<1>5. ASSUME NEW i \in 1 .. n, NEW j \in 1 .. n, back[i] = back[j]
      PROVE  i = j
  <2>1. o[i] = o[j]
    BY <1>2, <1>5
  <2> QED
    BY <1>1, <2>1
<1>6. back \in Orders(n)
  BY <1>4, <1>5 DEF Orders
<1> QED
  BY <1>6 DEF back

\* A song that is not the current one goes to the end of queue and order.
LEMMA AddQueueCore ==
  ASSUME Core, NEW s \in songs, AddQueue(s)
  PROVE  Core'
<1> DEFINE n == Len(queue)
<1>1. /\ queue \in Seq(songs) /\ n \in Nat /\ n < MaxQueue /\ MaxQueue \in Nat
      /\ st \in PlayRows(songs) /\ st.shuffle \in BOOLEAN
  BY PlaybackAssumption DEF Core, Lists, PlayRows, AddQueue
<1>2. /\ UNCHANGED <<songs, st, engine>> /\ queue' = Append(queue, s)
      /\ order' = IF st.shuffle THEN Append(order, n + 1) ELSE order
      /\ synced' = (synced /\ s # st.track)
  BY DEF AddQueue
<1>3. queue' \in Seq(songs) /\ Len(queue') = n + 1 /\ queue'[n + 1] = s
      /\ \A i \in 1 .. n : queue'[i] = queue[i]
  BY <1>1, <1>2
<1>4. /\ order' \in IF st.shuffle THEN Orders(n + 1) ELSE {<<>>}
      /\ DOMAIN List = 1 .. n /\ DOMAIN List' = 1 .. n + 1
      /\ List'[n + 1] = s /\ \A i \in 1 .. n : List'[i] = List[i]
  <2>1. CASE st.shuffle
    <3>1. order \in [1 .. n -> 1 .. n] /\ \A i, j \in 1 .. n : order[i] = order[j] => i = j
      BY <2>1 DEF Core, Lists, Orders
    <3>2. order \in Seq(1 .. n) /\ Len(order) = n
      BY <1>1, <3>1
    <3>3. order' = Append(order, n + 1)
      BY <1>2, <2>1
    <3> HIDE DEF n
    <3>4. /\ DOMAIN order' = 1 .. n + 1 /\ order'[n + 1] = n + 1
          /\ \A i \in 1 .. n : order'[i] = order[i] /\ order'[i] \in 1 .. n
          /\ order' \in [1 .. n + 1 -> 1 .. n + 1]
      <4>1. order' = [i \in 1 .. n + 1 |-> IF i = n + 1 THEN n + 1 ELSE order[i]]
        BY <1>1, <3>2, <3>3
      <4>2. 1 .. n \subseteq 1 .. n + 1 /\ n + 1 \in 1 .. n + 1 /\ n + 1 \notin 1 .. n
            /\ \A i \in 1 .. n + 1 : i # n + 1 => i \in 1 .. n
        BY <1>1
      <4>3. order' \in [1 .. n + 1 -> 1 .. n + 1]
        BY <3>1, <4>1, <4>2
      <4> QED
        BY <3>1, <4>1, <4>2, <4>3
    <3>5. \A i, j \in 1 .. n + 1 : order'[i] = order'[j] => i = j
      BY <1>1, <3>1, <3>4, SMTT(30)
    <3>6. List = [i \in 1 .. n |-> queue[order[i]]]
          /\ List' = [i \in 1 .. n + 1 |-> queue'[order'[i]]]
      BY <1>2, <2>1, <3>1, <3>4 DEF List, PlayList
    <3> QED
      BY <1>1, <1>3, <2>1, <3>1, <3>4, <3>5, <3>6 DEF Orders
  <2>2. CASE ~ st.shuffle
    <3>1. List = queue /\ List' = queue' /\ order' = <<>>
      BY <1>2, <2>2 DEF List, PlayList, Core, Lists
    <3> QED
      BY <1>1, <1>3, <2>2, <3>1
  <2> QED
    BY <1>1, <2>1, <2>2
<1>5. Lists(queue', order', st'.shuffle, songs')
  <2> HIDE DEF n
  <2> QED
    BY <1>1, <1>2, <1>3, <1>4 DEF Lists
<1>6. ASSUME synced'
      PROVE  PointsAt(st', List')
  <2>1. synced /\ s # st.track /\ st' = st /\ PointsAt(st, List)
    BY <1>2, <1>6, Zenon DEF Core
  <2> HIDE DEF n
  <2>2. ASSUME st.track # None, NEW i \in DOMAIN List', List'[i] = st.track
        PROVE  st.index + 1 \in DOMAIN List' /\ List'[st.index + 1] = st.track
    <3>1. i \in 1 .. n /\ List[i] = st.track
      BY <1>1, <1>4, <2>1, <2>2
    <3>2. st.index + 1 \in 1 .. n /\ List[st.index + 1] = st.track
      BY <1>4, <2>1, <2>2, <3>1 DEF PointsAt
    <3> QED
      BY <1>1, <1>4, <3>2
  <2> QED
    BY <2>1, <2>2 DEF PointsAt
<1> QED
  BY <1>2, <1>5, <1>6 DEF Core

LEMMA EditCore ==
  ASSUME Core, Edit
  PROVE  Core'
<1>1. /\ songs \subseteq Songs /\ Lists(queue, order, st.shuffle, songs)
      /\ st \in PlayRows(songs) /\ engine \in EngineStates
      /\ queue \in Seq(songs) /\ Len(queue) \in Nat /\ Len(queue) <= MaxQueue
      /\ DOMAIN queue = 1 .. Len(queue) /\ \A i \in DOMAIN queue : queue[i] \in songs
  BY DEF Core, Lists
<1>2. ASSUME NEW s \in songs, AddQueue(s)
      PROVE  Core'
  BY <1>2, AddQueueCore
<1>3. ASSUME NEW i \in DOMAIN queue, RemoveQueue(i)
      PROVE  Core'
  <2>1. KeepAllBut({i}) /\ synced' = FALSE /\ UNCHANGED <<songs, st, engine>>
    BY <1>3 DEF RemoveQueue
  <2>2. Lists(queue', order', st.shuffle, songs)
    BY <1>1, <2>1, KeptLists
  <2> QED
    BY <1>1, <2>1, <2>2, UnsyncedCore
<1>4. ASSUME NEW to \in Orders(Len(queue)), ReorderQueue(to)
      PROVE  Core'
  <2> DEFINE n == Len(queue)
  <2>1. synced' = FALSE /\ UNCHANGED <<songs, st, engine>>
    BY <1>4 DEF ReorderQueue
  <2>2. queue' = [i \in 1 .. n |-> queue[to[i]]] /\ to \in [1 .. n -> 1 .. n]
    BY <1>1, <1>4 DEF ReorderQueue, Orders
  <2>3. queue' \in Seq(songs) /\ Len(queue') = n
    <3> HIDE DEF n
    <3>1. queue' \in [1 .. n -> songs]
      BY <1>1, <2>2 DEF n
    <3> QED
      BY <1>1, <3>1 DEF n
  <2>4. CASE st.shuffle
    <3>1. order' \in Orders(n)
      BY <1>1, <1>4, <2>4, ReorderedOrder DEF ReorderQueue, Lists
    <3> QED
      BY <1>1, <2>1, <2>3, <2>4, <3>1, UnsyncedCore DEF Lists
  <2>5. CASE ~ st.shuffle
    <3>1. order = <<>>
      BY <1>1, <2>5 DEF Lists
    <3>2. order' = [i \in {} |-> CHOOSE j \in DOMAIN to : to[j] = order[i]]
      BY <1>4, <3>1 DEF ReorderQueue
    <3>3. order' = <<>>
      BY <3>2
    <3> QED
      BY <1>1, <2>1, <2>3, <2>5, <3>3, UnsyncedCore DEF Lists
  <2> QED
    BY <2>4, <2>5
<1>5. ASSUME ClearQueue
      PROVE  Core'
  <2>1. <<>> \in Seq(songs) /\ Len(<<>>) = 0 /\ <<>> \in Orders(0) /\ 0 <= MaxQueue
    BY PlaybackAssumption DEF Orders
  <2>2. Lists(queue', order', st'.shuffle, songs')
    BY <1>5, <2>1 DEF ClearQueue, Lists
  <2> QED
    BY <1>1, <1>5, <2>2, UnsyncedCore DEF ClearQueue
<1>6. ASSUME NEW s \in songs, DeleteSong(s)
      PROVE  Core'
  <2> DEFINE K == {i \in DOMAIN queue : queue[i] = s}
  <2>1. KeepAllBut(K) /\ synced' = FALSE /\ engine' = engine /\ songs' = songs \ {s}
    BY <1>6 DEF DeleteSong
  <2>2. \A i \in DOMAIN queue : i \notin K => queue[i] \in songs \ {s}
    BY <1>1
  <2> HIDE DEF K
  <2>3. Lists(queue', order', st.shuffle, songs')
    BY <1>1, <2>1, <2>2, KeptLists
  <2>4. st' \in PlayRows(songs') /\ st'.shuffle = st.shuffle
    <3>1. CASE st.track = s
      BY <1>1, <1>6, <2>1, <3>1 DEF DeleteSong, PlayRows
    <3>2. CASE st.track # s
      BY <1>1, <1>6, <2>1, <3>2 DEF DeleteSong, PlayRows
    <3> QED
      BY <3>1, <3>2
  <2> QED
    BY <1>1, <2>1, <2>3, <2>4, UnsyncedCore
<1> QED
  BY <1>2, <1>3, <1>4, <1>5, <1>6 DEF Edit

LEMMA EngineCore ==
  ASSUME Core, Engine
  PROVE  Core'
<1>1. UNCHANGED <<songs, queue, order, st, synced>>
  BY DEF Engine, SongEnds, StreamEnds, Ends, LoadFails, EngineDies, EngineRestarts
<1>2. engine' \in {Unloaded, Dead, [Dead EXCEPT !.alive = TRUE]}
  BY DEF Engine, SongEnds, StreamEnds, Ends, LoadFails, EngineDies, EngineRestarts
<1>3. {Unloaded, Dead, [Dead EXCEPT !.alive = TRUE]} \subseteq EngineStates
  <2>1. Unloaded \in EngineStates
    BY DEF Unloaded, Core, EngineStates
  <2>2. Dead \in EngineStates /\ [Dead EXCEPT !.alive = TRUE] \in EngineStates
    BY DEF Dead, EngineStates
  <2> QED
    BY <2>1, <2>2
<1>4. engine' \in EngineStates
  BY <1>2, <1>3
<1>5. st \in PlayRows(songs)
  BY DEF Core
<1> QED
  BY <1>1, <1>4, <1>5, RowKeptCore

LEMMA EventLoopCore ==
  ASSUME Core, EventLoop
  PROVE  Core'
<1>1. ASSUME UNCHANGED <<songs, queue, order, st, engine, synced>>
      PROVE  Core'
  BY <1>1 DEF Core, List, PlayList
<1>2. CASE ReadAtEof
  BY <1>1, <1>2 DEF ReadAtEof
<1>3. CASE Replay
  <2>1. PlaySongLocked(st, handling.song, List) /\ UNCHANGED <<songs, queue, order>>
        /\ synced' = (synced \/ Playable(handling.song))
    BY <1>3 DEF Replay
  <2>2. CASE Playable(handling.song)
    <3>1. synced' = Playable(handling.song)
      BY <2>1, <2>2 DEF Playable
    <3>2. st \in PlayRows(songs)
      BY DEF Core
    <3> QED
      BY <2>1, <3>1, <3>2, PlaySongLockedCore
  <2>3. CASE ~ Playable(handling.song)
    <3>1. synced' = synced
      BY <2>1, <2>3, Zenon DEF Core
    <3> QED
      BY <1>1, <2>1, <2>3, <3>1 DEF PlaySongLocked
  <2> QED
    BY <2>2, <2>3
<1>4. CASE AdvanceAtEof
  BY <1>1, <1>4, NextLockedCore DEF AdvanceAtEof
<1>5. CASE HandleExit
  <2>1. st' \in PlayRows(songs) /\ st'.shuffle = st.shuffle /\ st'.index = st.index
        /\ st'.track = st.track
    BY <1>5 DEF HandleExit, Core, PlayRows
  <2> QED
    BY <1>5, <2>1, RowKeptCore DEF HandleExit, Core
<1>6. CASE HandleRestarted
  BY <1>6, RestorePausedCore DEF HandleRestarted, Core
<1> QED
  BY <1>2, <1>3, <1>4, <1>5, <1>6 DEF EventLoop

LEMMA NextCore ==
  ASSUME Core, [Next]_vars
  PROVE  Core'
<1>1. CASE Reboot
  <2>1. [Dead EXCEPT !.alive = TRUE] \in EngineStates
    BY DEF Dead, EngineStates
  <2> QED
    BY <1>1, <2>1, RestorePausedCore DEF Reboot
<1>2. CASE FallQuiet \/ UNCHANGED vars
  BY <1>2 DEF FallQuiet, vars, Core, List, PlayList
<1> QED
  BY <1>1, <1>2, CommandCore, EditCore, EngineCore, EventLoopCore DEF Next

\* The event loop takes events in and keeps at most one decision.
LEMMA NextLoopTyped ==
  ASSUME Core, LoopTyped, [Next]_vars
  PROVE  LoopTyped'
<1> DEFINE E == {"eof", "engine-exit", "engine-restarted"}
<1>1. ASSUME NEW event \in E, Report(event), UNCHANGED <<handling, quiet>>
      PROVE  LoopTyped'
  <2>1. events \in Seq(E) /\ Len(events) < MaxEvents /\ MaxEvents \in Nat
        /\ events' = Append(events, event)
    BY <1>1, PlaybackAssumption DEF Report, LoopTyped
  <2> HIDE DEF E
  <2>2. events' \in Seq(E) /\ Len(events') <= MaxEvents
    BY <2>1
  <2> QED
    BY <1>1, <2>2 DEF LoopTyped, E
<1>2. ASSUME NEW event, Waiting(event), UNCHANGED quiet,
             handling' \in [call : {"none", "next", "replay"}, song : Songs \cup {None}]
      PROVE  LoopTyped'
  <2>1. events \in Seq(E) /\ events # <<>> /\ events' = Tail(events)
        /\ Len(events) <= MaxEvents /\ MaxEvents \in Nat
    BY <1>2, PlaybackAssumption DEF Waiting, LoopTyped
  <2>2. events' \in Seq(E) /\ Len(events') <= MaxEvents
    BY <2>1
  <2> QED
    BY <1>2, <2>2 DEF LoopTyped
<1>3. ASSUME UNCHANGED events, quiet' \in BOOLEAN, UNCHANGED handling \/ Handled
      PROVE  LoopTyped'
  BY <1>3 DEF Handled, LoopTyped
<1>4. CASE Command
  BY <1>3, <1>4
  DEF Command, LoopTyped, PlaySong, PlaySongs, PlayRadio, Pause, Recover, Stop, Shuffle,
      Repeat, NextSong, PreviousSong
<1>5. CASE Edit
  BY <1>3, <1>5
  DEF Edit, LoopTyped, AddQueue, RemoveQueue, ReorderQueue, ClearQueue, DeleteSong
<1>6. CASE Engine
  BY <1>1, <1>3, <1>6
  DEF Engine, LoopTyped, SongEnds, StreamEnds, Ends, LoadFails, EngineDies, EngineRestarts
<1>7. CASE ReadAtEof
  <2>1. st.track # None => st.track \in Songs
    BY DEF Core, PlayRows
  <2>2. handling' \in [call : {"none", "next", "replay"}, song : Songs \cup {None}]
    BY <1>7, <2>1 DEF ReadAtEof
  <2> QED
    BY <1>2, <1>7, <2>2 DEF ReadAtEof
<1>8. CASE Replay \/ AdvanceAtEof
  BY <1>3, <1>8 DEF LoopTyped, Replay, AdvanceAtEof
<1>9. CASE HandleExit \/ HandleRestarted
  BY <1>2, <1>9 DEF LoopTyped, HandleExit, HandleRestarted
<1>10. CASE Reboot
  <2>1. events' = <<>> /\ Handled /\ UNCHANGED quiet
    BY <1>10 DEF Reboot
  <2> QED
    BY <2>1, PlaybackAssumption DEF Handled, LoopTyped
<1>11. CASE FallQuiet \/ UNCHANGED vars
  BY <1>3, <1>11 DEF FallQuiet, vars, LoopTyped
<1> QED
  BY <1>4, <1>5, <1>6, <1>7, <1>8, <1>9, <1>10, <1>11 DEF Next, EventLoop

LEMMA InitCore == Init => CoreInv
<1> SUFFICES ASSUME Init
             PROVE  CoreInv
  OBVIOUS
<1>1. PICK n \in 0 .. MaxQueue : queue \in [1 .. n -> Songs]
  BY DEF Init, Queues
<1>2. queue \in Seq(songs) /\ Len(queue) <= MaxQueue
  BY <1>1, PlaybackAssumption DEF Init
<1>3. st \in PlayRows(songs) /\ st.shuffle = FALSE
  BY PlaybackAssumption DEF Init, PlayRows
<1>4. Lists(queue, order, st.shuffle, songs)
  BY <1>2, <1>3 DEF Init, Lists
<1>5. engine \in EngineStates
  BY DEF Init, EngineStates
<1>6. LoopTyped
  <2>1. events = <<>> /\ Len(<<>>) = 0 /\ MaxEvents \in Nat /\ 0 <= MaxEvents
    BY PlaybackAssumption DEF Init
  <2>2. handling \in [call : {"none", "next", "replay"}, song : Songs \cup {None}]
    BY DEF Init
  <2>3. \A E : <<>> \in Seq(E)
    OBVIOUS
  <2> QED
    BY <2>1, <2>2, <2>3 DEF Init, LoopTyped
<1> QED
  BY <1>3, <1>4, <1>5, <1>6 DEF Init, Core, CoreInv

LEMMA CoreInvAlways == Spec => []CoreInv
<1>1. CoreInv /\ [Next]_vars => CoreInv'
  BY NextCore, NextLoopTyped DEF CoreInv
<1> QED
  BY InitCore, <1>1, PTL DEF Spec

\* The persisted row, the queue and its order, the engine and the events have
\* their shapes; an order of playback is a permutation of the queue's positions
\* whatever is added, removed or moved.
THEOREM TypeCorrect == Spec => []TypeOK
<1>1. CoreInv => TypeOK
  BY CoreInvSays
<1> QED
  BY CoreInvAlways, <1>1, PTL

\* queue_index points at the current song as long as nobody edits the queue and
\* no Next fails: what controller.go stores is what the player shows as next.
THEOREM UpNextIsNextAlways == Spec => []UpNextIsNext
<1>1. CoreInv => UpNextIsNext
  BY CoreInvSays
<1> QED
  BY CoreInvAlways, <1>1, PTL

\* Next goes to the song that follows the current one in the order of playback.
LEMMA NextGoesOn ==
  ASSUME Core, synced, engine.alive, st.track # None, NextSong \/ AdvanceAtEof,
         NEW k \in 1 .. Len(queue) - 1,
         \A j \in DOMAIN List : List[j] = st.track <=> j = k
  PROVE  st'.track = List[k + 1]
<1>1. Len(queue) \in Nat /\ DOMAIN List = 1 .. Len(queue)
      /\ \A i \in 1 .. Len(queue) : List[i] \in songs
  BY ListIs
<1>2. k \in 1 .. Len(queue) /\ k + 1 \in 1 .. Len(queue)
  BY <1>1
<1>3. st.index + 1 = k
  BY <1>1, <1>2 DEF Core, PointsAt
<1>4. queue # <<>>
  BY <1>1, <1>2
<1>5. NextLocked
  BY <1>4 DEF NextSong, AdvanceAtEof
<1>6. GoTo(k)
  <2>1. k < Len(queue) /\ ~ (k >= Len(queue))
    BY <1>1
  <2> QED
    BY <1>3, <1>5, <2>1 DEF NextLocked
<1>7. Playable(List[k + 1])
  BY <1>1, <1>2 DEF Playable
<1>8. st' = Playing([st EXCEPT !.index = k], List[k + 1], List)
  BY <1>6, <1>7 DEF GoTo, PlaySongLocked
<1> QED
  BY <1>8 DEF Playing, Core, PlayRows

\* The same for every behaviour, however commands, ends of songs and deaths of
\* mpv cross: the promise of Next in controller.go.
THEOREM NextFollowsAlways == Spec => NextFollows
<1> DEFINE Advance ==
             synced /\ engine.alive /\ st.track # None /\ queue' = queue
               /\ (NextSong \/ AdvanceAtEof)
             => \A k \in 1 .. Len(queue) - 1 :
                   (\A j \in DOMAIN List : List[j] = st.track <=> j = k)
                      => st'.track = List[k + 1]
<1>1. CoreInv => Advance
  BY NextGoesOn DEF CoreInv
<1>2. CoreInv /\ [Next]_vars => [Advance]_vars
  BY <1>1
<1>3. Spec => [][Advance]_vars
  <2> HIDE DEF Advance
  <2> QED
    BY CoreInvAlways, <1>2, PTL DEF Spec
<1> QED
  BY <1>3 DEF NextFollows
=============================================================================
