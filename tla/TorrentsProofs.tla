--------------------------- MODULE TorrentsProofs ---------------------------
(***************************************************************************)
(* For any number of torrents, files, jobs, requests, import rows and      *)
(* deaths: no complete file of a torrent is forgotten, a job seeds only    *)
(* after its imports, and only what had read a job before its deletion     *)
(* writes another status over "deleted".                                   *)
(***************************************************************************)
EXTENDS Torrents, TLAPS, SequenceTheorems, WellFoundedInduction

-----------------------------------------------------------------------------
(* Smallest and greatest members.                                          *)

LEMMA MinExists ==
  ASSUME NEW S \in SUBSET Nat, S # {}
  PROVE  Min(S) \in S /\ \A y \in S : Min(S) <= y
<1> DEFINE R == OpToRel(<, Nat)
<1>1. \E x \in S : \A y \in S : ~ (<<y, x>> \in R)
  <2> HIDE DEF R
  <2>1. IsWellFoundedOn(R, Nat)
    BY NatLessThanWellFounded DEF R
  <2> QED
    BY <2>1, WFMin
<1>2. \A x, y \in Nat : <<y, x>> \in R <=> y < x
  BY DEF OpToRel
<1> HIDE DEF R
<1>3. PICK x \in S : \A y \in S : ~ (<<y, x>> \in R)
  BY <1>1
<1>4. \A y \in S : y \in Nat /\ x \in Nat
  OBVIOUS
<1>5. ASSUME NEW y \in S PROVE x <= y
  <2>1. ~ (<<y, x>> \in R)
    BY <1>3
  <2>2. ~ (y < x)
    BY <1>2, <1>4, <2>1
  <2> QED
    BY <1>4, <2>2
<1> QED
  BY <1>5 DEF Min

LEMMA MaxExists ==
  ASSUME NEW n \in Nat, NEW S \in SUBSET (1 .. n), S # {}
  PROVE  Max(S) \in S /\ \A y \in S : y <= Max(S)
<1> DEFINE T == {n - y : y \in S}
<1>1. \A y \in S : y \in Nat /\ y <= n /\ n - y \in Nat
  OBVIOUS
<1>2. T \in SUBSET Nat /\ T # {}
  BY <1>1
<1>3. \A y \in S : n - y \in T
  OBVIOUS
<1>4. PICK x \in S : Min(T) = n - x
  BY <1>2, MinExists
<1> HIDE DEF T
<1>5. \A y \in S : n - x <= n - y
  BY <1>2, <1>3, <1>4, MinExists
<1>6. \A y \in S : y <= x
  BY <1>1, <1>5
<1> QED
  BY <1>6 DEF Max

-----------------------------------------------------------------------------
(* What a pass does next.                                                  *)

LEMMA FileAfterIs ==
  ASSUME NEW view \in [TorrentSet -> Torrent], NEW t \in TorrentSet, NEW f \in Nat
  PROVE  \/ FileAfter(view, t, f) = 0 /\ \A g \in view[t].got : g <= f
         \/ /\ FileAfter(view, t, f) \in view[t].got /\ FileAfter(view, t, f) > f
            /\ \A g \in view[t].got : g <= f \/ FileAfter(view, t, f) <= g
<1> DEFINE more == {g \in view[t].got : g > f}
<1>1. view[t].got \subseteq Nat
  BY TorrentAssumption DEF Torrent, Files
<1>2. more \in SUBSET Nat
  BY <1>1
<1>3. FileAfter(view, t, f) = IF more = {} THEN 0 ELSE Min(more)
  BY DEF FileAfter
<1> HIDE DEF more
<1>4. CASE more = {}
  BY <1>1, <1>3, <1>4 DEF more
<1>5. CASE more # {}
  <2>1. Min(more) \in more /\ \A y \in more : Min(more) <= y
    BY <1>2, <1>5, MinExists
  <2> QED
    BY <1>1, <1>3, <1>5, <2>1 DEF more
<1> QED
  BY <1>4, <1>5

LEMMA PassIs ==
  ASSUME NEW at \in PassStates, NEW view \in [TorrentSet -> Torrent],
         NEW seen \in Seq(JobRow), NEW job \in Nat, NEW file \in Files \cup {0},
         NEW row \in Nat
  PROVE  [at |-> at, view |-> view, seen |-> seen, job |-> job, file |-> file,
          row |-> row] \in Pass
BY DEF Pass

LEMMA IdleIs == IdlePass \in Pass
<1>1. Absent \in Torrent
  BY DEF Absent, Torrent
<1>2. [t \in TorrentSet |-> Absent] \in [TorrentSet -> Torrent] /\ << >> \in Seq(JobRow)
  BY <1>1
<1>3. "idle" \in PassStates
  BY DEF PassStates
<1> QED
  BY <1>2, <1>3, PassIs DEF IdlePass

LEMMA BeginIs ==
  ASSUME NEW p \in Pass, NEW n \in DOMAIN p.seen, Begin(p, n) # "nothing"
  PROVE  /\ Begin(p, n) \in {"copy", "failing", "count", "expire"}
         /\ p.seen[n].hash \in TorrentSet
         /\ p.seen[n].status \notin {"deleted", "failed"}
         /\ Begin(p, n) = "copy" => /\ p.seen[n].status \in {"adding", "downloading"}
                                   /\ p.view[p.seen[n].hash].got # {}
         /\ Begin(p, n) = "count" => p.seen[n].status = "importing"
         /\ Begin(p, n) = "expire" => p.seen[n].status = "seeding"
<1> DEFINE j == p.seen[n]
           near == p.view[j.hash].near
           got == p.view[j.hash].got
<1>1. j.status \in JobStatuses /\ j.hash \in TorrentSet \cup {NoHash}
  <2>1. p.seen \in Seq(JobRow)
    BY DEF Pass
  <2>2. p.seen[n] \in JobRow
    BY <2>1
  <2> QED
    BY <2>2 DEF JobRow
<1>2. j.hash # NoHash
  BY DEF Begin
<1>3. CASE j.status \in {"adding", "downloading"} /\ near
  <2>1. Begin(p, n) = IF got = {} THEN "failing" ELSE "copy"
    BY <1>2, <1>3 DEF Begin
  <2> QED
    BY <1>1, <1>2, <1>3, <2>1
<1>4. CASE ~(j.status \in {"adding", "downloading"} /\ near)
  <2>1. CASE j.status = "importing"
    BY <1>1, <1>2, <1>4, <2>1 DEF Begin
  <2>2. CASE j.status = "seeding"
    BY <1>1, <1>2, <1>4, <2>2 DEF Begin
  <2>3. CASE j.status \notin {"importing", "seeding"}
    BY <1>1, <1>2, <1>4, <2>3 DEF Begin
  <2> QED
    BY <2>1, <2>2, <2>3
<1> QED
  BY <1>3, <1>4

\* OnFrom stops at a job that has something to do, or ends the pass.
LEMMA OnFromIs ==
  ASSUME NEW p \in Pass, NEW i \in Nat \ {0}, i - 1 <= Len(p.seen)
  PROVE  \/ OnFrom(p, i) = IdlePass
         \/ \E n \in 1 .. i - 1 :
               /\ n \in DOMAIN p.seen /\ Begin(p, n) # "nothing"
               /\ OnFrom(p, i) =
                     [p EXCEPT !.at = Begin(p, n), !.job = n, !.row = 0,
                               !.seen = SubSeq(@, 1, n),
                               !.file = FileAfter(p.view, p.seen[n].hash, 0)]
<1> DEFINE due == {k \in 1 .. i - 1 : Begin(p, k) # "nothing"}
<1>1. OnFrom(p, i) = IF due = {} THEN IdlePass
         ELSE [p EXCEPT !.at = Begin(p, Max(due)), !.job = Max(due), !.row = 0,
                        !.seen = SubSeq(@, 1, Max(due)),
                        !.file = FileAfter(p.view, p.seen[Max(due)].hash, 0)]
  BY DEF OnFrom
<1>2. DOMAIN p.seen = 1 .. Len(p.seen)
  BY DEF Pass
<1>3. due \in SUBSET (1 .. i - 1) /\ i - 1 \in Nat
  OBVIOUS
<1>4. CASE due # {}
  <2> DEFINE n == Max(due)
  <2>1. n \in due
    BY <1>3, <1>4, MaxExists
  <2>2. n \in 1 .. i - 1 /\ n \in DOMAIN p.seen /\ Begin(p, n) # "nothing"
    <3>1. n \in 1 .. i - 1 /\ Begin(p, n) # "nothing"
      BY <2>1
    <3>2. Len(p.seen) \in Nat
      BY DEF Pass
    <3> HIDE DEF n
    <3> QED
      BY <1>2, <3>1, <3>2
  <2> QED
    BY <1>1, <1>4, <2>2
<1> QED
  BY <1>1, <1>4

\* The record of a pass that has stopped at job n.
LEMMA StoppedAt ==
  ASSUME NEW p \in Pass, NEW n \in DOMAIN p.seen, Begin(p, n) # "nothing", NEW q,
         q = [p EXCEPT !.at = Begin(p, n), !.job = n, !.row = 0,
                       !.seen = SubSeq(@, 1, n),
                       !.file = FileAfter(p.view, p.seen[n].hash, 0)]
  PROVE  /\ q \in Pass /\ q.at = Begin(p, n) /\ q.job = n /\ q.view = p.view
         /\ q.file = FileAfter(p.view, p.seen[n].hash, 0)
         /\ Len(q.seen) = n /\ DOMAIN q.seen = 1 .. n
         /\ \A k \in 1 .. n : q.seen[k] = p.seen[k]
         /\ n \in Nat \ {0} /\ n <= Len(p.seen)
<1>1. p.seen \in Seq(JobRow) /\ n \in 1 .. Len(p.seen) /\ Len(p.seen) \in Nat
  BY DEF Pass
<1>2. /\ SubSeq(p.seen, 1, n) \in Seq(JobRow)
      /\ Len(SubSeq(p.seen, 1, n)) = n
      /\ \A k \in 1 .. n : SubSeq(p.seen, 1, n)[k] = p.seen[k]
  BY <1>1, SubSeqProperties
<1>3. DOMAIN SubSeq(p.seen, 1, n) = 1 .. n
  BY <1>2
<1>4. FileAfter(p.view, p.seen[n].hash, 0) \in Files \cup {0}
  <2>1. p.view \in [TorrentSet -> Torrent] /\ p.seen[n].hash \in TorrentSet
    BY BeginIs DEF Pass
  <2>2. p.view[p.seen[n].hash].got \subseteq Files
    BY <2>1 DEF Torrent
  <2> QED
    BY <2>1, <2>2, FileAfterIs
<1>5. Begin(p, n) \in PassStates
  BY BeginIs DEF PassStates
<1>6. /\ q.at = Begin(p, n) /\ q.job = n /\ q.view = p.view /\ q.row = 0
      /\ q.file = FileAfter(p.view, p.seen[n].hash, 0)
      /\ q.seen = SubSeq(p.seen, 1, n)
  BY DEF Pass
<1>7. q \in Pass
  <2>1. /\ q = [at |-> q.at, view |-> q.view, seen |-> q.seen, job |-> q.job,
                file |-> q.file, row |-> q.row]
        /\ p.view \in [TorrentSet -> Torrent]
    BY DEF Pass
  <2>2. /\ q.at \in PassStates /\ q.view \in [TorrentSet -> Torrent]
        /\ q.seen \in Seq(JobRow) /\ q.job \in Nat
        /\ q.file \in Files \cup {0} /\ q.row \in Nat
    BY <1>1, <1>2, <1>4, <1>5, <1>6, <2>1
  <2>3. [at |-> q.at, view |-> q.view, seen |-> q.seen, job |-> q.job,
         file |-> q.file, row |-> q.row] \in Pass
    BY <2>2, PassIs
  <2> QED
    BY <2>1, <2>3, Zenon
<1> QED
  BY <1>1, <1>2, <1>3, <1>6, <1>7

-----------------------------------------------------------------------------
(* The inductive invariant.  Its parts are operators of the tables (js is   *)
(* torrent_jobs, ims import_jobs, lo leftOut), so that one lemma serves the *)
(* state before a step and the state after it.                              *)

Beyond == {"importing", "seeding", "expired"}
Seeded == {"seeding", "expired"}
Fresh  == {"adding", "downloading"}

HasRow(ims, i, f)  == \E k \in DOMAIN ims : ims[k].linked /\ ims[k].job = i /\ ims[k].file = f
Whole(ims, lo, i)  == \A f \in Files : <<i, f>> \in lo \/ HasRow(ims, i, f)
NoLive(ims, i)     == \A k \in DOMAIN ims : ims[k].linked /\ ims[k].job = i => ims[k].status # "live"

\* What a status s of job i, read now or earlier in the pass, still tells.
Fits(js, ims, lo, s, i) ==
    /\ s \in Beyond => Whole(ims, lo, i)
    /\ s \in Seeded => NoLive(ims, i)
    /\ s \in Fresh  => js[i].status \notin Beyond

JobsFit(js, ims, lo) == \A i \in DOMAIN js : Fits(js, ims, lo, js[i].status, i)

Got(p) == p.view[p.seen[p.job].hash].got

\* queueImports has queued the files before p.file.
Queues(p, js, ims) ==
    /\ js[p.job].status \notin Beyond
    /\ p.at # "queued" => p.file \in Got(p)
    /\ \A g \in Got(p) : p.at = "queued" \/ g < p.file => HasRow(ims, p.job, g)
    /\ p.at = "link" => p.row \in DOMAIN ims /\ ims[p.row].job = p.job /\ ims[p.row].file = p.file

PassFits(p, js, ims, lo) ==
    p.at \notin {"idle", "list"} =>
        /\ p.job \in DOMAIN p.seen /\ Len(p.seen) <= Len(js)
        /\ p.seen[p.job].hash \in TorrentSet
        /\ p.seen[p.job].status \notin {"deleted", "failed"}
        /\ \A k \in 1 .. p.job - 1 : Fits(js, ims, lo, p.seen[k].status, k)
        /\ p.at \in {"copy", "create", "link", "queued"} => Queues(p, js, ims)
        /\ p.at \in {"count", "seed", "expire", "marking"} => Whole(ims, lo, p.job)
        /\ p.at \in {"seed", "expire", "marking"} => NoLive(ims, p.job)

IInv ==
    /\ TypeOK
    /\ JobsFit(jobs, imports, leftOut)
    /\ PassFits(pass, jobs, imports, leftOut)

-----------------------------------------------------------------------------
(* What a change of the tables leaves true.                                *)

RowsGrow(ims, ims2) ==
    \A k \in DOMAIN ims :
        /\ k \in DOMAIN ims2
        /\ ims2[k].job = ims[k].job /\ ims2[k].file = ims[k].file
        /\ ims[k].linked => ims2[k].linked

LEMMA WholeKept ==
  ASSUME NEW ims, NEW ims2, RowsGrow(ims, ims2), NEW lo, NEW lo2, lo \subseteq lo2, NEW i
  PROVE  /\ \A f : HasRow(ims, i, f) => HasRow(ims2, i, f)
         /\ Whole(ims, lo, i) => Whole(ims2, lo2, i)
<1>1. ASSUME NEW f, HasRow(ims, i, f) PROVE HasRow(ims2, i, f)
  BY <1>1 DEF HasRow, RowsGrow
<1> QED
  BY <1>1 DEF Whole

LEMMA FitsKept ==
  ASSUME NEW ims, NEW ims2, RowsGrow(ims, ims2), NEW lo, NEW lo2, lo \subseteq lo2,
         NEW js, NEW js2, NEW i, NEW s,
         js2[i].status \in Beyond => js[i].status \in Beyond,
         NoLive(ims, i) => NoLive(ims2, i),
         Fits(js, ims, lo, s, i)
  PROVE  Fits(js2, ims2, lo2, s, i)
BY WholeKept DEF Fits

\* A step that leaves the pass alone, and lets no job enter a later stage.
LEMMA PassKept ==
  ASSUME NEW ims, NEW ims2, RowsGrow(ims, ims2), NEW lo, NEW lo2, lo \subseteq lo2,
         NEW js \in Seq(JobRow), NEW js2 \in Seq(JobRow), Len(js) <= Len(js2),
         \A i \in DOMAIN js : js2[i].status \in Beyond => js[i].status \in Beyond,
         \A i : NoLive(ims, i) => NoLive(ims2, i),
         NEW p \in Pass, PassFits(p, js, ims, lo)
  PROVE  PassFits(p, js2, ims2, lo2)
<1>1. SUFFICES ASSUME p.at \notin {"idle", "list"} PROVE PassFits(p, js2, ims2, lo2)
  BY DEF PassFits
<1>2. /\ p.job \in 1 .. Len(p.seen) /\ Len(p.seen) <= Len(js)
      /\ Len(p.seen) \in Nat /\ Len(js) \in Nat /\ Len(js2) \in Nat
      /\ DOMAIN js = 1 .. Len(js)
  BY <1>1 DEF PassFits, Pass
<1>3. p.job \in DOMAIN js /\ \A k \in 1 .. p.job - 1 : k \in DOMAIN js
  BY <1>2
<1>4. ASSUME NEW k \in 1 .. p.job - 1 PROVE Fits(js2, ims2, lo2, p.seen[k].status, k)
  <2>1. Fits(js, ims, lo, p.seen[k].status, k)
    BY <1>1 DEF PassFits
  <2>2. js2[k].status \in Beyond => js[k].status \in Beyond
    BY <1>3
  <2> QED
    BY <2>1, <2>2, FitsKept
<1>5. Queues(p, js, ims) => Queues(p, js2, ims2)
  <2>1. \A g : HasRow(ims, p.job, g) => HasRow(ims2, p.job, g)
    BY WholeKept
  <2>2. \A k \in DOMAIN ims : /\ k \in DOMAIN ims2
                              /\ ims2[k].job = ims[k].job /\ ims2[k].file = ims[k].file
    BY DEF RowsGrow
  <2> QED
    BY <1>3, <2>1, <2>2 DEF Queues
<1>6. Whole(ims, lo, p.job) => Whole(ims2, lo2, p.job)
  BY WholeKept
<1>7. NoLive(ims, p.job) => NoLive(ims2, p.job)
  OBVIOUS
<1>8. Len(p.seen) <= Len(js2)
  BY <1>2
<1> QED
  BY <1>1, <1>4, <1>5, <1>6, <1>7, <1>8 DEF PassFits

\* The pass that goes on from job i finds what it read to be true.
LEMMA OnFromFits ==
  ASSUME NEW p \in Pass, NEW i \in Nat \ {0}, i - 1 <= Len(p.seen),
         NEW js \in Seq(JobRow), Len(p.seen) <= Len(js), NEW ims, NEW lo,
         \A k \in 1 .. i - 1 : Fits(js, ims, lo, p.seen[k].status, k)
  PROVE  OnFrom(p, i) \in Pass /\ PassFits(OnFrom(p, i), js, ims, lo)
<1>1. CASE OnFrom(p, i) = IdlePass
  <2>1. IdlePass \in Pass
    BY IdleIs
  <2>2. IdlePass.at = "idle"
    BY DEF IdlePass
  <2> QED
    BY <1>1, <2>1, <2>2 DEF PassFits
<1>2. CASE OnFrom(p, i) # IdlePass
  <2>1. PICK n \in 1 .. i - 1 :
               /\ n \in DOMAIN p.seen /\ Begin(p, n) # "nothing"
               /\ OnFrom(p, i) =
                     [p EXCEPT !.at = Begin(p, n), !.job = n, !.row = 0,
                               !.seen = SubSeq(@, 1, n),
                               !.file = FileAfter(p.view, p.seen[n].hash, 0)]
    BY <1>2, OnFromIs
  <2> DEFINE q == OnFrom(p, i)
  <2>2. /\ q \in Pass /\ q.at = Begin(p, n) /\ q.job = n /\ q.view = p.view
        /\ q.file = FileAfter(p.view, p.seen[n].hash, 0)
        /\ Len(q.seen) = n /\ DOMAIN q.seen = 1 .. n
        /\ \A k \in 1 .. n : q.seen[k] = p.seen[k]
        /\ n \in Nat \ {0} /\ n <= Len(p.seen)
    BY <2>1, StoppedAt
  <2>3. /\ q.at \in {"copy", "failing", "count", "expire"}
        /\ p.seen[n].hash \in TorrentSet
        /\ p.seen[n].status \notin {"deleted", "failed"}
        /\ q.at = "copy" => p.seen[n].status \in Fresh /\ p.view[p.seen[n].hash].got # {}
        /\ q.at = "count" => p.seen[n].status = "importing"
        /\ q.at = "expire" => p.seen[n].status = "seeding"
    BY <2>1, <2>2, BeginIs DEF Fresh
  <2> HIDE DEF q
  <2>4. q.seen[n] = p.seen[n] /\ \A k \in 1 .. n - 1 : q.seen[k] = p.seen[k]
    <3>1. n \in 1 .. n /\ \A k \in 1 .. n - 1 : k \in 1 .. n
      BY <2>2
    <3> QED
      BY <2>2, <3>1, Zenon
  <2>5. Fits(js, ims, lo, p.seen[n].status, n)
    BY <2>1
  <2>6. ASSUME NEW k \in 1 .. n - 1 PROVE Fits(js, ims, lo, q.seen[k].status, k)
    <3>1. k \in 1 .. i - 1 /\ q.seen[k] = p.seen[k]
      BY <2>1, <2>2, <2>4
    <3> QED
      BY <3>1
  <2>7. q.at = "copy" => Queues(q, js, ims)
    <3>1. SUFFICES ASSUME q.at = "copy" PROVE Queues(q, js, ims)
      OBVIOUS
    <3>2. Got(q) = p.view[p.seen[n].hash].got /\ Got(q) # {}
      BY <2>2, <2>3, <2>4, <3>1 DEF Got
    <3>3. p.view \in [TorrentSet -> Torrent]
      BY DEF Pass
    <3>4. Got(q) \subseteq Files
      BY <2>3, <3>2, <3>3 DEF Torrent
    <3>5. \A g \in Got(q) : g \in Nat \ {0}
      BY <3>4, TorrentAssumption DEF Files
    <3>6. q.file \in Got(q) /\ \A g \in Got(q) : q.file <= g
      <4>1. \/ q.file = 0 /\ \A g \in Got(q) : g <= 0
            \/ /\ q.file \in Got(q) /\ q.file > 0
               /\ \A g \in Got(q) : g <= 0 \/ q.file <= g
        BY <2>2, <2>3, <3>2, <3>3, FileAfterIs
      <4> QED
        BY <3>2, <3>5, <4>1, SMTT(30)
    <3>7. \A g \in Got(q) : ~ (g < q.file)
      BY <3>5, <3>6
    <3>8. js[n].status \notin Beyond
      BY <2>3, <2>5, <3>1 DEF Fits
    <3> QED
      BY <2>2, <3>1, <3>6, <3>7, <3>8 DEF Queues
  <2>8. q.at \in {"count", "expire"} => Whole(ims, lo, n)
    BY <2>3, <2>5 DEF Fits, Beyond
  <2>9. q.at = "expire" => NoLive(ims, n)
    BY <2>3, <2>5 DEF Fits, Seeded
  <2>10. n \in DOMAIN q.seen /\ Len(q.seen) <= Len(js)
    <3>1. Len(p.seen) \in Nat /\ Len(js) \in Nat
      BY DEF Pass
    <3> QED
      BY <2>2, <3>1
  <2>11. PassFits(q, js, ims, lo)
    BY <2>2, <2>3, <2>4, <2>6, <2>7, <2>8, <2>9, <2>10 DEF PassFits
  <2> QED
    BY <2>2, <2>11 DEF q
<1> QED
  BY <1>1, <1>2

-----------------------------------------------------------------------------
(* Rows written, requests moved.                                           *)

\* js2 is js with another row at i, whose status is st.
Written(js, js2, i, st) ==
    /\ js2 \in Seq(JobRow) /\ Len(js2) = Len(js) /\ DOMAIN js2 = DOMAIN js
    /\ \A k \in DOMAIN js : k # i => js2[k] = js[k]
    /\ i \in DOMAIN js => js2[i].status = st

LEMMA JobWritten ==
  ASSUME NEW js \in Seq(JobRow), NEW i, NEW st, NEW row,
         i \in DOMAIN js => row \in JobRow /\ row.status = st
  PROVE  Written(js, [js EXCEPT ![i] = row], i, st)
<1>1. Len(js) \in Nat /\ js \in [1 .. Len(js) -> JobRow]
  OBVIOUS
<1>2. [js EXCEPT ![i] = row] \in [1 .. Len(js) -> JobRow]
  BY <1>1
<1> QED
  BY <1>1, <1>2 DEF Written

LEMMA StatusWritten ==
  ASSUME NEW js \in Seq(JobRow), NEW i, NEW st \in JobStatuses
  PROVE  Written(js, [js EXCEPT ![i].status = st], i, st)
<1> DEFINE row == [js[i] EXCEPT !.status = st]
<1>1. [js EXCEPT ![i].status = st] = [js EXCEPT ![i] = row]
  OBVIOUS
<1>2. ASSUME i \in DOMAIN js PROVE row \in JobRow /\ row.status = st
  <2>1. js[i] \in JobRow
    BY <1>2
  <2> QED
    BY <2>1 DEF JobRow
<1> HIDE DEF row
<1>3. Written(js, [js EXCEPT ![i] = row], i, st)
  BY <1>2, JobWritten
<1> QED
  BY <1>1, <1>3, Zenon

LEMMA HashWritten ==
  ASSUME NEW js \in Seq(JobRow), NEW i, NEW st \in JobStatuses,
         NEW h \in TorrentSet \cup {NoHash}
  PROVE  Written(js, [js EXCEPT ![i].status = st, ![i].hash = h], i, st)
<1> DEFINE row == [js[i] EXCEPT !.status = st, !.hash = h]
<1>1. [js EXCEPT ![i].status = st, ![i].hash = h] = [js EXCEPT ![i] = row]
  OBVIOUS
<1>2. ASSUME i \in DOMAIN js PROVE row \in JobRow /\ row.status = st
  <2>1. js[i] \in JobRow
    BY <1>2
  <2> QED
    BY <2>1 DEF JobRow
<1> HIDE DEF row
<1>3. Written(js, [js EXCEPT ![i] = row], i, st)
  BY <1>2, JobWritten
<1> QED
  BY <1>1, <1>3, Zenon

LEMMA SeedWritten ==
  ASSUME NEW js \in Seq(JobRow), NEW i, NEW st \in JobStatuses,
         NEW u \in Periods
  PROVE  Written(js, [js EXCEPT ![i].status = st, ![i].seedUntil = u], i, st)
<1> DEFINE row == [js[i] EXCEPT !.status = st, !.seedUntil = u]
<1>1. [js EXCEPT ![i].status = st, ![i].seedUntil = u] = [js EXCEPT ![i] = row]
  OBVIOUS
<1>2. ASSUME i \in DOMAIN js PROVE row \in JobRow /\ row.status = st
  <2>1. js[i] \in JobRow
    BY <1>2
  <2> QED
    BY <2>1 DEF JobRow
<1> HIDE DEF row
<1>3. Written(js, [js EXCEPT ![i] = row], i, st)
  BY <1>2, JobWritten
<1> QED
  BY <1>1, <1>3, Zenon

RequestRow == [at : RequestStates, job : Ids \cup {0}, hash : TorrentSet \cup {NoHash}]

LEMMA RequestTyped ==
  ASSUME request \in [Requests -> RequestRow], NEW r, NEW state \in RequestRow,
         RequestGoes(r, state)
  PROVE  request' \in [Requests -> RequestRow]
BY DEF RequestGoes

LEMMA IdleRequestTyped == IdleRequest \in RequestRow
BY DEF IdleRequest, RequestRow, RequestStates

\* A step that leaves the pass alone and takes no job to a later stage.
LEMMA QuietKeeps ==
  ASSUME IInv, TypeOK', pass' = pass, leftOut' = leftOut,
         RowsGrow(imports, imports'), \A i : NoLive(imports, i) => NoLive(imports', i),
         Len(jobs) <= Len(jobs'),
         \A i \in DOMAIN jobs' : jobs'[i].status \in Beyond =>
             /\ i \in DOMAIN jobs /\ jobs[i].status \in Beyond
             /\ jobs'[i].status \in Seeded => jobs[i].status \in Seeded
  PROVE  IInv'
<1>1. /\ jobs \in Seq(JobRow) /\ jobs' \in Seq(JobRow)
      /\ DOMAIN jobs = 1 .. Len(jobs) /\ DOMAIN jobs' = 1 .. Len(jobs')
      /\ Len(jobs) \in Nat /\ Len(jobs') \in Nat /\ pass \in Pass
  BY DEF IInv, TypeOK
<1>2. \A i \in DOMAIN jobs : i \in DOMAIN jobs'
  BY <1>1
<1>3. PassFits(pass, jobs', imports', leftOut')
  BY <1>1, <1>2, PassKept DEF IInv
<1>4. ASSUME NEW i \in DOMAIN jobs' PROVE Fits(jobs', imports', leftOut', jobs'[i].status, i)
  <2>1. jobs'[i].status \in Beyond => /\ i \in DOMAIN jobs
                                      /\ Fits(jobs, imports, leftOut, jobs[i].status, i)
    BY DEF IInv, JobsFit
  <2>2. jobs'[i].status \in Beyond => Whole(imports', leftOut', i)
    BY <2>1, WholeKept DEF Fits
  <2>3. jobs'[i].status \in Seeded => NoLive(imports', i)
    BY <2>1 DEF Fits, Seeded, Beyond
  <2>4. jobs'[i].status \in Fresh => jobs'[i].status \notin Beyond
    BY DEF Fresh, Beyond
  <2> QED
    BY <2>2, <2>3, <2>4 DEF Fits
<1>5. JobsFit(jobs', imports', leftOut')
  BY <1>4 DEF JobsFit
<1>6. PassFits(pass', jobs', imports', leftOut')
  BY <1>3
<1> QED
  BY <1>5, <1>6 DEF IInv

\* Of these, the ones that write no import row.
LEMMA QuietJobs ==
  ASSUME IInv, TypeOK', pass' = pass, UNCHANGED <<imports, leftOut>>,
         Len(jobs) <= Len(jobs'),
         \A i \in DOMAIN jobs' : jobs'[i].status \in Beyond =>
             /\ i \in DOMAIN jobs /\ jobs[i].status \in Beyond
             /\ jobs'[i].status \in Seeded => jobs[i].status \in Seeded
  PROVE  IInv'
<1>1. RowsGrow(imports, imports')
  BY DEF RowsGrow
<1> QED
  BY <1>1, QuietKeeps

LEMMA QuietWrite ==
  ASSUME IInv, TypeOK', pass' = pass, UNCHANGED <<imports, leftOut>>, NEW i,
         NEW st \in JobStatuses \ Beyond,
         Written(jobs, jobs', i, st)
  PROVE  IInv'
<1>1. Len(jobs) <= Len(jobs')
  BY DEF IInv, TypeOK, Written
<1>2. ASSUME NEW k \in DOMAIN jobs', jobs'[k].status \in Beyond
      PROVE  k \in DOMAIN jobs /\ jobs'[k] = jobs[k]
  BY <1>2 DEF Written
<1> QED
  BY <1>1, <1>2, QuietJobs

LEMMA QuietElse ==
  ASSUME IInv, TypeOK', UNCHANGED <<jobs, imports, leftOut, pass>>
  PROVE  IInv'
<1>1. Len(jobs) <= Len(jobs')
  BY DEF IInv, TypeOK
<1> QED
  BY <1>1, QuietJobs

-----------------------------------------------------------------------------
(* The handlers.                                                           *)

LEMMA HandlersKeep ==
  ASSUME IInv, NEW r \in Requests, Handle(r)
  PROVE  IInv'
<1>1. /\ jobs \in Seq(JobRow) /\ Len(jobs) \in Nat /\ DOMAIN jobs = 1 .. Len(jobs)
      /\ request \in [Requests -> RequestRow] /\ request[r] \in RequestRow
      /\ daemon \in [TorrentSet -> Torrent] /\ data \subseteq Ids
  BY DEF IInv, TypeOK, RequestRow
<1>2. request[r].job \in Ids \cup {0} /\ request[r].hash \in TorrentSet \cup {NoHash}
  BY <1>1 DEF RequestRow
<1>3. \A at \in RequestStates : [request[r] EXCEPT !.at = at] \in RequestRow
  BY <1>1 DEF RequestRow
<1>4. CASE AddInsert(r)
  <2> DEFINE row == [status |-> "adding", hash |-> NoHash, seedUntil |-> "none"]
  <2>1. /\ row \in JobRow /\ jobs' = Append(jobs, row) /\ Len(jobs) < MaxJobs
        /\ row.status \notin Beyond
    BY <1>4 DEF AddInsert, JobRow, JobStatuses, Periods, Beyond
  <2> HIDE DEF row
  <2>2. /\ jobs' \in Seq(JobRow) /\ Len(jobs') = Len(jobs) + 1
        /\ DOMAIN jobs' = 1 .. Len(jobs) + 1
        /\ jobs'[Len(jobs) + 1] = row /\ \A k \in 1 .. Len(jobs) : jobs'[k] = jobs[k]
    BY <1>1, <2>1
  <2>3. [at |-> "inserted", job |-> Len(jobs) + 1, hash |-> NoHash] \in RequestRow
    BY <1>1, <2>1, TorrentAssumption DEF RequestRow, RequestStates, Ids
  <2>4. request' \in [Requests -> RequestRow]
    BY <1>1, <1>4, <2>3, RequestTyped DEF AddInsert
  <2>5. TypeOK'
    BY <1>1, <1>4, <2>1, <2>2, <2>4, TorrentAssumption DEF IInv, TypeOK, AddInsert, RequestRow
  <2>6. ASSUME NEW i \in DOMAIN jobs', jobs'[i].status \in Beyond
        PROVE  i \in DOMAIN jobs /\ jobs'[i] = jobs[i]
    BY <1>1, <2>1, <2>2, <2>6
  <2>7. Len(jobs) <= Len(jobs')
    BY <1>1, <2>2
  <2> QED
    BY <1>4, <2>5, <2>6, <2>7, QuietJobs DEF AddInsert
<1>5. CASE \E t \in TorrentSet : AddCall(r, t)
  <2>1. PICK t \in TorrentSet : AddCall(r, t)
    BY <1>5
  <2>2. /\ [request[r] EXCEPT !.at = "added", !.hash = t] \in RequestRow
        /\ [request[r] EXCEPT !.at = "refused"] \in RequestRow
    BY <1>1 DEF RequestRow, RequestStates
  <2>3. request' \in [Requests -> RequestRow]
    BY <1>1, <2>1, <2>2, RequestTyped DEF AddCall
  <2>4. daemon' \in [TorrentSet -> Torrent]
    BY <1>1, <1>2, <2>1 DEF AddCall, Torrent
  <2>5. TypeOK'
    BY <2>1, <2>3, <2>4 DEF IInv, TypeOK, AddCall, RequestRow
  <2> QED
    BY <2>1, <2>5, QuietElse DEF AddCall
<1>6. CASE AddDone(r)
  <2>1. Written(jobs, jobs', request[r].job, "downloading")
    <3>1. "downloading" \in JobStatuses
      BY DEF JobStatuses
    <3>2. jobs' = [jobs EXCEPT ![request[r].job].status = "downloading",
                              ![request[r].job].hash = request[r].hash]
      BY <1>6 DEF AddDone
    <3> QED
      BY <1>1, <1>2, <3>1, <3>2, HashWritten
  <2>2. request' \in [Requests -> RequestRow]
    BY <1>1, <1>6, IdleRequestTyped, RequestTyped DEF AddDone
  <2>3. TypeOK'
    BY <1>6, <2>1, <2>2 DEF IInv, TypeOK, AddDone, RequestRow, Written
  <2>4. "downloading" \in JobStatuses \ Beyond
    BY DEF JobStatuses, Beyond
  <2> QED
    BY <1>6, <2>1, <2>3, <2>4, QuietWrite DEF AddDone
<1>7. CASE AddFailed(r)
  <2>1. Written(jobs, jobs', request[r].job, "failed")
    <3>1. "failed" \in JobStatuses
      BY DEF JobStatuses
    <3>2. jobs' = [jobs EXCEPT ![request[r].job].status = "failed"]
      BY <1>7 DEF AddFailed
    <3> QED
      BY <1>1, <1>2, <3>1, <3>2, StatusWritten
  <2>2. request' \in [Requests -> RequestRow]
    BY <1>1, <1>7, IdleRequestTyped, RequestTyped DEF AddFailed
  <2>3. TypeOK'
    BY <1>7, <2>1, <2>2 DEF IInv, TypeOK, AddFailed, RequestRow, Written
  <2>4. "failed" \in JobStatuses \ Beyond
    BY DEF JobStatuses, Beyond
  <2> QED
    BY <1>7, <2>1, <2>3, <2>4, QuietWrite DEF AddFailed
<1>8. CASE RequestCut(r)
  <2>1. request' \in [Requests -> RequestRow]
    BY <1>1, <1>8, IdleRequestTyped, RequestTyped DEF RequestCut
  <2>2. TypeOK'
    BY <1>8, <2>1 DEF IInv, TypeOK, RequestCut, RequestRow
  <2> QED
    BY <1>8, <2>2, QuietElse DEF RequestCut
<1>9. CASE \E i \in DOMAIN jobs : DeleteRead(r, i)
  <2>1. PICK i \in DOMAIN jobs : DeleteRead(r, i)
    BY <1>9
  <2>2. i \in Ids /\ jobs[i] \in JobRow
    BY <1>1, TorrentAssumption DEF IInv, TypeOK, Ids
  <2>3. [at |-> "read", job |-> i, hash |-> jobs[i].hash] \in RequestRow
    BY <2>2 DEF RequestRow, RequestStates, JobRow
  <2>4. request' \in [Requests -> RequestRow]
    BY <1>1, <2>1, <2>3, RequestTyped DEF DeleteRead
  <2>5. TypeOK'
    BY <2>1, <2>4 DEF IInv, TypeOK, DeleteRead, RequestRow
  <2> QED
    BY <2>1, <2>5, QuietElse DEF DeleteRead
<1>10. CASE DeleteRemove(r)
  <2>1. [request[r] EXCEPT !.at = "removed"] \in RequestRow
    BY <1>3 DEF RequestStates
  <2>2. request' \in [Requests -> RequestRow]
    BY <1>1, <1>10, <2>1, RequestTyped DEF DeleteRemove
  <2>3. Absent \in Torrent
    BY DEF Absent, Torrent
  <2>4. daemon' \in [TorrentSet -> Torrent] /\ data' \subseteq Ids
    BY <1>1, <1>10, <2>3 DEF DeleteRemove, Forget
  <2>5. TypeOK'
    BY <1>10, <2>2, <2>4 DEF IInv, TypeOK, DeleteRemove, RequestRow
  <2> QED
    BY <1>10, <2>5, QuietElse DEF DeleteRemove
<1>11. CASE DeleteWipe(r)
  <2>1. [request[r] EXCEPT !.at = "wiped"] \in RequestRow
    BY <1>3 DEF RequestStates
  <2>2. request' \in [Requests -> RequestRow]
    BY <1>1, <1>11, <2>1, RequestTyped DEF DeleteWipe
  <2>3. TypeOK'
    BY <1>11, <2>2 DEF IInv, TypeOK, DeleteWipe, RequestRow
  <2> QED
    BY <1>11, <2>3, QuietElse DEF DeleteWipe
<1>12. CASE DeleteMark(r)
  <2>1. Written(jobs, jobs', request[r].job, "deleted")
    <3>1. "deleted" \in JobStatuses
      BY DEF JobStatuses
    <3>2. jobs' = [jobs EXCEPT ![request[r].job].status = "deleted"]
      BY <1>12 DEF DeleteMark
    <3> QED
      BY <1>1, <1>2, <3>1, <3>2, StatusWritten
  <2>2. request' \in [Requests -> RequestRow]
    BY <1>1, <1>12, IdleRequestTyped, RequestTyped DEF DeleteMark
  <2>3. TypeOK'
    BY <1>12, <2>1, <2>2 DEF IInv, TypeOK, DeleteMark, RequestRow, Written
  <2>4. "deleted" \in JobStatuses \ Beyond
    BY DEF JobStatuses, Beyond
  <2> QED
    BY <1>12, <2>1, <2>3, <2>4, QuietWrite DEF DeleteMark
<1> QED
  BY <1>4, <1>5, <1>6, <1>7, <1>8, <1>9, <1>10, <1>11, <1>12 DEF Handle

-----------------------------------------------------------------------------
(* Users, time, the daemon, the import workers, death.                     *)

LEMMA UsersKeep ==
  ASSUME IInv, NEW i \in DOMAIN jobs, Extend(i) \/ SeedPeriodEnds(i)
  PROVE  IInv'
<1>1. jobs \in Seq(JobRow) /\ Len(jobs) \in Nat /\ jobs[i] \in JobRow
  BY DEF IInv, TypeOK
<1>2. ASSUME NEW st, Written(jobs, jobs', i, st),
             st \in Beyond => jobs[i].status \in Beyond,
             st \in Seeded => jobs[i].status \in Seeded
      PROVE  /\ Len(jobs) <= Len(jobs')
             /\ \A k \in DOMAIN jobs' : jobs'[k].status \in Beyond =>
                  /\ k \in DOMAIN jobs /\ jobs[k].status \in Beyond
                  /\ jobs'[k].status \in Seeded => jobs[k].status \in Seeded
  BY <1>1, <1>2 DEF Written
<1>3. CASE Extend(i)
  <2>1. "seeding" \in JobStatuses /\ "running" \in Periods
    BY DEF JobStatuses, Periods
  <2>2. Written(jobs, jobs', i, "seeding")
    BY <1>1, <1>3, <2>1, SeedWritten DEF Extend
  <2>3. TypeOK'
    BY <1>3, <2>2 DEF IInv, TypeOK, Extend, Written
  <2>4. jobs[i].status \in Beyond /\ jobs[i].status \in Seeded
    BY <1>3 DEF Extend, Beyond, Seeded
  <2> QED
    BY <1>2, <1>3, <2>2, <2>3, <2>4, QuietJobs DEF Extend
<1>4. CASE SeedPeriodEnds(i)
  <2> DEFINE row == [jobs[i] EXCEPT !.seedUntil = "over"]
  <2>1. row \in JobRow /\ row.status = jobs[i].status
    BY <1>1 DEF JobRow, Periods
  <2>2. jobs' = [jobs EXCEPT ![i] = row]
    BY <1>4 DEF SeedPeriodEnds
  <2> HIDE DEF row
  <2>3. Written(jobs, jobs', i, jobs[i].status)
    BY <1>1, <2>1, <2>2, JobWritten
  <2>4. TypeOK'
    BY <1>4, <2>3 DEF IInv, TypeOK, SeedPeriodEnds, Written
  <2> QED
    BY <1>2, <1>4, <2>3, <2>4, QuietJobs DEF SeedPeriodEnds
<1> QED
  BY <1>3, <1>4

LEMMA DaemonKeeps ==
  ASSUME IInv, NEW t \in TorrentSet, AlmostDone(t) \/ Completes(t)
  PROVE  IInv'
<1>1. daemon \in [TorrentSet -> Torrent] /\ data \subseteq Ids /\ daemon[t].home \in Ids \cup {0}
  BY DEF IInv, TypeOK, Torrent
<1>2. daemon' \in [TorrentSet -> Torrent] /\ data' \subseteq Ids
  <2>1. CASE AlmostDone(t)
    BY <1>1, <2>1 DEF AlmostDone, Torrent
  <2>2. CASE Completes(t)
    BY <1>1, <2>2 DEF Completes, Torrent
  <2> QED
    BY <2>1, <2>2
<1>3. UNCHANGED <<jobs, imports, staged, pass, request, restarts, leftOut>>
  BY DEF AlmostDone, Completes
<1>4. TypeOK'
  BY <1>2, <1>3 DEF IInv, TypeOK
<1> QED
  BY <1>3, <1>4, QuietElse

LEMMA WorkersKeep ==
  ASSUME IInv, NEW k \in DOMAIN imports, ImportEnds(k) \/ ImportAgain(k)
  PROVE  IInv'
<1>1. imports \in Seq(ImportRow) /\ Len(imports) \in Nat /\ imports[k] \in ImportRow
  BY DEF IInv, TypeOK
<1>2. PICK st \in {"done", "again"} : imports' = [imports EXCEPT ![k].status = st]
  BY DEF ImportEnds, ImportAgain
<1>3. /\ UNCHANGED <<jobs, daemon, data, pass, request, restarts, leftOut>>
      /\ staged' \subseteq staged
  BY DEF ImportEnds, ImportAgain
<1> DEFINE row == [imports[k] EXCEPT !.status = st]
<1>4. imports' = [imports EXCEPT ![k] = row]
  BY <1>2
<1>5. /\ row \in ImportRow /\ row.status = st /\ row.job = imports[k].job
      /\ row.file = imports[k].file /\ row.linked = imports[k].linked
  BY <1>1 DEF ImportRow
<1> HIDE DEF row
<1>6. /\ imports' \in [1 .. Len(imports) -> ImportRow]
      /\ imports'[k] = row /\ \A m \in DOMAIN imports : m # k => imports'[m] = imports[m]
  BY <1>1, <1>4, <1>5
<1>7. /\ imports' \in Seq(ImportRow) /\ Len(imports') = Len(imports)
      /\ DOMAIN imports' = DOMAIN imports
  BY <1>1, <1>6
<1>8. RowsGrow(imports, imports')
  BY <1>5, <1>6, <1>7 DEF RowsGrow
<1>9. ASSUME NEW i, NoLive(imports, i) PROVE NoLive(imports', i)
  <2>1. ASSUME NEW m \in DOMAIN imports', imports'[m].linked, imports'[m].job = i
        PROVE  imports'[m].status # "live"
    <3>1. CASE m = k
      BY <1>2, <1>5, <1>6, <3>1
    <3>2. CASE m # k
      BY <1>6, <1>7, <1>9, <2>1, <3>2 DEF NoLive
    <3> QED
      BY <3>1, <3>2
  <2> QED
    BY <2>1 DEF NoLive
<1>10. TypeOK'
  BY <1>3, <1>7 DEF IInv, TypeOK
<1>11. Len(jobs) <= Len(jobs')
  BY <1>3 DEF IInv, TypeOK
<1>12. \A i \in DOMAIN jobs' : i \in DOMAIN jobs /\ jobs'[i] = jobs[i]
  BY <1>3
<1> QED
  BY <1>3, <1>8, <1>9, <1>10, <1>11, <1>12, QuietKeeps

LEMMA DeathKeeps ==
  ASSUME IInv, Die
  PROVE  IInv'
<1>1. UNCHANGED <<jobs, imports, staged, daemon, data, leftOut>> /\ pass' = IdlePass
  BY DEF Die
<1>2. restarts' \in 0 .. MaxRestarts
  BY TorrentAssumption DEF IInv, TypeOK, Die
<1>3. request' \in [Requests -> RequestRow]
  BY IdleRequestTyped DEF Die
<1>4. TypeOK'
  BY <1>1, <1>2, <1>3, IdleIs DEF IInv, TypeOK, RequestRow
<1>5. PassFits(pass', jobs', imports', leftOut')
  BY <1>1 DEF PassFits, IdlePass
<1>6. JobsFit(jobs', imports', leftOut')
  BY <1>1 DEF IInv
<1> QED
  BY <1>4, <1>5, <1>6 DEF IInv

-----------------------------------------------------------------------------
(* The pass.                                                               *)

LEMMA PassMoved ==
  ASSUME NEW p \in Pass, NEW at \in PassStates, NEW file \in Files \cup {0}, NEW row \in Nat
  PROVE  /\ [p EXCEPT !.at = at] \in Pass
         /\ [p EXCEPT !.at = at, !.file = file] \in Pass
         /\ [p EXCEPT !.at = at, !.row = row] \in Pass
BY DEF Pass

LEMMA AtWork ==
  ASSUME IInv, pass.at \notin {"idle", "list"}
  PROVE  /\ pass \in Pass /\ jobs \in Seq(JobRow)
         /\ pass.job \in Nat \ {0} /\ pass.job \in DOMAIN pass.seen
         /\ Len(pass.seen) \in Nat /\ Len(jobs) \in Nat
         /\ pass.job - 1 <= Len(pass.seen) /\ Len(pass.seen) <= Len(jobs)
         /\ pass.job \in DOMAIN jobs /\ pass.job \in Ids
         /\ pass.seen[pass.job].hash \in TorrentSet
         /\ Got(pass) \subseteq Files
         /\ \A k \in 1 .. pass.job - 1 : k \in DOMAIN jobs /\ k # pass.job
<1>1. pass \in Pass /\ jobs \in Seq(JobRow) /\ Len(jobs) <= MaxJobs
  BY DEF IInv, TypeOK
<1>2. /\ pass.job \in DOMAIN pass.seen /\ Len(pass.seen) <= Len(jobs)
      /\ pass.seen[pass.job].hash \in TorrentSet
  BY DEF IInv, PassFits
<1>3. pass.seen \in Seq(JobRow) /\ pass.view \in [TorrentSet -> Torrent]
  BY <1>1 DEF Pass
<1>4. /\ DOMAIN pass.seen = 1 .. Len(pass.seen) /\ Len(pass.seen) \in Nat
      /\ DOMAIN jobs = 1 .. Len(jobs) /\ Len(jobs) \in Nat
  BY <1>1, <1>3
<1>5. Got(pass) \subseteq Files
  BY <1>2, <1>3 DEF Got, Torrent
<1> QED
  BY <1>1, <1>2, <1>4, <1>5, TorrentAssumption DEF Ids

\* What the pass has read of the older jobs outlives a write to its own job.
LEMMA EarlierFit ==
  ASSUME IInv, pass.at \notin {"idle", "list"},
         \A k \in DOMAIN jobs : k # pass.job => jobs'[k] = jobs[k],
         RowsGrow(imports, imports'), leftOut \subseteq leftOut',
         \A i : i # pass.job /\ NoLive(imports, i) => NoLive(imports', i)
  PROVE  \A k \in 1 .. pass.job - 1 : Fits(jobs', imports', leftOut', pass.seen[k].status, k)
<1>1. SUFFICES ASSUME NEW k \in 1 .. pass.job - 1
               PROVE  Fits(jobs', imports', leftOut', pass.seen[k].status, k)
  OBVIOUS
<1>2. k \in DOMAIN jobs /\ k # pass.job
  BY AtWork
<1>3. Fits(jobs, imports, leftOut, pass.seen[k].status, k)
  BY DEF IInv, PassFits
<1>4. /\ jobs'[k].status \in Beyond => jobs[k].status \in Beyond
      /\ NoLive(imports, k) => NoLive(imports', k)
  BY <1>2
<1> QED
  BY <1>3, <1>4, FitsKept

\* The pass stays with its job.
LEMMA PassStays ==
  ASSUME IInv, pass.at \notin {"idle", "list"}, Len(jobs') = Len(jobs),
         pass'.job = pass.job, pass'.seen = pass.seen, pass'.view = pass.view,
         \A k \in 1 .. pass.job - 1 : Fits(jobs', imports', leftOut', pass.seen[k].status, k),
         pass'.at \in {"copy", "create", "link", "queued"} => Queues(pass', jobs', imports'),
         pass'.at \in {"count", "seed", "expire", "marking"} => Whole(imports', leftOut', pass.job),
         pass'.at \in {"seed", "expire", "marking"} => NoLive(imports', pass.job)
  PROVE  PassFits(pass', jobs', imports', leftOut')
BY DEF IInv, PassFits

LEMMA PassOnFits ==
  ASSUME IInv, pass.at \notin {"idle", "list"}, PassOn, UNCHANGED <<imports, leftOut>>,
         jobs' \in Seq(JobRow), Len(jobs') = Len(jobs),
         \A k \in DOMAIN jobs : k # pass.job => jobs'[k] = jobs[k]
  PROVE  pass' \in Pass /\ PassFits(pass', jobs', imports', leftOut')
<1>1. RowsGrow(imports, imports')
  BY DEF RowsGrow
<1>2. \A k \in 1 .. pass.job - 1 : Fits(jobs', imports', leftOut', pass.seen[k].status, k)
  BY <1>1, EarlierFit
<1>3. /\ pass \in Pass /\ pass.job \in Nat \ {0}
      /\ pass.job - 1 <= Len(pass.seen) /\ Len(pass.seen) <= Len(jobs')
  BY AtWork
<1>4. pass' = OnFrom(pass, pass.job)
  BY DEF PassOn
<1> QED
  BY <1>2, <1>3, <1>4, OnFromFits

\* The job of the pass gets status st.
LEMMA JobsFitWritten ==
  ASSUME IInv, NEW i, NEW st, Written(jobs, jobs', i, st), UNCHANGED imports,
         leftOut \subseteq leftOut',
         st \in Beyond => Whole(imports, leftOut', i),
         st \in Seeded => NoLive(imports, i)
  PROVE  JobsFit(jobs', imports', leftOut')
<1>1. SUFFICES ASSUME NEW k \in DOMAIN jobs'
               PROVE  Fits(jobs', imports', leftOut', jobs'[k].status, k)
  BY DEF JobsFit
<1>2. k \in DOMAIN jobs
  BY DEF Written
<1>3. jobs'[k].status \in Fresh => jobs'[k].status \notin Beyond
  BY DEF Fresh, Beyond
<1>4. CASE k = i
  <2>1. jobs'[k].status = st
    BY <1>2, <1>4 DEF Written
  <2> QED
    BY <1>3, <1>4, <2>1 DEF Fits
<1>5. CASE k # i
  <2>1. jobs'[k] = jobs[k]
    BY <1>2, <1>5 DEF Written
  <2>2. Fits(jobs, imports, leftOut, jobs[k].status, k)
    BY <1>2 DEF IInv, JobsFit
  <2>3. RowsGrow(imports, imports')
    BY DEF RowsGrow
  <2> QED
    BY <2>1, <2>2, <2>3, FitsKept
<1> QED
  BY <1>4, <1>5

LEMMA ListingKeeps ==
  ASSUME IInv, SyncFetch \/ SyncList
  PROVE  IInv'
<1>1. UNCHANGED <<jobs, imports, staged, leftOut, daemon, data, request, restarts>>
  BY DEF SyncFetch, SyncList, SyncKeeps
<1>2. /\ jobs \in Seq(JobRow) /\ Len(jobs) \in Nat /\ DOMAIN jobs = 1 .. Len(jobs)
      /\ daemon \in [TorrentSet -> Torrent] /\ pass \in Pass
  BY DEF IInv, TypeOK
<1>3. SUFFICES pass' \in Pass /\ PassFits(pass', jobs, imports, leftOut)
  <2>1. TypeOK'
    BY <1>1, <1>3 DEF IInv, TypeOK
  <2> QED
    BY <1>1, <1>3, <2>1 DEF IInv
<1>4. CASE SyncFetch
  <2>1. PICK erring \in SUBSET TorrentSet :
          pass' = [IdlePass EXCEPT !.at = "list",
                      !.view = [t \in TorrentSet |-> IF t \in erring THEN Absent ELSE daemon[t]]]
    BY <1>4 DEF SyncFetch
  <2> DEFINE view == [t \in TorrentSet |-> IF t \in erring THEN Absent ELSE daemon[t]]
  <2>2. view \in [TorrentSet -> Torrent]
    BY <1>2 DEF Absent, Torrent
  <2>3. pass' = [at |-> "list", view |-> view, seen |-> << >>, job |-> 0, file |-> 0, row |-> 0]
    BY <2>1 DEF IdlePass
  <2> HIDE DEF view
  <2>4. "list" \in PassStates /\ << >> \in Seq(JobRow)
    BY DEF PassStates
  <2> QED
    BY <2>2, <2>3, <2>4, PassIs DEF PassFits
<1>5. CASE SyncList
  <2> DEFINE p == [pass EXCEPT !.seen = jobs]
             n == Len(jobs) + 1
  <2>1. p \in Pass /\ p.seen = jobs /\ pass' = OnFrom(p, n)
    BY <1>2, <1>5 DEF SyncList, Pass
  <2>2. n \in Nat \ {0} /\ n - 1 = Len(jobs)
    BY <1>2
  <2> HIDE DEF p, n
  <2>3. \A k \in 1 .. n - 1 : Fits(jobs, imports, leftOut, p.seen[k].status, k)
    BY <1>2, <2>1, <2>2 DEF IInv, JobsFit
  <2>4. n - 1 <= Len(p.seen) /\ Len(p.seen) <= Len(jobs)
    BY <1>2, <2>1, <2>2
  <2>5. OnFrom(p, n) \in Pass /\ PassFits(OnFrom(p, n), jobs, imports, leftOut)
    BY <1>2, <2>1, <2>2, <2>3, <2>4, OnFromFits
  <2> QED
    BY <2>1, <2>5
<1> QED
  BY <1>4, <1>5

\* queueImports.
LEMMA CopyKeeps ==
  ASSUME IInv, Copy
  PROVE  IInv'
<1>1. /\ pass.at = "copy" /\ UNCHANGED <<jobs, imports, leftOut, daemon, data, request, restarts>>
      /\ \/ PassGoes("create") /\ staged' = staged \cup {<<pass.job, pass.file>>}
         \/ PassGoes("failing") /\ staged' = staged
  BY DEF Copy, SyncKeeps
<1>2. pass \in Pass /\ pass.job \in Ids /\ Got(pass) \subseteq Files
  BY <1>1, AtWork
<1>3. Queues(pass, jobs, imports)
  BY <1>1 DEF IInv, PassFits
<1>4. PICK at \in {"create", "failing"} : pass' = [pass EXCEPT !.at = at]
  BY <1>1 DEF PassGoes
<1>5. /\ pass' \in Pass /\ pass'.at = at /\ pass'.job = pass.job /\ pass'.seen = pass.seen
      /\ pass'.view = pass.view /\ pass'.file = pass.file /\ pass'.row = pass.row
  <2>1. at \in PassStates
    BY DEF PassStates
  <2>2. pass.file \in Files \cup {0} /\ pass.row \in Nat
    BY <1>2 DEF Pass
  <2>3. [pass EXCEPT !.at = at] \in Pass
    BY <1>2, <2>1, <2>2, PassMoved
  <2> QED
    BY <1>2, <1>4, <2>3 DEF Pass
<1>6. pass.file \in Files
  BY <1>1, <1>2, <1>3 DEF Queues
<1>7. TypeOK'
  BY <1>1, <1>2, <1>5, <1>6 DEF IInv, TypeOK
<1>8. \A k \in 1 .. pass.job - 1 : Fits(jobs', imports', leftOut', pass.seen[k].status, k)
  BY <1>1 DEF IInv, PassFits
<1>9. at = "create" => Queues(pass', jobs', imports')
  BY <1>1, <1>3, <1>5 DEF Queues, Got
<1>10. PassFits(pass', jobs', imports', leftOut')
  BY <1>1, <1>5, <1>8, <1>9, PassStays
<1> QED
  BY <1>1, <1>7, <1>10 DEF IInv

LEMMA RowKeeps ==
  ASSUME IInv, CreateRow
  PROVE  IInv'
<1>1. pass.at = "create" /\ UNCHANGED <<jobs, leftOut, daemon, data, request, restarts>>
  BY DEF CreateRow, SyncKeeps
<1>2. /\ pass \in Pass /\ pass.job \in Ids /\ Got(pass) \subseteq Files
      /\ pass.file \in Files \cup {0} /\ pass.row \in Nat
      /\ imports \in Seq(ImportRow) /\ Len(imports) \in Nat
      /\ DOMAIN imports = 1 .. Len(imports)
  BY <1>1, AtWork DEF Pass, IInv, TypeOK
<1>3. Queues(pass, jobs, imports)
  BY <1>1 DEF IInv, PassFits
<1>4. pass.file \in Files
  BY <1>1, <1>2, <1>3 DEF Queues
<1>5. CASE Len(imports) < MaxRows
           /\ imports' = Append(imports, [job |-> pass.job, file |-> pass.file,
                                         linked |-> FALSE, status |-> "live"])
           /\ pass' = [pass EXCEPT !.at = "link", !.row = Len(imports) + 1]
           /\ UNCHANGED staged
  <2> DEFINE row == [job |-> pass.job, file |-> pass.file, linked |-> FALSE, status |-> "live"]
             last == Len(imports) + 1
  <2>1. row \in ImportRow /\ row.job = pass.job /\ row.file = pass.file /\ ~row.linked
    BY <1>2, <1>4 DEF ImportRow
  <2>2. imports' = Append(imports, row) /\ pass' = [pass EXCEPT !.at = "link", !.row = last]
    BY <1>5
  <2>3. last \in Nat
    BY <1>2
  <2> HIDE DEF row
  <2>4. /\ imports' \in Seq(ImportRow) /\ Len(imports') = last /\ DOMAIN imports' = 1 .. last
        /\ imports'[last] = row /\ \A k \in DOMAIN imports : imports'[k] = imports[k]
    BY <1>2, <2>1, <2>2
  <2>5. \A k \in DOMAIN imports' : k = last \/ k \in DOMAIN imports
    BY <1>2, <2>4
  <2>6. Len(imports') <= MaxRows
    BY <1>2, <1>5, <2>4, TorrentAssumption
  <2>7. last \in DOMAIN imports' /\ \A k \in DOMAIN imports : k \in DOMAIN imports'
    BY <1>2, <2>4
  <2> HIDE DEF last
  <2>8. RowsGrow(imports, imports')
    BY <2>4, <2>7 DEF RowsGrow
  <2>9. \A i : NoLive(imports, i) => NoLive(imports', i)
    BY <2>1, <2>4, <2>5 DEF NoLive
  <2>10. /\ pass' \in Pass /\ pass'.at = "link" /\ pass'.job = pass.job
         /\ pass'.seen = pass.seen /\ pass'.view = pass.view /\ pass'.file = pass.file
         /\ pass'.row = last
    <3>1. "link" \in PassStates
      BY DEF PassStates
    <3>2. [pass EXCEPT !.at = "link", !.row = last] \in Pass
      BY <1>2, <2>3, <3>1, PassMoved
    <3> QED
      BY <1>2, <2>2, <3>2 DEF Pass
  <2>11. TypeOK'
    BY <1>1, <1>5, <2>4, <2>6, <2>10 DEF IInv, TypeOK
  <2>12. \A k \in 1 .. pass.job - 1 : Fits(jobs', imports', leftOut', pass.seen[k].status, k)
    BY <1>1, <2>8, <2>9, EarlierFit
  <2>13. Queues(pass', jobs', imports')
    <3>1. \A g : HasRow(imports, pass.job, g) => HasRow(imports', pass.job, g)
      BY <2>8, WholeKept
    <3>2. Got(pass') = Got(pass)
      BY <2>10 DEF Got
    <3> QED
      BY <1>1, <1>3, <2>1, <2>4, <2>7, <2>10, <3>1, <3>2 DEF Queues
  <2>14. PassFits(pass', jobs', imports', leftOut')
    BY <1>1, <2>10, <2>12, <2>13, PassStays
  <2>15. JobsFit(jobs', imports', leftOut')
    <3>1. SUFFICES ASSUME NEW i \in DOMAIN jobs
                   PROVE  Fits(jobs, imports', leftOut, jobs[i].status, i)
      BY <1>1 DEF JobsFit
    <3>2. Fits(jobs, imports, leftOut, jobs[i].status, i)
      BY DEF IInv, JobsFit
    <3> QED
      BY <2>8, <2>9, <3>2, FitsKept
  <2> QED
    BY <2>11, <2>14, <2>15 DEF IInv
<1>6. CASE staged' = staged \ {<<pass.job, pass.file>>} /\ PassGoes("failing") /\ UNCHANGED imports
  <2>1. /\ pass' \in Pass /\ pass'.at = "failing" /\ pass'.job = pass.job
        /\ pass'.seen = pass.seen /\ pass'.view = pass.view
    <3>1. "failing" \in PassStates
      BY DEF PassStates
    <3>2. [pass EXCEPT !.at = "failing"] \in Pass
      BY <1>2, <3>1, PassMoved
    <3> QED
      BY <1>2, <1>6, <3>2 DEF Pass, PassGoes
  <2>2. TypeOK'
    BY <1>1, <1>6, <2>1 DEF IInv, TypeOK
  <2>3. \A k \in 1 .. pass.job - 1 : Fits(jobs', imports', leftOut', pass.seen[k].status, k)
    BY <1>1, <1>6 DEF IInv, PassFits
  <2>4. PassFits(pass', jobs', imports', leftOut')
    BY <1>1, <2>1, <2>3, PassStays
  <2> QED
    BY <1>1, <1>6, <2>2, <2>4 DEF IInv
<1> QED
  BY <1>5, <1>6 DEF CreateRow

LEMMA LinkKeeps ==
  ASSUME IInv, Link
  PROVE  IInv'
<1> DEFINE m == pass.row
           next == FileAfter(pass.view, pass.seen[pass.job].hash, pass.file)
           at == IF next = 0 THEN "queued" ELSE "copy"
<1>1. /\ pass.at = "link" /\ UNCHANGED <<jobs, staged, leftOut, daemon, data, request, restarts>>
      /\ imports' = [imports EXCEPT ![m].linked = TRUE]
      /\ pass' = [pass EXCEPT !.at = at, !.file = next]
  BY DEF Link, SyncKeeps, NextFile
<1>2. /\ pass \in Pass /\ Got(pass) \subseteq Files /\ pass.seen[pass.job].hash \in TorrentSet
      /\ pass.view \in [TorrentSet -> Torrent] /\ pass.job \in DOMAIN jobs
      /\ imports \in Seq(ImportRow) /\ Len(imports) \in Nat
      /\ DOMAIN imports = 1 .. Len(imports) /\ Len(imports) <= MaxRows
  BY <1>1, AtWork DEF Pass, IInv, TypeOK
<1>3. Queues(pass, jobs, imports)
  BY <1>1 DEF IInv, PassFits
<1>4. /\ m \in DOMAIN imports /\ imports[m].job = pass.job /\ imports[m].file = pass.file
      /\ pass.file \in Got(pass) /\ jobs[pass.job].status \notin Beyond
      /\ \A g \in Got(pass) : g < pass.file => HasRow(imports, pass.job, g)
  BY <1>1, <1>3 DEF Queues
<1>5. \A g \in Got(pass) : g \in Files /\ g \in Nat
  BY <1>2, TorrentAssumption DEF Files
<1> HIDE DEF m
<1>6. /\ imports' \in Seq(ImportRow) /\ Len(imports') = Len(imports)
      /\ DOMAIN imports' = DOMAIN imports
      /\ \A k \in DOMAIN imports : k # m => imports'[k] = imports[k]
      /\ imports'[m].linked /\ imports'[m].job = pass.job /\ imports'[m].file = pass.file
  <2> DEFINE row == [imports[m] EXCEPT !.linked = TRUE]
  <2>1. imports' = [imports EXCEPT ![m] = row]
    BY <1>1
  <2>2. imports[m] \in ImportRow
    BY <1>2, <1>4
  <2>3. row \in ImportRow /\ row.linked /\ row.job = pass.job /\ row.file = pass.file
    BY <1>4, <2>2 DEF ImportRow
  <2> HIDE DEF row
  <2>4. /\ imports' \in [1 .. Len(imports) -> ImportRow] /\ imports'[m] = row
        /\ \A k \in DOMAIN imports : k # m => imports'[k] = imports[k]
    BY <1>2, <1>4, <2>1, <2>3
  <2> QED
    BY <1>2, <2>3, <2>4
<1>7. RowsGrow(imports, imports')
  BY <1>4, <1>6 DEF RowsGrow
<1>8. ASSUME NEW i, i # pass.job, NoLive(imports, i) PROVE NoLive(imports', i)
  BY <1>6, <1>8 DEF NoLive
<1>9. \A k \in 1 .. pass.job - 1 : Fits(jobs', imports', leftOut', pass.seen[k].status, k)
  BY <1>1, <1>7, <1>8, EarlierFit
<1>10. HasRow(imports', pass.job, pass.file)
  BY <1>4, <1>6 DEF HasRow
<1>11. \A g \in Got(pass) : g < pass.file => HasRow(imports', pass.job, g)
  BY <1>4, <1>7, WholeKept
<1>12. \/ next = 0 /\ \A g \in Got(pass) : g <= pass.file
       \/ /\ next \in Got(pass) /\ next > pass.file
          /\ \A g \in Got(pass) : g <= pass.file \/ next <= g
  BY <1>2, <1>4, <1>5, FileAfterIs DEF Got
<1> HIDE DEF next
<1>13. \A g \in Got(pass) : at = "queued" \/ g < next => HasRow(imports', pass.job, g)
  <2>1. \A g \in Got(pass) : at = "queued" \/ g < next => g <= pass.file
    BY <1>4, <1>5, <1>12
  <2>2. \A g \in Got(pass) : g <= pass.file => g < pass.file \/ g = pass.file
    BY <1>4, <1>5
  <2> QED
    BY <1>10, <1>11, <2>1, <2>2
<1>14. at # "queued" => next \in Got(pass)
  BY <1>12
<1>15. at \in {"queued", "copy"} /\ next \in Files \cup {0}
  BY <1>5, <1>12
<1> HIDE DEF at
<1>16. /\ pass' \in Pass /\ pass'.at = at /\ pass'.job = pass.job /\ pass'.seen = pass.seen
       /\ pass'.view = pass.view /\ pass'.file = next
  <2>1. at \in PassStates /\ pass.row \in Nat
    BY <1>2, <1>15 DEF PassStates, Pass
  <2>2. [pass EXCEPT !.at = at, !.file = next] \in Pass
    BY <1>2, <1>15, <2>1, PassMoved
  <2> QED
    BY <1>1, <1>2, <2>2 DEF Pass
<1>17. TypeOK'
  BY <1>1, <1>2, <1>6, <1>16 DEF IInv, TypeOK
<1>18. Queues(pass', jobs', imports')
  BY <1>1, <1>4, <1>13, <1>14, <1>15, <1>16 DEF Queues, Got
<1>19. PassFits(pass', jobs', imports', leftOut')
  BY <1>1, <1>9, <1>15, <1>16, <1>18, PassStays
<1>20. JobsFit(jobs', imports', leftOut')
  <2>1. SUFFICES ASSUME NEW i \in DOMAIN jobs
                 PROVE  Fits(jobs, imports', leftOut, jobs[i].status, i)
    BY <1>1 DEF JobsFit
  <2>2. CASE i = pass.job
    BY <1>4, <2>2 DEF Fits, Beyond, Seeded
  <2>3. CASE i # pass.job
    <3>1. Fits(jobs, imports, leftOut, jobs[i].status, i)
      BY DEF IInv, JobsFit
    <3> QED
      BY <1>7, <1>8, <2>3, <3>1, FitsKept
  <2> QED
    BY <2>2, <2>3
<1> QED
  BY <1>17, <1>19, <1>20 DEF IInv

LEMMA QueuedKeeps ==
  ASSUME IInv, Queued
  PROVE  IInv'
<1>1. /\ pass.at = "queued" /\ pass' = [pass EXCEPT !.at = "count"]
      /\ UNCHANGED <<imports, staged, daemon, data, request, restarts>>
      /\ jobs' = [jobs EXCEPT ![pass.job].status = "importing"]
      /\ leftOut' = leftOut \cup {<<pass.job, f>> : f \in Files \ Got(pass)}
  BY DEF Queued, SyncKeeps, PassGoes, Got
<1>2. /\ pass \in Pass /\ jobs \in Seq(JobRow) /\ pass.job \in DOMAIN jobs
      /\ pass.job \in Ids
  BY <1>1, AtWork
<1>3. Written(jobs, jobs', pass.job, "importing")
  <2>1. "importing" \in JobStatuses
    BY DEF JobStatuses
  <2> QED
    BY <1>1, <1>2, <2>1, StatusWritten
<1>4. /\ pass' \in Pass /\ pass'.at = "count" /\ pass'.job = pass.job
      /\ pass'.seen = pass.seen /\ pass'.view = pass.view
  <2>1. "count" \in PassStates /\ pass.file \in Files \cup {0} /\ pass.row \in Nat
    BY <1>2 DEF PassStates, Pass
  <2>2. [pass EXCEPT !.at = "count"] \in Pass
    BY <1>2, <2>1, PassMoved
  <2> QED
    BY <1>1, <1>2, <2>2 DEF Pass
<1>5. TypeOK'
  BY <1>1, <1>2, <1>3, <1>4 DEF IInv, TypeOK, Written
<1>6. RowsGrow(imports, imports') /\ leftOut \subseteq leftOut'
  BY <1>1 DEF RowsGrow
<1>7. Whole(imports, leftOut', pass.job)
  <2>1. \A g \in Got(pass) : HasRow(imports, pass.job, g)
    BY <1>1 DEF IInv, PassFits, Queues
  <2> QED
    BY <1>1, <2>1 DEF Whole
<1>8. JobsFit(jobs', imports', leftOut')
  <2>1. "importing" \notin Seeded
    BY DEF Seeded
  <2> QED
    BY <1>1, <1>3, <1>6, <1>7, <2>1, JobsFitWritten
<1>9. \A k \in 1 .. pass.job - 1 : Fits(jobs', imports', leftOut', pass.seen[k].status, k)
  BY <1>1, <1>3, <1>6, EarlierFit DEF Written
<1>10. PassFits(pass', jobs', imports', leftOut')
  BY <1>1, <1>3, <1>4, <1>7, <1>9, PassStays DEF Written
<1> QED
  BY <1>5, <1>8, <1>10 DEF IInv

LEMMA QueueFailsKeeps ==
  ASSUME IInv, QueueFails
  PROVE  IInv'
<1>1. /\ pass.at = "failing" /\ PassOn /\ jobs' = [jobs EXCEPT ![pass.job].status = "failed"]
      /\ UNCHANGED <<imports, staged, leftOut, daemon, data, request, restarts>>
  BY DEF QueueFails, SyncKeeps
<1>2. jobs \in Seq(JobRow) /\ "failed" \in JobStatuses /\ "failed" \notin Beyond \cup Seeded
  BY DEF IInv, TypeOK, JobStatuses, Beyond, Seeded
<1>3. Written(jobs, jobs', pass.job, "failed")
  BY <1>1, <1>2, StatusWritten
<1>4. pass' \in Pass /\ PassFits(pass', jobs', imports', leftOut')
  BY <1>1, <1>3, PassOnFits DEF Written
<1>5. JobsFit(jobs', imports', leftOut')
  BY <1>1, <1>2, <1>3, JobsFitWritten
<1>6. TypeOK'
  BY <1>1, <1>3, <1>4 DEF IInv, TypeOK, Written
<1> QED
  BY <1>4, <1>5, <1>6 DEF IInv

\* Counting the imports, seeding, expiry.
LEMMA StagesKeep ==
  ASSUME IInv, Count \/ Seed \/ Expire \/ MarkExpired
  PROVE  IInv'
<1>1. /\ pass.at \in {"count", "seed", "expire", "marking"}
      /\ UNCHANGED <<imports, staged, leftOut, daemon, data, request, restarts>>
  BY DEF Count, Seed, Expire, MarkExpired, SyncKeeps
<1>2. /\ pass \in Pass /\ jobs \in Seq(JobRow) /\ pass.job \in DOMAIN jobs
      /\ pass.at \notin {"idle", "list"} /\ jobs[pass.job] \in JobRow
      /\ pass.file \in Files \cup {0} /\ pass.row \in Nat
  <2>1. pass.at \notin {"idle", "list"}
    BY <1>1
  <2>2. pass \in Pass /\ jobs \in Seq(JobRow) /\ pass.job \in DOMAIN jobs
    BY <2>1, AtWork
  <2> QED
    BY <2>1, <2>2 DEF Pass
<1>3. Whole(imports, leftOut, pass.job)
  BY <1>1, <1>2 DEF IInv, PassFits
<1>4. \A at \in PassStates : PassGoes(at) =>
         /\ pass' \in Pass /\ pass'.at = at /\ pass'.job = pass.job
         /\ pass'.seen = pass.seen /\ pass'.view = pass.view
  <2>1. ASSUME NEW at \in PassStates, PassGoes(at)
        PROVE  /\ pass' \in Pass /\ pass'.at = at /\ pass'.job = pass.job
               /\ pass'.seen = pass.seen /\ pass'.view = pass.view
    <3>1. [pass EXCEPT !.at = at] \in Pass
      BY <1>2, PassMoved
    <3> QED
      BY <1>2, <2>1, <3>1 DEF Pass, PassGoes
  <2> QED
    BY <2>1
<1>5. "seed" \in PassStates /\ "expire" \in PassStates /\ "marking" \in PassStates
  BY DEF PassStates
<1>6. RowsGrow(imports, imports')
  BY <1>1 DEF RowsGrow
<1>7. ASSUME jobs' \in Seq(JobRow), Len(jobs') = Len(jobs),
             \A k \in DOMAIN jobs : k # pass.job => jobs'[k] = jobs[k],
             JobsFit(jobs', imports', leftOut'),
             NEW at \in {"seed", "expire", "marking"},
             PassOn \/ (PassGoes(at) /\ NoLive(imports, pass.job))
      PROVE  IInv'
  <2>1. \A k \in 1 .. pass.job - 1 : Fits(jobs', imports', leftOut', pass.seen[k].status, k)
    BY <1>1, <1>2, <1>6, <1>7, EarlierFit
  <2>2. pass' \in Pass /\ PassFits(pass', jobs', imports', leftOut')
    <3>1. CASE PassOn
      BY <1>1, <1>2, <1>7, <3>1, PassOnFits
    <3>2. CASE PassGoes(at) /\ NoLive(imports, pass.job)
      <4>1. /\ pass' \in Pass /\ pass'.at = at /\ pass'.job = pass.job
            /\ pass'.seen = pass.seen /\ pass'.view = pass.view
        BY <1>4, <1>5, <1>7, <3>2
      <4> QED
        BY <1>1, <1>2, <1>3, <1>7, <2>1, <3>2, <4>1, PassStays
    <3> QED
      BY <1>7, <3>1, <3>2
  <2>3. TypeOK'
    BY <1>1, <1>7, <2>2 DEF IInv, TypeOK
  <2> QED
    BY <1>7, <2>2, <2>3 DEF IInv
<1>8. jobs' = jobs => /\ jobs' \in Seq(JobRow) /\ Len(jobs') = Len(jobs)
                      /\ \A k \in DOMAIN jobs : k # pass.job => jobs'[k] = jobs[k]
                      /\ JobsFit(jobs', imports', leftOut')
  BY <1>1, <1>2 DEF IInv
<1>9. pass.at \in {"seed", "expire", "marking"} => NoLive(imports, pass.job)
  BY <1>2 DEF IInv, PassFits
<1>10. CASE Count
  <2>1. jobs' = jobs
    BY <1>10 DEF Count
  <2>2. AllEnded(pass.job) => NoLive(imports, pass.job)
    BY DEF AllEnded, RowsOf, NoLive
  <2>3. PassOn \/ (PassGoes("seed") /\ NoLive(imports, pass.job))
    BY <1>10, <2>2 DEF Count
  <2> QED
    BY <1>7, <1>8, <2>1, <2>3
<1>11. CASE Seed
  <2> DEFINE u == IF jobs[pass.job].seedUntil = "none" THEN "running" ELSE jobs[pass.job].seedUntil
  <2>1. "seeding" \in JobStatuses /\ u \in Periods
    BY <1>2 DEF JobStatuses, Periods, JobRow
  <2>2. jobs' = [jobs EXCEPT ![pass.job].status = "seeding", ![pass.job].seedUntil = u]
    BY <1>2, <1>11 DEF Seed, JobRow
  <2> HIDE DEF u
  <2>3. Written(jobs, jobs', pass.job, "seeding")
    BY <1>2, <2>1, <2>2, SeedWritten
  <2>4. NoLive(imports, pass.job)
    BY <1>9, <1>11 DEF Seed
  <2>5. JobsFit(jobs', imports', leftOut')
    BY <1>1, <1>3, <2>3, <2>4, JobsFitWritten
  <2>6. PassOn \/ (PassGoes("expire") /\ NoLive(imports, pass.job))
    BY <1>11, <2>4 DEF Seed
  <2> QED
    BY <1>7, <2>3, <2>5, <2>6 DEF Written
<1>12. CASE Expire
  <2>1. jobs' = jobs
    BY <1>12 DEF Expire
  <2>2. PassOn \/ (PassGoes("marking") /\ NoLive(imports, pass.job))
    BY <1>9, <1>12 DEF Expire
  <2> QED
    BY <1>7, <1>8, <2>1, <2>2
<1>13. CASE MarkExpired
  <2>1. Written(jobs, jobs', pass.job, "expired")
    <3>1. "expired" \in JobStatuses /\ jobs' = [jobs EXCEPT ![pass.job].status = "expired"]
      BY <1>13 DEF JobStatuses, MarkExpired
    <3> QED
      BY <1>2, <3>1, StatusWritten
  <2>2. NoLive(imports, pass.job)
    BY <1>9, <1>13 DEF MarkExpired
  <2>3. JobsFit(jobs', imports', leftOut')
    BY <1>1, <1>3, <2>1, <2>2, JobsFitWritten
  <2>4. PassOn \/ (PassGoes("marking") /\ NoLive(imports, pass.job))
    BY <1>13 DEF MarkExpired
  <2> QED
    BY <1>7, <2>1, <2>3, <2>4 DEF Written
<1> QED
  BY <1>10, <1>11, <1>12, <1>13

-----------------------------------------------------------------------------
LEMMA InitHolds == Init => IInv
<1> SUFFICES ASSUME Init PROVE IInv
  OBVIOUS
<1>1. Absent \in Torrent
  BY DEF Absent, Torrent
<1>2. /\ << >> \in Seq(JobRow) /\ << >> \in Seq(ImportRow)
      /\ Len(<< >>) = 0 /\ DOMAIN << >> = {}
  OBVIOUS
<1>3. request \in [Requests -> RequestRow]
  BY IdleRequestTyped DEF Init
<1>4. TypeOK
  BY <1>1, <1>2, <1>3, IdleIs, TorrentAssumption DEF Init, TypeOK, RequestRow
<1>5. JobsFit(jobs, imports, leftOut)
  BY <1>2 DEF Init, JobsFit
<1>6. PassFits(pass, jobs, imports, leftOut)
  BY DEF Init, PassFits, IdlePass
<1> QED
  BY <1>4, <1>5, <1>6 DEF IInv

LEMMA StepKeeps == IInv /\ [Next]_vars => IInv'
<1> SUFFICES ASSUME IInv, [Next]_vars PROVE IInv'
  OBVIOUS
<1>1. CASE \E r \in Requests : Handle(r)
  BY <1>1, HandlersKeep
<1>2. CASE Sync
  BY <1>2, ListingKeeps, CopyKeeps, RowKeeps, LinkKeeps, QueuedKeeps, QueueFailsKeeps,
     StagesKeep DEF Sync
<1>3. CASE \E i \in DOMAIN jobs : Extend(i) \/ SeedPeriodEnds(i)
  BY <1>3, UsersKeep
<1>4. CASE \E t \in TorrentSet : AlmostDone(t) \/ Completes(t)
  BY <1>4, DaemonKeeps
<1>5. CASE \E k \in DOMAIN imports : ImportEnds(k) \/ ImportAgain(k)
  BY <1>5, WorkersKeep
<1>6. CASE Die
  BY <1>6, DeathKeeps
<1>7. CASE UNCHANGED vars
  <2>1. UNCHANGED <<jobs, imports, staged, daemon, data, pass, request, restarts, leftOut>>
    BY <1>7 DEF vars
  <2>2. TypeOK'
    BY <2>1 DEF IInv, TypeOK
  <2> QED
    BY <2>1, <2>2, QuietElse
<1> QED
  BY <1>1, <1>2, <1>3, <1>4, <1>5, <1>6, <1>7 DEF Next

LEMMA InvariantAlways == Spec => []IInv
BY InitHolds, StepKeeps, PTL DEF Spec

(* Every variable keeps to its type: a pass never names a job, a file or a *)
(* row that does not exist, whatever happens to the tables under it.       *)
THEOREM TypeCorrect == Spec => []TypeOK
<1>1. IInv => TypeOK
  BY DEF IInv
<1> QED
  BY <1>1, InvariantAlways, PTL

(* queueImports and its failures: a job that is importing or beyond has    *)
(* queued every file of its torrent that was complete when it was queued.  *)
THEOREM WholeTorrentQueuedAlways == Spec => []WholeTorrentQueued
<1>1. IInv => WholeTorrentQueued
  <2>1. SUFFICES ASSUME IInv, NEW i \in DOMAIN jobs,
                        jobs[i].status \in {"importing", "seeding", "expired"}, NEW f \in Files
                 PROVE  <<i, f>> \in leftOut \/ \E k \in RowsOf(i) : imports[k].file = f
    BY DEF WholeTorrentQueued
  <2>2. Whole(imports, leftOut, i)
    BY <2>1 DEF IInv, JobsFit, Fits, Beyond
  <2> QED
    BY <2>2 DEF Whole, HasRow, RowsOf
<1> QED
  BY <1>1, InvariantAlways, PTL

(* The count of unfinished imports in sync: a job seeds only after each of *)
(* its imports has ended.                                                  *)
THEOREM SeedsAfterImportsAlways == Spec => []SeedsAfterImports
<1>1. IInv => SeedsAfterImports
  <2>1. SUFFICES ASSUME IInv, NEW i \in DOMAIN jobs, jobs[i].status \in {"seeding", "expired"},
                        NEW k \in RowsOf(i)
                 PROVE  imports[k].status # "live"
    BY DEF SeedsAfterImports
  <2>2. NoLive(imports, i)
    BY <2>1 DEF IInv, JobsFit, Fits, Seeded
  <2> QED
    BY <2>2 DEF NoLive, RowsOf
<1> QED
  BY <1>1, InvariantAlways, PTL

(* The writes of sync and of the handlers are not tied to the status they  *)
(* were decided on; still only a pass that had listed the job before its   *)
(* deletion, or the Add that made it, writes over "deleted".               *)
THEOREM DeletedSparedAlways == Spec => DeletedSpared
<1> DEFINE Spared ==
      \A i \in DOMAIN jobs : jobs[i].status = "deleted" /\ jobs'[i].status # "deleted" =>
          \/ pass.job = i /\ pass.seen[i].status # "deleted"
          \/ \E r \in Requests : request[r].job = i /\ request[r].at \in {"added", "refused"}
<1>1. ASSUME IInv, [Next]_vars PROVE [Spared]_vars
  <2>1. SUFFICES ASSUME NEW i \in DOMAIN jobs, jobs[i].status = "deleted",
                        jobs'[i].status # "deleted"
                 PROVE  \/ pass.job = i /\ pass.seen[i].status # "deleted"
                        \/ \E r \in Requests : request[r].job = i
                                              /\ request[r].at \in {"added", "refused"}
    OBVIOUS
  <2>2. jobs \in Seq(JobRow) /\ Len(jobs) \in Nat /\ DOMAIN jobs = 1 .. Len(jobs)
    BY <1>1 DEF IInv, TypeOK
  <2>3. jobs' # jobs
    BY <2>1
  <2>4. CASE \E r \in Requests : Handle(r)
    <3>1. PICK r \in Requests : Handle(r)
      BY <2>4
    <3>2. CASE AddInsert(r)
      BY <2>1, <2>2, <3>2 DEF AddInsert
    <3>3. CASE AddDone(r) \/ AddFailed(r) \/ DeleteMark(r)
      <4>1. \A k \in DOMAIN jobs : k # request[r].job => jobs'[k] = jobs[k]
        BY <2>2, <3>3 DEF AddDone, AddFailed, DeleteMark
      <4>2. request[r].job = i
        BY <2>1, <4>1
      <4>3. CASE AddDone(r) \/ AddFailed(r)
        BY <4>2, <4>3 DEF AddDone, AddFailed
      <4>4. CASE DeleteMark(r)
        <5>1. Written(jobs, jobs', i, "deleted")
          <6>1. jobs' = [jobs EXCEPT ![i].status = "deleted"] /\ "deleted" \in JobStatuses
            BY <4>2, <4>4 DEF DeleteMark, JobStatuses
          <6> QED
            BY <2>2, <6>1, StatusWritten
        <5> QED
          BY <2>1, <5>1 DEF Written
      <4> QED
        BY <3>3, <4>3, <4>4
    <3> QED
      BY <2>3, <3>1, <3>2, <3>3
         DEF Handle, AddCall, RequestCut, DeleteRead, DeleteRemove, DeleteWipe
  <2>5. CASE Sync
    <3>1. pass.at \notin {"idle", "list"} /\ pass.job = i
      BY <2>1, <2>2, <2>3, <2>5
         DEF Sync, SyncFetch, SyncList, Copy, CreateRow, Link, Queued, QueueFails, Count,
             Seed, Expire, MarkExpired
    <3>2. pass.seen[i].status \notin {"deleted", "failed"}
      BY <1>1, <3>1 DEF IInv, PassFits
    <3> QED
      BY <3>1, <3>2
  <2>6. CASE \E k \in DOMAIN jobs : Extend(k) \/ SeedPeriodEnds(k)
    <3>1. PICK k \in DOMAIN jobs : Extend(k) \/ SeedPeriodEnds(k)
      BY <2>6
    <3>2. \A m \in DOMAIN jobs : m # k => jobs'[m] = jobs[m]
      BY <2>2, <3>1 DEF Extend, SeedPeriodEnds
    <3>3. k = i
      BY <2>1, <3>2
    <3>4. jobs' = [jobs EXCEPT ![i].seedUntil = "over"]
      BY <2>1, <3>1, <3>3 DEF Extend, SeedPeriodEnds
    <3>5. jobs[i] \in JobRow
      BY <2>2
    <3>6. jobs'[i].status = jobs[i].status
      BY <2>2, <3>4, <3>5 DEF JobRow
    <3> QED
      BY <2>1, <3>6
  <2>7. CASE \E t \in TorrentSet : AlmostDone(t) \/ Completes(t)
    BY <2>3, <2>7 DEF AlmostDone, Completes
  <2>8. CASE \E k \in DOMAIN imports : ImportEnds(k) \/ ImportAgain(k)
    BY <2>3, <2>8 DEF ImportEnds, ImportAgain
  <2>9. CASE Die
    BY <2>3, <2>9 DEF Die
  <2>10. CASE UNCHANGED vars
    BY <2>3, <2>10 DEF vars
  <2> QED
    BY <1>1, <2>4, <2>5, <2>6, <2>7, <2>8, <2>9, <2>10 DEF Next
<1> HIDE DEF Spared
<1>2. Spec => [][Spared]_vars
  BY <1>1, InvariantAlways, PTL DEF Spec
<1> QED
  BY <1>2 DEF DeletedSpared, Spared
=============================================================================
