--------------------------- MODULE AudioZonesProofs ---------------------------
(***************************************************************************)
(* For any zones, sources, settings and number of requests: however deaths *)
(* and restarts of mpv fall between the calls that fan out and the requests*)
(* for settings, a zone sounds as it is set, what was applied is saved, and*)
(* zones do not play different sources.                                    *)
(***************************************************************************)
EXTENDS AudioZones, TLAPS

-----------------------------------------------------------------------------
(* The inductive invariant.                                                *)

Ops   == {"none", "play", "stop", "restore", "volume"}
Calls == {"play", "stop", "restore"}
Mutes == BOOLEAN \cup {Unset}

SupRow   == [at : SupStates, volume : Int, muted : Mutes, ovolume : Int, omuted : Mutes]
ProcRow  == [alive : BOOLEAN, volume : Int, muted : Mutes, source : Sources \cup {None}]
CtlRow   == [op : Ops, source : Sources \cup {None}, todo : SUBSET Enabled,
             stored : SUBSET Enabled, ok : BOOLEAN]
PatchRow == [at : PatchStates, zone : Zones, trim : Trims \cup {Unset}, muted : Mutes,
             device : Choices \cup {Unset}, volume : Int, row : Settings]

Types ==
    /\ conf \in [Zones -> Settings] /\ saved \in [Zones -> Settings]
    /\ master \in Volumes \cup {DefaultVolume}
    /\ playing \in Sources \cup {None} /\ reload \in BOOLEAN
    /\ sup \in [Zones -> SupRow] /\ proc \in [Zones -> ProcRow]
    /\ ctl \in CtlRow /\ patch \in [Callers -> PatchRow]

\* A process runs where its supervisor has one, and plays nothing otherwise.
Processes ==
    \A z \in Zones : /\ sup[z].at = "off" <=> z \notin Enabled
                     /\ proc[z].alive <=> sup[z].at = "up"
                     /\ ~ proc[z].alive => proc[z].source = None

Sets(c, z) == patch[c].at # "idle" /\ patch[c].zone = z

\* What the calls in progress are about.
Requests ==
    /\ ctl.op # "volume" => ctl.stored = {}
    /\ ctl.op = "none" => ctl.todo = {}
    /\ \A c \in Callers :
          /\ patch[c].at # "idle" => patch[c].zone \in Enabled
          /\ patch[c].at \in {"mute", "muteStored"} => patch[c].muted # Unset

\* Of a zone whose changes are all saved, one request at a time sets it, and what
\* it has read to save is what runs.
Saves(z) ==
    z \notin unsaved =>
        /\ \A c, d \in Callers : Sets(c, z) /\ Sets(d, z) => c = d
        /\ \A c \in Callers : Sets(c, z) /\ patch[c].at = "read" =>
              patch[c].row.trim = conf[z].trim /\ patch[c].row.muted = conf[z].muted
        /\ ~ Setting(z) => saved[z].trim = conf[z].trim /\ saved[z].muted = conf[z].muted

\* Of a zone that missed nothing, one call at a time sets the volume.
Alone(z) ==
    /\ \A c, d \in Callers : Sets(c, z) /\ Sets(d, z) => c = d
    /\ ctl.op = "volume" => \A c \in Callers : ~ Sets(c, z)

\* The volume is to be stored for the next start; it is, and is on its way to mpv.
VolumeDue(z)  == \/ ctl.op = "volume" /\ z \in ctl.todo
                 \/ \E c \in Callers : Sets(c, z) /\ patch[c].at = "volume"
VolumeSoon(z) == \/ ctl.op = "volume" /\ z \in ctl.stored
                 \/ \E c \in Callers : Sets(c, z) /\ patch[c].at = "volumeStored"

Level(z) ==
    /\ ~ VolumeDue(z) => sup[z].volume = Effective(z)
    /\ proc[z].alive /\ ~ VolumeSoon(z) => proc[z].volume = sup[z].volume
    /\ sup[z].at = "starting" => sup[z].ovolume = sup[z].volume
    /\ \A c \in Callers : Sets(c, z) /\ patch[c].at \in {"volume", "volumeStored"} =>
          patch[c].volume = Effective(z)

MuteStates == {"volume", "volumeStored", "mute"}
SetsMute(c, z) == Sets(c, z) /\ patch[c].muted # Unset
MuteDue(z)  == \E c \in Callers : SetsMute(c, z) /\ patch[c].at \in MuteStates
MuteSoon(z) == \E c \in Callers : SetsMute(c, z) /\ patch[c].at = "muteStored"

Quieted(z) ==
    /\ ~ MuteDue(z) => sup[z].muted = conf[z].muted
    /\ proc[z].alive /\ ~ MuteSoon(z) => proc[z].muted = sup[z].muted
    /\ sup[z].at = "starting" => sup[z].omuted = sup[z].muted
    /\ \A c \in Callers : SetsMute(c, z) /\ patch[c].at \in MuteStates \cup {"muteStored"} =>
          patch[c].muted = conf[z].muted

Sounds(z) == z \notin amiss => Alone(z) /\ Level(z) /\ Quieted(z)

\* Zones that a call has reached play what it said or nothing; the primary plays
\* it, unless its mpv is gone or has been restarted since.
Plays ==
    /\ ctl.op \in Calls =>
          /\ \A z \in Enabled \ ctl.todo : proc[z].source \in {ctl.source, None}
          /\ Primary \notin ctl.todo /\ proc[Primary].alive /\ ~ reload =>
                proc[Primary].source = ctl.source
    /\ ctl.op \notin Calls /\ proc[Primary].alive /\ ~ reload /\ playing # None =>
          \A z \in Enabled : proc[z].source \in {proc[Primary].source, None}

IInv ==
    /\ Types /\ Processes /\ Requests /\ Plays
    /\ \A z \in Zones : Saves(z)
    /\ \A z \in Enabled : Sounds(z)

-----------------------------------------------------------------------------
(* Rows that change in one field.                                          *)

SupAt(s, at)     == [s EXCEPT !.at = at]
SupVolume(s, v)  == [s EXCEPT !.volume = v]
SupMuted(s, m)   == [s EXCEPT !.muted = m]
ProcVolume(p, v) == [p EXCEPT !.volume = v]
ProcMuted(p, m)  == [p EXCEPT !.muted = m]
ProcSource(p, s) == [p EXCEPT !.source = s]
PatchAt(q, at)   == [q EXCEPT !.at = at]

LEMMA SupAtIs ==
  ASSUME NEW s \in SupRow, NEW at \in SupStates
  PROVE  /\ SupAt(s, at) \in SupRow /\ SupAt(s, at).at = at
         /\ SupAt(s, at).volume = s.volume /\ SupAt(s, at).muted = s.muted
         /\ SupAt(s, at).ovolume = s.ovolume /\ SupAt(s, at).omuted = s.omuted
BY DEF SupAt, SupRow

LEMMA SupVolumeIs ==
  ASSUME NEW s \in SupRow, NEW v \in Int
  PROVE  /\ SupVolume(s, v) \in SupRow /\ SupVolume(s, v).at = s.at
         /\ SupVolume(s, v).volume = v /\ SupVolume(s, v).muted = s.muted
         /\ SupVolume(s, v).ovolume = s.ovolume /\ SupVolume(s, v).omuted = s.omuted
BY DEF SupVolume, SupRow

LEMMA SupMutedIs ==
  ASSUME NEW s \in SupRow, NEW m \in Mutes
  PROVE  /\ SupMuted(s, m) \in SupRow /\ SupMuted(s, m).at = s.at
         /\ SupMuted(s, m).volume = s.volume /\ SupMuted(s, m).muted = m
         /\ SupMuted(s, m).ovolume = s.ovolume /\ SupMuted(s, m).omuted = s.omuted
BY DEF SupMuted, SupRow

LEMMA ProcVolumeIs ==
  ASSUME NEW p \in ProcRow, NEW v \in Int
  PROVE  /\ ProcVolume(p, v) \in ProcRow /\ (ProcVolume(p, v).alive <=> p.alive)
         /\ ProcVolume(p, v).volume = v /\ ProcVolume(p, v).muted = p.muted
         /\ ProcVolume(p, v).source = p.source
BY DEF ProcVolume, ProcRow

LEMMA ProcMutedIs ==
  ASSUME NEW p \in ProcRow, NEW m \in Mutes
  PROVE  /\ ProcMuted(p, m) \in ProcRow /\ (ProcMuted(p, m).alive <=> p.alive)
         /\ ProcMuted(p, m).volume = p.volume /\ ProcMuted(p, m).muted = m
         /\ ProcMuted(p, m).source = p.source
BY DEF ProcMuted, ProcRow

LEMMA ProcSourceIs ==
  ASSUME NEW p \in ProcRow, NEW s \in Sources \cup {None}
  PROVE  /\ ProcSource(p, s) \in ProcRow /\ (ProcSource(p, s).alive <=> p.alive)
         /\ ProcSource(p, s).volume = p.volume /\ ProcSource(p, s).muted = p.muted
         /\ ProcSource(p, s).source = s
BY DEF ProcSource, ProcRow

LEMMA PatchAtIs ==
  ASSUME NEW q \in PatchRow, NEW at \in PatchStates
  PROVE  /\ PatchAt(q, at) \in PatchRow /\ PatchAt(q, at).at = at /\ PatchAt(q, at).zone = q.zone
         /\ PatchAt(q, at).trim = q.trim /\ PatchAt(q, at).muted = q.muted
         /\ PatchAt(q, at).device = q.device /\ PatchAt(q, at).volume = q.volume
         /\ PatchAt(q, at).row = q.row
BY DEF PatchAt, PatchRow

LEMMA OneField ==
  ASSUME Types, NEW z \in Zones, NEW e
  PROVE  /\ [sup EXCEPT ![z].at = e] = [sup EXCEPT ![z] = SupAt(sup[z], e)]
         /\ [sup EXCEPT ![z].volume = e] = [sup EXCEPT ![z] = SupVolume(sup[z], e)]
         /\ [sup EXCEPT ![z].muted = e] = [sup EXCEPT ![z] = SupMuted(sup[z], e)]
         /\ [proc EXCEPT ![z].volume = e] = [proc EXCEPT ![z] = ProcVolume(proc[z], e)]
         /\ [proc EXCEPT ![z].muted = e] = [proc EXCEPT ![z] = ProcMuted(proc[z], e)]
         /\ [proc EXCEPT ![z].source = e] = [proc EXCEPT ![z] = ProcSource(proc[z], e)]
BY DEF Types, SupAt, SupVolume, SupMuted, ProcVolume, ProcMuted, ProcSource

LEMMA PatchField ==
  ASSUME Types, NEW c \in Callers, NEW e
  PROVE  [patch EXCEPT ![c].at = e] = [patch EXCEPT ![c] = PatchAt(patch[c], e)]
BY DEF Types, PatchAt

LEMMA ClampIs ==
  ASSUME NEW v \in Int
  PROVE  Clamp(v) \in Int
BY ZonesAssumption DEF Clamp

LEMMA EffectiveIs ==
  ASSUME Types, NEW z \in Zones
  PROVE  /\ master \in Int /\ conf[z].trim \in Int /\ Effective(z) \in Int
         /\ conf[z].muted \in Mutes /\ conf[z] \in Settings
<1>1. master \in Int
  BY ZonesAssumption DEF Types
<1>2. conf[z] \in Settings
  BY DEF Types
<1>3. conf[z].trim \in Int
  BY <1>2, ZonesAssumption DEF Settings
<1>4. conf[z].muted \in Mutes
  BY <1>2 DEF Settings, Mutes
<1> QED
  BY <1>1, <1>2, <1>3, <1>4, ClampIs DEF Effective

\* What a process and its supervisor hold once a request is at x, for a zone at
\* this volume and muted so.
Fits(x, s, p, level, mute) ==
    /\ x.at # "volume" => s.volume = level
    /\ p.alive /\ x.at # "volumeStored" => p.volume = s.volume
    /\ s.at = "starting" => s.ovolume = s.volume /\ s.omuted = s.muted
    /\ x.at \in {"volume", "volumeStored"} => x.volume = level
    /\ x.muted = Unset \/ x.at \notin MuteStates => s.muted = mute
    /\ p.alive /\ (x.muted = Unset \/ x.at # "muteStored") => p.muted = s.muted
    /\ x.muted # Unset /\ x.at \in MuteStates \cup {"muteStored"} => x.muted = mute

LEMMA FitsWhere ==
  ASSUME NEW z \in Zones, NEW c \in Callers, Sets(c, z), Alone(z), Level(z), Quieted(z)
  PROVE  Fits(patch[c], sup[z], proc[z], Effective(z), conf[z].muted)
<1>1. \A d \in Callers : Sets(d, z) => d = c
  BY DEF Alone
<1>2. ctl.op # "volume"
  BY DEF Alone
<1>3. (VolumeDue(z) => patch[c].at = "volume") /\ (VolumeSoon(z) => patch[c].at = "volumeStored")
  BY <1>1, <1>2 DEF VolumeDue, VolumeSoon
<1>4. /\ MuteDue(z) => patch[c].muted # Unset /\ patch[c].at \in MuteStates
      /\ MuteSoon(z) => patch[c].muted # Unset /\ patch[c].at = "muteStored"
  BY <1>1 DEF MuteDue, MuteSoon, SetsMute
<1>5. /\ sup[z].at = "starting" => sup[z].ovolume = sup[z].volume /\ sup[z].omuted = sup[z].muted
      /\ patch[c].at # "volume" => sup[z].volume = Effective(z)
      /\ proc[z].alive /\ patch[c].at # "volumeStored" => proc[z].volume = sup[z].volume
      /\ patch[c].at \in {"volume", "volumeStored"} => patch[c].volume = Effective(z)
  BY <1>3 DEF Level, Quieted
<1>6. /\ patch[c].muted = Unset \/ patch[c].at \notin MuteStates => sup[z].muted = conf[z].muted
      /\ proc[z].alive /\ (patch[c].muted = Unset \/ patch[c].at # "muteStored") =>
            proc[z].muted = sup[z].muted
      /\ patch[c].muted # Unset /\ patch[c].at \in MuteStates \cup {"muteStored"} =>
            patch[c].muted = conf[z].muted
  BY <1>4 DEF Quieted, SetsMute
<1> QED
  BY <1>5, <1>6 DEF Fits

LEMMA FitsThere ==
  ASSUME NEW z \in Zones, NEW c \in Callers, \A d \in Callers : d # c => ~ Sets(d, z)',
         Sets(c, z)' \/ patch'[c].at = "idle", ctl'.op # "volume",
         Fits(patch'[c], sup'[z], proc'[z], Effective(z)', conf'[z].muted)
  PROVE  Alone(z)' /\ Level(z)' /\ Quieted(z)'
<1>1. Alone(z)'
  BY DEF Alone
<1>2. /\ patch'[c].at = "volume" => VolumeDue(z)'
      /\ patch'[c].at = "volumeStored" => VolumeSoon(z)'
  BY DEF VolumeDue, VolumeSoon
<1>3. /\ patch'[c].muted # Unset /\ patch'[c].at \in MuteStates => MuteDue(z)'
      /\ patch'[c].muted # Unset /\ patch'[c].at = "muteStored" => MuteSoon(z)'
  BY DEF MuteDue, MuteSoon, SetsMute, MuteStates
<1>4. Level(z)'
  BY <1>2 DEF Level, Fits
<1>5. Quieted(z)'
  BY <1>3 DEF Quieted, Fits, SetsMute
<1> QED
  BY <1>1, <1>4, <1>5

-----------------------------------------------------------------------------
(* What a step leaves alone.                                               *)

LEMMA SoundsFrame ==
  ASSUME NEW z \in Zones, Sounds(z), z \in amiss => z \in amiss',
         sup'[z].volume = sup[z].volume, sup'[z].muted = sup[z].muted,
         sup'[z].at = "starting" =>
            \/ sup'[z].ovolume = sup'[z].volume /\ sup'[z].omuted = sup'[z].muted
            \/ sup'[z] = sup[z],
         proc'[z].alive => \/ proc'[z].volume = sup'[z].volume /\ proc'[z].muted = sup'[z].muted
                           \/ /\ proc[z].alive
                              /\ proc'[z].volume = proc[z].volume /\ proc'[z].muted = proc[z].muted,
         UNCHANGED master, conf'[z] = conf[z],
         ctl'.op = "volume" => ctl.op = "volume",
         ctl.op = "volume" /\ z \in ctl.todo => ctl'.op = "volume" /\ z \in ctl'.todo,
         ctl.op = "volume" /\ z \in ctl.stored => ctl'.op = "volume" /\ z \in ctl'.stored,
         \A d \in Callers : (Sets(d, z) \/ Sets(d, z)') => patch'[d] = patch[d]
  PROVE  Sounds(z)'
<1> SUFFICES ASSUME z \notin amiss'
             PROVE  Alone(z)' /\ Level(z)' /\ Quieted(z)'
  BY DEF Sounds
<1>1. Alone(z) /\ Level(z) /\ Quieted(z)
  BY DEF Sounds
<1>2. \A d \in Callers : (Sets(d, z)' => Sets(d, z)) /\ (Sets(d, z) => Sets(d, z)')
  BY DEF Sets
<1>3. Alone(z)'
  BY <1>1, <1>2 DEF Alone
<1>4. (VolumeDue(z) => VolumeDue(z)') /\ (VolumeSoon(z) => VolumeSoon(z)')
  BY <1>2 DEF VolumeDue, VolumeSoon
<1>5. Effective(z)' = Effective(z)
  BY DEF Effective
<1>6. Level(z)'
  BY <1>1, <1>2, <1>4, <1>5 DEF Level
<1>7. (MuteDue(z) => MuteDue(z)') /\ (MuteSoon(z) => MuteSoon(z)')
  BY <1>2 DEF MuteDue, MuteSoon, SetsMute
<1>8. Quieted(z)'
  BY <1>1, <1>2, <1>7 DEF Quieted, SetsMute
<1> QED
  BY <1>3, <1>6, <1>8

LEMMA SavesFrame ==
  ASSUME NEW z \in Zones, Saves(z), z \in unsaved => z \in unsaved',
         conf'[z] = conf[z], saved'[z] = saved[z],
         \A d \in Callers : (Sets(d, z) \/ Sets(d, z)') => patch'[d] = patch[d]
  PROVE  Saves(z)'
<1>1. \A d \in Callers : (Sets(d, z)' => Sets(d, z)) /\ (Sets(d, z) => Sets(d, z)')
  BY DEF Sets
<1>2. Setting(z)' <=> Setting(z)
  BY <1>1 DEF Setting, Sets
<1> QED
  BY <1>1, <1>2 DEF Saves

LEMMA PlaysFrame ==
  ASSUME Plays, UNCHANGED <<ctl, playing>>, reload => reload',
         \A z \in Zones : proc'[z].source \in {proc[z].source, None},
         proc'[Primary].alive =>
            reload' \/ (proc[Primary].alive /\ proc'[Primary].source = proc[Primary].source),
         Enabled \subseteq Zones
  PROVE  Plays'
BY DEF Plays

-----------------------------------------------------------------------------
(* The supervisors.                                                        *)

\* A step of the supervisor of a zone: its mpv goes, or is started with what it is
\* to sound like.
LEMMA Supervises ==
  ASSUME IInv, NEW z \in Enabled, NEW s \in SupRow, NEW p \in ProcRow,
         sup' = [sup EXCEPT ![z] = s], proc' = [proc EXCEPT ![z] = p],
         UNCHANGED <<conf, saved, master, ctl, playing, patch, amiss, unsaved>>,
         reload' \in BOOLEAN, reload => reload', z = Primary /\ p.alive => reload',
         s.at # "off", p.alive <=> s.at = "up", p.source = None,
         s.volume = sup[z].volume, s.muted = sup[z].muted,
         s.at = "starting" => s.ovolume = s.volume /\ s.omuted = s.muted,
         p.alive /\ z \notin amiss => p.volume = s.volume /\ p.muted = s.muted
  PROVE  IInv'
<1>1. /\ z \in Zones /\ Enabled \subseteq Zones
      /\ sup' \in [Zones -> SupRow] /\ proc' \in [Zones -> ProcRow]
  BY ZonesAssumption DEF IInv, Types
<1>2. sup'[z] = s /\ \A y \in Zones : y # z => sup'[y] = sup[y]
  BY <1>1 DEF IInv, Types
<1>3. proc'[z] = p /\ \A y \in Zones : y # z => proc'[y] = proc[y]
  BY <1>1 DEF IInv, Types
<1>4. Types'
  BY <1>1 DEF IInv, Types
<1>5. Processes'
  BY <1>1, <1>2, <1>3 DEF IInv, Processes
<1>6. Requests'
  BY DEF IInv, Requests
<1>7. Plays'
  BY <1>1, <1>2, <1>3, PlaysFrame DEF IInv
<1>8. \A y \in Zones : Saves(y)'
  BY SavesFrame DEF IInv
<1>9. ASSUME NEW y \in Enabled
      PROVE  Sounds(y)'
  <2>1. Sounds(y) /\ y \in Zones
    BY <1>1 DEF IInv
  <2>2. CASE y # z
    BY <1>2, <1>3, <2>1, <2>2, SoundsFrame
  <2>3. CASE y = z /\ z \in amiss
    BY <2>3 DEF Sounds
  <2>4. CASE y = z /\ z \notin amiss
    BY <1>2, <1>3, <2>1, <2>4, SoundsFrame
  <2> QED
    BY <2>2, <2>3, <2>4
<1> QED
  BY <1>4, <1>5, <1>6, <1>7, <1>8, <1>9 DEF IInv

LEMMA SupervisorKeeps ==
  ASSUME IInv, NEW z \in Enabled, Supervise(z) \/ Crash(z) \/ StartFails(z)
  PROVE  IInv'
<1>1. z \in Zones /\ sup[z] \in SupRow /\ proc[z] \in ProcRow /\ Types /\ reload \in BOOLEAN
  BY ZonesAssumption DEF IInv, Types
<1>2. /\ proc[z].alive <=> sup[z].at = "up"
      /\ ~ proc[z].alive => proc[z].source = None
  BY <1>1 DEF IInv, Processes
<1>3. 0 \in Int /\ None \in Sources \cup {None} /\ FALSE \in Mutes
  BY DEF Mutes
<1>4. proc = [proc EXCEPT ![z] = proc[z]]
  BY <1>1 DEF Types
<1>5. CASE Crash(z)
  <2> DEFINE s == SupAt(sup[z], "exited")
             p == [alive |-> FALSE, volume |-> 0, muted |-> FALSE, source |-> None]
  <2>1. /\ sup' = [sup EXCEPT ![z] = s] /\ proc' = [proc EXCEPT ![z] = p]
        /\ UNCHANGED <<conf, saved, master, ctl, playing, reload, patch, amiss, unsaved>>
    BY <1>1, <1>5, OneField DEF Crash
  <2>2. /\ s \in SupRow /\ s.at = "exited"
        /\ s.volume = sup[z].volume /\ s.muted = sup[z].muted
    BY <1>1, SupAtIs DEF SupStates
  <2>3. p \in ProcRow /\ ~ p.alive /\ p.source = None
    BY <1>3 DEF ProcRow
  <2> HIDE DEF s, p
  <2> QED
    BY <1>1, <2>1, <2>2, <2>3, Supervises
<1>6. CASE Watch(z)
  <2> DEFINE s == SupAt(sup[z], "down")
  <2>1. /\ sup' = [sup EXCEPT ![z] = s] /\ proc' = [proc EXCEPT ![z] = proc[z]]
        /\ sup[z].at = "exited"
        /\ UNCHANGED <<conf, saved, master, ctl, playing, reload, patch, amiss, unsaved>>
    BY <1>1, <1>4, <1>6, OneField DEF Watch
  <2>2. /\ s \in SupRow /\ s.at = "down"
        /\ s.volume = sup[z].volume /\ s.muted = sup[z].muted
    BY <1>1, SupAtIs DEF SupStates
  <2> HIDE DEF s
  <2> QED
    BY <1>1, <1>2, <2>1, <2>2, Supervises
<1>7. CASE ReadOptions(z)
  <2> DEFINE s == CurrentOptions(z)
  <2>1. /\ sup' = [sup EXCEPT ![z] = s] /\ proc' = [proc EXCEPT ![z] = proc[z]]
        /\ sup[z].at = "down"
        /\ UNCHANGED <<conf, saved, master, ctl, playing, reload, patch, amiss, unsaved>>
    BY <1>4, <1>7 DEF ReadOptions
  <2>2. /\ s \in SupRow /\ s.at = "starting"
        /\ s.volume = sup[z].volume /\ s.muted = sup[z].muted
        /\ s.ovolume = sup[z].volume /\ s.omuted = sup[z].muted
    BY <1>1 DEF CurrentOptions, SupRow, SupStates
  <2> HIDE DEF s
  <2> QED
    BY <1>1, <1>2, <2>1, <2>2, Supervises
<1>8. CASE StartFails(z)
  <2> DEFINE s == [Supervised(z, sup[z].volume, sup[z].muted) EXCEPT !.at = "down"]
  <2>1. /\ sup' = [sup EXCEPT ![z] = s] /\ proc' = [proc EXCEPT ![z] = proc[z]]
        /\ sup[z].at = "starting"
        /\ UNCHANGED <<conf, saved, master, ctl, playing, reload, patch, amiss, unsaved>>
    BY <1>1, <1>4, <1>8 DEF StartFails, Types
  <2>2. /\ s \in SupRow /\ s.at = "down"
        /\ s.volume = sup[z].volume /\ s.muted = sup[z].muted
    BY <1>1, <1>3 DEF Supervised, SupRow, SupStates
  <2> HIDE DEF s
  <2> QED
    BY <1>1, <1>2, <2>1, <2>2, Supervises
<1>9. CASE Restarted(z)
  <2> DEFINE s == Supervised(z, sup[z].volume, sup[z].muted)
             p == Started(z, sup[z].ovolume, sup[z].omuted)
  <2>1. /\ sup' = [sup EXCEPT ![z] = s] /\ proc' = [proc EXCEPT ![z] = p]
        /\ sup[z].at = "starting"
        /\ UNCHANGED <<conf, saved, master, ctl, playing, patch, amiss, unsaved>>
    BY <1>1, <1>9 DEF Restarted, Types
  <2>2. reload' \in BOOLEAN /\ (reload => reload') /\ (z = Primary => reload')
    BY <1>1, <1>9 DEF Restarted
  <2>3. /\ s \in SupRow /\ s.at = "up"
        /\ s.volume = sup[z].volume /\ s.muted = sup[z].muted
    BY <1>1, <1>3 DEF Supervised, SupRow, SupStates
  <2>4. /\ p \in ProcRow /\ p.alive /\ p.source = None
        /\ p.volume = sup[z].ovolume /\ p.muted = sup[z].omuted
    BY <1>1, <1>3 DEF Started, SupRow, ProcRow
  <2>5. z \notin amiss => sup[z].ovolume = sup[z].volume /\ sup[z].omuted = sup[z].muted
    BY <2>1 DEF IInv, Sounds, Level, Quieted
  <2> HIDE DEF s, p
  <2> QED
    BY <1>1, <2>1, <2>2, <2>3, <2>4, <2>5, Supervises
<1> QED
  BY <1>5, <1>6, <1>7, <1>8, <1>9 DEF Supervise

-----------------------------------------------------------------------------
(* The controller's calls.                                                 *)

\* A call begins: it reaches every enabled zone.
LEMMA CallBegins ==
  ASSUME IInv, NEW op \in Calls, NEW source \in Sources \cup {None}, ctl.op = "none",
         Begin(op, source), reload' \in BOOLEAN,
         UNCHANGED <<conf, saved, master, sup, proc, playing, patch, amiss, unsaved>>
  PROVE  IInv'
<1>1. /\ ctl' \in CtlRow /\ ctl'.op = op /\ ctl'.source = source
      /\ ctl'.todo = Enabled /\ ctl'.stored = {}
  BY DEF Begin, Fan, CtlRow, Ops, Calls
<1>2. Types'
  BY <1>1 DEF IInv, Types
<1>3. Processes' /\ Requests'
  BY <1>1 DEF IInv, Processes, Requests, Calls
<1>4. Plays'
  BY <1>1, ZonesAssumption DEF Plays
<1>5. \A z \in Zones : Saves(z)'
  BY SavesFrame DEF IInv
<1>6. ctl'.op # "volume" /\ Enabled \subseteq Zones
  BY <1>1, ZonesAssumption DEF Calls
<1>7. \A z \in Enabled : Sounds(z)'
  BY <1>6, SoundsFrame DEF IInv
<1> QED
  BY <1>2, <1>3, <1>4, <1>5, <1>7 DEF IInv

LEMMA PlayKeeps ==
  ASSUME IInv, NEW s \in Sources, Play(s)
  PROVE  IInv'
<1>1. reload' \in BOOLEAN /\ "play" \in Calls
  BY DEF Play, IInv, Types, Calls
<1> QED
  BY <1>1, CallBegins DEF Play

LEMMA StopKeeps ==
  ASSUME IInv, Stop
  PROVE  IInv'
<1>1. reload' \in BOOLEAN /\ "stop" \in Calls
  BY DEF Stop, IInv, Types, Calls
<1> QED
  BY <1>1, CallBegins DEF Stop

LEMMA RestoreKeeps ==
  ASSUME IInv, Restore
  PROVE  IInv'
<1>1. ctl.op = "none" /\ reload' = FALSE
      /\ UNCHANGED <<conf, saved, master, sup, proc, playing, patch, amiss, unsaved>>
  BY DEF Restore
<1>2. CASE playing # None
  <2>1. Begin("restore", playing) /\ "restore" \in Calls /\ playing \in Sources \cup {None}
    BY <1>2 DEF Restore, IInv, Types, Calls
  <2> QED
    BY <1>1, <2>1, CallBegins
<1>3. CASE playing = None
  <2>1. UNCHANGED ctl /\ Enabled \subseteq Zones
    BY <1>3, ZonesAssumption DEF Restore
  <2>2. Types' /\ Processes' /\ Requests'
    BY <1>1, <2>1 DEF IInv, Types, Processes, Requests
  <2>3. Plays'
    BY <1>1, <1>3, <2>1 DEF Plays, Calls
  <2>4. \A z \in Zones : Saves(z)'
    BY <1>1, SavesFrame DEF IInv
  <2>5. \A z \in Enabled : Sounds(z)'
    BY <1>1, <2>1, SoundsFrame DEF IInv
  <2> QED
    BY <2>2, <2>3, <2>4, <2>5 DEF IInv
<1> QED
  BY <1>2, <1>3

LEMMA CallZoneKeeps ==
  ASSUME IInv, NEW z \in Zones, CallZone(z)
  PROVE  IInv'
<1> DEFINE reached == Current(z) /\ proc[z].alive
           p == ProcSource(proc[z], ctl.source)
<1>1. /\ ctl.op \in Calls /\ z \in ctl.todo
      /\ UNCHANGED <<conf, saved, master, sup, playing, reload, patch, amiss, unsaved>>
  BY DEF CallZone, Calls
<1>2. /\ Types /\ Processes /\ Requests /\ Plays
      /\ proc[z] \in ProcRow /\ ctl \in CtlRow /\ ctl.source \in Sources \cup {None}
  BY DEF IInv, Types, CtlRow
<1>3. proc[z].alive => Current(z)
  BY <1>2 DEF Processes, Current
<1>4. /\ p \in ProcRow /\ (p.alive <=> proc[z].alive) /\ p.source = ctl.source
      /\ p.volume = proc[z].volume /\ p.muted = proc[z].muted
  BY <1>2, ProcSourceIs
<1>5. IF proc[z].alive THEN proc' = [proc EXCEPT ![z] = p] ELSE proc' = proc
  BY <1>2, <1>3, OneField DEF CallZone
<1> HIDE DEF p
<1>6. /\ proc' \in [Zones -> ProcRow]
      /\ \A y \in Zones : y # z => proc'[y] = proc[y]
      /\ proc'[z].alive <=> proc[z].alive
      /\ proc'[z].volume = proc[z].volume /\ proc'[z].muted = proc[z].muted
  BY <1>2, <1>4, <1>5 DEF Types
<1>7. /\ proc[z].alive => proc'[z].source = ctl.source
      /\ ~ proc[z].alive => proc'[z].source = None
  BY <1>2, <1>4, <1>5 DEF Types, Processes
<1>8. ctl' = [ctl EXCEPT !.todo = @ \ {z}, !.ok = Ok(z, reached)]
  BY DEF CallZone
<1>9. /\ ctl'.op = ctl.op /\ ctl'.source = ctl.source
      /\ ctl'.todo = ctl.todo \ {z} /\ ctl'.stored = ctl.stored
  BY <1>2, <1>8 DEF CtlRow
<1>10. Ok(z, reached) \in BOOLEAN
  BY <1>2 DEF Ok, CtlRow
<1>11. ctl' \in CtlRow
  BY <1>2, <1>8, <1>10 DEF CtlRow
<1>12. Types'
  BY <1>1, <1>2, <1>6, <1>11 DEF Types
<1>13. Processes'
  BY <1>1, <1>2, <1>6, <1>7 DEF Processes
<1>14. Requests'
  BY <1>1, <1>2, <1>9 DEF Requests, Calls
<1>15. Plays'
  <2>1. \A y \in Enabled \ ctl'.todo : proc'[y].source \in {ctl.source, None}
    BY <1>1, <1>2, <1>6, <1>7, <1>9, ZonesAssumption DEF Plays
  <2>2. Primary \notin ctl'.todo /\ proc'[Primary].alive /\ ~ reload =>
           proc'[Primary].source = ctl.source
    <3>1. CASE Primary = z
      BY <1>6, <1>7, <3>1
    <3>2. CASE Primary # z
      BY <1>1, <1>2, <1>6, <1>9, <3>2, ZonesAssumption DEF Plays
    <3> QED
      BY <3>1, <3>2
  <2> QED
    BY <1>1, <1>9, <2>1, <2>2 DEF Plays
<1>16. \A y \in Zones : Saves(y)'
  BY <1>1, SavesFrame DEF IInv
<1>17. ASSUME NEW y \in Enabled
       PROVE  Sounds(y)'
  <2>1. y \in Zones /\ Sounds(y)
    BY ZonesAssumption DEF IInv
  <2>2. ctl.op # "volume" /\ ctl'.op # "volume"
    BY <1>1, <1>9 DEF Calls
  <2>3. /\ proc'[y].alive <=> proc[y].alive
        /\ proc'[y].volume = proc[y].volume /\ proc'[y].muted = proc[y].muted
    BY <1>6, <2>1
  <2> QED
    BY <1>1, <2>1, <2>2, <2>3, SoundsFrame
<1> QED
  BY <1>12, <1>13, <1>14, <1>15, <1>16, <1>17 DEF IInv

\* Zones that nobody sets get the new volume, one after the other.
LEMMA SetVolumeKeeps ==
  ASSUME IInv, NEW v \in Volumes, SetVolume(v)
  PROVE  IInv'
<1>1. /\ ctl.op = "none" /\ master' = v
      /\ amiss' = amiss \cup {z \in Zones : Setting(z)}
      /\ UNCHANGED <<conf, saved, sup, proc, playing, reload, patch, unsaved>>
  BY DEF SetVolume
<1>2. /\ ctl' \in CtlRow /\ ctl'.op = "volume" /\ ctl'.todo = Enabled /\ ctl'.stored = {}
  BY DEF SetVolume, Begin, Fan, CtlRow, Ops
<1>3. Types' /\ Processes' /\ Requests'
  BY <1>1, <1>2 DEF IInv, Types, Processes, Requests
<1>4. Plays'
  BY <1>1, <1>2 DEF IInv, Plays, Calls
<1>5. \A z \in Zones : Saves(z)'
  BY <1>1, SavesFrame DEF IInv
<1>6. ASSUME NEW z \in Enabled, z \notin amiss'
      PROVE  Alone(z)' /\ Level(z)' /\ Quieted(z)'
  <2>1. z \in Zones /\ \A c \in Callers : ~ Sets(c, z)
    BY <1>1, <1>6, ZonesAssumption DEF Setting, Sets
  <2>2. Alone(z) /\ Level(z) /\ Quieted(z)
    BY <1>1, <1>6 DEF IInv, Sounds
  <2>3. \A c \in Callers : ~ Sets(c, z)'
    BY <1>1, <2>1 DEF Sets
  <2>4. Alone(z)'
    BY <2>3 DEF Alone
  <2>5. VolumeDue(z)' /\ ~ VolumeSoon(z)
    BY <1>1, <1>2, <2>1 DEF VolumeDue, VolumeSoon
  <2>6. Level(z)'
    BY <1>1, <2>2, <2>3, <2>5 DEF Level
  <2>7. ~ MuteDue(z) /\ ~ MuteSoon(z)
    BY <2>1 DEF MuteDue, MuteSoon, SetsMute
  <2>8. Quieted(z)'
    BY <1>1, <2>2, <2>3, <2>7 DEF Quieted, SetsMute
  <2> QED
    BY <2>4, <2>6, <2>8
<1> QED
  BY <1>3, <1>4, <1>5, <1>6 DEF IInv, Sounds

LEMMA VolumeStoredKeeps ==
  ASSUME IInv, NEW z \in Zones, VolumeStored(z)
  PROVE  IInv'
<1> DEFINE s == SupVolume(sup[z], Effective(z))
<1>1. /\ ctl.op = "volume" /\ z \in ctl.todo
      /\ amiss' = IF sup[z].at = "starting" THEN amiss \cup {z} ELSE amiss
      /\ ctl' = [ctl EXCEPT !.todo = @ \ {z}, !.stored = IF Current(z) THEN @ \cup {z} ELSE @]
      /\ UNCHANGED <<conf, saved, master, proc, playing, reload, patch, unsaved>>
  BY DEF VolumeStored, StoreVolume
<1>2. /\ Types /\ Processes /\ Requests /\ Plays /\ Effective(z) \in Int
      /\ sup[z] \in SupRow /\ ctl \in CtlRow /\ z \in Enabled
  BY <1>1, EffectiveIs DEF IInv, Types, CtlRow
<1>3. sup' = [sup EXCEPT ![z] = s]
  BY <1>2, OneField DEF VolumeStored, StoreVolume
<1>4. /\ s \in SupRow /\ s.at = sup[z].at /\ s.volume = Effective(z)
      /\ s.muted = sup[z].muted /\ s.ovolume = sup[z].ovolume /\ s.omuted = sup[z].omuted
  BY <1>2, SupVolumeIs
<1> HIDE DEF s
<1>5. /\ sup' \in [Zones -> SupRow] /\ sup'[z] = s
      /\ \A y \in Zones : y # z => sup'[y] = sup[y]
  BY <1>2, <1>3, <1>4 DEF Types
<1>6. /\ ctl' \in CtlRow /\ ctl'.op = "volume" /\ ctl'.todo = ctl.todo \ {z}
      /\ ctl'.stored = IF Current(z) THEN ctl.stored \cup {z} ELSE ctl.stored
  BY <1>1, <1>2 DEF CtlRow
<1>7. Types'
  BY <1>1, <1>2, <1>5, <1>6 DEF Types
<1>8. Processes' /\ Requests'
  BY <1>1, <1>2, <1>4, <1>5, <1>6 DEF Processes, Requests
<1>9. Plays'
  BY <1>1, <1>2, <1>6 DEF Plays, Calls
<1>10. \A y \in Zones : Saves(y)'
  BY <1>1, SavesFrame DEF IInv
<1>11. ASSUME NEW y \in Enabled
       PROVE  Sounds(y)'
  <2>1. y \in Zones /\ Sounds(y)
    BY ZonesAssumption DEF IInv
  <2>2. CASE y # z
    <3>1. /\ sup'[y] = sup[y] /\ (y \in amiss => y \in amiss')
          /\ y \in ctl.todo => y \in ctl'.todo
          /\ y \in ctl.stored => y \in ctl'.stored
      BY <1>1, <1>5, <1>6, <2>1, <2>2
    <3> QED
      BY <1>1, <1>6, <2>1, <3>1, SoundsFrame
  <2>3. CASE y = z
    <3> SUFFICES ASSUME z \notin amiss'
                 PROVE  Alone(z)' /\ Level(z)' /\ Quieted(z)'
      BY <2>3 DEF Sounds
    <3>1. z \notin amiss /\ sup[z].at # "starting" /\ Alone(z) /\ Level(z) /\ Quieted(z)
      BY <1>1, <2>1, <2>3 DEF Sounds
    <3>2. \A c \in Callers : ~ Sets(c, z) /\ ~ Sets(c, z)'
      BY <1>1, <3>1 DEF Alone, Sets
    <3>3. Alone(z)'
      BY <3>2 DEF Alone
    <3>4. proc[z].alive => VolumeSoon(z)'
      BY <1>2, <1>6 DEF Processes, Current, VolumeSoon
    <3>5. Effective(z)' = Effective(z)
      BY <1>1 DEF Effective
    <3>6. Level(z)'
      BY <1>1, <1>4, <1>5, <3>1, <3>2, <3>4, <3>5 DEF Level
    <3>7. ~ MuteDue(z) /\ ~ MuteSoon(z)
      BY <3>2 DEF MuteDue, MuteSoon, SetsMute
    <3>8. Quieted(z)'
      BY <1>1, <1>4, <1>5, <3>1, <3>2, <3>7 DEF Quieted, SetsMute
    <3> QED
      BY <3>3, <3>6, <3>8
  <2> QED
    BY <2>2, <2>3
<1> QED
  BY <1>7, <1>8, <1>9, <1>10, <1>11 DEF IInv

LEMMA VolumeSentKeeps ==
  ASSUME IInv, NEW z \in Zones, VolumeSent(z)
  PROVE  IInv'
<1> DEFINE p == ProcVolume(proc[z], sup[z].volume)
<1>1. /\ ctl.op = "volume" /\ z \in ctl.stored
      /\ ctl' = [ctl EXCEPT !.stored = @ \ {z}, !.ok = Ok(z, proc[z].alive)]
      /\ UNCHANGED <<conf, saved, master, sup, playing, reload, patch, amiss, unsaved>>
  BY DEF VolumeSent
<1>2. /\ Types /\ Processes /\ Requests /\ Plays
      /\ proc[z] \in ProcRow /\ sup[z] \in SupRow /\ sup[z].volume \in Int
      /\ ctl \in CtlRow /\ z \in Enabled
  BY <1>1 DEF IInv, Types, CtlRow, SupRow
<1>3. /\ p \in ProcRow /\ (p.alive <=> proc[z].alive) /\ p.source = proc[z].source
      /\ p.volume = sup[z].volume /\ p.muted = proc[z].muted
  BY <1>2, ProcVolumeIs
<1>4. IF proc[z].alive THEN proc' = [proc EXCEPT ![z] = p] ELSE proc' = proc
  BY <1>2, OneField, ZenonT(40) DEF VolumeSent
<1> HIDE DEF p
<1>5. /\ proc' \in [Zones -> ProcRow]
      /\ \A y \in Zones : y # z => proc'[y] = proc[y]
      /\ proc'[z].alive <=> proc[z].alive
      /\ proc'[z].source = proc[z].source /\ proc'[z].muted = proc[z].muted
      /\ proc[z].alive => proc'[z].volume = sup[z].volume
  BY <1>2, <1>3, <1>4 DEF Types
<1>6. /\ ctl'.op = "volume" /\ ctl'.todo = ctl.todo /\ ctl'.stored = ctl.stored \ {z}
  BY <1>1, <1>2 DEF CtlRow
<1>7. Ok(z, proc[z].alive) \in BOOLEAN
  BY <1>2 DEF Ok, CtlRow, ProcRow
<1>8. ctl' \in CtlRow
  BY <1>1, <1>2, <1>7 DEF CtlRow
<1>9. Types'
  BY <1>1, <1>2, <1>5, <1>8 DEF Types
<1>10. Processes' /\ Requests'
  BY <1>1, <1>2, <1>5, <1>6 DEF Processes, Requests
<1>11. Plays'
  <2>1. Primary \in Zones /\ Enabled \subseteq Zones
    BY ZonesAssumption
  <2>2. \A y \in Zones : (proc'[y].alive <=> proc[y].alive) /\ proc'[y].source = proc[y].source
    BY <1>5
  <2> QED
    BY <1>1, <1>2, <1>6, <2>1, <2>2 DEF Plays, Calls
<1>12. \A y \in Zones : Saves(y)'
  BY <1>1, SavesFrame DEF IInv
<1>13. ASSUME NEW y \in Enabled
       PROVE  Sounds(y)'
  <2>1. y \in Zones /\ Sounds(y)
    BY ZonesAssumption DEF IInv
  <2>2. CASE y # z
    <3>1. proc'[y] = proc[y] /\ (y \in ctl.stored => y \in ctl'.stored)
      BY <1>5, <1>6, <2>1, <2>2
    <3> QED
      BY <1>1, <1>6, <2>1, <3>1, SoundsFrame
  <2>3. CASE y = z
    <3> SUFFICES ASSUME z \notin amiss
                 PROVE  Alone(z)' /\ Level(z)' /\ Quieted(z)'
      BY <1>1, <2>3 DEF Sounds
    <3>1. Alone(z) /\ Level(z) /\ Quieted(z)
      BY <2>1, <2>3 DEF Sounds
    <3>2. \A c \in Callers : ~ Sets(c, z) /\ ~ Sets(c, z)'
      BY <1>1, <3>1 DEF Alone, Sets
    <3>3. Alone(z)'
      BY <3>2 DEF Alone
    <3>4. VolumeDue(z)' <=> VolumeDue(z)
      BY <1>1, <1>6, <3>2 DEF VolumeDue
    <3>5. Effective(z)' = Effective(z)
      BY <1>1 DEF Effective
    <3>6. Level(z)'
      BY <1>1, <1>5, <3>1, <3>2, <3>4, <3>5 DEF Level
    <3>7. ~ MuteDue(z) /\ ~ MuteSoon(z)
      BY <3>2 DEF MuteDue, MuteSoon, SetsMute
    <3>8. Quieted(z)'
      BY <1>1, <1>5, <3>1, <3>2, <3>7 DEF Quieted, SetsMute
    <3> QED
      BY <3>3, <3>6, <3>8
  <2> QED
    BY <2>2, <2>3
<1> QED
  BY <1>9, <1>10, <1>11, <1>12, <1>13 DEF IInv

LEMMA ReturnKeeps ==
  ASSUME IInv, Return
  PROVE  IInv'
<1>1. /\ ctl.op # "none" /\ ctl.todo = {} /\ ctl.stored = {}
      /\ playing' = IF ctl.op = "play" /\ ctl.ok THEN ctl.source ELSE playing
      /\ ctl' = Idle
      /\ UNCHANGED <<conf, saved, master, sup, proc, reload, patch, amiss, unsaved>>
  BY DEF Return
<1>2. /\ ctl' \in CtlRow /\ ctl'.op = "none" /\ ctl'.todo = {} /\ ctl'.stored = {}
  BY <1>1 DEF Idle, CtlRow, Ops
<1>3. /\ ctl.op \in Ops /\ playing' \in Sources \cup {None}
  BY <1>1 DEF IInv, Types, CtlRow
<1>4. Types'
  BY <1>1, <1>2, <1>3 DEF IInv, Types
<1>5. Processes' /\ Requests'
  BY <1>1, <1>2 DEF IInv, Processes, Requests
<1>6. Plays'
  <2>1. CASE ctl.op \in Calls
    BY <1>1, <1>2, <2>1 DEF IInv, Plays, Calls
  <2>2. CASE ctl.op \notin Calls
    <3>1. playing' = playing
      BY <1>1, <2>2 DEF Calls
    <3> QED
      BY <1>1, <1>2, <2>2, <3>1 DEF IInv, Plays, Calls
  <2> QED
    BY <2>1, <2>2
<1>7. \A z \in Zones : Saves(z)'
  BY <1>1, SavesFrame DEF IInv
<1>8. Enabled \subseteq Zones
  BY ZonesAssumption
<1>9. \A z \in Enabled : Sounds(z)'
  BY <1>1, <1>2, <1>8, SoundsFrame DEF IInv
<1> QED
  BY <1>4, <1>5, <1>6, <1>7, <1>9 DEF IInv

-----------------------------------------------------------------------------
(* Requests for settings.                                                  *)

LEMMA NoPatchIs == NoPatch \in PatchRow /\ NoPatch.at = "idle"
<1>1. Primary \in Zones /\ Default[Primary] \in Settings
  BY ZonesAssumption
<1> QED
  BY <1>1 DEF NoPatch, PatchRow, PatchStates, Mutes

\* A step of the request c for the zone z, which leaves the request at x, the
\* supervisor at s and the process at p.
Writes(c, z, x, s, p) ==
    /\ patch' = [patch EXCEPT ![c] = x]
    /\ sup' = [sup EXCEPT ![z] = s] /\ proc' = [proc EXCEPT ![z] = p]
    /\ UNCHANGED <<conf, master, ctl, playing, reload>>
    /\ x.at = "idle" \/ x.zone = z
    /\ x.at \in {"mute", "muteStored"} => x.muted # Unset
    /\ s.at = sup[z].at /\ (p.alive <=> proc[z].alive) /\ p.source = proc[z].source

\* What it does not save, or leaves half done, it records.
Records(c, z, x, s, p) ==
    /\ saved' \in [Zones -> Settings] /\ \A y \in Zones : y # z => saved'[y] = saved[y]
    /\ unsaved \subseteq unsaved' /\ amiss \subseteq amiss'
    /\ z \notin unsaved' =>
          /\ x.at = "read" => x.row.trim = conf[z].trim /\ x.row.muted = conf[z].muted
          /\ x.at = "idle" => saved'[z].trim = conf[z].trim /\ saved'[z].muted = conf[z].muted
    /\ z \notin amiss' /\ Fits(patch[c], sup[z], proc[z], Effective(z), conf[z].muted) =>
          Fits(x, s, p, Effective(z), conf[z].muted)

LEMMA PatchStep ==
  ASSUME IInv, NEW c \in Callers, patch[c].at # "idle", NEW z, z = patch[c].zone,
         NEW x \in PatchRow, NEW s \in SupRow, NEW p \in ProcRow,
         Writes(c, z, x, s, p), Records(c, z, x, s, p)
  PROVE  IInv'
<1> USE DEF Writes, Records
<1>1. /\ Types /\ Processes /\ Requests /\ Plays
      /\ z \in Enabled /\ z \in Zones /\ Enabled \subseteq Zones /\ Primary \in Zones
      /\ Sets(c, z)
  BY ZonesAssumption DEF IInv, Requests, Sets
<1>2. /\ patch' \in [Callers -> PatchRow] /\ patch'[c] = x
      /\ \A d \in Callers : d # c => patch'[d] = patch[d]
  BY <1>1 DEF Types
<1>3. /\ sup' \in [Zones -> SupRow] /\ sup'[z] = s
      /\ \A y \in Zones : y # z => sup'[y] = sup[y]
  BY <1>1 DEF Types
<1>4. /\ proc' \in [Zones -> ProcRow] /\ proc'[z] = p
      /\ \A y \in Zones : y # z => proc'[y] = proc[y]
  BY <1>1 DEF Types
<1>5. Types'
  BY <1>1, <1>2, <1>3, <1>4 DEF Types
<1>6. Processes'
  BY <1>1, <1>3, <1>4 DEF Processes
<1>7. Requests'
  BY <1>1, <1>2 DEF Requests
<1>8. Plays'
  <2>1. \A y \in Zones : (proc'[y].alive <=> proc[y].alive) /\ proc'[y].source = proc[y].source
    BY <1>4
  <2> QED
    BY <1>1, <2>1, PlaysFrame
<1>9. \A y \in Zones : y # z =>
         \A d \in Callers : (Sets(d, y) \/ Sets(d, y)') => patch'[d] = patch[d]
  BY <1>1, <1>2 DEF Sets
<1>10. \A d \in Callers : d # c => (Sets(d, z)' <=> Sets(d, z))
  BY <1>2 DEF Sets
<1>11. Sets(c, z)' \/ x.at = "idle"
  BY <1>2 DEF Sets
<1>12. ASSUME NEW y \in Zones
       PROVE  Saves(y)'
  <2>1. Saves(y)
    BY DEF IInv
  <2>2. CASE y # z
    BY <1>9, <2>1, <2>2, SavesFrame
  <2>3. CASE y = z
    <3> SUFFICES ASSUME z \notin unsaved'
                 PROVE  Saves(z)'
      BY <2>3 DEF Saves
    <3>1. \A d \in Callers : Sets(d, z) => d = c
      BY <1>1, <2>1, <2>3 DEF Saves
    <3>2. \A d \in Callers : Sets(d, z)' => d = c
      BY <1>10, <3>1
    <3>3. x.at # "idle" => Setting(z)'
      BY <1>2 DEF Setting
    <3> QED
      BY <1>2, <3>2, <3>3 DEF Saves, Sets
  <2> QED
    BY <2>2, <2>3
<1>13. ASSUME NEW y \in Enabled
       PROVE  Sounds(y)'
  <2>1. Sounds(y) /\ y \in Zones
    BY <1>1 DEF IInv
  <2>2. CASE y # z
    BY <1>3, <1>4, <1>9, <2>1, <2>2, SoundsFrame
  <2>3. CASE y = z
    <3> SUFFICES ASSUME z \notin amiss'
                 PROVE  Alone(z)' /\ Level(z)' /\ Quieted(z)'
      BY <2>3 DEF Sounds
    <3>1. Alone(z) /\ Level(z) /\ Quieted(z)
      BY <2>1, <2>3 DEF Sounds
    <3>2. Fits(x, s, p, Effective(z), conf[z].muted)
      BY <1>1, <3>1, FitsWhere
    <3>3. Effective(z)' = Effective(z) /\ ctl'.op # "volume"
      BY <1>1, <3>1 DEF Effective, Alone
    <3>4. \A d \in Callers : d # c => ~ Sets(d, z)'
      BY <1>1, <1>10, <3>1 DEF Alone
    <3>5. Fits(patch'[c], sup'[z], proc'[z], Effective(z)', conf'[z].muted)
      BY <1>2, <1>3, <1>4, <3>2, <3>3
    <3> QED
      BY <1>1, <1>2, <1>11, <3>3, <3>4, <3>5, FitsThere
  <2> QED
    BY <2>2, <2>3
<1> QED
  BY <1>5, <1>6, <1>7, <1>8, <1>12, <1>13 DEF IInv

\* What a request in progress finds.
LEMMA PatchWhere ==
  ASSUME IInv, NEW c \in Callers, patch[c].at # "idle"
  PROVE  /\ Types /\ Processes /\ Requests /\ patch[c] \in PatchRow
         /\ patch[c].zone \in Zones /\ patch[c].zone \in Enabled
         /\ patch[c].volume \in Int /\ patch[c].muted \in Mutes
         /\ sup[patch[c].zone] \in SupRow /\ proc[patch[c].zone] \in ProcRow
         /\ sup = [sup EXCEPT ![patch[c].zone] = sup[patch[c].zone]]
         /\ proc = [proc EXCEPT ![patch[c].zone] = proc[patch[c].zone]]
         /\ saved \in [Zones -> Settings]
         /\ proc[patch[c].zone].alive => Current(patch[c].zone)
<1>1. /\ Types /\ Processes /\ Requests /\ patch[c] \in PatchRow /\ patch[c].zone \in Enabled
      /\ patch[c].zone \in Zones
  BY ZonesAssumption DEF IInv, Types, Requests
<1>2. patch[c].volume \in Int /\ patch[c].muted \in Mutes
  BY <1>1 DEF PatchRow
<1>3. proc[patch[c].zone].alive => Current(patch[c].zone)
  BY <1>1 DEF Processes, Current
<1>4. /\ sup = [sup EXCEPT ![patch[c].zone] = sup[patch[c].zone]]
      /\ proc = [proc EXCEPT ![patch[c].zone] = proc[patch[c].zone]]
  BY <1>1 DEF Types
<1> QED
  BY <1>1, <1>2, <1>3, <1>4 DEF Types

LEMMA ZoneVolumeKeeps ==
  ASSUME IInv, NEW c \in Callers, ZoneVolume(c)
  PROVE  IInv'
<1>1. PICK z : z = patch[c].zone
  OBVIOUS
<1> DEFINE s == SupVolume(sup[z], patch[c].volume)
           x == PatchAt(patch[c], "volumeStored")
<1>2. /\ patch[c].at = "volume"
      /\ sup' = [sup EXCEPT ![z].volume = patch[c].volume]
      /\ amiss' = IF sup[z].at = "starting" \/ (~Current(z) /\ patch[c].muted # Unset)
                  THEN amiss \cup {z} ELSE amiss
      /\ UNCHANGED <<conf, saved, master, proc, ctl, playing, reload>>
  BY <1>1 DEF ZoneVolume
<1>3. /\ Types /\ Processes /\ patch[c] \in PatchRow /\ z \in Zones
      /\ patch[c].volume \in Int /\ sup[z] \in SupRow /\ proc[z] \in ProcRow
      /\ proc = [proc EXCEPT ![z] = proc[z]] /\ saved \in [Zones -> Settings]
      /\ proc[z].alive => Current(z)
  BY <1>1, <1>2, PatchWhere
<1>4. sup' = [sup EXCEPT ![z] = s]
  BY <1>2, <1>3, OneField, ZenonT(40)
<1>5. /\ s \in SupRow /\ s.at = sup[z].at /\ s.volume = patch[c].volume
      /\ s.muted = sup[z].muted /\ s.ovolume = sup[z].ovolume /\ s.omuted = sup[z].omuted
  BY <1>3, SupVolumeIs
<1>6. /\ x \in PatchRow /\ x.at = "volumeStored" /\ x.zone = patch[c].zone
      /\ x.muted = patch[c].muted /\ x.volume = patch[c].volume
  BY <1>3, PatchAtIs DEF PatchStates
<1>7. CASE Current(z)
  <2>1. patch' = [patch EXCEPT ![c] = x] /\ UNCHANGED unsaved
    BY <1>1, <1>3, <1>7, PatchField DEF ZoneVolume
  <2> HIDE DEF s, x
  <2>2. sup[z].at # "starting"
    BY <1>7 DEF Current
  <2>3. Fits(patch[c], sup[z], proc[z], Effective(z), conf[z].muted) =>
           Fits(x, s, proc[z], Effective(z), conf[z].muted)
    BY <1>2, <1>5, <1>6, <2>2 DEF Fits, MuteStates
  <2>7. Writes(c, z, x, s, proc[z])
    BY <1>1, <1>2, <1>3, <1>4, <1>5, <1>6, <2>1, <2>3 DEF Writes
  <2>8. Records(c, z, x, s, proc[z])
    BY <1>1, <1>2, <1>3, <1>4, <1>5, <1>6, <2>1, <2>3 DEF Records
  <2>9. patch[c].at # "idle" /\ z = patch[c].zone
    BY <1>1, <1>2
  <2>10. x \in PatchRow /\ s \in SupRow /\ proc[z] \in ProcRow
    BY <1>1, <1>2, <1>3, <1>4, <1>5, <1>6, <2>1, <2>3
  <2> QED
    BY <2>7, <2>8, <2>9, <2>10, PatchStep
<1>8. CASE ~ Current(z)
  <2>1. patch' = [patch EXCEPT ![c] = NoPatch] /\ unsaved' = unsaved \cup {z}
    BY <1>1, <1>8 DEF ZoneVolume, Refuse
  <2> HIDE DEF s
  <2>2. ~ proc[z].alive /\ NoPatch \in PatchRow /\ NoPatch.at = "idle"
    BY <1>3, <1>8, NoPatchIs
  <2>3. z \notin amiss' /\ Fits(patch[c], sup[z], proc[z], Effective(z), conf[z].muted) =>
           Fits(NoPatch, s, proc[z], Effective(z), conf[z].muted)
    BY <1>2, <1>5, <1>8, <2>2 DEF Fits, MuteStates
  <2>7. Writes(c, z, NoPatch, s, proc[z])
    BY <1>1, <1>2, <1>3, <1>4, <1>5, <2>1, <2>2, <2>3 DEF Writes
  <2>8. Records(c, z, NoPatch, s, proc[z])
    BY <1>1, <1>2, <1>3, <1>4, <1>5, <2>1, <2>2, <2>3 DEF Records
  <2>9. patch[c].at # "idle" /\ z = patch[c].zone
    BY <1>1, <1>2
  <2>10. NoPatch \in PatchRow /\ s \in SupRow /\ proc[z] \in ProcRow
    BY <1>1, <1>2, <1>3, <1>4, <1>5, <2>1, <2>2, <2>3
  <2> QED
    BY <2>7, <2>8, <2>9, <2>10, PatchStep
<1> QED
  BY <1>7, <1>8

LEMMA ZoneVolumeSentKeeps ==
  ASSUME IInv, NEW c \in Callers, ZoneVolumeSent(c)
  PROVE  IInv'
<1>1. PICK z : z = patch[c].zone
  OBVIOUS
<1> DEFINE p == ProcVolume(proc[z], patch[c].volume)
           x == PatchAt(patch[c], AfterVolume(c))
<1>2. /\ patch[c].at = "volumeStored"
      /\ UNCHANGED <<conf, saved, master, sup, ctl, playing, reload>>
  BY DEF ZoneVolumeSent
<1>3. /\ Types /\ Processes /\ patch[c] \in PatchRow /\ z \in Zones
      /\ patch[c].volume \in Int /\ sup[z] \in SupRow /\ proc[z] \in ProcRow
      /\ sup = [sup EXCEPT ![z] = sup[z]] /\ proc = [proc EXCEPT ![z] = proc[z]]
      /\ saved \in [Zones -> Settings]
  BY <1>1, <1>2, PatchWhere
<1>4. CASE proc[z].alive
  <2>1. /\ proc' = [proc EXCEPT ![z] = p] /\ patch' = [patch EXCEPT ![c] = x]
        /\ UNCHANGED <<unsaved, amiss>>
    <3>1. /\ proc' = [proc EXCEPT ![z].volume = patch[c].volume]
          /\ patch' = [patch EXCEPT ![c].at = AfterVolume(c)] /\ UNCHANGED <<unsaved, amiss>>
      BY <1>1, <1>4 DEF ZoneVolumeSent
    <3> QED
      BY <1>3, <3>1, OneField, PatchField, ZenonT(40)
  <2>2. /\ p \in ProcRow /\ (p.alive <=> proc[z].alive) /\ p.source = proc[z].source
        /\ p.volume = patch[c].volume /\ p.muted = proc[z].muted
    BY <1>3, ProcVolumeIs
  <2>3. /\ x \in PatchRow /\ x.zone = patch[c].zone /\ x.muted = patch[c].muted
        /\ x.at = IF patch[c].muted # Unset THEN "mute" ELSE "applied"
    BY <1>3, PatchAtIs DEF PatchStates, AfterVolume
  <2> HIDE DEF p, x
  <2>4. Fits(patch[c], sup[z], proc[z], Effective(z), conf[z].muted) =>
           Fits(x, sup[z], p, Effective(z), conf[z].muted)
    BY <1>2, <1>4, <2>2, <2>3 DEF Fits, MuteStates
  <2>7. Writes(c, z, x, sup[z], p)
    BY <1>1, <1>2, <1>3, <2>1, <2>2, <2>3, <2>4 DEF Writes
  <2>8. Records(c, z, x, sup[z], p)
    BY <1>1, <1>2, <1>3, <2>1, <2>2, <2>3, <2>4 DEF Records
  <2>9. patch[c].at # "idle" /\ z = patch[c].zone
    BY <1>1, <1>2
  <2>10. x \in PatchRow /\ sup[z] \in SupRow /\ p \in ProcRow
    BY <1>1, <1>2, <1>3, <2>1, <2>2, <2>3, <2>4
  <2> QED
    BY <2>7, <2>8, <2>9, <2>10, PatchStep
<1>5. CASE ~ proc[z].alive
  <2>1. /\ patch' = [patch EXCEPT ![c] = NoPatch] /\ unsaved' = unsaved \cup {z}
        /\ amiss' = IF patch[c].muted # Unset THEN amiss \cup {z} ELSE amiss
        /\ UNCHANGED proc
    BY <1>1, <1>5 DEF ZoneVolumeSent, Refuse
  <2>2. z \notin amiss' /\ Fits(patch[c], sup[z], proc[z], Effective(z), conf[z].muted) =>
           Fits(NoPatch, sup[z], proc[z], Effective(z), conf[z].muted)
    BY <1>2, <1>5, <2>1, NoPatchIs DEF Fits, MuteStates
  <2>7. Writes(c, z, NoPatch, sup[z], proc[z])
    BY <1>1, <1>2, <1>3, <2>1, <2>2, NoPatchIs DEF Writes
  <2>8. Records(c, z, NoPatch, sup[z], proc[z])
    BY <1>1, <1>2, <1>3, <2>1, <2>2, NoPatchIs DEF Records
  <2>9. patch[c].at # "idle" /\ z = patch[c].zone
    BY <1>1, <1>2
  <2>10. NoPatch \in PatchRow /\ sup[z] \in SupRow /\ proc[z] \in ProcRow
    BY <1>1, <1>2, <1>3, <2>1, <2>2, NoPatchIs
  <2> QED
    BY <2>7, <2>8, <2>9, <2>10, PatchStep
<1> QED
  BY <1>4, <1>5

LEMMA ZoneMuteKeeps ==
  ASSUME IInv, NEW c \in Callers, ZoneMute(c)
  PROVE  IInv'
<1>1. PICK z : z = patch[c].zone
  OBVIOUS
<1> DEFINE s == SupMuted(sup[z], patch[c].muted)
           x == PatchAt(patch[c], "muteStored")
<1>2. /\ patch[c].at = "mute"
      /\ sup' = [sup EXCEPT ![z].muted = patch[c].muted]
      /\ amiss' = IF sup[z].at = "starting" THEN amiss \cup {z} ELSE amiss
      /\ UNCHANGED <<conf, saved, master, proc, ctl, playing, reload>>
  BY <1>1 DEF ZoneMute
<1>3. /\ Types /\ Processes /\ patch[c] \in PatchRow /\ z \in Zones
      /\ patch[c].muted \in Mutes /\ sup[z] \in SupRow /\ proc[z] \in ProcRow
      /\ proc = [proc EXCEPT ![z] = proc[z]] /\ saved \in [Zones -> Settings]
      /\ proc[z].alive => Current(z)
  BY <1>1, <1>2, PatchWhere
<1>4. patch[c].muted # Unset
  BY <1>2 DEF IInv, Requests
<1>5. sup' = [sup EXCEPT ![z] = s]
  BY <1>2, <1>3, OneField
<1>6. /\ s \in SupRow /\ s.at = sup[z].at /\ s.volume = sup[z].volume
      /\ s.muted = patch[c].muted /\ s.ovolume = sup[z].ovolume /\ s.omuted = sup[z].omuted
  BY <1>3, SupMutedIs
<1>7. /\ x \in PatchRow /\ x.at = "muteStored" /\ x.zone = patch[c].zone
      /\ x.muted = patch[c].muted
  BY <1>3, PatchAtIs DEF PatchStates
<1>8. CASE Current(z)
  <2>1. patch' = [patch EXCEPT ![c] = x] /\ UNCHANGED unsaved
    BY <1>1, <1>3, <1>8, PatchField DEF ZoneMute
  <2> HIDE DEF s, x
  <2>2. sup[z].at # "starting"
    BY <1>8 DEF Current
  <2>3. Fits(patch[c], sup[z], proc[z], Effective(z), conf[z].muted) =>
           Fits(x, s, proc[z], Effective(z), conf[z].muted)
    BY <1>2, <1>4, <1>6, <1>7, <2>2 DEF Fits, MuteStates
  <2>7. Writes(c, z, x, s, proc[z])
    BY <1>1, <1>2, <1>3, <1>4, <1>5, <1>6, <1>7, <2>1, <2>3 DEF Writes
  <2>8. Records(c, z, x, s, proc[z])
    BY <1>1, <1>2, <1>3, <1>4, <1>5, <1>6, <1>7, <2>1, <2>3 DEF Records
  <2>9. patch[c].at # "idle" /\ z = patch[c].zone
    BY <1>1, <1>2
  <2>10. x \in PatchRow /\ s \in SupRow /\ proc[z] \in ProcRow
    BY <1>1, <1>2, <1>3, <1>4, <1>5, <1>6, <1>7, <2>1, <2>3
  <2> QED
    BY <2>7, <2>8, <2>9, <2>10, PatchStep
<1>9. CASE ~ Current(z)
  <2>1. patch' = [patch EXCEPT ![c] = NoPatch] /\ unsaved' = unsaved \cup {z}
    BY <1>1, <1>9 DEF ZoneMute, Refuse
  <2> HIDE DEF s
  <2>2. ~ proc[z].alive /\ NoPatch \in PatchRow /\ NoPatch.at = "idle"
    BY <1>3, <1>9, NoPatchIs
  <2>3. z \notin amiss' /\ Fits(patch[c], sup[z], proc[z], Effective(z), conf[z].muted) =>
           Fits(NoPatch, s, proc[z], Effective(z), conf[z].muted)
    BY <1>2, <1>4, <1>6, <2>2 DEF Fits, MuteStates
  <2>7. Writes(c, z, NoPatch, s, proc[z])
    BY <1>1, <1>2, <1>3, <1>5, <1>6, <2>1, <2>2, <2>3 DEF Writes
  <2>8. Records(c, z, NoPatch, s, proc[z])
    BY <1>1, <1>2, <1>3, <1>5, <1>6, <2>1, <2>2, <2>3 DEF Records
  <2>9. patch[c].at # "idle" /\ z = patch[c].zone
    BY <1>1, <1>2
  <2>10. NoPatch \in PatchRow /\ s \in SupRow /\ proc[z] \in ProcRow
    BY <1>1, <1>2, <1>3, <1>5, <1>6, <2>1, <2>2, <2>3
  <2> QED
    BY <2>7, <2>8, <2>9, <2>10, PatchStep
<1> QED
  BY <1>8, <1>9

LEMMA ZoneMuteSentKeeps ==
  ASSUME IInv, NEW c \in Callers, ZoneMuteSent(c)
  PROVE  IInv'
<1>1. PICK z : z = patch[c].zone
  OBVIOUS
<1> DEFINE p == ProcMuted(proc[z], patch[c].muted)
           x == PatchAt(patch[c], "applied")
<1>2. /\ patch[c].at = "muteStored"
      /\ UNCHANGED <<conf, saved, master, sup, ctl, playing, reload, amiss>>
  BY DEF ZoneMuteSent
<1>3. /\ Types /\ Processes /\ patch[c] \in PatchRow /\ z \in Zones
      /\ patch[c].muted \in Mutes /\ sup[z] \in SupRow /\ proc[z] \in ProcRow
      /\ sup = [sup EXCEPT ![z] = sup[z]] /\ proc = [proc EXCEPT ![z] = proc[z]]
      /\ saved \in [Zones -> Settings]
  BY <1>1, <1>2, PatchWhere
<1>4. patch[c].muted # Unset
  BY <1>2 DEF IInv, Requests
<1>5. CASE proc[z].alive
  <2>1. /\ proc' = [proc EXCEPT ![z] = p] /\ patch' = [patch EXCEPT ![c] = x]
        /\ UNCHANGED unsaved
    <3>1. /\ proc' = [proc EXCEPT ![z].muted = patch[c].muted]
          /\ patch' = [patch EXCEPT ![c].at = "applied"] /\ UNCHANGED unsaved
      BY <1>1, <1>5 DEF ZoneMuteSent
    <3> QED
      BY <1>3, <3>1, OneField, PatchField, ZenonT(40)
  <2>2. /\ p \in ProcRow /\ (p.alive <=> proc[z].alive) /\ p.source = proc[z].source
        /\ p.volume = proc[z].volume /\ p.muted = patch[c].muted
    BY <1>3, ProcMutedIs
  <2>3. /\ x \in PatchRow /\ x.zone = patch[c].zone /\ x.muted = patch[c].muted /\ x.at = "applied"
    BY <1>3, PatchAtIs DEF PatchStates
  <2> HIDE DEF p, x
  <2>4. Fits(patch[c], sup[z], proc[z], Effective(z), conf[z].muted) =>
           Fits(x, sup[z], p, Effective(z), conf[z].muted)
    BY <1>2, <1>4, <2>2, <2>3 DEF Fits, MuteStates
  <2>7. Writes(c, z, x, sup[z], p)
    BY <1>1, <1>2, <1>3, <2>1, <2>2, <2>3, <2>4 DEF Writes
  <2>8. Records(c, z, x, sup[z], p)
    BY <1>1, <1>2, <1>3, <2>1, <2>2, <2>3, <2>4 DEF Records
  <2>9. patch[c].at # "idle" /\ z = patch[c].zone
    BY <1>1, <1>2
  <2>10. x \in PatchRow /\ sup[z] \in SupRow /\ p \in ProcRow
    BY <1>1, <1>2, <1>3, <2>1, <2>2, <2>3, <2>4
  <2> QED
    BY <2>7, <2>8, <2>9, <2>10, PatchStep
<1>6. CASE ~ proc[z].alive
  <2>1. /\ patch' = [patch EXCEPT ![c] = NoPatch] /\ unsaved' = unsaved \cup {z}
        /\ UNCHANGED proc
    BY <1>1, <1>6 DEF ZoneMuteSent, Refuse
  <2>2. Fits(patch[c], sup[z], proc[z], Effective(z), conf[z].muted) =>
           Fits(NoPatch, sup[z], proc[z], Effective(z), conf[z].muted)
    BY <1>2, <1>6, NoPatchIs DEF Fits, MuteStates
  <2>7. Writes(c, z, NoPatch, sup[z], proc[z])
    BY <1>1, <1>2, <1>3, <2>1, <2>2, NoPatchIs DEF Writes
  <2>8. Records(c, z, NoPatch, sup[z], proc[z])
    BY <1>1, <1>2, <1>3, <2>1, <2>2, NoPatchIs DEF Records
  <2>9. patch[c].at # "idle" /\ z = patch[c].zone
    BY <1>1, <1>2
  <2>10. NoPatch \in PatchRow /\ sup[z] \in SupRow /\ proc[z] \in ProcRow
    BY <1>1, <1>2, <1>3, <2>1, <2>2, NoPatchIs
  <2> QED
    BY <2>7, <2>8, <2>9, <2>10, PatchStep
<1> QED
  BY <1>5, <1>6

LEMMA ReadStatusesKeeps ==
  ASSUME IInv, NEW c \in Callers, ReadStatuses(c)
  PROVE  IInv'
<1>1. PICK z : z = patch[c].zone
  OBVIOUS
<1> DEFINE x == [patch[c] EXCEPT !.at = "read", !.row = RowOf(c)]
<1>2. /\ patch[c].at = "applied"
      /\ UNCHANGED <<conf, saved, master, sup, proc, ctl, playing, reload, amiss, unsaved>>
  BY DEF ReadStatuses
<1>3. /\ Types /\ patch[c] \in PatchRow /\ z \in Zones
      /\ sup[z] \in SupRow /\ proc[z] \in ProcRow
      /\ sup = [sup EXCEPT ![z] = sup[z]] /\ proc = [proc EXCEPT ![z] = proc[z]]
      /\ saved \in [Zones -> Settings]
  BY <1>1, <1>2, PatchWhere
<1>4. /\ RowOf(c) \in Settings
      /\ RowOf(c).trim = conf[z].trim /\ RowOf(c).muted = conf[z].muted
  <2>1. conf[z] \in Settings /\ patch[c].device \in Devices \cup {Unset}
    BY <1>3, ZonesAssumption DEF Types, PatchRow
  <2> QED
    BY <1>1, <2>1 DEF RowOf, Settings
<1>5. patch' = [patch EXCEPT ![c] = x]
  BY <1>3 DEF ReadStatuses, Types
<1>6. /\ x \in PatchRow /\ x.at = "read" /\ x.zone = z /\ x.muted = patch[c].muted
      /\ x.row = RowOf(c)
  BY <1>1, <1>3, <1>4 DEF PatchRow, PatchStates
<1> HIDE DEF x
<1>7. Fits(patch[c], sup[z], proc[z], Effective(z), conf[z].muted) =>
         Fits(x, sup[z], proc[z], Effective(z), conf[z].muted)
  BY <1>2, <1>6 DEF Fits, MuteStates
<1>8. Writes(c, z, x, sup[z], proc[z])
  BY <1>2, <1>3, <1>5, <1>6 DEF Writes
<1>9. Records(c, z, x, sup[z], proc[z])
  BY <1>2, <1>3, <1>4, <1>6, <1>7 DEF Records
<1>10. patch[c].at # "idle" /\ z = patch[c].zone
  BY <1>1, <1>2
<1> QED
  BY <1>3, <1>6, <1>8, <1>9, <1>10, PatchStep

\* A request that ends here leaves the zone sounding as it does.
LEMMA FitsIdle ==
  ASSUME NEW q, q.at \notin {"idle", "volume", "volumeStored", "mute", "muteStored"},
         NEW s, NEW p, NEW level, NEW mute, Fits(q, s, p, level, mute)
  PROVE  Fits(NoPatch, s, p, level, mute)
BY NoPatchIs DEF Fits, MuteStates

LEMMA SaveRowKeeps ==
  ASSUME IInv, NEW c \in Callers, SaveRow(c)
  PROVE  IInv'
<1>1. PICK z : z = patch[c].zone
  OBVIOUS
<1>2. /\ patch[c].at = "read"
      /\ saved' = [saved EXCEPT ![z] = patch[c].row]
      /\ patch' = [patch EXCEPT ![c] = NoPatch]
      /\ UNCHANGED <<conf, master, sup, proc, ctl, playing, reload, amiss, unsaved>>
  BY <1>1 DEF SaveRow
<1>3. /\ Types /\ patch[c] \in PatchRow /\ z \in Zones
      /\ sup[z] \in SupRow /\ proc[z] \in ProcRow
      /\ sup = [sup EXCEPT ![z] = sup[z]] /\ proc = [proc EXCEPT ![z] = proc[z]]
      /\ saved \in [Zones -> Settings]
  BY <1>1, <1>2, PatchWhere
<1>4. patch[c].row \in Settings
  BY <1>3 DEF PatchRow
<1>5. /\ saved' \in [Zones -> Settings] /\ saved'[z] = patch[c].row
      /\ \A y \in Zones : y # z => saved'[y] = saved[y]
  BY <1>2, <1>3, <1>4
<1>6. z \notin unsaved => /\ patch[c].row.trim = conf[z].trim
                          /\ patch[c].row.muted = conf[z].muted
  <2>1. Saves(z) /\ Sets(c, z)
    BY <1>1, <1>2, <1>3 DEF IInv, Sets
  <2> QED
    BY <1>2, <2>1 DEF Saves
<1>7. Fits(patch[c], sup[z], proc[z], Effective(z), conf[z].muted) =>
         Fits(NoPatch, sup[z], proc[z], Effective(z), conf[z].muted)
  BY <1>2, FitsIdle
<1>8. Writes(c, z, NoPatch, sup[z], proc[z])
  BY <1>2, <1>3, NoPatchIs DEF Writes
<1>9. Records(c, z, NoPatch, sup[z], proc[z])
  BY <1>2, <1>5, <1>6, <1>7, NoPatchIs DEF Records
<1>10. patch[c].at # "idle" /\ z = patch[c].zone
  BY <1>1, <1>2
<1> QED
  BY <1>3, <1>8, <1>9, <1>10, NoPatchIs, PatchStep

LEMMA SaveFailsKeeps ==
  ASSUME IInv, NEW c \in Callers, SaveFails(c)
  PROVE  IInv'
<1>1. PICK z : z = patch[c].zone
  OBVIOUS
<1>2. /\ patch[c].at = "read" /\ unsaved' = unsaved \cup {z}
      /\ patch' = [patch EXCEPT ![c] = NoPatch]
      /\ UNCHANGED <<conf, saved, master, sup, proc, ctl, playing, reload, amiss>>
  BY <1>1 DEF SaveFails, Refuse
<1>3. /\ Types /\ patch[c] \in PatchRow /\ z \in Zones
      /\ sup[z] \in SupRow /\ proc[z] \in ProcRow
      /\ sup = [sup EXCEPT ![z] = sup[z]] /\ proc = [proc EXCEPT ![z] = proc[z]]
      /\ saved \in [Zones -> Settings]
  BY <1>1, <1>2, PatchWhere
<1>4. Fits(patch[c], sup[z], proc[z], Effective(z), conf[z].muted) =>
         Fits(NoPatch, sup[z], proc[z], Effective(z), conf[z].muted)
  BY <1>2, FitsIdle
<1>5. Writes(c, z, NoPatch, sup[z], proc[z])
  BY <1>2, <1>3, NoPatchIs DEF Writes
<1>6. Records(c, z, NoPatch, sup[z], proc[z])
  BY <1>2, <1>3, <1>4 DEF Records
<1>7. patch[c].at # "idle" /\ z = patch[c].zone
  BY <1>1, <1>2
<1> QED
  BY <1>3, <1>5, <1>6, <1>7, NoPatchIs, PatchStep

-----------------------------------------------------------------------------
(* A new request.                                                          *)

SetTo(r, trim, muted) ==
    [r EXCEPT !.trim = IF trim = Unset THEN @ ELSE trim,
              !.muted = IF muted = Unset THEN @ ELSE muted]

Asks(z, trim, muted, device) ==
    [at |-> IF trim # Unset THEN "volume" ELSE IF muted # Unset THEN "mute" ELSE "applied",
     zone |-> z, trim |-> trim, muted |-> muted, device |-> device,
     volume |-> IF trim = Unset THEN 0 ELSE Clamp(master + trim),
     row |-> Default[Primary]]

LEMMA SetToIs ==
  ASSUME NEW r \in Settings, NEW trim \in Trims \cup {Unset}, NEW muted \in BOOLEAN \cup {Unset}
  PROVE  /\ SetTo(r, trim, muted) \in Settings
         /\ SetTo(r, trim, muted).trim = IF trim = Unset THEN r.trim ELSE trim
         /\ SetTo(r, trim, muted).muted = IF muted = Unset THEN r.muted ELSE muted
BY DEF SetTo, Settings

LEMMA AsksIs ==
  ASSUME Types, NEW z \in Zones, NEW trim \in Trims \cup {Unset},
         NEW muted \in BOOLEAN \cup {Unset}, NEW device \in Choices \cup {Unset}
  PROVE  /\ Asks(z, trim, muted, device) \in PatchRow
         /\ Asks(z, trim, muted, device).zone = z
         /\ Asks(z, trim, muted, device).muted = muted
         /\ Asks(z, trim, muted, device).at =
               IF trim # Unset THEN "volume" ELSE IF muted # Unset THEN "mute" ELSE "applied"
         /\ Asks(z, trim, muted, device).volume = IF trim = Unset THEN 0 ELSE Clamp(master + trim)
<1>1. Primary \in Zones /\ Default[Primary] \in Settings /\ muted \in Mutes
  BY ZonesAssumption DEF Mutes
<1>2. (IF trim = Unset THEN 0 ELSE Clamp(master + trim)) \in Int
  <2>1. CASE trim = Unset
    BY <2>1
  <2>2. CASE trim # Unset
    <3>1. master \in Int /\ trim \in Int
      BY <2>2, EffectiveIs, ZonesAssumption
    <3> QED
      BY <2>2, <3>1, ClampIs
  <2> QED
    BY <2>1, <2>2
<1> HIDE DEF Mutes
<1> QED
  BY <1>1, <1>2 DEF Asks, PatchRow, PatchStates

\* A zone that nobody is setting fits what a new request will do to it.
LEMMA AsksFits ==
  ASSUME IInv, NEW z \in Enabled, z \notin amiss, ctl.op # "volume", ~ Setting(z),
         NEW trim \in Trims \cup {Unset}, NEW muted \in BOOLEAN \cup {Unset},
         NEW device \in Choices \cup {Unset}, UNCHANGED master,
         conf'[z] = SetTo(conf[z], trim, muted)
  PROVE  Fits(Asks(z, trim, muted, device), sup[z], proc[z], Effective(z)', conf'[z].muted)
<1> DEFINE x == Asks(z, trim, muted, device)
<1>1. /\ Types /\ z \in Zones /\ conf[z] \in Settings
  BY ZonesAssumption DEF IInv, Types
<1>2. /\ x.at = IF trim # Unset THEN "volume" ELSE IF muted # Unset THEN "mute" ELSE "applied"
      /\ x.muted = muted /\ x.volume = IF trim = Unset THEN 0 ELSE Clamp(master + trim)
  BY <1>1, AsksIs
<1>3. /\ conf'[z].trim = IF trim = Unset THEN conf[z].trim ELSE trim
      /\ conf'[z].muted = IF muted = Unset THEN conf[z].muted ELSE muted
  BY <1>1, SetToIs
<1> HIDE DEF x
<1>4. \A d \in Callers : ~ Sets(d, z)
  BY DEF Sets, Setting
<1>5. Level(z) /\ Quieted(z)
  BY DEF IInv, Sounds
<1>6. ~ VolumeDue(z) /\ ~ VolumeSoon(z) /\ ~ MuteDue(z) /\ ~ MuteSoon(z)
  BY <1>4 DEF VolumeDue, VolumeSoon, MuteDue, MuteSoon, SetsMute
<1>7. /\ sup[z].volume = Effective(z) /\ sup[z].muted = conf[z].muted
      /\ proc[z].alive => proc[z].volume = sup[z].volume /\ proc[z].muted = sup[z].muted
      /\ sup[z].at = "starting" => sup[z].ovolume = sup[z].volume /\ sup[z].omuted = sup[z].muted
  BY <1>5, <1>6 DEF Level, Quieted
<1>8. Effective(z)' = IF trim = Unset THEN Effective(z) ELSE Clamp(master + trim)
  BY <1>3 DEF Effective
<1>9. /\ x.at # "volume" => sup[z].volume = Effective(z)'
      /\ x.at \in {"volume", "volumeStored"} => x.volume = Effective(z)'
  BY <1>2, <1>7, <1>8
<1>10. /\ x.muted = Unset \/ x.at \notin MuteStates => sup[z].muted = conf'[z].muted
       /\ x.muted # Unset /\ x.at \in MuteStates \cup {"muteStored"} => x.muted = conf'[z].muted
  BY <1>2, <1>3, <1>7 DEF MuteStates
<1> QED
  BY <1>7, <1>9, <1>10 DEF Fits, x

LEMMA SetZoneKeeps ==
  ASSUME IInv, NEW c \in Callers, NEW z \in Zones, NEW trim \in Trims \cup {Unset},
         NEW muted \in BOOLEAN \cup {Unset}, NEW device \in Choices \cup {Unset},
         SetZone(c, z, trim, muted, device)
  PROVE  IInv'
<1> DEFINE x == IF z \in Enabled THEN Asks(z, trim, muted, device) ELSE NoPatch
           w == SetTo(conf[z], trim, muted)
<1>1. Types /\ Processes /\ Requests /\ Plays /\ conf[z] \in Settings
  BY DEF IInv, Types
<1>2. /\ patch[c].at = "idle"
      /\ unsaved' = IF z \notin Enabled \/ Setting(z) THEN unsaved \cup {z} ELSE unsaved
      /\ amiss' = IF Setting(z) \/ ctl.op = "volume" THEN amiss \cup {z} ELSE amiss
      /\ UNCHANGED <<saved, master, sup, proc, ctl, playing, reload>>
  BY DEF SetZone
<1>3. patch' = [patch EXCEPT ![c] = x]
  BY DEF SetZone, Asks
<1>4. conf' = [conf EXCEPT ![z] = w]
  BY <1>1 DEF SetZone, SetTo, Types
<1>5. w \in Settings
  BY <1>1, SetToIs
<1>6. x \in PatchRow /\ (x.at = "idle" \/ x.zone = z) /\ x.at # "read"
      /\ (z \notin Enabled => x.at = "idle") /\ (z \in Enabled => x.at # "idle")
      /\ (x.at \in {"mute", "muteStored"} => x.muted # Unset)
  <2>1. CASE z \in Enabled
    BY <1>1, <2>1, AsksIs
  <2>2. CASE z \notin Enabled
    BY <2>2, NoPatchIs
  <2> QED
    BY <2>1, <2>2
<1>7. z \in Enabled => x = Asks(z, trim, muted, device)
  OBVIOUS
<1> HIDE DEF x
<1>8. /\ patch' \in [Callers -> PatchRow] /\ patch'[c] = x
      /\ \A d \in Callers : d # c => patch'[d] = patch[d]
  BY <1>1, <1>3, <1>6 DEF Types
<1>9. /\ conf' \in [Zones -> Settings] /\ conf'[z] = w
      /\ \A y \in Zones : y # z => conf'[y] = conf[y]
  BY <1>1, <1>4, <1>5 DEF Types
<1>10. Types'
  BY <1>1, <1>2, <1>8, <1>9 DEF Types
<1>11. Processes' /\ Plays'
  BY <1>1, <1>2 DEF Processes, Plays
<1>12. Requests'
  BY <1>1, <1>2, <1>6, <1>8 DEF Requests
<1>13. \A y \in Zones : y # z =>
          \A d \in Callers : (Sets(d, y) \/ Sets(d, y)') => patch'[d] = patch[d]
  BY <1>2, <1>6, <1>8 DEF Sets
<1>14. ~ Setting(z) => \A d \in Callers : Sets(d, z)' => d = c
  BY <1>8 DEF Sets, Setting
<1>15. ASSUME NEW y \in Zones
       PROVE  Saves(y)'
  <2>1. Saves(y)
    BY DEF IInv
  <2>2. CASE y # z
    BY <1>2, <1>9, <1>13, <2>1, <2>2, SavesFrame
  <2>3. CASE y = z
    <3> SUFFICES ASSUME z \notin unsaved'
                 PROVE  Saves(z)'
      BY <2>3 DEF Saves
    <3>1. ~ Setting(z) /\ z \in Enabled
      BY <1>2
    <3>2. Setting(z)'
      BY <1>6, <1>8, <3>1 DEF Setting
    <3> QED
      BY <1>6, <1>8, <1>14, <3>1, <3>2 DEF Saves
  <2> QED
    BY <2>2, <2>3
<1>16. ASSUME NEW y \in Enabled
       PROVE  Sounds(y)'
  <2>1. Sounds(y) /\ y \in Zones
    BY ZonesAssumption DEF IInv
  <2>2. CASE y # z
    BY <1>2, <1>9, <1>13, <2>1, <2>2, SoundsFrame
  <2>3. CASE y = z
    <3> SUFFICES ASSUME z \notin amiss'
                 PROVE  Alone(z)' /\ Level(z)' /\ Quieted(z)'
      BY <2>3 DEF Sounds
    <3>1. ~ Setting(z) /\ ctl.op # "volume" /\ z \notin amiss /\ z \in Enabled
      BY <1>2, <2>3
    <3>2. Fits(x, sup[z], proc[z], Effective(z)', conf'[z].muted)
      BY <1>2, <1>7, <1>9, <3>1, AsksFits
    <3>3. Fits(patch'[c], sup'[z], proc'[z], Effective(z)', conf'[z].muted)
      BY <1>2, <1>8, <3>2
    <3>4. \A d \in Callers : d # c => ~ Sets(d, z)'
      BY <1>14, <3>1
    <3>5. Sets(c, z)' /\ ctl'.op # "volume"
      BY <1>2, <1>6, <1>8, <3>1 DEF Sets
    <3> QED
      BY <3>3, <3>4, <3>5, FitsThere
  <2> QED
    BY <2>2, <2>3
<1> QED
  BY <1>1, <1>10, <1>11, <1>12, <1>15, <1>16 DEF IInv

-----------------------------------------------------------------------------
(* Starts of playerd.                                                      *)

Booted ==
    /\ conf \in [Zones -> Settings] /\ saved = conf /\ master = DefaultVolume
    /\ sup = BootSup(conf) /\ proc = BootProc(conf) /\ ctl = Idle /\ reload = TRUE
    /\ patch = [c \in Callers |-> NoPatch]
    /\ playing \in Sources \cup {None} /\ amiss = {} /\ unsaved = {}

LEMMA SupervisedIs ==
  ASSUME NEW z \in Zones, NEW v \in Int, NEW m \in Mutes
  PROVE  /\ Supervised(z, v, m) \in SupRow
         /\ Supervised(z, v, m).at = (IF z \in Enabled THEN "up" ELSE "off")
         /\ Supervised(z, v, m).volume = v /\ Supervised(z, v, m).muted = m
<1>1. FALSE \in Mutes
  BY DEF Mutes
<1>2. "up" \in SupStates /\ "off" \in SupStates /\ 0 \in Int
  BY DEF SupStates
<1>3. CASE z \in Enabled
  BY <1>1, <1>2, <1>3 DEF Supervised, SupRow
<1>4. CASE z \notin Enabled
  BY <1>1, <1>2, <1>4 DEF Supervised, SupRow
<1> QED
  BY <1>3, <1>4

LEMMA StartedIs ==
  ASSUME NEW z \in Zones, NEW v \in Int, NEW m \in Mutes
  PROVE  /\ Started(z, v, m) \in ProcRow
         /\ (Started(z, v, m).alive <=> z \in Enabled) /\ Started(z, v, m).source = None
         /\ Started(z, v, m).volume = v /\ Started(z, v, m).muted = m
<1>1. CASE z \in Enabled
  BY <1>1 DEF Started, ProcRow
<1>2. CASE z \notin Enabled
  <2>1. Started(z, v, m) = [alive |-> FALSE, volume |-> v, muted |-> m, source |-> None]
    <3>1. (z \in Enabled) = FALSE
      BY <1>2
    <3> QED
      BY <3>1, Zenon DEF Started
  <2> QED
    BY <1>2, <2>1 DEF ProcRow
<1> QED
  BY <1>1, <1>2

LEMMA StartsSound ==
  Booted => IInv
<1> SUFFICES ASSUME Booted
             PROVE  IInv
  OBVIOUS
<1>0. /\ conf \in [Zones -> Settings] /\ saved = conf /\ master = DefaultVolume
      /\ ctl = Idle /\ reload = TRUE /\ playing \in Sources \cup {None}
      /\ patch = [c \in Callers |-> NoPatch]
  BY DEF Booted
<1>1. \A c \in Callers : patch[c] = NoPatch /\ patch[c].at = "idle"
  BY <1>0, NoPatchIs
<1>2. \A c \in Callers, z \in Zones : ~ Sets(c, z)
  BY <1>1 DEF Sets
<1>3. ctl \in CtlRow /\ ctl.op = "none" /\ ctl.todo = {} /\ ctl.stored = {}
  BY <1>0 DEF Idle, CtlRow, Ops
<1>4. ASSUME NEW z \in Zones
      PROVE  /\ sup[z] = Supervised(z, Effective(z), conf[z].muted)
             /\ proc[z] = Started(z, Effective(z), conf[z].muted)
             /\ Effective(z) \in Int /\ conf[z].muted \in Mutes
  <2>1. conf[z] \in Settings /\ master = DefaultVolume
    BY <1>0
  <2>2. conf[z].muted \in Mutes /\ conf[z].trim \in Int /\ master \in Int
    <3>1. conf[z].muted \in Mutes
      BY <2>1 DEF Settings, Mutes
    <3>2. conf[z].trim \in Int
      BY <2>1, ZonesAssumption DEF Settings
    <3>3. \A v \in Volumes \cup {DefaultVolume} : v \in Int
      BY ZonesAssumption
    <3> QED
      BY <2>1, <3>1, <3>2, <3>3
  <2>3. Effective(z) \in Int
    BY <2>2, ClampIs DEF Effective
  <2> QED
    BY <1>0, <2>2, <2>3 DEF Booted, BootSup, BootProc, BootVolume, Effective
<1>5. ASSUME NEW z \in Zones
      PROVE  /\ sup[z] \in SupRow /\ proc[z] \in ProcRow
             /\ sup[z].at = (IF z \in Enabled THEN "up" ELSE "off")
             /\ sup[z].volume = Effective(z) /\ sup[z].muted = conf[z].muted
             /\ (proc[z].alive <=> z \in Enabled) /\ proc[z].source = None
             /\ proc[z].volume = Effective(z) /\ proc[z].muted = conf[z].muted
  BY <1>4, SupervisedIs, StartedIs
<1>6. Types
  <2>1. patch \in [Callers -> PatchRow]
    BY <1>0, NoPatchIs
  <2>2. sup \in [Zones -> SupRow] /\ proc \in [Zones -> ProcRow]
    BY <1>5 DEF Booted, BootSup, BootProc
  <2> QED
    BY <1>0, <1>3, <2>1, <2>2 DEF Types
<1>7. Processes
  BY <1>5 DEF Processes
<1>8. Requests /\ Plays
  BY <1>0, <1>1, <1>3 DEF Requests, Plays, Calls
<1>9. ASSUME NEW z \in Zones
      PROVE  Saves(z)
  BY <1>0, <1>2 DEF Saves
<1>10. ASSUME NEW z \in Enabled
       PROVE  Sounds(z)
  <2>1. z \in Zones
    BY ZonesAssumption
  <2>2. Alone(z)
    BY <1>2, <2>1 DEF Alone
  <2>3. Level(z)
    BY <1>2, <1>5, <2>1 DEF Level
  <2>4. Quieted(z)
    BY <1>2, <1>5, <2>1 DEF Quieted, SetsMute
  <2> QED
    BY <2>2, <2>3, <2>4 DEF Sounds
<1> QED
  BY <1>6, <1>7, <1>8, <1>9, <1>10 DEF IInv

LEMMA RestartKeeps ==
  ASSUME IInv, Restart
  PROVE  IInv'
<1>1. Booted'
  BY DEF Booted, Restart, IInv, Types
<1> QED
  BY <1>1, StartsSound, PTL

-----------------------------------------------------------------------------
(* The theorems.                                                           *)

LEMMA IInvInit ==
  Init => IInv
<1>1. Init => Booted
  BY ZonesAssumption DEF Init, Booted
<1> QED
  BY <1>1, StartsSound

LEMMA IInvNext ==
  ASSUME IInv, [Next]_vars
  PROVE  IInv'
<1>1. CASE UNCHANGED vars
  <2>1. /\ Types' = Types /\ Processes' = Processes /\ Requests' = Requests /\ Plays' = Plays
    BY <1>1 DEF vars, Types, Processes, Requests, Plays
  <2>2. UNCHANGED <<conf, saved, master, sup, proc, ctl, patch, amiss, unsaved>>
    BY <1>1 DEF vars
  <2>3. \A z \in Zones : Saves(z)'
    BY <2>2, SavesFrame DEF IInv
  <2>4. \A z \in Enabled : z \in Zones /\ Sounds(z)
    BY ZonesAssumption DEF IInv
  <2>5. \A z \in Enabled : Sounds(z)'
    BY <2>2, <2>4, SoundsFrame
  <2> QED
    BY <2>1, <2>3, <2>5 DEF IInv
<1>2. CASE \E z \in Enabled : Supervise(z) \/ Crash(z) \/ StartFails(z)
  BY <1>2, SupervisorKeeps
<1>3. CASE Serve
  BY <1>3, ReturnKeeps, CallZoneKeeps, VolumeStoredKeeps, VolumeSentKeeps DEF Serve
<1>4. CASE Restore \/ Stop \/ \E s \in Sources : Play(s)
  BY <1>4, RestoreKeeps, StopKeeps, PlayKeeps
<1>5. CASE \E v \in Volumes : SetVolume(v)
  BY <1>5, SetVolumeKeeps
<1>6. ASSUME NEW c \in Callers, Patch(c)
      PROVE  IInv'
  BY <1>6, ZoneVolumeKeeps, ZoneVolumeSentKeeps, ZoneMuteKeeps, ZoneMuteSentKeeps,
     ReadStatusesKeeps, SaveRowKeeps, SaveFailsKeeps DEF Patch
<1>7. CASE \E c \in Callers, z \in Zones, trim \in Trims \cup {Unset},
              muted \in BOOLEAN \cup {Unset}, device \in Choices \cup {Unset} :
              SetZone(c, z, trim, muted, device)
  BY <1>7, SetZoneKeeps
<1>8. CASE Restart
  BY <1>8, RestartKeeps
<1> QED
  BY <1>1, <1>2, <1>3, <1>4, <1>5, <1>6, <1>7, <1>8 DEF Next

LEMMA IInvAlways ==
  Spec => []IInv
BY IInvInit, IInvNext, PTL DEF Spec

\* Zones, supervisors and requests hold what they can: a disabled zone has no
\* process, and a process runs only where its supervisor has one.
THEOREM TypeCorrect ==
  Spec => []TypeOK
<1>1. IInv => TypeOK
  <2> SUFFICES ASSUME IInv
               PROVE  TypeOK
    OBVIOUS
  <2>1. Types /\ Processes
    BY DEF IInv
  <2>2. ASSUME NEW z \in Zones
        PROVE  sup[z].at \in SupStates /\ proc[z].source \in Sources \cup {None}
    BY <2>1 DEF Types, SupRow, ProcRow
  <2>3. ctl.todo \cup ctl.stored \subseteq Enabled
    BY <2>1 DEF Types, CtlRow
  <2>4. \A c \in Callers : patch[c].at \in PatchStates
    BY <2>1 DEF Types, PatchRow
  <2> QED
    BY <2>1, <2>2, <2>3, <2>4 DEF TypeOK, Types, Processes
<1> QED
  BY <1>1, IInvAlways, PTL

\* A zone that nobody is setting and that missed no change plays at the master
\* volume plus its trim, and is muted if it is to be (mirrored.go SetVolume and
\* SetZone, supervisor.go watch).
THEOREM SoundsAsSetAlways ==
  Spec => []SoundsAsSet
<1>1. IInv => SoundsAsSet
  <2> SUFFICES ASSUME IInv, NEW z \in Enabled, AtRest(z), z \notin amiss
               PROVE  proc[z].volume = Effective(z) /\ proc[z].muted = conf[z].muted
    BY DEF SoundsAsSet
  <2>1. Level(z) /\ Quieted(z)
    BY DEF IInv, Sounds
  <2>2. \A c \in Callers : ~ Sets(c, z)
    BY DEF AtRest, Setting, Sets
  <2>3. ~ VolumeDue(z) /\ ~ VolumeSoon(z) /\ ~ MuteDue(z) /\ ~ MuteSoon(z)
    BY <2>2 DEF AtRest, VolumeDue, VolumeSoon, MuteDue, MuteSoon, SetsMute
  <2> QED
    BY <2>1, <2>3 DEF AtRest, Level, Quieted
<1> QED
  BY <1>1, IInvAlways, PTL

\* Trim and mute are saved for the next start as they were applied, unless the
\* request failed or crossed another one (api/audio.go, PATCH of an output).
THEOREM LiveIsSavedAlways ==
  Spec => []LiveIsSaved
<1>1. IInv => LiveIsSaved
  BY DEF IInv, LiveIsSaved, Saves
<1> QED
  BY <1>1, IInvAlways, PTL

\* Between calls no two zones play different sources (mirrored.go all and primary,
\* controller.go on engine-restarted).
THEOREM ZonesAgreeAlways ==
  Spec => []ZonesAgree
<1>1. IInv => ZonesAgree
  <2>1. "none" \notin Calls
    BY DEF Calls
  <2> QED
    BY <2>1 DEF IInv, ZonesAgree, Plays
<1> QED
  BY <1>1, IInvAlways, PTL
=============================================================================
