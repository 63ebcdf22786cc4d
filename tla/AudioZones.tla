----------------------------- MODULE AudioZones -----------------------------
(***************************************************************************)
(* The mirrored audio outputs of ekkoplay: one supervised mpv per enabled  *)
(* zone (src/backend/internal/player/supervisor.go, mpv.go), the calls     *)
(* that fan out to all of them (mirrored.go), and the requests that change *)
(* a zone's settings while it plays and save them for the next start       *)
(* (api/audio.go, cmd/playerd/main.go).                                    *)
(*                                                                         *)
(* The controller makes one call at a time (Controller.mu); requests for   *)
(* zones do not take its lock.  A command dials the zone's socket, so that *)
(* it reaches whichever mpv listens there.                                 *)
(***************************************************************************)
EXTENDS Integers, FiniteSets

CONSTANTS Zones,       \* audio_outputs of the configuration
          Enabled,     \* those that are enabled
          Primary,     \* the primary one
          Callers,     \* requests for settings that may be in flight at once
          Sources,     \* what can be loaded
          None,
          Unset,       \* a field that a request does not name
          Volumes,     \* what users set the volume to
          Trims,       \* what users set a zone's trim to
          Devices,     \* devices of the host
          Choices,     \* those that users set a zone to
          Default,     \* settings of a zone in the configuration
          DefaultVolume,
          MaxVolume,   \* 100
          MaxFaults,   \* bound: deaths of mpv
          MaxRequests, \* bound: what users ask for
          MaxLives     \* bound: lives of playerd

Settings == [trim : Trims, muted : BOOLEAN, device : Devices]

ASSUME ZonesAssumption ==
    /\ Primary \in Enabled /\ Enabled \subseteq Zones
    /\ None \notin Sources
    /\ Volumes \cup {DefaultVolume} \subseteq 0 .. MaxVolume
    /\ Trims \subseteq Int /\ Choices \subseteq Devices
    /\ Default \in [Zones -> Settings]
    /\ MaxVolume \in Nat
    /\ MaxFaults \in Nat /\ MaxRequests \in Nat /\ MaxLives \in Nat

VARIABLES conf,     \* mirrorZone.config
          saved,    \* audio_output_overrides, as it is read at a start
          master,   \* MirroredEngine.masterVolume
          sup,      \* SupervisedMPV of each zone
          proc,     \* the mpv process of each zone
          ctl,      \* the controller's call in progress
          playing,  \* what player_state selects
          reload,   \* an engine-restarted event of the primary waits
          patch,    \* requests for settings
          amiss,    \* zones that missed a change (history)
          unsaved,  \* zones whose settings were changed and not saved (history)
          asked,    \* the device last acknowledged (history)
          requests, faults, lives

vars == <<conf, saved, master, sup, proc, ctl, playing, reload, patch, amiss, unsaved, asked,
          requests, faults, lives>>

Clamp(v) == IF v < 0 THEN 0 ELSE IF v > MaxVolume THEN MaxVolume ELSE v
Effective(z) == Clamp(master + conf[z].trim)

\* ovolume and omuted are the options of a start in progress.
\* exited: mpv is gone and watch has not seen it; down: current is nil; starting:
\* the options are read and mpv is being started with them.
SupStates == {"off", "up", "exited", "down", "starting"}
Supervised(z, volume, muted) ==
    [at |-> IF z \in Enabled THEN "up" ELSE "off",
     volume |-> volume, muted |-> muted, ovolume |-> 0, omuted |-> FALSE]
Started(z, volume, muted) ==
    [alive |-> z \in Enabled, volume |-> volume, muted |-> muted, source |-> None]

Idle     == [op |-> "none", source |-> None, todo |-> {}, stored |-> {}, ok |-> FALSE]
NoPatch  == [at |-> "idle", zone |-> Primary, trim |-> Unset, muted |-> Unset, device |-> Unset,
             volume |-> 0, row |-> Default[Primary]]
PatchStates == {"idle", "volume", "volumeStored", "mute", "muteStored", "applied", "read"}

\* StartMirroredMPV with the settings of the table.
BootVolume(settings, z) == Clamp(DefaultVolume + settings[z].trim)
BootSup(settings)  == [z \in Zones |-> Supervised(z, BootVolume(settings, z), settings[z].muted)]
BootProc(settings) == [z \in Zones |-> Started(z, BootVolume(settings, z), settings[z].muted)]

\* restorePaused runs at once.
Init ==
    /\ conf = Default /\ saved = Default
    /\ master = DefaultVolume
    /\ sup = BootSup(Default) /\ proc = BootProc(Default)
    /\ ctl = Idle /\ reload = TRUE
    /\ patch = [c \in Callers |-> NoPatch]
    /\ playing = None
    /\ amiss = {} /\ unsaved = {}
    /\ asked = [z \in Zones |-> Default[z].device]
    /\ requests = 0 /\ faults = 0 /\ lives = 1

Current(z) == sup[z].at \in {"up", "exited"}

-----------------------------------------------------------------------------
(* The supervisor of a zone.                                               *)

Crash(z) ==
    /\ faults < MaxFaults
    /\ proc[z].alive /\ sup[z].at = "up"
    /\ faults' = faults + 1
    /\ proc' = [proc EXCEPT ![z] =
                    [alive |-> FALSE, volume |-> 0, muted |-> FALSE, source |-> None]]
    /\ sup' = [sup EXCEPT ![z].at = "exited"]
    /\ UNCHANGED <<conf, saved, master, ctl, playing, reload, patch, amiss, unsaved, asked,
                   requests, lives>>

Watch(z) ==
    /\ sup[z].at = "exited"
    /\ sup' = [sup EXCEPT ![z].at = "down"]
    /\ UNCHANGED <<conf, saved, master, proc, ctl, playing, reload, patch, amiss, unsaved, asked,
                   requests, faults, lives>>

\* The mutant starts mpv with the volume of the first start.
OptionsOfBoot(z) ==
    [sup[z] EXCEPT !.at = "starting", !.ovolume = BootVolume(Default, z), !.omuted = sup[z].muted]

CurrentOptions(z) ==
    [sup[z] EXCEPT !.at = "starting", !.ovolume = sup[z].volume, !.omuted = sup[z].muted]

ReadOptions(z) ==
    /\ sup[z].at = "down"
    /\ sup' = [sup EXCEPT ![z] = CurrentOptions(z)]
    /\ UNCHANGED <<conf, saved, master, proc, ctl, playing, reload, patch, amiss, unsaved, asked,
                   requests, faults, lives>>

StartFails(z) ==
    /\ sup[z].at = "starting"
    /\ sup' = [sup EXCEPT ![z] = [Supervised(z, @.volume, @.muted) EXCEPT !.at = "down"]]
    /\ UNCHANGED <<conf, saved, master, proc, ctl, playing, reload, patch, amiss, unsaved, asked,
                   requests, faults, lives>>

\* The mutant tells nobody.
RestartedQuietly(z) ==
    /\ sup[z].at = "starting"
    /\ sup' = [sup EXCEPT ![z] = Supervised(z, @.volume, @.muted)]
    /\ proc' = [proc EXCEPT ![z] = Started(z, sup[z].ovolume, sup[z].omuted)]
    /\ UNCHANGED <<conf, saved, master, ctl, playing, reload, patch, amiss, unsaved, asked,
                   requests, faults, lives>>

\* Only the primary's events are read.
Restarted(z) ==
    /\ sup[z].at = "starting"
    /\ sup' = [sup EXCEPT ![z] = Supervised(z, @.volume, @.muted)]
    /\ proc' = [proc EXCEPT ![z] = Started(z, sup[z].ovolume, sup[z].omuted)]
    /\ reload' = (reload \/ z = Primary)
    /\ UNCHANGED <<conf, saved, master, ctl, playing, patch, amiss, unsaved, asked,
                   requests, faults, lives>>

-----------------------------------------------------------------------------
(* The controller's calls, each a goroutine per zone.                      *)

\* The mutant does not leave out zones without an engine.
FanAll(op) == Zones

\* The mutant's restore is for the primary only.
FanPrimary(op) == IF op = "restore" THEN {Primary} ELSE Enabled

Fan(op) == Enabled

Begin(op, source) ==
    ctl' = [op |-> op, source |-> source, todo |-> Fan(op), stored |-> {}, ok |-> FALSE]

Play(source) ==
    /\ ctl.op = "none" /\ requests < MaxRequests
    /\ requests' = requests + 1
    /\ Begin("play", source)
    /\ UNCHANGED <<conf, saved, master, sup, proc, playing, reload, patch, amiss, unsaved, asked,
                   faults, lives>>

Stop ==
    /\ ctl.op = "none" /\ requests < MaxRequests
    /\ requests' = requests + 1
    /\ Begin("stop", None)
    /\ UNCHANGED <<conf, saved, master, sup, proc, playing, reload, patch, amiss, unsaved, asked,
                   faults, lives>>

\* restorePaused, at a start of playerd and on engine-restarted.
Restore ==
    /\ ctl.op = "none" /\ reload
    /\ reload' = FALSE
    /\ IF playing = None THEN UNCHANGED ctl ELSE Begin("restore", playing)
    /\ UNCHANGED <<conf, saved, master, sup, proc, playing, patch, amiss, unsaved, asked,
                   requests, faults, lives>>

Setting(z) == \E c \in Callers : patch[c].at # "idle" /\ patch[c].zone = z

\* A zone whose volume a request is setting at the same time gets the one or the
\* other.
SetVolume(v) ==
    /\ ctl.op = "none" /\ requests < MaxRequests
    /\ requests' = requests + 1
    /\ master' = v
    /\ Begin("volume", None)
    /\ amiss' = amiss \cup {z \in Zones : Setting(z)}
    /\ UNCHANGED <<conf, saved, sup, proc, playing, reload, patch, unsaved, asked, faults, lives>>

Ok(z, ok) == ctl.ok \/ (z = Primary /\ ok)

\* Play and Stop: the command finds mpv, or fails.
CallZone(z) ==
    /\ ctl.op \in {"play", "stop", "restore"} /\ z \in ctl.todo
    /\ LET reached == Current(z) /\ proc[z].alive IN
       /\ proc' = IF reached THEN [proc EXCEPT ![z].source = ctl.source] ELSE proc
       /\ ctl' = [ctl EXCEPT !.todo = @ \ {z}, !.ok = Ok(z, reached)]
    /\ UNCHANGED <<conf, saved, master, sup, playing, reload, patch, amiss, unsaved, asked,
                   requests, faults, lives>>

\* SetVolume stores the volume for the next start; an mpv that is being started
\* at this moment has been given the volume before.
StoreVolume(z, v) ==
    /\ sup' = [sup EXCEPT ![z].volume = v]
    /\ amiss' = IF sup[z].at = "starting" THEN amiss \cup {z} ELSE amiss

VolumeStored(z) ==
    /\ ctl.op = "volume" /\ z \in ctl.todo
    /\ StoreVolume(z, Effective(z))
    /\ ctl' = [ctl EXCEPT !.todo = @ \ {z}, !.stored = IF Current(z) THEN @ \cup {z} ELSE @]
    /\ UNCHANGED <<conf, saved, master, proc, playing, reload, patch, unsaved, asked,
                   requests, faults, lives>>

VolumeSent(z) ==
    /\ ctl.op = "volume" /\ z \in ctl.stored
    /\ proc' = IF proc[z].alive THEN [proc EXCEPT ![z].volume = sup[z].volume] ELSE proc
    /\ ctl' = [ctl EXCEPT !.stored = @ \ {z}, !.ok = Ok(z, proc[z].alive)]
    /\ UNCHANGED <<conf, saved, master, sup, playing, reload, patch, amiss, unsaved, asked,
                   requests, faults, lives>>

\* What the primary returned is what the call returns.
Return ==
    /\ ctl.op # "none"
    /\ ctl.todo = {} /\ ctl.stored = {}
    /\ playing' = IF ctl.op = "play" /\ ctl.ok THEN ctl.source ELSE playing
    /\ ctl' = Idle
    /\ UNCHANGED <<conf, saved, master, sup, proc, reload, patch, amiss, unsaved, asked,
                   requests, faults, lives>>

-----------------------------------------------------------------------------
(* PATCH /admin/audio/outputs/{name}.                                      *)

AfterVolume(c) == IF patch[c].muted # Unset THEN "mute" ELSE "applied"

\* SetZone takes the settings and reads the master volume under its lock; a zone
\* that is not enabled has no engine to apply them to.
SetZone(c, z, trim, muted, device) ==
    /\ patch[c].at = "idle" /\ requests < MaxRequests
    /\ <<trim, muted, device>> # <<Unset, Unset, Unset>>
    /\ requests' = requests + 1
    /\ conf' = [conf EXCEPT ![z].trim = IF trim = Unset THEN @ ELSE trim,
                            ![z].muted = IF muted = Unset THEN @ ELSE muted]
    /\ unsaved' = IF z \notin Enabled \/ Setting(z) THEN unsaved \cup {z} ELSE unsaved
    /\ amiss' = IF Setting(z) \/ ctl.op = "volume" THEN amiss \cup {z} ELSE amiss
    /\ patch' = [patch EXCEPT ![c] =
          IF z \notin Enabled THEN NoPatch
          ELSE [at |-> IF trim # Unset THEN "volume"
                       ELSE IF muted # Unset THEN "mute" ELSE "applied",
                zone |-> z, trim |-> trim, muted |-> muted, device |-> device,
                volume |-> IF trim = Unset THEN 0 ELSE Clamp(master + trim),
                row |-> Default[Primary]]]
    /\ UNCHANGED <<saved, master, sup, proc, ctl, playing, reload, asked, faults, lives>>

\* The request is answered 409: what it changed so far stays, and is not saved.
Refuse(c) ==
    /\ patch' = [patch EXCEPT ![c] = NoPatch]
    /\ unsaved' = unsaved \cup {patch[c].zone}

ZoneVolume(c) ==
    LET z == patch[c].zone IN
    /\ patch[c].at = "volume"
    /\ sup' = [sup EXCEPT ![z].volume = patch[c].volume]
    /\ amiss' = IF sup[z].at = "starting" \/ (~Current(z) /\ patch[c].muted # Unset)
                THEN amiss \cup {z} ELSE amiss
    /\ IF Current(z) THEN /\ patch' = [patch EXCEPT ![c].at = "volumeStored"]
                          /\ UNCHANGED unsaved
       ELSE Refuse(c)
    /\ UNCHANGED <<conf, saved, master, proc, ctl, playing, reload, asked, requests, faults, lives>>

ZoneVolumeSent(c) ==
    LET z == patch[c].zone IN
    /\ patch[c].at = "volumeStored"
    /\ IF proc[z].alive
       THEN /\ proc' = [proc EXCEPT ![z].volume = patch[c].volume]
            /\ patch' = [patch EXCEPT ![c].at = AfterVolume(c)]
            /\ UNCHANGED <<unsaved, amiss>>
       ELSE /\ Refuse(c)
            /\ amiss' = IF patch[c].muted # Unset THEN amiss \cup {z} ELSE amiss
            /\ UNCHANGED proc
    /\ UNCHANGED <<conf, saved, master, sup, ctl, playing, reload, asked, requests, faults, lives>>

ZoneMute(c) ==
    LET z == patch[c].zone IN
    /\ patch[c].at = "mute"
    /\ sup' = [sup EXCEPT ![z].muted = patch[c].muted]
    /\ amiss' = IF sup[z].at = "starting" THEN amiss \cup {z} ELSE amiss
    /\ IF Current(z) THEN /\ patch' = [patch EXCEPT ![c].at = "muteStored"]
                          /\ UNCHANGED unsaved
       ELSE Refuse(c)
    /\ UNCHANGED <<conf, saved, master, proc, ctl, playing, reload, asked, requests, faults, lives>>

ZoneMuteSent(c) ==
    LET z == patch[c].zone IN
    /\ patch[c].at = "muteStored"
    /\ IF proc[z].alive
       THEN /\ proc' = [proc EXCEPT ![z].muted = patch[c].muted]
            /\ patch' = [patch EXCEPT ![c].at = "applied"]
            /\ UNCHANGED unsaved
       ELSE Refuse(c) /\ UNCHANGED proc
    /\ UNCHANGED <<conf, saved, master, sup, ctl, playing, reload, amiss, asked,
                   requests, faults, lives>>

\* The mutant fills in what the request does not name from the configuration.
RowOfDefault(c) ==
    LET p == patch[c] IN
    [trim   |-> IF p.trim = Unset THEN Default[p.zone].trim ELSE p.trim,
     muted  |-> IF p.muted = Unset THEN Default[p.zone].muted ELSE p.muted,
     device |-> IF p.device = Unset THEN conf[p.zone].device ELSE p.device]

\* Statuses gives what runs now; what the request does not name is saved from it.
RowOf(c) ==
    LET p == patch[c] IN
    [conf[p.zone] EXCEPT !.device = IF p.device = Unset THEN @ ELSE p.device]

ReadStatuses(c) ==
    /\ patch[c].at = "applied"
    /\ patch' = [patch EXCEPT ![c].at = "read", ![c].row = RowOf(c)]
    /\ UNCHANGED <<conf, saved, master, sup, proc, ctl, playing, reload, amiss, unsaved, asked,
                   requests, faults, lives>>

SaveRow(c) ==
    LET z == patch[c].zone IN
    /\ patch[c].at = "read"
    /\ saved' = [saved EXCEPT ![z] = patch[c].row]
    /\ asked' = IF patch[c].device = Unset THEN asked ELSE [asked EXCEPT ![z] = patch[c].device]
    /\ patch' = [patch EXCEPT ![c] = NoPatch]
    /\ UNCHANGED <<conf, master, sup, proc, ctl, playing, reload, amiss, unsaved,
                   requests, faults, lives>>

SaveFails(c) ==
    /\ patch[c].at = "read"
    /\ Refuse(c)
    /\ UNCHANGED <<conf, saved, master, sup, proc, ctl, playing, reload, amiss, asked,
                   requests, faults, lives>>

-----------------------------------------------------------------------------
\* playerd stops at any point and starts with the saved settings.
Restart ==
    /\ lives < MaxLives
    /\ lives' = lives + 1
    /\ conf' = saved
    /\ master' = DefaultVolume
    /\ sup' = BootSup(saved) /\ proc' = BootProc(saved)
    /\ ctl' = Idle /\ reload' = TRUE
    /\ patch' = [c \in Callers |-> NoPatch]
    /\ amiss' = {} /\ unsaved' = {}
    /\ UNCHANGED <<saved, playing, asked, requests, faults>>

Supervise(z) == Watch(z) \/ ReadOptions(z) \/ Restarted(z)
Serve == Return \/ \E z \in Zones : CallZone(z) \/ VolumeStored(z) \/ VolumeSent(z)
Patch(c) == \/ ZoneVolume(c) \/ ZoneVolumeSent(c) \/ ZoneMute(c) \/ ZoneMuteSent(c)
            \/ ReadStatuses(c) \/ SaveRow(c) \/ SaveFails(c)

Next ==
    \/ \E z \in Enabled : Supervise(z) \/ Crash(z) \/ StartFails(z)
    \/ Serve \/ Restore \/ Stop
    \/ \E s \in Sources : Play(s)
    \/ \E v \in Volumes : SetVolume(v)
    \/ \E c \in Callers : Patch(c)
    \/ \E c \in Callers, z \in Zones, trim \in Trims \cup {Unset},
          muted \in BOOLEAN \cup {Unset}, device \in Choices \cup {Unset} :
          SetZone(c, z, trim, muted, device)
    \/ Restart

Spec == Init /\ [][Next]_vars

\* The supervisors' goroutines run, a start that is tried again and again succeeds
\* at last, calls return, and the event loop takes what waits.
Fairness == /\ \A z \in Enabled : WF_vars(Supervise(z)) /\ SF_vars(Restarted(z))
            /\ WF_vars(Serve) /\ WF_vars(Restore)

FairSpec == Spec /\ Fairness

-----------------------------------------------------------------------------
(* Properties.                                                             *)

\* Settings are ones a user can ask for, a disabled zone has no process, and a
\* process runs only where its supervisor has one.
TypeOK ==
    /\ conf \in [Zones -> Settings] /\ saved \in [Zones -> Settings]
    /\ master \in Volumes \cup {DefaultVolume}
    /\ playing \in Sources \cup {None} /\ reload \in BOOLEAN
    /\ \A z \in Zones :
        /\ sup[z].at \in SupStates
        /\ sup[z].at = "off" <=> z \notin Enabled
        /\ proc[z].alive <=> sup[z].at = "up"
        /\ proc[z].source \in Sources \cup {None}
    /\ ctl.todo \cup ctl.stored \subseteq Enabled
    /\ \A c \in Callers : patch[c].at \in PatchStates

AtRest(z) == proc[z].alive /\ ctl.op # "volume" /\ ~Setting(z)

\* Whatever mpv's deaths and restarts fall between, a zone that nobody is setting
\* sounds as its settings say: at the master volume plus its trim, muted if it
\* is.  A zone misses a change only that came while its mpv was being started,
\* that crossed another one, or that was given up halfway.
SoundsAsSet ==
    \A z \in Enabled : AtRest(z) /\ z \notin amiss =>
        proc[z].volume = Effective(z) /\ proc[z].muted = conf[z].muted

\* Trim and mute are saved for the next start as they were applied, unless the
\* request failed or crossed another one for the same zone.
LiveIsSaved ==
    \A z \in Zones : ~Setting(z) /\ z \notin unsaved =>
        saved[z].trim = conf[z].trim /\ saved[z].muted = conf[z].muted

\* Between calls, zones never play different sources: one that does not play
\* what the primary does is silent, because its mpv was restarted.  (As long as
\* nothing was ever selected, a Play that the primary refused goes on in the
\* others.)
ZonesAgree ==
    (ctl.op = "none" /\ ~reload /\ proc[Primary].alive /\ playing # None) =>
        \A z \in Enabled : proc[z].source \in {proc[Primary].source, None}

\* After a crash of the primary its mpv has the selected source again.
PrimaryRestored ==
    sup[Primary].at = "starting" ~> proc[Primary].alive /\ proc[Primary].source = playing

\* A setting that was acknowledged is the one the next start uses, until another
\* is asked for.
AcknowledgedLasts ==
    \A z \in Zones : ~Setting(z) => saved[z].device = asked[z]
=============================================================================
