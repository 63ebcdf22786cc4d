---------------------------- MODULE MCAudioZones ----------------------------
(* Small instances of AudioZones for TLC: two enabled zones and a disabled    *)
(* one, volumes of 0 and 2 of 2, trims of 0 and -1.                           *)
EXTENDS AudioZones

CONSTANTS main, usb, attic, c1, s1, s2, none, unset, dac, hdmi

DefaultOf == [z \in Zones |-> [trim |-> 0, muted |-> FALSE, device |-> dac]]
TrimSet   == {0, -1}
=============================================================================
