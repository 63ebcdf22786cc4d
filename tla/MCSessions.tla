----------------------------- MODULE MCSessions -----------------------------
(* Small instances of Sessions for TLC: a browser with one tab that has two   *)
(* requests in flight, and a browser with two tabs whose answers get lost.    *)
EXTENDS Sessions

CONSTANTS alone, pair, t1, t2, t3, c1, c2, c3, c4

InBrowser == [t \in Tabs |-> IF t = t1 THEN alone ELSE pair]
InTab     == [c \in Calls |-> CASE c \in {c1, c2} -> t1 [] c = c3 -> t2 [] OTHER -> t3]
=============================================================================
