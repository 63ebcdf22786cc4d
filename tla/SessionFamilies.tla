--------------------------- MODULE SessionFamilies ---------------------------
(***************************************************************************)
(* What the administrator sessions of ekkoplay promise, without tables,    *)
(* cookies or requests: a sign-in begins a family of refresh tokens of     *)
(* which at most one is good at a time; a refresh hands the family to a    *)
(* token that was never good before; a family that has ended stays ended.  *)
(***************************************************************************)
CONSTANT Tokens

VARIABLES good,   \* the good tokens of each family
          issued  \* tokens that were ever handed out

vars == <<good, issued>>

\* A family goes by the name of its first token.
Families == Tokens

Init == good = [f \in Families |-> {}] /\ issued = {}

Begin(f) ==
    /\ f \notin issued
    /\ good' = [good EXCEPT ![f] = {f}]
    /\ issued' = issued \cup {f}

Rotate(f) ==
    \E next \in Tokens \ issued :
        /\ good[f] # {}
        /\ good' = [good EXCEPT ![f] = {next}]
        /\ issued' = issued \cup {next}

End(ended) ==
    /\ good' = [f \in Families |-> IF f \in ended THEN {} ELSE good[f]]
    /\ UNCHANGED issued

Next == \/ \E f \in Families : Begin(f) \/ Rotate(f)
        \/ \E ended \in SUBSET Families : End(ended)

Spec == Init /\ [][Next]_vars
=============================================================================
