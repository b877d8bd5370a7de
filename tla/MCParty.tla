------------------------------ MODULE MCParty ------------------------------
(* Party for TLC: who is there, and who may join whom.                      *)
EXTENDS Party

CONSTANTS a1, a2, a3

\* a3 may join either of the others, and a1 may leave its party for that of a2.
Visits == [a \in App |-> CASE a = a3 -> {a1, a2} [] a = a1 -> {a2} [] OTHER -> {}]

\* Two apps, either of which may join the other.
Both == [a \in App |-> App \ {a}]

\* Bounds for each app.
Each(x, y, z) == [a \in App |-> CASE a = a1 -> x [] a = a2 -> y [] OTHER -> z]
Each010 == Each(0, 1, 0)
Each020 == Each(0, 2, 0)
Each100 == Each(1, 0, 0)
Each102 == Each(1, 0, 2)
Each110 == Each(1, 1, 0)
Each111 == Each(1, 1, 1)
Each300 == Each(3, 0, 0)
=============================================================================
