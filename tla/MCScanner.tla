----------------------------- MODULE MCScanner ------------------------------
(* Scanner on small instances. *)
EXTENDS Scanner, TLC

CONSTANTS s1, s2, j1

(* All slots at one instance; one at the first, the rest at the second. *)
OneHome == [j \in Slots |-> s1]
TwoHomes == [j \in Slots |-> IF j = j1 THEN s1 ELSE s2]

(* Subscribers and repositories are interchangeable. *)
Symmetry == Permutations(Emails) \cup Permutations(Repos)
=============================================================================
