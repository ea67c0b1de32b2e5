---------------------------- MODULE MCOnboarding ----------------------------
(* Onboarding on small instances. *)
EXTENDS Onboarding, TLC

(* Handlers, row ids and tokens are interchangeable: the specification never *)
(* names one of them.                                                        *)
Symmetry == Permutations(Handlers) \cup Permutations(Ids)
              \cup Permutations(Tokens) \cup Permutations(Apis)
=============================================================================
