------------------------------- MODULE MCIdeas -------------------------------
(* Two cycles whose periods overlap in one instant, for TLC. *)
EXTENDS Ideas, TLC

CONSTANTS c1, c2

Periodi == c1 :> {0, 1} @@ c2 :> {1}

Symmetry == Permutations(Thread) \cup Permutations(Ideja)
=============================================================================
