------------------------- MODULE MCOnboardingSurveys -------------------------
(* Day 2 is in the window of either rule for who started on day 0 or 1, for TLC. *)
EXTENDS OnboardingAssignment

CONSTANTS s1, s2

Prvo == [dani |-> 2, rok |-> 1, aktivna |-> TRUE]
Drugo == [dani |-> 1, rok |-> 1, aktivna |-> TRUE]

Pravila == {Prvo, Drugo}
Pocetak == {[s \in Anketa |-> IF s = s1 THEN None ELSE Prvo]}
=============================================================================
