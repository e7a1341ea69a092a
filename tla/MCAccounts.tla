------------------------------ MODULE MCAccounts ------------------------------
(* Every session is opened on a device of its own, for TLC. *)
EXTENDS Accounts, TLC

Uredjaji == [s \in Sesija |-> s]

Symmetry == Permutations(Thread) \cup Permutations(Sesija)
=============================================================================
