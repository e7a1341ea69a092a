---------------------------- MODULE MCPushOutbox ----------------------------
EXTENDS PushOutbox, TLC

Symmetry == Permutations(User)

\* Bound: with several recipients the clock stands still and FCM's answers are not lost,
\* so that a batch of their rows is explored at one instant, and the retries of a single row,
\* lost answers included, at all of them.
Bound == \A n \in Notif : Cardinality(primaoci[n]) > 1 => now = 0 /\ unconfirmed = {}
=============================================================================
