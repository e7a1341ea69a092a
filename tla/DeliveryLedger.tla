--------------------------- MODULE DeliveryLedger ---------------------------
(***************************************************************************)
(* What the push outbox promises about each recipient's message, seen from *)
(* outside: a message is open from its publication, FCM may accept it only *)
(* while it is open, the worker learns of the acceptance or does not, it   *)
(* is closed as delivered only by an acceptance it learned of, and never   *)
(* given up after one; a closed message stays closed until a resend opens  *)
(* it again.                                                               *)
(* app/services/push_service.py, app/repositories/push_delivery_repository *)
(***************************************************************************)
CONSTANT Message

VARIABLES
  stanje,    \* "none", "open", "delivered" or "abandoned"
  inflight   \* accepted by FCM, outcome not recorded yet: "no", "confirmed" or "unconfirmed"

ledger == <<stanje, inflight>>

Init == /\ stanje = [m \in Message |-> "none"]
        /\ inflight = [m \in Message |-> "no"]

\* A publication opens the messages of its recipients.
Open(S) == /\ \A m \in S : stanje[m] = "none"
           /\ stanje' = [m \in Message |-> IF m \in S THEN "open" ELSE stanje[m]]
           /\ UNCHANGED inflight

\* FCM accepts an open message, one acceptance at a time; its answer may be lost.
Accept(m) == /\ stanje[m] = "open" /\ inflight[m] = "no"
             /\ \E answer \in {"confirmed", "unconfirmed"} :
                  inflight' = [inflight EXCEPT ![m] = answer]
             /\ UNCHANGED stanje

\* A confirmed acceptance is recorded.
Record(m) == /\ inflight[m] = "confirmed"
             /\ inflight' = [inflight EXCEPT ![m] = "no"]
             /\ stanje' = [stanje EXCEPT ![m] = "delivered"]

\* The acceptance is forgotten: the message stays open and may be sent again.
Forget(m) == /\ inflight[m] # "no"
             /\ inflight' = [inflight EXCEPT ![m] = "no"]
             /\ UNCHANGED stanje

\* The message is given up; never while a confirmed acceptance is outstanding.
Abandon(m) == /\ stanje[m] = "open" /\ inflight[m] # "confirmed"
              /\ inflight' = [inflight EXCEPT ![m] = "no"]
              /\ stanje' = [stanje EXCEPT ![m] = "abandoned"]

\* A resend opens closed messages again.
Reopen(S) == /\ \A m \in S : stanje[m] \in {"delivered", "abandoned"}
             /\ stanje' = [m \in Message |-> IF m \in S THEN "open" ELSE stanje[m]]
             /\ UNCHANGED inflight

Next == \/ \E S \in SUBSET Message : Open(S) \/ Reopen(S)
        \/ \E m \in Message : Accept(m) \/ Record(m) \/ Forget(m) \/ Abandon(m)

Spec == Init /\ [][Next]_ledger
=============================================================================
