------------------------ MODULE NotificationRegister ------------------------
(***************************************************************************)
(* What employees may rely on about each notification, however requests    *)
(* overlap: it is sent once, to recipients and with a content that stay,   *)
(* it may be archived, and only its recipients change their own marks,     *)
(* which nobody else ever touches.                                         *)
(* app/services/notification_publishing_service.py, notification_service   *)
(***************************************************************************)
CONSTANTS
  Obavestenje, Korisnik,
  Sadrzaj,    \* what may be sent: at least its expiry
  None

VARIABLES
  stanje,     \* "DRAFT" (or not written yet), "PUBLISHED" or "ARCHIVED"
  sadrzaj,    \* what was sent, None before
  primalac,   \* its recipients
  procitali   \* those who have read it

register == <<stanje, sadrzaj, primalac, procitali>>

Init == /\ stanje = [n \in Obavestenje |-> "DRAFT"]
        /\ sadrzaj = [n \in Obavestenje |-> None]
        /\ primalac = [n \in Obavestenje |-> {}]
        /\ procitali = [n \in Obavestenje |-> {}]

\* It is sent to somebody, and nobody has read it.
Publish(n) ==
  /\ stanje[n] = "DRAFT"
  /\ stanje' = [stanje EXCEPT ![n] = "PUBLISHED"]
  /\ \E x \in Sadrzaj : sadrzaj' = [sadrzaj EXCEPT ![n] = x]
  /\ \E S \in (SUBSET Korisnik) \ {{}} : primalac' = [primalac EXCEPT ![n] = S]
  /\ UNCHANGED procitali

Archive(n) ==
  /\ stanje[n] = "PUBLISHED"
  /\ stanje' = [stanje EXCEPT ![n] = "ARCHIVED"]
  /\ UNCHANGED <<sadrzaj, primalac, procitali>>

\* A recipient marks it as read, or as unread again.
Mark(n, k) ==
  /\ k \in primalac[n]
  /\ procitali' = [procitali EXCEPT ![n] = IF k \in @ THEN @ \ {k} ELSE @ \cup {k}]
  /\ UNCHANGED <<stanje, sadrzaj, primalac>>

Next == \E n \in Obavestenje :
  \/ Publish(n) \/ Archive(n)
  \/ \E k \in Korisnik : Mark(n, k)

Spec == Init /\ [][Next]_register
=============================================================================
