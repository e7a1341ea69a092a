---------------------------- MODULE MCOnboarding ----------------------------
(***************************************************************************)
(* What a new employee is given: a password by SMS, and the documents.     *)
(* The two parts share no state; a behaviour is one of a single part, and  *)
(* the variables of the other stay as they are.                            *)
(***************************************************************************)
EXTENDS Provisioning, EmployeeDocuments

VARIABLE deo

documents == <<now, dokumenti, dnevnik, zahtevi, citalac, izdanja>>
all == <<deo, vars, documents>>

Initially ==
  /\ deo \in {"passwords", "documents"} /\ Init /\ Docs!Init
  /\ deo = "documents" => smetnja = [u \in Korisnik |-> "none"]

Passwords(A) == deo = "passwords" /\ A /\ UNCHANGED <<deo, documents>>

Step ==
  \/ Passwords(Next)
  \/ deo = "documents" /\ Docs!Next /\ UNCHANGED <<deo, vars>>

\* That of Provisioning.
PartFairness ==
  /\ WF_all(Passwords(list_candidates_for_provisioning))
  /\ WF_all(Passwords(\E u \in Korisnik : provision(u)))
  /\ \A u \in Korisnik : SF_all(Passwords(send_sms(u))) /\ SF_all(Passwords(commit(u)))

Parts == Initially /\ [][Step]_all /\ PartFairness
=============================================================================
