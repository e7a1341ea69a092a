--------------------------- MODULE EmployeeDocuments ---------------------------
(***************************************************************************)
(* OnboardingDocuments under names that leave room for another part: the   *)
(* model checker looks at documents beside Provisioning, the proofs stand  *)
(* beside those of OnboardingAssignment.                                   *)
(***************************************************************************)
EXTENDS Integers

CONSTANTS Dokument, Pdf, Naziv, Urednik, Citalac, NoValue, MaxTime, MaxVerzija

VARIABLES now, dokumenti, dnevnik, zahtevi, citalac, izdanja

Docs == INSTANCE OnboardingDocuments WITH Admin <- Urednik, None <- NoValue, zahtev <- zahtevi

ASSUME DocumentsAssumption == Docs!ConstantsAssumption

\* The invariant of OnboardingDocuments.
DocumentInv == Docs!DocumentInv

\* The action property of OnboardingDocuments.
PublishedIsFrozen == Docs!PublishedIsFrozen
=============================================================================
