---------------------------- MODULE EmployeeAnswers ----------------------------
(***************************************************************************)
(* SurveyAnswers under names that leave room for another part: the model   *)
(* checker looks at the contents of answers beside SurveyParticipation,    *)
(* and the proofs about both stand together.                               *)
(***************************************************************************)
EXTENDS Integers

CONSTANTS Proces, Tip, Ugradjeni, Predlog, Poslato, TTL, MaxVreme, MaxPromena, MaxKvar

VARIABLES vreme, tabela, promene, promenjeno, kes, status, pitanja, unos, moj_status,
          odgovori, kvarovi

Answers == INSTANCE SurveyAnswers WITH now <- vreme, zahtev <- unos, MaxTime <- MaxVreme

ASSUME AnswersAssumption == Answers!ConstantsAssumption

\* The invariant of SurveyAnswers.
AnswersInv == Answers!AnswersInv
=============================================================================
