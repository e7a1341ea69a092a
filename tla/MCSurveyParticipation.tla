------------------------ MODULE MCSurveyParticipation ------------------------
(***************************************************************************)
(* Answering a survey: the participations, with overlapping requests, and  *)
(* the contents of the answers.  The two parts share no state; a behaviour *)
(* is one of a single part, and the variables of the other stay as they    *)
(* are.                                                                    *)
(***************************************************************************)
EXTENDS SurveyParticipation, EmployeeAnswers, TLC

VARIABLE deo

-----------------------------------------------------------------------------
(* Three questions; RATING_1_4 is added to the types by hand. *)

Tipovi == [MULTI_CHOICE |-> [komponenta |-> "MULTI_CHOICE", opseg |-> {}],
           BOOLEAN |-> [komponenta |-> "BOOLEAN", opseg |-> {}],
           RATING_1_4 |-> [komponenta |-> "SCALE", opseg |-> {"1", "4"}]]

Uslov(c, o, v) == [pitanje |-> c, operator |-> o, vrednosti |-> v]
NoUslov == Uslov(0, "", {})

Q(t, u, o) == [tip |-> t, opcije |-> IF t = "MULTI_CHOICE" THEN {"a", "b"} ELSE {},
               uslov |-> u, obavezno |-> o]

\* Some are refused when written, some when the survey is published.
Structures ==
  {<<Q("MULTI_CHOICE", u1, TRUE), Q(t2, u2, FALSE), Q("BOOLEAN", u3, TRUE)>> :
     t2 \in {"BOOLEAN", "RATING_1_4"},
     u1 \in {NoUslov, Uslov(2, "EQUALS", {"true"})},
     u2 \in {Uslov(1, "NOT_EQUALS", {"b"}), Uslov(1, "IN", {"c"})},
     u3 \in {Uslov(2, "EQUALS", {"true"}), Uslov(2, "IN", {"1", "4"})}}

O(p, v) == [polje |-> p, v |-> v]
True == O("logicka", {"true"})

\* One names a question of no survey, one a field that is not the type's.
Payloads ==
  LET first == {O("opcija_ids", {"a"}), O("opcija_ids", {"a", "b"})}
      second == {True, O("broj", {"4"}), O("broj", {"5"})}
  IN  {<<>>, <<True>>, [i \in {1, 9} |-> O("opcija_ids", {"a"})]}
        \cup {<<x>> : x \in first} \cup (first \X second) \cup (first \X second \X {True})
        \cup {[i \in {2, 3} |-> IF i = 2 THEN x ELSE True] : x \in second}

-----------------------------------------------------------------------------

answers == <<vreme, tabela, promene, promenjeno, kes, status, pitanja, unos, moj_status,
             odgovori, kvarovi>>
all == <<deo, vars, answers>>

Initially ==
  /\ deo \in {"participation", "answers"} /\ Init /\ Answers!Init
  /\ deo = "answers" => anketa = "ACTIVE" /\ ~anonimna

Step ==
  \/ deo = "participation" /\ Next /\ UNCHANGED <<deo, answers>>
  \/ deo = "answers" /\ Answers!Next /\ UNCHANGED <<deo, vars>>

Parts == Initially /\ [][Step]_all

Symmetry == Permutations(Request) \cup Permutations(Question) \cup Permutations(Proces)
=============================================================================
