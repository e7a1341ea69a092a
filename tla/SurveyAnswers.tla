---------------------------- MODULE SurveyAnswers ----------------------------
(***************************************************************************)
(* What is asked and what is stored: question types, the conditions under  *)
(* which questions are visible, and the answers of one employee            *)
(* (app/services/survey_payload_validation.py, survey_validation.py,       *)
(* question_types.py, survey_visibility.py, survey_service.py).            *)
(*                                                                         *)
(* The types are rows that a database administrator adds and withdraws;    *)
(* every process of the API keeps a copy of them for a while.  A survey is *)
(* published by one process and answered through others, whose copies may  *)
(* be older, and a copy may be renewed in the middle of a request.         *)
(*                                                                         *)
(* Requests that overlap are the subject of SurveyParticipation, edits     *)
(* that overlap an activation that of SurveyLifecycle: here one request is *)
(* answered at a time, and the structure rests once the survey is active.  *)
(***************************************************************************)
EXTENDS Integers, FiniteSets, Sequences

CONSTANTS
  Proces,     \* processes of the API
  Tip,        \* question types: Tip[sifra] has a komponenta and an opseg, the
              \* values of a scale; the DDL forbids changing either
  Ugradjeni,  \* BUILTIN_TYPES: the codes the program knows by itself
  Predlog,    \* structures administrators send
  Poslato,    \* answers employees send: by question, the one field filled (polje) and
              \* its values (v)
  TTL,        \* CACHE_TTL_SECONDS
  MaxTime,    \* bound: the clock stops here
  MaxPromena, \* bound: changes of the table of types
  MaxKvar     \* bound: failed reads of that table, and restarts

KOMPONENTE == {"SINGLE_CHOICE", "MULTI_CHOICE", "DROPDOWN", "TEXT", "BOOLEAN", "SCALE"}

\* What the constants must satisfy (assumed by EmployeeAnswers): structures are lists,
\* and only opcija_ids takes more than one value.
ConstantsAssumption ==
  /\ Ugradjeni \subseteq DOMAIN Tip
  /\ \A x \in DOMAIN Tip : Tip[x].komponenta \in KOMPONENTE
  /\ \A s \in Predlog : Len(s) \in Nat /\ DOMAIN s = 1 .. Len(s)
  /\ \A a \in Poslato : \A i \in DOMAIN a :
       /\ IsFiniteSet(a[i].v)
       /\ a[i].polje # "opcija_ids" => Cardinality(a[i].v) <= 1
  /\ {TTL, MaxTime, MaxPromena, MaxKvar} \subseteq Nat

VARIABLES
  now,
  tabela,    \* AKTIVAN of every row of PULS_ANKETA_TIPOVI_PITANJA
  promene,   \* changes of the table so far (bounded by MaxPromena)
  promenjeno,\* history: when the table was last changed
  kes,       \* the copy each process has
  status,    \* of the survey: DRAFT or ACTIVE
  pitanja,   \* the questions of the survey, in order
  zahtev,    \* the request being answered
  moj_status,\* of the employee's participation
  odgovori,  \* the answers stored: drafts, then those submitted
  kvarovi    \* failures so far (bounded by MaxKvar)

vars == <<now, tabela, promene, promenjeno, kes, status, pitanja, zahtev, moj_status,
          odgovori, kvarovi>>

-----------------------------------------------------------------------------
(* Question types *)

Sifra == DOMAIN Tip
Redovi == [Sifra -> {"absent", "D", "N"}]

\* svez (history): was the copy read from the table at that time?
Kopija == [tipovi : Redovi, at : Nat \cup {-1}, svez : BOOLEAN]
builtin_types == [x \in Sifra |-> IF x \in Ugradjeni THEN "D" ELSE "absent"]
NoCache == [tipovi |-> builtin_types, at |-> -1, svez |-> FALSE]

\* (mutant) the copy is kept for ever
cached_for_ever(p, ok) ==
  IF kes[p].at # -1 THEN kes[p]
  ELSE [tipovi |-> IF ok THEN tabela ELSE kes[p].tipovi, at |-> now, svez |-> ok]

\* The copy after a call of the registry; a failed read keeps what there was, at
\* first the built-in types, for another period.
db_provider(p, ok) ==
  IF kes[p].at # -1 /\ now - kes[p].at < TTL THEN kes[p]
  ELSE [tipovi |-> IF ok THEN tabela ELSE kes[p].tipovi, at |-> now, svez |-> ok]

\* The registry is called: kes' is what the caller uses.
get_question_type(p) == \E ok \in BOOLEAN :
  /\ kes' = [kes EXCEPT ![p] = db_provider(p, ok)]
  /\ ok \/ (kes'[p] # kes[p] /\ kvarovi < MaxKvar)
  /\ kvarovi' = IF ok THEN kvarovi ELSE kvarovi + 1

known(r, x) == x \in Sifra /\ r[x] # "absent"
komponenta(x) == Tip[x].komponenta
ima_opcije(x) == komponenta(x) \in {"SINGLE_CHOICE", "MULTI_CHOICE", "DROPDOWN"}
jedna_opcija(x) == komponenta(x) \in {"SINGLE_CHOICE", "DROPDOWN"}

-----------------------------------------------------------------------------
(* The structure *)

\* A question: its type, options, condition, and whether it must be answered. Values
\* of a condition are a set: duplicates are refused.
NoCondition == [pitanje |-> 0, operator |-> "", vrednosti |-> {}]
conditional(q) == q.uslov # NoCondition

\* IN takes one value or more, the other operators exactly one.
counted(u) == IF u.operator = "IN" THEN u.vrednosti # {} ELSE Cardinality(u.vrednosti) = 1

\* What is checked before a structure is written, also in DRAFT.
validate_admin_survey_payload(r, s) == \A i \in DOMAIN s :
  /\ known(r, s[i].tip) /\ r[s[i].tip] = "D"
  /\ conditional(s[i]) =>
       LET u == s[i].uslov IN
       /\ u.operator \in {"EQUALS", "NOT_EQUALS", "IN"}
       /\ u.pitanje \in DOMAIN s
       /\ counted(u)
       /\ ima_opcije(s[u.pitanje].tip) => u.vrednosti \subseteq s[u.pitanje].opcije

\* The values a condition on question c may name.
condition_values(c) ==
  IF ima_opcije(c.tip) THEN c.opcije
  ELSE IF komponenta(c.tip) = "BOOLEAN" THEN {"true", "false"}
  ELSE Tip[c.tip].opseg

\* What is checked before the survey leaves DRAFT; AKTIVAN is not asked again.
validate_structure(r, s) ==
  /\ s # <<>>
  /\ \A i \in DOMAIN s :
       /\ known(r, s[i].tip)
       /\ ima_opcije(s[i].tip) <=> s[i].opcije # {}
       /\ conditional(s[i]) =>
            LET u == s[i].uslov IN
            /\ u.pitanje \in DOMAIN s /\ u.pitanje < i
            /\ komponenta(s[u.pitanje].tip) # "TEXT"
            /\ counted(u)
            /\ u.vrednosti \subseteq condition_values(s[u.pitanje])

-----------------------------------------------------------------------------
(* Answers *)

polje(x) == CASE ima_opcije(x)                -> "opcija_ids"
              [] komponenta(x) = "TEXT"       -> "tekst"
              [] komponenta(x) = "BOOLEAN"    -> "logicka"
              [] komponenta(x) = "SCALE"      -> "broj"

\* One answer: its type is known, it fills the field of that type and no other,
\* with values the question has.
validate_one(r, q, od) ==
  /\ known(r, q.tip)
  /\ od.v # {} => od.polje = polje(q.tip)
  /\ ima_opcije(q.tip) => od.v \subseteq q.opcije
  /\ jedna_opcija(q.tip) => Cardinality(od.v) <= 1
  /\ komponenta(q.tip) = "SCALE" => od.v \subseteq Tip[q.tip].opseg

validate_answers(r, s, a) ==
  DOMAIN a \subseteq DOMAIN s /\ \A i \in DOMAIN a : validate_one(r, s[i], a[i])

is_answered(r, s, a, i) == i \in DOMAIN a /\ known(r, s[i].tip) /\ a[i].v # {}

\* The tokens conditions compare; a text has none.
answer_tokens(s, a, i) == IF komponenta(s[i].tip) = "TEXT" THEN {} ELSE a[i].v

condition_met(u, tokens) ==
  CASE u.operator = "EQUALS"     -> u.vrednosti \subseteq tokens
    [] u.operator = "NOT_EQUALS" -> u.vrednosti \cap tokens = {}
    [] u.operator = "IN"         -> u.vrednosti \cap tokens # {}

\* (mutant) the control question need not be visible itself
visible_by_answer(r, s, a) == [i \in DOMAIN s |->
  conditional(s[i]) =>
    LET c == s[i].uslov.pitanje IN
    is_answered(r, s, a, c) /\ condition_met(s[i].uslov, answer_tokens(s, a, c))]

\* A conditional question is visible when its control question is visible, answered,
\* and meets the condition (a validated structure has only conditions on earlier
\* questions: the guard of the code against cycles is c < i here).
compute_visibility(r, s, a) ==
  LET visible[i \in DOMAIN s] ==
        conditional(s[i]) =>
          LET c == s[i].uslov.pitanje IN
          /\ c < i /\ visible[c]
          /\ is_answered(r, s, a, c)
          /\ condition_met(s[i].uslov, answer_tokens(s, a, c))
  IN  visible

\* The answers that are stored: given, and to visible questions.
stored(r, s, a) ==
  LET visible == compute_visibility(r, s, a)
      S == {i \in DOMAIN a : visible[i] /\ is_answered(r, s, a, i)}
  IN  [i \in S |-> a[i].v]

\* No visible question that must be answered is left out.
complete(r, s, a) ==
  LET visible == compute_visibility(r, s, a)
  IN  \A i \in DOMAIN s : s[i].obavezno /\ visible[i] => is_answered(r, s, a, i)

-----------------------------------------------------------------------------

Idle == [pc |-> "idle", submit |-> FALSE, odgovori |-> <<>>]

Init ==
  /\ now = 0
  /\ tabela = builtin_types
  /\ promene = 0 /\ promenjeno = 0
  /\ kes = [p \in Proces |-> NoCache]
  /\ status = "DRAFT" /\ pitanja = <<>>
  /\ zahtev = Idle
  /\ moj_status = "NOT_STARTED"
  /\ odgovori = <<>>
  /\ kvarovi = 0

\* An administrator writes the structure of the draft.
update_survey(p, s) ==
  /\ status = "DRAFT"
  /\ get_question_type(p)
  /\ pitanja' = IF validate_admin_survey_payload(kes'[p].tipovi, s) THEN s ELSE pitanja
  /\ UNCHANGED <<now, tabela, promene, promenjeno, status, zahtev, moj_status, odgovori>>

\* An administrator publishes the survey.
change_status(p) ==
  /\ status = "DRAFT"
  /\ get_question_type(p)
  /\ status' = IF validate_structure(kes'[p].tipovi, pitanja) THEN "ACTIVE" ELSE status
  /\ UNCHANGED <<now, tabela, promene, promenjeno, pitanja, zahtev, moj_status, odgovori>>

\* The first half of a save or a submission: the answers are checked.
check_answers(p, submit, a) ==
  /\ status = "ACTIVE" /\ zahtev = Idle /\ moj_status # "SUBMITTED"
  /\ get_question_type(p)
  /\ zahtev' = IF validate_answers(kes'[p].tipovi, pitanja, a)
                 THEN [pc |-> p, submit |-> submit, odgovori |-> a] ELSE Idle
  /\ UNCHANGED <<now, tabela, promene, promenjeno, status, pitanja, moj_status, odgovori>>

\* The second half: visibility; the answers to visible questions replace the stored.
save_draft ==
  LET p == zahtev.pc IN
  /\ zahtev # Idle /\ ~zahtev.submit
  /\ get_question_type(p)
  /\ odgovori' = stored(kes'[p].tipovi, pitanja, zahtev.odgovori)
  /\ moj_status' = "IN_PROGRESS"
  /\ zahtev' = Idle
  /\ UNCHANGED <<now, tabela, promene, promenjeno, status, pitanja>>

\* Likewise, when nothing required is missing; the drafts are deleted.
submit ==
  LET p == zahtev.pc IN
  /\ zahtev # Idle /\ zahtev.submit
  /\ get_question_type(p)
  /\ IF complete(kes'[p].tipovi, pitanja, zahtev.odgovori)
       THEN /\ odgovori' = stored(kes'[p].tipovi, pitanja, zahtev.odgovori)
            /\ moj_status' = "SUBMITTED"
       ELSE UNCHANGED <<odgovori, moj_status>>
  /\ zahtev' = Idle
  /\ UNCHANGED <<now, tabela, promene, promenjeno, status, pitanja>>

\* A process ends: its copy, and the request it answers, are lost.
restart(p) ==
  /\ kvarovi < MaxKvar /\ kvarovi' = kvarovi + 1
  /\ kes' = [kes EXCEPT ![p] = NoCache]
  /\ zahtev' = IF zahtev.pc = p THEN Idle ELSE zahtev
  /\ UNCHANGED <<now, tabela, promene, promenjeno, status, pitanja, moj_status, odgovori>>

\* The database administrator adds a type, or withdraws one: AKTIVAN = 'N'.
change_types(x) ==
  /\ promene < MaxPromena /\ promene' = promene + 1
  /\ \/ tabela[x] = "absent" /\ tabela' = [tabela EXCEPT ![x] = "D"]
     \/ tabela[x] = "D"      /\ tabela' = [tabela EXCEPT ![x] = "N"]
  /\ promenjeno' = now
  /\ UNCHANGED <<now, kes, status, pitanja, zahtev, moj_status, odgovori, kvarovi>>

Tick == /\ now < MaxTime /\ now' = now + 1
        /\ UNCHANGED <<tabela, promene, promenjeno, kes, status, pitanja, zahtev, moj_status,
                       odgovori, kvarovi>>

Administrator == \E p \in Proces :
  \/ \E s \in Predlog : update_survey(p, s)
  \/ change_status(p)

Employee ==
  \/ \E p \in Proces, b \in BOOLEAN, a \in Poslato : check_answers(p, b, a)
  \/ save_draft
  \/ submit

Next ==
  \/ Administrator
  \/ Employee
  \/ \E p \in Proces : restart(p)
  \/ \E x \in Sifra : change_types(x)
  \/ Tick

Spec == Init /\ [][Next]_vars

-----------------------------------------------------------------------------
(* Properties *)

\* Question i is asked of an employee whose stored answers are a.
asked(i, a) ==
  LET u == pitanja[i].uslov IN
  conditional(pitanja[i]) =>
    /\ u.pitanje \in DOMAIN a
    /\ CASE u.operator = "EQUALS"     -> u.vrednosti \subseteq a[u.pitanje]
         [] u.operator = "NOT_EQUALS" -> a[u.pitanje] \cap u.vrednosti = {}
         [] u.operator = "IN"         -> a[u.pitanje] \cap u.vrednosti # {}

\* Stored answers explain themselves: each is to a question the other stored
\* answers ask, through the whole chain of conditions (compute_visibility).
AnswersAreAsked == \A i \in DOMAIN odgovori : i \in DOMAIN pitanja /\ asked(i, odgovori)

\* In a submission, every required question they ask is answered.
SubmissionIsComplete == moj_status = "SUBMITTED" =>
  \A i \in DOMAIN pitanja : pitanja[i].obavezno /\ asked(i, odgovori) => i \in DOMAIN odgovori

\* Stored values are options of the question, or values of its scale, and one where
\* one is allowed: also when the type was withdrawn after the survey was published.
AnswersHaveValues == \A i \in DOMAIN odgovori :
  LET x == pitanja[i].tip IN
  /\ odgovori[i] # {}
  /\ ima_opcije(x) => odgovori[i] \subseteq pitanja[i].opcije
  /\ komponenta(x) = "SCALE" => odgovori[i] \subseteq Tip[x].opseg
  /\ komponenta(x) # "MULTI_CHOICE" => Cardinality(odgovori[i]) = 1

\* A changed table is known to every process a period later without a restart, as
\* sql/008 says, unless reading it fails.
TypesAreTakenOver == \A p \in Proces :
  LET k == db_provider(p, TRUE)
  IN  now - promenjeno >= TTL /\ (k.svez \/ kvarovi = 0) => k.tipovi = tabela

-----------------------------------------------------------------------------
(* Why it works: the inductive invariant *)

\* Every variable has its type; the contents of odgovori are in AnswersHaveValues.
TypeOK ==
  /\ now \in Nat /\ promenjeno \in 0 .. now
  /\ promene \in Nat /\ kvarovi \in Nat
  /\ tabela \in Redovi /\ kes \in [Proces -> Kopija]
  /\ status \in {"DRAFT", "ACTIVE"} /\ (pitanja = <<>> \/ pitanja \in Predlog)
  /\ moj_status \in {"NOT_STARTED", "IN_PROGRESS", "SUBMITTED"}
  /\ zahtev # Idle =>
       /\ zahtev.pc \in Proces /\ zahtev.odgovori \in Poslato
       /\ DOMAIN zahtev.odgovori \subseteq DOMAIN pitanja

\* A copy read from the table after its last change is the table.
CopiesAreDated == \A p \in Proces :
  /\ kes[p].at <= now
  /\ kes[p].svez /\ kes[p].at > promenjeno => kes[p].tipovi = tabela
  /\ kvarovi = 0 /\ kes[p].at # -1 => kes[p].svez

\* Nothing is answered before the structure rests, whose conditions then name
\* earlier questions that are no texts.
StructureRests ==
  /\ \A i \in DOMAIN pitanja :
       /\ pitanja[i].tip \in Sifra
       /\ conditional(pitanja[i]) => pitanja[i].uslov.operator \in {"EQUALS", "NOT_EQUALS", "IN"}
  /\ status = "ACTIVE" => \A i \in DOMAIN pitanja : conditional(pitanja[i]) =>
       LET c == pitanja[i].uslov.pitanje
       IN  c \in DOMAIN pitanja /\ c < i /\ komponenta(pitanja[c].tip) # "TEXT"
  /\ status = "DRAFT" => zahtev = Idle /\ moj_status = "NOT_STARTED" /\ odgovori = <<>>

\* Values v are some that question q allows.
allowed(q, v) ==
  /\ ima_opcije(q.tip) => v \subseteq q.opcije
  /\ komponenta(q.tip) = "SCALE" => v \subseteq Tip[q.tip].opseg
  /\ komponenta(q.tip) # "MULTI_CHOICE" /\ v # {} => Cardinality(v) = 1

\* What was checked in the first half of a request is still so in the second.
RequestIsChecked == zahtev # Idle =>
  \A i \in DOMAIN zahtev.odgovori : allowed(pitanja[i], zahtev.odgovori[i].v)

\* What is stored fits what is asked, whichever process answers with whichever copy
\* of the types, also when the copy changes between checking and storing.
AnswersInv ==
  /\ TypeOK /\ CopiesAreDated /\ StructureRests /\ RequestIsChecked
  /\ AnswersAreAsked /\ SubmissionIsComplete /\ AnswersHaveValues
  /\ TypesAreTakenOver
=============================================================================
