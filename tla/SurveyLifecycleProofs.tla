------------------------ MODULE SurveyLifecycleProofs ------------------------
(***************************************************************************)
(* The life of a survey: what threads know of it stays true, so an active  *)
(* survey has been announced, and one that left DRAFT has participants     *)
(* unless its targets slipped away between their validation and the second *)
(* reading; for any contents, employees, administrators and clocks.        *)
(***************************************************************************)
EXTENDS SurveyLifecycle, TLAPS

\* An UPDATE leaves a row, and a status from the stored row or a changed one.
LEMMA FlushTyped ==
  ASSUME anketa \in Anketa, NEW copy \in Anketa, NEW new \in Anketa
  PROVE  /\ flush(copy, new) \in Anketa
         /\ \/ flush(copy, new).status = anketa.status
            \/ new.status # copy.status /\ flush(copy, new).status = new.status
BY DEF flush, column, Anketa

LEMMA DatesAreNat == \A d \in Dates : d \in Nat
BY ConstantsAssumption DEF Dates

LEMMA IdleTyped == Idle \in Posao
BY DEF Idle, Blank, Posao, Anketa, Statuses

LEMMA InitTyped == Init => TypeOK
<1> SUFFICES ASSUME Init PROVE TypeOK OBVIOUS
<1>1. anketa \in Anketa BY DatesAreNat DEF Init, Anketa, Statuses
<1>2. posao \in [Thread -> Posao] BY IdleTyped DEF Init
<1> QED BY <1>1, <1>2 DEF Init, TypeOK

-----------------------------------------------------------------------------
(* Types *)

\* The steps of a change of status between its reading of the survey and its commit.
Exits(a) == \/ get_by_survey_id(a) \/ validate_structure(a) \/ validate_targets(a)
            \/ _materialize_targets(a) \/ add_ucesce(a)

\* The entry once the rule is looked for, the targets validated, read again, and the
\* participants inserted.
Ruled(z, pc, b) == [z EXCEPT !.auto = b, !.pc = pc]
Validated(z, pc, S) == [z EXCEPT !.pc = pc, !.provereni = S]
Reread(z, S) == [z EXCEPT !.pc = "insert", !.ljudi = S]
Inserted(z, S) == [z EXCEPT !.pc = "commit", !.dodato = S]

\* Each of them changes the thread's own entry in some fields.
LEMMA FieldsTyped ==
  ASSUME NEW z \in Posao, NEW pc \in {"questions", "targets", "materialize", "insert", "commit"}
  PROVE  /\ [z EXCEPT !.pc = pc] \in Posao
         /\ \A b \in BOOLEAN : Ruled(z, pc, b) \in Posao
         /\ \A S \in SUBSET Korisnik : /\ Validated(z, pc, S) \in Posao
                                       /\ Reread(z, S) \in Posao
                                       /\ Inserted(z, S) \in Posao
<1>1. [z EXCEPT !.pc = pc] \in Posao BY DEF Posao
<1>2. ASSUME NEW b \in BOOLEAN PROVE Ruled(z, pc, b) \in Posao BY DEF Posao, Ruled
<1>3. ASSUME NEW S \in SUBSET Korisnik
      PROVE  Validated(z, pc, S) \in Posao /\ Reread(z, S) \in Posao /\ Inserted(z, S) \in Posao
  <2>1. Validated(z, pc, S) \in Posao BY DEF Posao, Validated
  <2>2. Reread(z, S) \in Posao BY DEF Posao, Reread
  <2>3. Inserted(z, S) \in Posao BY DEF Posao, Inserted
  <2> QED BY <2>1, <2>2, <2>3
<1> QED BY <1>1, <1>2, <1>3

\* What each of them makes of the entry.
LEMMA RuleTaken ==
  ASSUME TypeOK, NEW a \in Admin, get_by_survey_id(a), NEW z, z = posao[a]
  PROVE  \E pc \in {"questions", "commit"} :
           /\ pc = (IF leaves_draft(z) THEN "questions" ELSE "commit") /\ z.pc = "rule"
           /\ posao' = [posao EXCEPT ![a] = Ruled(z, pc, automatska)]
<1>1. PICK pc \in {"questions", "commit"} : pc = (IF leaves_draft(z) THEN "questions" ELSE "commit")
  OBVIOUS
<1>2. z.pc = "rule" /\ posao' = [posao EXCEPT ![a].auto = automatska, ![a].pc = pc]
  BY <1>1 DEF get_by_survey_id
<1>3. posao' = [posao EXCEPT ![a] = Ruled(z, pc, automatska)]
  BY <1>2 DEF TypeOK, Thread, Ruled
<1> QED BY <1>1, <1>2, <1>3

LEMMA QuestionsTaken ==
  ASSUME TypeOK, NEW a \in Admin, validate_structure(a), NEW z, z = posao[a]
  PROVE  z.pc = "questions" /\ posao' = [posao EXCEPT ![a] = [z EXCEPT !.pc = "targets"]]
BY DEF validate_structure, TypeOK, Thread

LEMMA TargetsTaken ==
  ASSUME TypeOK, NEW a \in Admin, validate_targets(a), NEW z, z = posao[a]
  PROVE  \E pc \in {"commit", "materialize"}, S \in SUBSET Korisnik :
           /\ z.pc = "targets" /\ targets_valid(struktura.ciljevi, z.auto)
           /\ pc = (IF z.auto THEN "commit" ELSE "materialize")
           /\ S = (IF z.auto THEN {} ELSE ciljani(struktura.ciljevi))
           /\ posao' = [posao EXCEPT ![a] = Validated(z, pc, S)]
<1>1. PICK pc \in {"commit", "materialize"} : pc = (IF z.auto THEN "commit" ELSE "materialize")
  OBVIOUS
<1>2. PICK S \in SUBSET Korisnik : S = (IF z.auto THEN {} ELSE ciljani(struktura.ciljevi))
  BY DEF ciljani, TypeOK
<1>3. /\ z.pc = "targets" /\ targets_valid(struktura.ciljevi, z.auto)
      /\ posao' = [posao EXCEPT ![a].pc = pc, ![a].provereni = S]
  BY <1>1, <1>2 DEF validate_targets
<1>4. posao' = [posao EXCEPT ![a] = Validated(z, pc, S)]
  BY <1>3 DEF TypeOK, Thread, Validated
<1> QED BY <1>1, <1>2, <1>3, <1>4

LEMMA AgainTaken ==
  ASSUME TypeOK, NEW a \in Admin, _materialize_targets(a), NEW z, z = posao[a]
  PROVE  \E S \in SUBSET Korisnik :
           /\ z.pc = "materialize"
           /\ posao' = [posao EXCEPT ![a] = Reread(z, S)]
<1>1. PICK S \in SUBSET Korisnik : S = ciljani(struktura.ciljevi) BY DEF ciljani, TypeOK
<1>2. z.pc = "materialize" /\ posao' = [posao EXCEPT ![a].pc = "insert", ![a].ljudi = S]
  BY <1>1 DEF _materialize_targets
<1>3. posao' = [posao EXCEPT ![a] = Reread(z, S)]
  BY <1>2 DEF TypeOK, Thread, Reread
<1> QED BY <1>2, <1>3

LEMMA InsertTaken ==
  ASSUME TypeOK, NEW a \in Admin, add_ucesce(a), NEW z, z = posao[a]
  PROVE  \E S \in SUBSET Korisnik :
           /\ z.pc = "insert" /\ S = z.ljudi \ ucesca
           /\ posao' = [posao EXCEPT ![a] = Inserted(z, S)]
<1>0. z.ljudi \subseteq Korisnik BY DEF TypeOK, Thread, Posao
<1>1. PICK S \in SUBSET Korisnik : S = z.ljudi \ ucesca BY <1>0
<1>2. z.pc = "insert" /\ posao' = [posao EXCEPT ![a].pc = "commit", ![a].dodato = S]
  BY <1>1 DEF add_ucesce
<1>3. posao' = [posao EXCEPT ![a] = Inserted(z, S)]
  BY <1>2 DEF TypeOK, Thread, Inserted
<1> QED BY <1>1, <1>2, <1>3

LEMMA ExitTyped ==
  ASSUME TypeOK, NEW a \in Admin, Exits(a)
  PROVE  \E z \in Posao : posao' = [posao EXCEPT ![a] = z]
<1> PICK z : z = posao[a] OBVIOUS
<1>1. z \in Posao /\ automatska \in BOOLEAN BY DEF TypeOK, Thread
<1>2. CASE get_by_survey_id(a)
  <2>1. PICK pc \in {"questions", "commit"} :
          posao' = [posao EXCEPT ![a] = Ruled(z, pc, automatska)]
    BY <1>2, RuleTaken
  <2>2. Ruled(z, pc, automatska) \in Posao BY <1>1, FieldsTyped
  <2> QED BY <2>1, <2>2
<1>3. CASE validate_structure(a) BY <1>1, <1>3, QuestionsTaken, FieldsTyped
<1>4. CASE validate_targets(a)
  <2>1. PICK pc \in {"commit", "materialize"}, S \in SUBSET Korisnik :
          posao' = [posao EXCEPT ![a] = Validated(z, pc, S)]
    BY <1>4, TargetsTaken
  <2>2. Validated(z, pc, S) \in Posao BY <1>1, FieldsTyped
  <2> QED BY <2>1, <2>2
<1>5. CASE _materialize_targets(a)
  <2>1. PICK S \in SUBSET Korisnik :
          posao' = [posao EXCEPT ![a] = Reread(z, S)]
    BY <1>5, AgainTaken
  <2>2. Reread(z, S) \in Posao BY <1>1, FieldsTyped
  <2> QED BY <2>1, <2>2
<1>6. CASE add_ucesce(a)
  <2>1. PICK S \in SUBSET Korisnik :
          posao' = [posao EXCEPT ![a] = Inserted(z, S)]
    BY <1>6, InsertTaken
  <2>2. Inserted(z, S) \in Posao BY <1>1, FieldsTyped
  <2> QED BY <2>1, <2>2
<1> QED BY <1>2, <1>3, <1>4, <1>5, <1>6 DEF Exits

LEMMA NextTyped == TypeOK /\ [Next]_vars => TypeOK'
<1> SUFFICES ASSUME TypeOK, [Next]_vars PROVE TypeOK' OBVIOUS
<1> USE DEF TypeOK
<1>1. ASSUME NEW a \in Admin, update_survey(a) PROVE TypeOK'
  <2>1. PICK p, k \in Dates, s \in Struktura :
          posao' = [posao EXCEPT ![a] =
            [Idle EXCEPT !.pc = "update", !.copy = anketa, !.sadrzaj = {s},
                         !.new = [anketa EXCEPT !.pocetak = p, !.kraj = k]]]
        BY <1>1 DEF update_survey
  <2>2. [anketa EXCEPT !.pocetak = p, !.kraj = k] \in Anketa
        BY DatesAreNat DEF Anketa
  <2>3. [Idle EXCEPT !.pc = "update", !.copy = anketa, !.sadrzaj = {s},
                     !.new = [anketa EXCEPT !.pocetak = p, !.kraj = k]] \in Posao
        BY <2>2 DEF Idle, Posao
  <2> QED BY <1>1, <2>1, <2>3 DEF update_survey, Tables, Thread
<1>2. ASSUME NEW a \in Thread, NEW pc \in {"rule", "extend"}, NEW new \in Anketa, load(a, pc, new)
      PROVE  posao' \in [Thread -> Posao]
  <2>1. [Idle EXCEPT !.pc = pc, !.copy = anketa, !.new = new] \in Posao
        BY DEF Idle, Posao
  <2> QED BY <1>2, <2>1 DEF load
<1>3. ASSUME NEW a \in Thread, finish(a) PROVE posao' \in [Thread -> Posao]
      BY <1>3, IdleTyped DEF finish
<1>4. ASSUME NEW a \in Thread PROVE flush(posao[a].copy, posao[a].new) \in Anketa
      BY FlushTyped DEF Posao
<1>5. ASSUME NEW a \in Admin, persist_structure(a) PROVE TypeOK'
  <2>1. posao[a].sadrzaj \subseteq Struktura BY DEF Posao, Thread
  <2> QED BY <1>3, <1>4, <1>5, <2>1 DEF persist_structure, Thread
<1>6. ASSUME NEW a \in Admin, NEW novi \in Statuses, change_status(a, novi) PROVE TypeOK'
  <2>1. [anketa EXCEPT !.status = novi] \in Anketa BY DEF Anketa
  <2> QED BY <1>2, <1>6, <2>1 DEF change_status, Tables, Thread
<1>7. ASSUME NEW a \in Admin, Exits(a) PROVE TypeOK'
  <2>1. PICK z \in Posao : posao' = [posao EXCEPT ![a] = z] BY <1>7, ExitTyped
  <2>2. UNCHANGED <<now, automatska, aktivni, greske>> /\ UNCHANGED Tables
    BY <1>7 DEF Exits, get_by_survey_id, validate_structure, validate_targets,
                _materialize_targets, add_ucesce
  <2> QED BY <2>1, <2>2 DEF Tables, Thread
<1>8. ASSUME NEW a \in Admin, commit_status(a) PROVE TypeOK'
  <2>1. posao[a].dodato \subseteq Korisnik BY DEF Posao, Thread
  <2> QED BY <1>3, <1>4, <1>8, <2>1 DEF commit_status, Thread
<1>9. ASSUME NEW a \in Admin, NEW novi \in Dates, extend_deadline(a, novi) PROVE TypeOK'
  <2>1. [anketa EXCEPT !.kraj = novi] \in Anketa BY DatesAreNat DEF Anketa
  <2> QED BY <1>2, <1>9, <2>1 DEF extend_deadline, Tables, Thread
<1>10. ASSUME NEW a \in Admin, commit_deadline(a) PROVE TypeOK'
       BY <1>3, <1>4, <1>10 DEF commit_deadline, Thread
<1>11. ASSUME upsert PROVE TypeOK'
       BY <1>11 DEF upsert, Tables
<1>12. ASSUME discover_events PROVE TypeOK'
  <2> DEFINE D == IF find_surveys_expiring_within /\ ~automatska THEN {anketa.kraj} ELSE {}
             z == [Idle EXCEPT !.pc = "discover", !.copy = anketa, !.auto = automatska,
                    !.new = [anketa EXCEPT !.status = discovered], !.podseti = D]
  <2>1. D \subseteq Nat BY DEF Anketa
  <2>2. discovered \in Statuses BY DEF discovered, Anketa, Statuses
  <2>3. [anketa EXCEPT !.status = discovered] \in Anketa BY <2>2 DEF Anketa
  <2>4. z \in Posao BY <2>1, <2>3 DEF Idle, Posao
  <2>5. posao' = [posao EXCEPT ![Worker] = z] BY <1>12 DEF discover_events
  <2> HIDE DEF z
  <2> QED BY <1>12, <2>4, <2>5 DEF discover_events, Tables, Thread
<1>13. ASSUME commit_discovery PROVE TypeOK'
  <2>1. posao[Worker].podseti \subseteq Nat BY DEF Posao, Thread
  <2> QED BY <1>3, <1>4, <1>13, <2>1 DEF commit_discovery, Thread
<1>14. ASSUME NEW a \in Thread, rollback(a) PROVE TypeOK'
       BY <1>3, <1>14 DEF rollback, Tables
<1>17. ASSUME synchronise PROVE TypeOK'
       BY <1>17 DEF synchronise, Tables
<1>15. ASSUME Tick PROVE TypeOK'
       BY <1>15 DEF Tick, Tables
<1>16. ASSUME UNCHANGED vars PROVE TypeOK'
       BY <1>16 DEF vars
<1> QED BY <1>1, <1>5, <1>6, <1>7, <1>8, <1>9, <1>10, <1>11, <1>12, <1>13, <1>14, <1>15, <1>16, <1>17
        DEF Next, Request, Discovery, Exits

-----------------------------------------------------------------------------
(* What threads know *)

\* What is known of entry z when auto says whether there is a rule and P whether the
\* survey is provided for.
Known(z, auto, P) ==
  /\ z.auto => auto
  /\ z.pc \in {"rule", "commit", "discover"} /\ z.copy.status # "DRAFT" => P
  /\ z.pc \in {"rule", "questions", "targets", "materialize", "insert", "commit"} =>
       z.new.status # "DRAFT"
  /\ z.pc = "rule" /\ z.copy.status = "DRAFT" => leaves_draft(z)
  /\ z.pc \in {"questions", "targets", "materialize", "insert"} => z.copy.status = "DRAFT"
  /\ z.pc \in {"materialize", "insert"} => z.provereni # {}
  /\ z.pc = "commit" /\ z.copy.status = "DRAFT" =>
       P \/ z.dodato # {} \/ (z.provereni # {} /\ z.ljudi = {})
  /\ z.pc \in {"extend", "update"} => z.new.status = z.copy.status
  /\ z.pc = "discover" => \/ z.new.status = z.copy.status
                          \/ z.copy.status = "SCHEDULED" /\ z.new.status = "ACTIVE"
                          \/ z.copy.status = "ACTIVE" /\ z.new.status = "CLOSED"

LEMMA KnownAgrees ==
  /\ KnownToThreads <=> \A a \in Thread : Known(posao[a], automatska, Provided)
  /\ KnownToThreads' <=> \A a \in Thread : Known(posao'[a], automatska', Provided')
BY DEF KnownToThreads, Known

\* A rule is never deleted and participants are never removed.
LEMMA Monotone == [Next]_vars => (automatska => automatska') /\ (Provided => Provided')
<1> SUFFICES ASSUME [Next]_vars PROVE (automatska => automatska') /\ (Provided => Provided')
    OBVIOUS
<1>0. ASSUME NEW a \in Admin, Exits(a) PROVE UNCHANGED automatska /\ UNCHANGED Tables
  BY <1>0 DEF Exits, get_by_survey_id, validate_structure, validate_targets,
              _materialize_targets, add_ucesce
<1>1. ASSUME NEW a \in Admin, update_survey(a) PROVE UNCHANGED automatska /\ UNCHANGED Tables
  BY <1>1 DEF update_survey
<1>2. ASSUME NEW a \in Admin, NEW novi, change_status(a, novi) \/ extend_deadline(a, novi)
      PROVE  UNCHANGED automatska /\ UNCHANGED Tables
  BY <1>2 DEF change_status, extend_deadline
<1>3. ASSUME NEW a \in Admin, persist_structure(a) \/ commit_deadline(a)
      PROVE  UNCHANGED <<automatska, ucesca, izmaklo>>
  BY <1>3 DEF persist_structure, commit_deadline
<1>5. ASSUME NEW a \in Admin, commit_status(a)
      PROVE  UNCHANGED automatska /\ ucesca \subseteq ucesca' /\ (izmaklo => izmaklo')
  BY <1>5 DEF commit_status
<1>6. ASSUME UNCHANGED Tables PROVE UNCHANGED <<ucesca, izmaklo>>
  BY <1>6 DEF Tables
<1>7. CASE upsert \/ synchronise \/ Tick \/ UNCHANGED vars \/ \E a \in Thread : rollback(a)
  BY <1>7 DEF upsert, synchronise, Tick, vars, rollback, Tables, Provided
<1>4. CASE Discovery
  BY <1>4 DEF Discovery, discover_events, commit_discovery, Tables, Provided
<1>8. CASE \E a \in Admin : Request(a)
  <2>1. PICK a \in Admin : Request(a) BY <1>8
  <2>2. \/ UNCHANGED <<automatska, ucesca, izmaklo>>
        \/ UNCHANGED automatska /\ ucesca \subseteq ucesca' /\ (izmaklo => izmaklo')
    BY <1>0, <1>1, <1>2, <1>3, <1>5, <1>6, <2>1 DEF Request, Exits
  <2> QED BY <2>2 DEF Provided
<1> QED BY <1>4, <1>7, <1>8 DEF Next

\* An entry that is known, or becomes known, while the others stay as they are.
LEMMA EntryKnown ==
  ASSUME TypeOK, KnownToThreads, [Next]_vars, NEW a \in Thread, NEW z,
         Known(z, automatska', Provided'), posao' = [posao EXCEPT ![a] = z]
  PROVE  KnownToThreads'
<1>1. \A b \in Thread : Known(posao[b], automatska', Provided')
      BY KnownAgrees, Monotone DEF Known
<1>2. \A b \in Thread : posao'[b] = IF b = a THEN z ELSE posao[b] BY DEF TypeOK
<1> QED BY <1>1, <1>2, KnownAgrees

\* Somebody is found by a validation that passes without a rule.
LEMMA ValidFinds ==
  ASSUME TypeOK, targets_valid(struktura.ciljevi, FALSE)
  PROVE  ciljani(struktura.ciljevi) # {}
<1>1. struktura.ciljevi \subseteq Cilj BY ConstantsAssumption DEF TypeOK
<1>2. PICK c \in struktura.ciljevi : TRUE BY DEF targets_valid
<1>3. c \in Cilj /\ c.vrsta # "CENTRALA" /\ (c.vrsta = "ORGJED" => c.ljudi \cap aktivni # {})
  BY <1>1, <1>2 DEF targets_valid
<1>4. c.vrsta \in {"SVI", "ORGJED"} /\ (c.vrsta = "SVI" => c.ljudi = Korisnik)
  BY <1>3 DEF Cilj
<1>5. PICK k \in aktivni : k \in c.ljudi BY <1>3, <1>4 DEF TypeOK
<1> QED BY <1>2, <1>5 DEF ciljani

\* What a thread knows after each step towards its commit.
LEMMA ExitKnown ==
  ASSUME TypeOK, KnownToThreads, [Next]_vars, NEW a \in Admin, Exits(a)
  PROVE  \E y : Known(y, automatska', Provided') /\ posao' = [posao EXCEPT ![a] = y]
<1> PICK z : z = posao[a] OBVIOUS
<1>1. z \in Posao /\ Known(z, automatska, Provided) BY KnownAgrees DEF TypeOK, Thread
<1>2. automatska' = automatska /\ Provided' = Provided
  <2>1. UNCHANGED automatska /\ UNCHANGED Tables
    BY DEF Exits, get_by_survey_id, validate_structure, validate_targets, _materialize_targets,
           add_ucesce
  <2> QED BY <2>1 DEF Tables, Provided
<1>3. CASE get_by_survey_id(a)
  <2>1. PICK pc \in {"questions", "commit"} :
          /\ pc = (IF leaves_draft(z) THEN "questions" ELSE "commit") /\ z.pc = "rule"
          /\ posao' = [posao EXCEPT ![a] = Ruled(z, pc, automatska)]
    BY <1>3, RuleTaken
  <2> DEFINE y == Ruled(z, pc, automatska)
  <2>2. y.pc = pc /\ y.auto = automatska /\ y.copy = z.copy /\ y.new = z.new
    BY <1>1 DEF Posao, Ruled
  <2> HIDE DEF y
  <2>3. CASE leaves_draft(z)
    <3>1. pc = "questions" /\ z.copy.status = "DRAFT" BY <2>1, <2>3 DEF leaves_draft
    <3> QED BY <1>1, <1>2, <2>1, <2>2, <3>1 DEF Known, y
  <2>4. CASE ~leaves_draft(z)
    <3>1. pc = "commit" BY <2>1, <2>4
    <3>2. z.copy.status # "DRAFT" BY <1>1, <2>1, <2>4 DEF Known
    <3> QED BY <1>1, <1>2, <2>1, <2>2, <3>1, <3>2 DEF Known, y
  <2> QED BY <2>3, <2>4
<1>4. CASE validate_structure(a)
  <2> DEFINE y == [z EXCEPT !.pc = "targets"]
  <2>1. z.pc = "questions" /\ posao' = [posao EXCEPT ![a] = y] BY <1>4, QuestionsTaken
  <2>2. y.pc = "targets" /\ y.auto = z.auto /\ y.copy = z.copy /\ y.new = z.new BY <1>1 DEF Posao
  <2> HIDE DEF y
  <2> QED BY <1>1, <1>2, <2>1, <2>2 DEF Known
<1>5. CASE validate_targets(a)
  <2>1. PICK pc \in {"commit", "materialize"}, S \in SUBSET Korisnik :
          /\ z.pc = "targets" /\ targets_valid(struktura.ciljevi, z.auto)
          /\ pc = (IF z.auto THEN "commit" ELSE "materialize")
          /\ S = (IF z.auto THEN {} ELSE ciljani(struktura.ciljevi))
          /\ posao' = [posao EXCEPT ![a] = Validated(z, pc, S)]
    BY <1>5, TargetsTaken
  <2> DEFINE y == Validated(z, pc, S)
  <2>2. y.pc = pc /\ y.auto = z.auto /\ y.copy = z.copy /\ y.new = z.new /\ y.provereni = S
    BY <1>1 DEF Posao, Validated
  <2>3. z.auto \in BOOLEAN BY <1>1 DEF Posao
  <2> HIDE DEF y
  <2>4. CASE z.auto
    <3>1. pc = "commit" /\ Provided BY <1>1, <2>1, <2>4 DEF Known, Provided
    <3> QED BY <1>1, <1>2, <2>1, <2>2, <3>1 DEF Known, y
  <2>5. CASE ~z.auto
    <3>1. z.auto = FALSE BY <2>3, <2>5
    <3>2. pc = "materialize" /\ S # {} BY <2>1, <2>5, <3>1, ValidFinds
    <3> QED BY <1>1, <1>2, <2>1, <2>2, <3>2 DEF Known, y
  <2> QED BY <2>4, <2>5
<1>6. CASE _materialize_targets(a)
  <2>1. PICK S \in SUBSET Korisnik :
          z.pc = "materialize" /\ posao' = [posao EXCEPT ![a] = Reread(z, S)]
    BY <1>6, AgainTaken
  <2> DEFINE y == Reread(z, S)
  <2>2. /\ y.pc = "insert" /\ y.auto = z.auto /\ y.copy = z.copy /\ y.new = z.new
        /\ y.provereni = z.provereni
    BY <1>1 DEF Posao, Reread
  <2> HIDE DEF y
  <2> QED BY <1>1, <1>2, <2>1, <2>2 DEF Known, y
<1>7. CASE add_ucesce(a)
  <2>1. PICK S \in SUBSET Korisnik :
          /\ z.pc = "insert" /\ S = z.ljudi \ ucesca
          /\ posao' = [posao EXCEPT ![a] = Inserted(z, S)]
    BY <1>7, InsertTaken
  <2> DEFINE y == Inserted(z, S)
  <2>2. /\ y.pc = "commit" /\ y.auto = z.auto /\ y.copy = z.copy /\ y.new = z.new
        /\ y.provereni = z.provereni /\ y.ljudi = z.ljudi /\ y.dodato = S
    BY <1>1 DEF Posao, Inserted
  <2> HIDE DEF y
  <2>3. ucesca # {} \/ S # {} \/ z.ljudi = {} BY <2>1
  <2>4. Provided \/ S # {} \/ z.ljudi = {} BY <2>3 DEF Provided
  <2> QED BY <1>1, <1>2, <2>1, <2>2, <2>4 DEF Known, y
<1> QED BY <1>3, <1>4, <1>5, <1>6, <1>7 DEF Exits

LEMMA NextKnown ==
  TypeOK /\ LeftDraftHasParticipants /\ KnownToThreads /\ [Next]_vars => KnownToThreads'
<1> SUFFICES ASSUME TypeOK, LeftDraftHasParticipants, KnownToThreads, [Next]_vars
             PROVE  KnownToThreads'
    OBVIOUS
<1>1. ASSUME NEW a \in Thread, finish(a) PROVE KnownToThreads'
  <2>1. Known(Idle, automatska', Provided') BY DEF Known, Idle, Blank
  <2> QED BY <1>1, <2>1, EntryKnown DEF finish
<1>2. ASSUME NEW a \in Admin, update_survey(a) PROVE KnownToThreads'
  <2>1. PICK p, k \in Dates, s \in Struktura :
          posao' = [posao EXCEPT ![a] =
            [Idle EXCEPT !.pc = "update", !.copy = anketa, !.sadrzaj = {s},
                         !.new = [anketa EXCEPT !.pocetak = p, !.kraj = k]]]
        BY <1>2 DEF update_survey
  <2>2. Known([Idle EXCEPT !.pc = "update", !.copy = anketa, !.sadrzaj = {s},
                         !.new = [anketa EXCEPT !.pocetak = p, !.kraj = k]], automatska', Provided')
        BY DEF Known, Idle, TypeOK, Anketa
  <2> QED BY <2>1, <2>2, EntryKnown DEF Thread
<1>3. ASSUME NEW a \in Admin, NEW novi \in Statuses, change_status(a, novi) PROVE KnownToThreads'
  <2> DEFINE z == [Idle EXCEPT !.pc = "rule", !.copy = anketa, !.new = [anketa EXCEPT !.status = novi]]
  <2>0. novi # "DRAFT" /\ (anketa.status = "DRAFT" => novi \in {"SCHEDULED", "ACTIVE"})
    <3>1. anketa.status \in Statuses BY DEF TypeOK, Anketa
    <3> QED BY <1>3, <3>1 DEF change_status, is_valid_survey_transition, ANKETA_DOZVOLJENI_PRELAZI, Statuses
  <2>2. z.pc = "rule" /\ z.copy = anketa /\ z.new.status = novi /\ ~z.auto
        BY DEF Idle, TypeOK, Anketa
  <2> HIDE DEF z
  <2>1. Known(z, automatska', Provided')
        BY <2>0, <2>2, Monotone DEF Known, LeftDraftHasParticipants, Provided, leaves_draft
  <2>3. posao' = [posao EXCEPT ![a] = z] BY <1>3 DEF change_status, load, z
  <2> QED BY <2>1, <2>3, EntryKnown DEF Thread
<1>4. ASSUME NEW a \in Admin, Exits(a) PROVE KnownToThreads'
  <2>1. PICK y : Known(y, automatska', Provided') /\ posao' = [posao EXCEPT ![a] = y]
    BY <1>4, ExitKnown
  <2> QED BY <2>1, EntryKnown DEF Thread
<1>5. ASSUME NEW a \in Admin, NEW novi \in Dates, extend_deadline(a, novi) PROVE KnownToThreads'
  <2>1. Known([Idle EXCEPT !.pc = "extend", !.copy = anketa, !.new = [anketa EXCEPT !.kraj = novi]],
              automatska', Provided')
        BY DEF Known, Idle, TypeOK, Anketa
  <2> QED BY <1>5, <2>1, EntryKnown DEF extend_deadline, load, Thread
<1>6. ASSUME discover_events PROVE KnownToThreads'
  <2> DEFINE z == [Idle EXCEPT !.pc = "discover", !.copy = anketa, !.auto = automatska,
                    !.new = [anketa EXCEPT !.status = discovered],
                    !.podseti = IF find_surveys_expiring_within /\ ~automatska
                                  THEN {anketa.kraj} ELSE {}]
  <2>1. posao' = [posao EXCEPT ![Worker] = z] BY <1>6 DEF discover_events
  <2>2. /\ z.pc = "discover" /\ z.auto = automatska /\ z.copy = anketa
        /\ z.new.status = discovered
        BY DEF Idle, TypeOK, Anketa
  <2>3. Known(z, automatska', Provided')
        BY <2>2, Monotone DEF Known, LeftDraftHasParticipants, Provided, discovered,
           find_scheduled_surveys_now_active, find_active_surveys_now_expired
  <2> HIDE DEF z
  <2> QED BY <2>1, <2>3, EntryKnown DEF Thread
<1>7. ASSUME posao' = posao PROVE KnownToThreads'
  <2>1. \A b \in Thread : Known(posao[b], automatska', Provided')
        BY KnownAgrees, Monotone DEF Known
  <2> QED BY <1>7, <2>1, KnownAgrees
<1> QED BY <1>1, <1>2, <1>3, <1>4, <1>5, <1>6, <1>7
        DEF Next, Request, Discovery, Exits, persist_structure, commit_status, commit_deadline,
            upsert, synchronise, commit_discovery, rollback, Tick, vars, Thread

-----------------------------------------------------------------------------
(* Announcement and participants *)

\* A status that was not there before is the one a thread has written.
LEMMA NextAnnounced ==
  TypeOK /\ ActivationAnnounced /\ KnownToThreads /\ [Next]_vars => ActivationAnnounced'
<1> SUFFICES ASSUME TypeOK, ActivationAnnounced, KnownToThreads, [Next]_vars
             PROVE  ActivationAnnounced'
    OBVIOUS
<1>0. \A a \in Thread : posao[a] \in Posao /\ Known(posao[a], automatska, Provided)
      BY KnownAgrees DEF TypeOK
<1>1. ASSUME NEW a \in Thread
      PROVE  \/ flush(posao[a].copy, posao[a].new).status = anketa.status
             \/ /\ flush(posao[a].copy, posao[a].new).status = posao[a].new.status
                /\ posao[a].new.status # posao[a].copy.status
  <2>1. anketa \in Anketa /\ posao[a].copy \in Anketa /\ posao[a].new \in Anketa
        BY DEF TypeOK, Posao
  <2> QED BY <2>1, FlushTyped
<1>2. ASSUME NEW a \in Admin, persist_structure(a) \/ commit_deadline(a)
      PROVE  ActivationAnnounced'
  <2>1. anketa'.status = anketa.status
        BY <1>0, <1>1, <1>2 DEF persist_structure, commit_deadline, Known, Thread
  <2> QED BY <1>2, <2>1 DEF persist_structure, commit_deadline, ActivationAnnounced
<1>3. ASSUME NEW a \in Admin, commit_status(a) PROVE ActivationAnnounced'
      BY <1>0, <1>1, <1>3 DEF commit_status, announces, ActivationAnnounced, Known, Thread
<1>4. ASSUME commit_discovery PROVE ActivationAnnounced'
      BY <1>0, <1>1, <1>4 DEF commit_discovery, announces, ActivationAnnounced, Known, Thread
<1>5. ASSUME anketa' = anketa, dogadjaj' = dogadjaj PROVE ActivationAnnounced'
      BY <1>5, Monotone DEF ActivationAnnounced
<1>6. ASSUME NEW a \in Admin, Exits(a) PROVE UNCHANGED Tables
      BY <1>6 DEF Exits, get_by_survey_id, validate_structure, validate_targets,
                  _materialize_targets, add_ucesce
<1> QED BY <1>2, <1>3, <1>4, <1>5, <1>6
        DEF Next, Request, Discovery, Exits, update_survey, change_status, extend_deadline,
            upsert, synchronise, discover_events, rollback, Tick, Tables, vars

LEMMA NextParticipants ==
  TypeOK /\ LeftDraftHasParticipants /\ KnownToThreads /\ [Next]_vars => LeftDraftHasParticipants'
<1> SUFFICES ASSUME TypeOK, LeftDraftHasParticipants, KnownToThreads, [Next]_vars
             PROVE  LeftDraftHasParticipants'
    OBVIOUS
<1>0. \A a \in Thread : posao[a] \in Posao /\ Known(posao[a], automatska, Provided)
      BY KnownAgrees DEF TypeOK
<1>1. ASSUME NEW a \in Thread
      PROVE  \/ flush(posao[a].copy, posao[a].new).status = anketa.status
             \/ /\ flush(posao[a].copy, posao[a].new).status = posao[a].new.status
                /\ posao[a].new.status # posao[a].copy.status
  <2>1. anketa \in Anketa /\ posao[a].copy \in Anketa /\ posao[a].new \in Anketa
        BY DEF TypeOK, Posao
  <2> QED BY <2>1, FlushTyped
<1>2. ASSUME NEW a \in Admin, persist_structure(a) \/ commit_deadline(a)
      PROVE  LeftDraftHasParticipants'
  <2>1. anketa'.status = anketa.status
        BY <1>0, <1>1, <1>2 DEF persist_structure, commit_deadline, Known, Thread
  <2> QED BY <2>1, Monotone DEF LeftDraftHasParticipants, Provided
<1>3. ASSUME NEW a \in Admin, commit_status(a) PROVE LeftDraftHasParticipants'
  <2> PICK z : z = posao[a] OBVIOUS
  <2>1. Known(z, automatska, Provided) /\ z.pc = "commit"
        BY <1>0, <1>3 DEF commit_status, Thread
  <2>2. Provided \/ z.dodato # {} \/ (z.provereni # {} /\ z.ljudi = {})
        BY <2>1 DEF Known
  <2>3. Provided'
        BY <1>3, <2>2, Monotone DEF commit_status, Provided
  <2> QED BY <2>3 DEF LeftDraftHasParticipants, Provided
<1>4. ASSUME commit_discovery PROVE LeftDraftHasParticipants'
  <2> PICK z : z = posao[Worker] OBVIOUS
  <2>1. Known(z, automatska, Provided) /\ z.pc = "discover"
        BY <1>0, <1>4 DEF commit_discovery, Thread
  <2>2. CASE z.copy.status # "DRAFT"
    <3>1. Provided BY <2>1, <2>2 DEF Known
    <3> QED BY <3>1, Monotone DEF LeftDraftHasParticipants, Provided
  <2>3. CASE z.copy.status = "DRAFT"
    <3>1. z.new.status = z.copy.status BY <2>1, <2>3 DEF Known
    <3>2. anketa'.status = anketa.status BY <1>1, <1>4, <3>1 DEF commit_discovery, Thread
    <3> QED BY <3>2, Monotone DEF LeftDraftHasParticipants, Provided
  <2> QED BY <2>2, <2>3
<1>5. ASSUME anketa' = anketa PROVE LeftDraftHasParticipants'
      BY <1>5, Monotone DEF LeftDraftHasParticipants, Provided
<1>6. ASSUME NEW a \in Admin, Exits(a) PROVE UNCHANGED Tables
      BY <1>6 DEF Exits, get_by_survey_id, validate_structure, validate_targets,
                  _materialize_targets, add_ucesce
<1> QED BY <1>2, <1>3, <1>4, <1>5, <1>6
        DEF Next, Request, Discovery, Exits, update_survey, change_status, extend_deadline,
            upsert, synchronise, discover_events, rollback, Tick, Tables, vars

-----------------------------------------------------------------------------

\* What the threads know stays true, and with it the two facts below.
THEOREM LifecycleInvariance == Spec => []IInv
<1>1. Init => IInv
  <2> SUFFICES ASSUME Init PROVE IInv OBVIOUS
  <2>1. anketa.status = "DRAFT" BY DEF Init
  <2>2. KnownToThreads BY DEF Init, KnownToThreads, Idle, Blank
  <2> QED BY InitTyped, <2>1, <2>2 DEF IInv, ActivationAnnounced, LeftDraftHasParticipants
<1>2. IInv /\ [Next]_vars => IInv'
      BY NextTyped, NextKnown, NextAnnounced, NextParticipants DEF IInv
<1> QED BY <1>1, <1>2, PTL DEF Spec

\* Every variable of the survey keeps its type.
THEOREM LifecycleTyped == Spec => []TypeOK
<1>1. IInv => TypeOK BY DEF IInv
<1> QED BY <1>1, LifecycleInvariance, PTL

\* An active survey without an onboarding rule has been announced, whatever
\* stale copies were written over it.
THEOREM ActiveIsAnnounced == Spec => []ActivationAnnounced
<1>1. IInv => ActivationAnnounced BY DEF IInv
<1> QED BY <1>1, LifecycleInvariance, PTL

\* A survey that left DRAFT has participants or an onboarding rule, except that its first exit
\* may have found nobody in targets in which its own validation had found somebody.
THEOREM PublishedHasParticipants == Spec => []LeftDraftHasParticipants
<1>1. IInv => LeftDraftHasParticipants BY DEF IInv
<1> QED BY <1>1, LifecycleInvariance, PTL

\* What a thread writes over a survey that left DRAFT is no draft.
LEMMA StepLeavesDraft ==
  TypeOK /\ KnownToThreads /\ [Next]_vars =>
    [anketa.status # "DRAFT" => anketa'.status # "DRAFT"]_vars
<1> SUFFICES ASSUME TypeOK, KnownToThreads, Next, anketa.status # "DRAFT"
             PROVE  anketa'.status # "DRAFT"
    OBVIOUS
<1>0. \A a \in Thread : posao[a] \in Posao /\ Known(posao[a], automatska, Provided)
      BY KnownAgrees DEF TypeOK
<1>1. ASSUME NEW a \in Thread, posao[a].pc \in {"update", "extend", "commit", "discover"},
             anketa' = flush(posao[a].copy, posao[a].new)
      PROVE  anketa'.status # "DRAFT"
  <2>1. anketa \in Anketa /\ posao[a].copy \in Anketa /\ posao[a].new \in Anketa
        BY <1>0 DEF TypeOK, Posao
  <2>2. posao[a].new.status # posao[a].copy.status => posao[a].new.status # "DRAFT"
        BY <1>0, <1>1 DEF Known
  <2> QED BY <1>1, <2>1, <2>2, FlushTyped
<1>2. ASSUME NEW a \in Admin, persist_structure(a) \/ commit_status(a) \/ commit_deadline(a)
      PROVE  anketa'.status # "DRAFT"
      BY <1>1, <1>2 DEF persist_structure, commit_status, commit_deadline, Thread
<1>3. ASSUME commit_discovery PROVE anketa'.status # "DRAFT"
      BY <1>1, <1>3 DEF commit_discovery, Thread
<1>4. ASSUME anketa' = anketa PROVE anketa'.status # "DRAFT" BY <1>4
<1>5. ASSUME NEW a \in Admin, Exits(a) PROVE UNCHANGED Tables
      BY <1>5 DEF Exits, get_by_survey_id, validate_structure, validate_targets,
                  _materialize_targets, add_ucesce
<1> QED BY <1>2, <1>3, <1>4, <1>5
        DEF Next, Request, Discovery, Exits, update_survey, change_status, extend_deadline,
            upsert, synchronise, discover_events, rollback, Tick, Tables

\* No stale copy makes a survey that left DRAFT a draft again: an UPDATE leaves out a status
\* the request did not change, and no request changes one to DRAFT.
THEOREM DraftIsLeftForGood == Spec => LeavesDraftForGood
<1>1. IInv /\ [Next]_vars => [anketa.status # "DRAFT" => anketa'.status # "DRAFT"]_vars
      BY StepLeavesDraft DEF IInv
<1> QED BY <1>1, LifecycleInvariance, PTL DEF Spec, LeavesDraftForGood
=============================================================================
