---------------------------- MODULE SurveyProofs ----------------------------
(***************************************************************************)
(* Proofs about SurveyParticipation, for any employees, questions, request *)
(* threads and periods: the types, the exclusion of two submits by the row *)
(* lock, the balance of submissions, the uniqueness of named ones and the  *)
(* reachability of drafts (DraftInv, inductive on top of IInv).            *)
(* Then about SurveyAnswers, for any types, structures, payloads and       *)
(* processes: visibility is the one solution of its equation, by induction *)
(* over the order of the questions, and from it that what is stored fits   *)
(* what is asked.                                                          *)
(***************************************************************************)
EXTENDS SurveyParticipation, EmployeeAnswers, FiniteSetTheorems, WellFoundedInduction, TLAPS

USE ConstantsAssumption DEF Times, UcesceStatus, AnketaStatus

\* Request r in state z keeps the threads typed.
LEMMA ThreadTyped ==
  ASSUME TypeOK, NEW r \in Request, NEW z \in Zahtev, zahtev' = [zahtev EXCEPT ![r] = z]
  PROVE  zahtev' \in [Request -> Zahtev]
BY DEF TypeOK

\* A fresh participation row and an idle thread have their types.
LEMMA IdleTyped == Idle \in Zahtev /\ Fresh \in Ucesce /\ NoTime \notin Nat
BY DEF Idle, Zahtev, Fresh, Ucesce, NoTime

\* Marking a participation as begun gives a participation.
LEMMA BegunTyped ==
  ASSUME NEW row \in Ucesce, NEW copy \in Ucesce, NEW t \in Nat
  PROVE  begun(row, copy, t) \in Ucesce
BY DEF begun, Ucesce

\* A thread at work belongs to an employee, and its time is a time.
LEMMA WorkingTyped ==
  ASSUME TypeOK, LockedIsOpen, NEW r \in Request, zahtev[r].pc # "idle"
  PROVE  /\ zahtev[r].korisnik \in User /\ zahtev[r].at \in Nat
         /\ zahtev[r].ucesce \in Ucesce /\ zahtev[r].odgovori \in SUBSET Question
         /\ zahtev[r].obrisani \in SUBSET Question
BY DEF TypeOK, LockedIsOpen, Zahtev

\* What a request notes when it deletes drafts, and when it locks its row.
LEMMA NotedTyped ==
  ASSUME NEW z \in Zahtev, NEW S \in SUBSET Question, NEW row \in Ucesce
  PROVE  /\ [z EXCEPT !.pc = "saving", !.obrisani = S] \in Zahtev
         /\ [z EXCEPT !.pc = "locked", !.ucesce = row] \in Zahtev
BY DEF Zahtev

LEMMA InitTyped == Init => TypeOK
BY IdleTyped DEF Init, TypeOK

\* finish leaves every thread typed.
LEMMA FinishTyped ==
  ASSUME TypeOK, NEW r \in Request, finish(r)
  PROVE  zahtev' \in [Request -> Zahtev]
BY IdleTyped, ThreadTyped DEF finish

LEMMA NextTyped == TypeOK /\ LockedIsOpen /\ [Next]_vars => TypeOK'
<1> SUFFICES ASSUME TypeOK, LockedIsOpen, [Next]_vars PROVE TypeOK'
    OBVIOUS
<1>1. ASSUME NEW r \in Request, NEW u \in User, save_draft(r, u) PROVE TypeOK'
  <2>1. PICK S \in SUBSET Question : zahtev' = [zahtev EXCEPT ![r] =
          [pc |-> "save", korisnik |-> u, at |-> now, anketa |-> anketa,
           ucesce |-> ucesce[u], odgovori |-> S, obrisani |-> {}]]
        BY <1>1 DEF save_draft
  <2>2. [pc |-> "save", korisnik |-> u, at |-> now, anketa |-> anketa,
         ucesce |-> ucesce[u], odgovori |-> S, obrisani |-> {}] \in Zahtev
        BY DEF Zahtev, TypeOK
  <2>3. zahtev' \in [Request -> Zahtev] BY <2>1, <2>2, ThreadTyped
  <2> QED BY <1>1, <2>3 DEF save_draft, TypeOK
<1>2. ASSUME NEW r \in Request, delete_draft(r) PROVE TypeOK'
  <2>1. zahtev[r].korisnik \in User BY <1>2, WorkingTyped DEF delete_draft
  <2>2. [zahtev[r] EXCEPT !.pc = "saving", !.obrisani = nacrti[zahtev[r].korisnik]] \in Zahtev
        BY <2>1, NotedTyped, IdleTyped DEF TypeOK
  <2>3. zahtev' \in [Request -> Zahtev]
    <3>1. zahtev' = [zahtev EXCEPT ![r] =
            [zahtev[r] EXCEPT !.pc = "saving", !.obrisani = nacrti[zahtev[r].korisnik]]]
          BY <1>2 DEF delete_draft
    <3> QED BY <2>2, <3>1, ThreadTyped
  <2> QED BY <1>2, <2>3 DEF delete_draft, TypeOK
<1>3. ASSUME NEW r \in Request, store_draft(r) PROVE TypeOK'
  <2> DEFINE u == zahtev[r].korisnik
  <2>0. /\ u \in User /\ zahtev[r].at \in Nat /\ zahtev[r].ucesce \in Ucesce
        /\ zahtev[r].odgovori \in SUBSET Question
        BY <1>3, WorkingTyped DEF store_draft
  <2>1. ucesce[u] \in Ucesce BY <2>0 DEF TypeOK
  <2>2. begun(ucesce[u], zahtev[r].ucesce, zahtev[r].at) \in Ucesce BY <2>0, <2>1, BegunTyped
  <2>3. ucesce' \in [User -> Ucesce] BY <1>3, <2>2 DEF store_draft, TypeOK
  <2>4. nacrti' \in [User -> SUBSET Question] BY <1>3, <2>0 DEF store_draft, TypeOK
  <2>5. vraceno' \in [User -> Nat] BY <1>3, <2>0 DEF store_draft, TypeOK
  <2>6. zahtev' \in [Request -> Zahtev] BY <1>3, FinishTyped DEF store_draft
  <2> QED BY <1>3, <2>3, <2>4, <2>5, <2>6 DEF store_draft, TypeOK
<1>4. ASSUME NEW r \in Request, store_draft_duplicate(r) PROVE TypeOK'
      BY <1>4, FinishTyped DEF store_draft_duplicate, TypeOK
<1>5. ASSUME NEW r \in Request, NEW u \in User, submit(r, u) PROVE TypeOK'
  <2>1. [Idle EXCEPT !.pc = "submit", !.korisnik = u, !.at = now, !.anketa = anketa] \in Zahtev
        BY IdleTyped DEF Zahtev, TypeOK
  <2>2. zahtev' \in [Request -> Zahtev] BY <1>5, <2>1, ThreadTyped DEF submit
  <2> QED BY <1>5, <2>2 DEF submit, TypeOK
<1>6. ASSUME NEW r \in Request, get_ucesce_for_update(r) PROVE TypeOK'
  <2>1. zahtev[r].korisnik \in User BY <1>6, WorkingTyped DEF get_ucesce_for_update
  <2>2. [zahtev[r] EXCEPT !.pc = "locked", !.ucesce = ucesce[zahtev[r].korisnik]] \in Zahtev
        BY <2>1, NotedTyped DEF TypeOK
  <2>3. zahtev' \in [Request -> Zahtev]
    <3>1. \/ finish(r)
          \/ zahtev' = [zahtev EXCEPT ![r] =
               [zahtev[r] EXCEPT !.pc = "locked", !.ucesce = ucesce[zahtev[r].korisnik]]]
          BY <1>6 DEF get_ucesce_for_update
    <3> QED BY <2>2, <3>1, ThreadTyped, FinishTyped
  <2> QED BY <1>6, <2>3 DEF get_ucesce_for_update, TypeOK
<1>7. ASSUME NEW r \in Request, add_submission(r) PROVE TypeOK'
  <2> DEFINE u == zahtev[r].korisnik
  <2>1. u \in User /\ zahtev[r].at \in Nat BY <1>7, WorkingTyped DEF add_submission
  <2>2. ucesce[u] \in Ucesce BY <2>1 DEF TypeOK
  <2>3. ucesce' \in [User -> Ucesce]
    <3>1. PICK row : row = ucesce[u] /\ row \in Ucesce BY <2>2
    <3>2. [row EXCEPT !.status = "SUBMITTED", !.datum_predaje = zahtev[r].at] \in Ucesce
          BY <2>1, <3>1 DEF Ucesce
    <3>3. ucesce' = [ucesce EXCEPT ![u] =
                       [row EXCEPT !.status = "SUBMITTED", !.datum_predaje = zahtev[r].at]]
          BY <1>7, <2>1, <3>1 DEF add_submission, TypeOK
    <3> QED BY <2>1, <3>2, <3>3 DEF TypeOK
  <2>4. zahtev' \in [Request -> Zahtev] BY <1>7, FinishTyped DEF add_submission
  <2> QED BY <1>7, <2>1, <2>3, <2>4 DEF add_submission, TypeOK
<1>8. ASSUME NEW r \in Request, submission_refused(r) PROVE TypeOK'
      BY <1>8, FinishTyped DEF submission_refused, TypeOK
<1>9. ASSUME NEW r \in Request, rollback(r) PROVE TypeOK'
      BY <1>9, FinishTyped DEF rollback, TypeOK
<1>10. ASSUME NEW r \in Request, NEW q \in Request, deadlock(r, q) PROVE TypeOK'
      BY <1>10, FinishTyped DEF deadlock, TypeOK
<1>11. ASSUME change_status \/ Tick \/ UNCHANGED vars PROVE TypeOK'
      BY <1>11 DEF change_status, Tick, vars, TypeOK
<1> QED BY <1>1, <1>2, <1>3, <1>4, <1>5, <1>6, <1>7, <1>8, <1>9, <1>10, <1>11
        DEF Next, Save, Submit

-----------------------------------------------------------------------------
(* The row lock *)

\* Threads that stop being at work leave the others alone.
LEMMA FinishKeepsLock ==
  ASSUME TypeOK, LockedIsOpen, NEW r \in Request, finish(r), UNCHANGED ucesce
  PROVE  LockedIsOpen'
BY DEF TypeOK, LockedIsOpen, finish, Idle

LEMMA NextLocked == TypeOK /\ LockedIsOpen /\ [Next]_vars => LockedIsOpen'
<1> SUFFICES ASSUME TypeOK, LockedIsOpen, [Next]_vars PROVE LockedIsOpen'
    OBVIOUS
<1>1. ASSUME NEW r \in Request, NEW u \in User, save_draft(r, u) PROVE LockedIsOpen'
      BY <1>1 DEF save_draft, LockedIsOpen, TypeOK
<1>2. ASSUME NEW r \in Request, delete_draft(r) PROVE LockedIsOpen'
      BY <1>2 DEF delete_draft, LockedIsOpen, TypeOK, Zahtev
<1>3. ASSUME NEW r \in Request, store_draft(r) PROVE LockedIsOpen'
  <2> DEFINE u == zahtev[r].korisnik
  <2>0. u \in User /\ zahtev[r].at \in Nat /\ ucesce[u] \in Ucesce
        BY <1>3, WorkingTyped DEF store_draft, TypeOK
  <2>1. zahtev' = [zahtev EXCEPT ![r] = Idle] BY <1>3 DEF store_draft, finish
  <2>2. \A v \in User : v # u => ucesce'[v] = ucesce[v]
        BY <1>3 DEF store_draft, TypeOK
  <2>3. ucesce'[u] = begun(ucesce[u], zahtev[r].ucesce, zahtev[r].at)
        BY <1>3, <2>0 DEF store_draft, TypeOK
  <2>4. locked(u) => ucesce'[u] = ucesce[u]
        BY <1>3, <2>3 DEF store_draft, begun
  <2>5. \A q \in Request : q # r => zahtev'[q] = zahtev[q] BY <2>1 DEF TypeOK
  <2>6. zahtev'[r].pc = "idle" BY <2>1 DEF TypeOK, Idle
  <2>7. ASSUME NEW q \in Request, zahtev'[q].pc = "locked"
        PROVE  ucesce'[zahtev'[q].korisnik].status # "SUBMITTED"
    <3>1. q # r /\ zahtev'[q] = zahtev[q] BY <2>5, <2>6, <2>7
    <3>2. zahtev[q].korisnik \in User /\ ucesce[zahtev[q].korisnik].status # "SUBMITTED"
          BY <2>7, <3>1 DEF LockedIsOpen
    <3>3. zahtev[q].korisnik = u => locked(u) BY <2>7, <3>1 DEF locked
    <3> QED BY <2>2, <2>4, <3>1, <3>2, <3>3
  <2> QED BY <2>5, <2>6, <2>7 DEF LockedIsOpen
<1>4. ASSUME NEW r \in Request, store_draft_duplicate(r) PROVE LockedIsOpen'
      BY <1>4, FinishKeepsLock DEF store_draft_duplicate
<1>5. ASSUME NEW r \in Request, NEW u \in User, submit(r, u) PROVE LockedIsOpen'
      BY <1>5 DEF submit, LockedIsOpen, TypeOK, Idle
<1>6. ASSUME NEW r \in Request, get_ucesce_for_update(r) PROVE LockedIsOpen'
  <2> DEFINE u == zahtev[r].korisnik
  <2>1. CASE finish(r) BY <1>6, <2>1, FinishKeepsLock DEF get_ucesce_for_update
  <2>2. CASE /\ ucesce[u].status # "SUBMITTED"
             /\ zahtev' = [zahtev EXCEPT ![r].pc = "locked", ![r].ucesce = ucesce[u]]
    <3>1. ~locked(u) /\ ucesce' = ucesce /\ zahtev[r].pc = "submit"
          BY <1>6 DEF get_ucesce_for_update
    <3>2. \A q \in Request : q # r => zahtev'[q] = zahtev[q] BY <2>2 DEF TypeOK
    <3>3. zahtev'[r].pc = "locked" /\ zahtev'[r].korisnik = u BY <2>2 DEF TypeOK, Zahtev
    <3>4. u \in User BY <3>1 DEF LockedIsOpen
    <3>5. \A q \in Request : zahtev[q].pc = "locked" => zahtev[q].korisnik # u
          BY <3>1 DEF locked
    <3>6. ucesce'[u].status # "SUBMITTED" BY <2>2, <3>1
    <3>7. ASSUME NEW q \in Request, NEW p \in Request, zahtev'[q].pc = "locked",
                 zahtev'[p].pc = "locked", zahtev'[q].korisnik = zahtev'[p].korisnik
          PROVE  q = p
          BY <3>2, <3>3, <3>5, <3>7 DEF LockedIsOpen
    <3>8. ASSUME NEW q \in Request, zahtev'[q].pc # "idle"
          PROVE  zahtev'[q].korisnik \in User
          BY <3>2, <3>3, <3>4, <3>8 DEF LockedIsOpen
    <3>9. ASSUME NEW q \in Request, zahtev'[q].pc = "locked"
          PROVE  ucesce'[zahtev'[q].korisnik].status # "SUBMITTED"
          BY <3>1, <3>2, <3>3, <3>6, <3>9 DEF LockedIsOpen
    <3> QED BY <3>7, <3>8, <3>9 DEF LockedIsOpen
  <2> QED BY <1>6, <2>1, <2>2 DEF get_ucesce_for_update
<1>7. ASSUME NEW r \in Request, add_submission(r) PROVE LockedIsOpen'
  <2> DEFINE u == zahtev[r].korisnik
  <2>1. zahtev' = [zahtev EXCEPT ![r] = Idle] /\ zahtev[r].pc = "locked"
        BY <1>7 DEF add_submission, finish
  <2>2. \A v \in User : v # u => ucesce'[v] = ucesce[v] BY <1>7 DEF add_submission, TypeOK
  <2>3. \A q \in Request : q # r => zahtev'[q] = zahtev[q] BY <2>1 DEF TypeOK
  <2>4. zahtev'[r].pc = "idle" BY <2>1 DEF TypeOK, Idle
  <2>5. \A q \in Request : q # r /\ zahtev[q].pc = "locked" => zahtev[q].korisnik # u
        BY <2>1 DEF LockedIsOpen
  <2> QED BY <2>2, <2>3, <2>4, <2>5 DEF LockedIsOpen
<1>8. ASSUME NEW r \in Request, submission_refused(r) PROVE LockedIsOpen'
      BY <1>8, FinishKeepsLock DEF submission_refused
<1>9. ASSUME NEW r \in Request, rollback(r) PROVE LockedIsOpen'
      BY <1>9, FinishKeepsLock DEF rollback
<1>10. ASSUME NEW r \in Request, NEW q \in Request, deadlock(r, q) PROVE LockedIsOpen'
      BY <1>10, FinishKeepsLock DEF deadlock
<1>11. ASSUME change_status \/ Tick \/ UNCHANGED vars PROVE LockedIsOpen'
      BY <1>11 DEF change_status, Tick, vars, LockedIsOpen
<1> QED BY <1>1, <1>2, <1>3, <1>4, <1>5, <1>6, <1>7, <1>8, <1>9, <1>10, <1>11
        DEF Next, Save, Submit

-----------------------------------------------------------------------------
(* The books *)

LEMMA NextBalanced ==
  TypeOK /\ LockedIsOpen /\ SubmissionsBalance /\ [Next]_vars => SubmissionsBalance'
<1> SUFFICES ASSUME TypeOK, LockedIsOpen, SubmissionsBalance, [Next]_vars
             PROVE  SubmissionsBalance'
    OBVIOUS
<1>1. ASSUME NEW r \in Request, store_draft(r) PROVE SubmissionsBalance'
  <2> DEFINE u == zahtev[r].korisnik
  <2>0. u \in User BY <1>1, WorkingTyped DEF store_draft
  <2>1. \A v \in User : v # u => ucesce'[v] = ucesce[v] /\ vraceno'[v] = vraceno[v]
        BY <1>1 DEF store_draft, TypeOK
  <2>2. predaje' = predaje BY <1>1 DEF store_draft
  <2>3. vraceno'[u] = IF ucesce[u].status = "SUBMITTED" /\ ucesce'[u].status # "SUBMITTED"
                        THEN vraceno[u] + 1 ELSE vraceno[u]
        BY <1>1, <2>0 DEF store_draft, TypeOK
  <2>4. ucesce'[u] = begun(ucesce[u], zahtev[r].ucesce, zahtev[r].at)
        BY <1>1, <2>0 DEF store_draft, TypeOK
  <2>5. ucesce[u].status # "SUBMITTED" => ucesce'[u].status # "SUBMITTED"
        BY <2>0, <2>4 DEF begun, TypeOK, Ucesce
  <2>6. predaje[u] \in Nat /\ vraceno[u] \in Nat BY <2>0 DEF TypeOK
  <2>7. predaje'[u] = vraceno'[u] + (IF ucesce'[u].status = "SUBMITTED" THEN 1 ELSE 0)
        BY <2>0, <2>2, <2>3, <2>5, <2>6 DEF SubmissionsBalance
  <2> QED BY <2>1, <2>2, <2>7 DEF SubmissionsBalance
<1>2. ASSUME NEW r \in Request, add_submission(r) PROVE SubmissionsBalance'
  <2> DEFINE u == zahtev[r].korisnik
  <2>0. u \in User BY <1>2, WorkingTyped DEF add_submission
  <2>1. \A v \in User : v # u => ucesce'[v] = ucesce[v] /\ predaje'[v] = predaje[v]
        BY <1>2 DEF add_submission, TypeOK
  <2>2. vraceno' = vraceno /\ predaje'[u] = predaje[u] + 1
        BY <1>2, <2>0 DEF add_submission, TypeOK
  <2>3. ucesce'[u].status = "SUBMITTED" BY <1>2, <2>0 DEF add_submission, TypeOK, Ucesce
  <2>4. ucesce[u].status # "SUBMITTED" BY <1>2 DEF add_submission, LockedIsOpen
  <2>5. predaje[u] \in Nat /\ vraceno[u] \in Nat BY <2>0 DEF TypeOK
  <2>6. predaje'[u] = vraceno'[u] + (IF ucesce'[u].status = "SUBMITTED" THEN 1 ELSE 0)
        BY <2>0, <2>2, <2>3, <2>4, <2>5 DEF SubmissionsBalance
  <2> QED BY <2>1, <2>2, <2>6 DEF SubmissionsBalance
<1>3. ASSUME UNCHANGED <<predaje, ucesce, vraceno>> PROVE SubmissionsBalance'
      BY <1>3 DEF SubmissionsBalance
<1> QED BY <1>1, <1>2, <1>3 DEF Next, Save, Submit, save_draft, delete_draft, submit,
        store_draft_duplicate, get_ucesce_for_update, submission_refused, rollback,
        deadlock, change_status, Tick, vars

\* No step changes whether the survey is anonymous.
LEMMA AnonymityFixed == [Next]_vars => anonimna' = anonimna
BY DEF Next, Save, Submit, save_draft, delete_draft, store_draft, submit, add_submission,
   store_draft_duplicate, get_ucesce_for_update, submission_refused, rollback,
   deadlock, change_status, Tick, vars

LEMMA NextNamedOnce == TypeOK /\ LockedIsOpen /\ NamedOnce /\ [Next]_vars => NamedOnce'
<1> SUFFICES ASSUME TypeOK, LockedIsOpen, NamedOnce, [Next]_vars PROVE NamedOnce'
    OBVIOUS
<1>1. ASSUME NEW r \in Request, add_submission(r) PROVE NamedOnce'
  <2>1. zahtev[r].korisnik \in User BY <1>1, WorkingTyped DEF add_submission
  <2> QED BY <1>1, <2>1 DEF add_submission, refused, NamedOnce, TypeOK
<1>2. anonimna' = anonimna BY AnonymityFixed
<1>3. ASSUME predaje' = predaje PROVE NamedOnce'
      BY <1>2, <1>3 DEF NamedOnce
<1> QED BY <1>1, <1>3 DEF Next, Save, Submit, save_draft, delete_draft, store_draft, submit,
        store_draft_duplicate, get_ucesce_for_update, submission_refused, rollback,
        deadlock, change_status, Tick, vars

-----------------------------------------------------------------------------

\* The inductive invariant holds always: a submit that passed its checks owns the
\* participation row, so each submission meets an open participation.
THEOREM ParticipationInvariance == Spec => []IInv
<1>1. Init => IInv
  <2> SUFFICES ASSUME Init PROVE IInv OBVIOUS
  <2>1. TypeOK BY InitTyped
  <2>2. LockedIsOpen BY DEF Init, LockedIsOpen, Idle
  <2>3. SubmissionsBalance BY DEF Init, SubmissionsBalance, Fresh
  <2>4. NamedOnce BY DEF Init, NamedOnce
  <2> QED BY <2>1, <2>2, <2>3, <2>4 DEF IInv
<1>2. IInv /\ [Next]_vars => IInv'
      BY NextTyped, NextLocked, NextBalanced, NextNamedOnce DEF IInv
<1> QED BY <1>1, <1>2, PTL DEF Spec

\* Every variable of the participation keeps its type.
THEOREM ParticipationTyped == Spec => []TypeOK
<1>1. IInv => TypeOK BY DEF IInv
<1> QED BY <1>1, ParticipationInvariance, PTL

\* The recorded submissions and the participation account for each other, however
\* saves, submits and failures overlap.
THEOREM SubmissionsBalanced == Spec => []SubmissionsBalance
<1>1. IInv => SubmissionsBalance BY DEF IInv
<1> QED BY <1>1, ParticipationInvariance, PTL

\* A named survey is submitted at most once by an employee.
THEOREM NamedSubmittedOnce == Spec => []NamedOnce
<1>1. IInv => NamedOnce BY DEF IInv
<1> QED BY <1>1, ParticipationInvariance, PTL

-----------------------------------------------------------------------------
(* Drafts *)

\* The start of a participation is recorded with its begin and never taken back.
Started(row) == row.status # "NOT_STARTED" /\ row.datum_pocetka # NoTime

\* A participation that was not begun has no start, one in progress has.
RowsStarted == \A u \in User :
  /\ ucesce[u].status = "NOT_STARTED" => ucesce[u].datum_pocetka = NoTime
  /\ ucesce[u].status = "IN_PROGRESS" => Started(ucesce[u])

\* A save works on a copy that was not begun, or on a participation that was and
\* still is: what it does not write back has been written.
CopiesStarted == \A r \in Request : zahtev[r].pc \in {"save", "saving"} =>
  IF zahtev[r].ucesce.status = "NOT_STARTED" THEN zahtev[r].ucesce.datum_pocetka = NoTime
                                             ELSE Started(ucesce[zahtev[r].korisnik])

DraftInv == DraftsAreReachable /\ RowsStarted /\ CopiesStarted

\* A thread that reads or finishes leaves the drafts and participations alone.
LEMMA ThreadDraftInv ==
  ASSUME TypeOK, DraftInv, UNCHANGED <<ucesce, nacrti>>, NEW r \in Request,
         \A q \in Request \ {r} : zahtev'[q] = zahtev[q],
         \/ zahtev'[r].pc \notin {"save", "saving"}
         \/ /\ zahtev'[r].ucesce = zahtev[r].ucesce /\ zahtev'[r].korisnik = zahtev[r].korisnik
            /\ zahtev[r].pc = "save"
  PROVE  DraftInv'
BY DEF DraftInv, DraftsAreReachable, RowsStarted, CopiesStarted, Started

LEMMA SaveDraftInv ==
  ASSUME TypeOK, DraftInv, NEW r \in Request, NEW u \in User, save_draft(r, u)
  PROVE  DraftInv'
<1>1. /\ zahtev'[r].ucesce = ucesce[u] /\ zahtev'[r].korisnik = u
      /\ ucesce[u].status # "SUBMITTED" /\ UNCHANGED <<ucesce, nacrti>>
      /\ \A q \in Request \ {r} : zahtev'[q] = zahtev[q]
  BY DEF save_draft, TypeOK
<1>2. ucesce[u].status # "NOT_STARTED" => Started(ucesce[u])
  BY <1>1 DEF DraftInv, RowsStarted, TypeOK, Ucesce
<1>3. ucesce[u].status = "NOT_STARTED" => ucesce[u].datum_pocetka = NoTime
  BY DEF DraftInv, RowsStarted
<1>4. CopiesStarted'
  <2> SUFFICES ASSUME NEW q \in Request, zahtev'[q].pc \in {"save", "saving"}
               PROVE  IF zahtev'[q].ucesce.status = "NOT_STARTED"
                        THEN zahtev'[q].ucesce.datum_pocetka = NoTime
                        ELSE Started(ucesce[zahtev'[q].korisnik])
    BY <1>1 DEF CopiesStarted
  <2>1. CASE q = r
    BY <1>1, <1>2, <1>3, <2>1
  <2>2. CASE q # r
    BY <1>1, <2>2 DEF DraftInv, CopiesStarted
  <2> QED BY <2>1, <2>2
<1>5. DraftsAreReachable' /\ RowsStarted'
  BY <1>1 DEF DraftInv, DraftsAreReachable, RowsStarted
<1> QED BY <1>4, <1>5 DEF DraftInv

LEMMA StoreDraftInv ==
  ASSUME TypeOK, LockedIsOpen, DraftInv, NEW r \in Request, store_draft(r) PROVE DraftInv'
<1> DEFINE z == zahtev[r]
           u == z.korisnik
<1>1. z.pc = "saving" /\ u \in User /\ z.at \in Nat /\ z.ucesce \in Ucesce
  BY WorkingTyped DEF store_draft
<1>2. /\ ucesce'[u] = begun(ucesce[u], z.ucesce, z.at) /\ zahtev'[r] = Idle
      /\ \A v \in User \ {u} : ucesce'[v] = ucesce[v] /\ nacrti'[v] = nacrti[v]
      /\ \A q \in Request \ {r} : zahtev'[q] = zahtev[q]
  BY <1>1 DEF store_draft, finish, TypeOK
<1>3. Started(ucesce'[u])
  <2>1. CASE z.ucesce.status = "NOT_STARTED"
    <3>1. z.ucesce.datum_pocetka = NoTime
      BY <1>1, <2>1 DEF DraftInv, CopiesStarted
    <3>2. ucesce'[u] = [ucesce[u] EXCEPT !.status = "IN_PROGRESS", !.datum_pocetka = z.at]
      BY <1>2, <2>1, <3>1 DEF begun
    <3>3. ucesce[u] \in Ucesce
      BY <1>1 DEF TypeOK
    <3> HIDE DEF z, u
    <3>4. ucesce'[u].status = "IN_PROGRESS" /\ ucesce'[u].datum_pocetka = z.at
      BY <3>2, <3>3 DEF Ucesce
    <3> QED BY <1>1, <3>4 DEF Started, NoTime
  <2>2. CASE z.ucesce.status # "NOT_STARTED"
    BY <1>1, <1>2, <2>2 DEF DraftInv, CopiesStarted, begun
  <2> QED BY <2>1, <2>2
<1> HIDE DEF z, u
<1>4. DraftsAreReachable' /\ RowsStarted'
  BY <1>1, <1>2, <1>3 DEF DraftInv, DraftsAreReachable, RowsStarted, Started
<1>5. CopiesStarted'
  <2> SUFFICES ASSUME NEW q \in Request \ {r}, zahtev[q].pc \in {"save", "saving"},
                      zahtev[q].ucesce.status # "NOT_STARTED"
               PROVE  Started(ucesce'[zahtev[q].korisnik])
    BY <1>2 DEF DraftInv, CopiesStarted, Idle
  <2>1. Started(ucesce[zahtev[q].korisnik]) /\ zahtev[q].korisnik \in User
    BY WorkingTyped DEF DraftInv, CopiesStarted
  <2> QED BY <1>2, <1>3, <2>1
<1> QED BY <1>4, <1>5 DEF DraftInv

LEMMA SubmissionDraftInv ==
  ASSUME TypeOK, LockedIsOpen, DraftInv, NEW r \in Request, add_submission(r) PROVE DraftInv'
<1> DEFINE u == zahtev[r].korisnik
<1>1. u \in User
  BY WorkingTyped DEF add_submission
<1>2. /\ nacrti'[u] = {} /\ zahtev'[r] = Idle
      /\ \A v \in User \ {u} : ucesce'[v] = ucesce[v] /\ nacrti'[v] = nacrti[v]
      /\ \A q \in Request \ {r} : zahtev'[q] = zahtev[q]
  BY <1>1 DEF add_submission, finish, TypeOK
<1>3. ucesce'[u].status = "SUBMITTED" /\ ucesce'[u].datum_pocetka = ucesce[u].datum_pocetka
  BY <1>1 DEF add_submission, TypeOK, Ucesce
<1> HIDE DEF u
<1>4. DraftsAreReachable' /\ RowsStarted'
  BY <1>1, <1>2, <1>3 DEF DraftInv, DraftsAreReachable, RowsStarted, Started
<1>5. CopiesStarted'
  <2> SUFFICES ASSUME NEW q \in Request \ {r}, zahtev[q].pc \in {"save", "saving"},
                      zahtev[q].ucesce.status # "NOT_STARTED"
               PROVE  Started(ucesce'[zahtev[q].korisnik])
    BY <1>2 DEF DraftInv, CopiesStarted, Idle
  <2>1. Started(ucesce[zahtev[q].korisnik]) /\ zahtev[q].korisnik \in User
    BY WorkingTyped DEF DraftInv, CopiesStarted
  <2> QED BY <1>2, <1>3, <2>1 DEF Started
<1> QED BY <1>4, <1>5 DEF DraftInv

LEMMA NextDraftInv == TypeOK /\ LockedIsOpen /\ DraftInv /\ [Next]_vars => DraftInv'
<1> SUFFICES ASSUME TypeOK, LockedIsOpen, DraftInv, [Next]_vars PROVE DraftInv'
    OBVIOUS
<1>1. ASSUME UNCHANGED <<ucesce, nacrti, zahtev>> PROVE DraftInv'
  BY <1>1 DEF DraftInv, DraftsAreReachable, RowsStarted, CopiesStarted
<1>2. ASSUME NEW r \in Request, finish(r), UNCHANGED <<ucesce, nacrti>> PROVE DraftInv'
  <2>1. zahtev'[r].pc = "idle" /\ \A q \in Request \ {r} : zahtev'[q] = zahtev[q]
    BY <1>2 DEF finish, TypeOK, Idle
  <2> QED BY <1>2, <2>1, ThreadDraftInv
<1>3. ASSUME NEW r \in Request, delete_draft(r) PROVE DraftInv'
  <2>1. /\ zahtev[r].pc = "save" /\ UNCHANGED <<ucesce, nacrti>>
        /\ zahtev'[r].ucesce = zahtev[r].ucesce /\ zahtev'[r].korisnik = zahtev[r].korisnik
        /\ \A q \in Request \ {r} : zahtev'[q] = zahtev[q]
    BY <1>3 DEF delete_draft, TypeOK, Zahtev
  <2> QED BY <2>1, ThreadDraftInv
<1>4. ASSUME NEW r \in Request, NEW u \in User, submit(r, u) PROVE DraftInv'
  <2>1. /\ zahtev'[r].pc = "submit" /\ UNCHANGED <<ucesce, nacrti>>
        /\ \A q \in Request \ {r} : zahtev'[q] = zahtev[q]
    BY <1>4 DEF submit, TypeOK, Idle
  <2> QED BY <2>1, ThreadDraftInv
<1>5. ASSUME NEW r \in Request, get_ucesce_for_update(r) PROVE DraftInv'
  <2>1. UNCHANGED <<ucesce, nacrti>>
    BY <1>5 DEF get_ucesce_for_update
  <2>2. CASE finish(r)
    BY <1>2, <2>1, <2>2
  <2>3. CASE ~finish(r)
    <3>1. /\ zahtev'[r].pc = "locked" /\ \A q \in Request \ {r} : zahtev'[q] = zahtev[q]
      BY <1>5, <2>3 DEF get_ucesce_for_update, TypeOK, Zahtev
    <3> QED BY <2>1, <3>1, ThreadDraftInv
  <2> QED BY <2>2, <2>3
<1>6. ASSUME NEW r \in Request, \/ store_draft_duplicate(r) \/ submission_refused(r)
                                \/ rollback(r) \/ \E q \in Request : deadlock(r, q)
      PROVE  DraftInv'
  BY <1>2, <1>6 DEF store_draft_duplicate, submission_refused, rollback, deadlock
<1>7. CASE change_status \/ Tick \/ UNCHANGED vars
  BY <1>1, <1>7 DEF change_status, Tick, vars
<1> QED BY <1>3, <1>4, <1>5, <1>6, <1>7, SaveDraftInv, StoreDraftInv, SubmissionDraftInv
        DEF Next, Save, Submit

\* No stored draft is lost from sight: however the saves and submits of two phones
\* overlap, an employee with drafts has a participation that was begun.
THEOREM DraftsReachable == Spec => []DraftsAreReachable
<1>1. Init => DraftInv
  BY DEF Init, DraftInv, DraftsAreReachable, RowsStarted, CopiesStarted, Fresh, Idle
<1>2. IInv /\ DraftInv /\ [Next]_vars => DraftInv'
  BY NextDraftInv DEF IInv
<1>3. DraftInv => DraftsAreReachable
  BY DEF DraftInv
<1> QED BY <1>1, <1>2, <1>3, ParticipationInvariance, PTL DEF Spec

-----------------------------------------------------------------------------
(* Visibility.  What a condition sees of the visibility v of the others.   *)

shown(r, s, a, v, i) ==
  Answers!conditional(s[i]) =>
    LET c == s[i].uslov.pitanje IN
    /\ c < i /\ v[c]
    /\ Answers!is_answered(r, s, a, c)
    /\ Answers!condition_met(s[i].uslov, Answers!answer_tokens(s, a, c))

\* Conditions name questions of the structure.
closed(s) == \A i \in DOMAIN s : Answers!conditional(s[i]) => s[i].uslov.pitanje \in DOMAIN s

LEMMA LeastNat ==
  ASSUME NEW T \in SUBSET Nat, T # {}
  PROVE  \E x \in T : \A y \in T : ~(y < x)
<1>1. \E x \in T : \A y \in T : ~(<<y, x>> \in OpToRel(<, Nat))
  BY NatLessThanWellFounded, WFMin
<1> QED BY <1>1 DEF OpToRel

\* compute_visibility is defined for every structure, whatever the chains of its
\* conditions, and is what its equation says.
LEMMA VisibilityEquation ==
  ASSUME NEW r, NEW s, NEW a, NEW n \in Nat, DOMAIN s = 1 .. n, closed(s)
  PROVE  Answers!compute_visibility(r, s, a)
           = [i \in DOMAIN s |-> shown(r, s, a, Answers!compute_visibility(r, s, a), i)]
<1> DEFINE E(v) == [i \in DOMAIN s |-> shown(r, s, a, v, i)]
           Upto(m, v) == v \in [1 .. m -> BOOLEAN] /\ \A i \in 1 .. m : v[i] = shown(r, s, a, v, i)
           Stuck == {m \in Nat : m <= n /\ ~(\E v : Upto(m, v))}
<1>1. Answers!compute_visibility(r, s, a) = CHOOSE v : v = E(v)
  BY DEF Answers!compute_visibility, shown
<1> HIDE DEF E
<1>2. \A v, w : \A i \in DOMAIN s :
        (\A c \in DOMAIN s : c < i => v[c] = w[c]) => shown(r, s, a, v, i) = shown(r, s, a, w, i)
  BY DEF shown, closed
<1>3. \A i, v : shown(r, s, a, v, i) \in BOOLEAN
  BY DEF shown
<1>4. Stuck = {}
  <2> SUFFICES ASSUME Stuck # {} PROVE FALSE OBVIOUS
  <2>1. PICK m \in Stuck : \A k \in Stuck : ~(k < m)
    <3> HIDE DEF Stuck
    <3>1. Stuck \subseteq Nat BY DEF Stuck
    <3> QED BY <3>1, LeastNat
  <2>2. m # 0
    <3>1. Upto(0, [i \in 1 .. 0 |-> TRUE]) OBVIOUS
    <3> QED BY <2>1, <3>1
  <2>3. m - 1 \in Nat /\ m - 1 < m /\ m - 1 <= n /\ m \in Nat /\ m <= n BY <2>1, <2>2
  <2>4. PICK v : Upto(m - 1, v) BY <2>1, <2>3
  <2> DEFINE w == [i \in 1 .. m |-> IF i = m THEN shown(r, s, a, v, m) ELSE v[i]]
  <2>5. w \in [1 .. m -> BOOLEAN] BY <1>3, <2>3, <2>4
  <2>6. ASSUME NEW i \in 1 .. m PROVE w[i] = shown(r, s, a, w, i)
    <3>1. \A c \in 1 .. m : c < i => w[c] = v[c] BY <2>3, <2>6
    <3>2. shown(r, s, a, v, i) = shown(r, s, a, w, i)
      <4> HIDE DEF w
      <4>1. \A c \in DOMAIN s : c < i => v[c] = w[c] BY <2>3, <2>6, <3>1
      <4>2. i \in DOMAIN s BY <2>3, <2>6
      <4> QED BY <1>2, <4>1, <4>2
    <3>3. w[i] = shown(r, s, a, v, i)
      <4>1. CASE i = m BY <4>1
      <4>2. CASE i # m
        <5>1. i \in 1 .. m - 1 BY <2>3, <2>6, <4>2
        <5> QED BY <2>4, <4>2, <5>1
      <4> QED BY <4>1, <4>2
    <3> QED BY <3>2, <3>3
  <2>7. Upto(m, w) BY <2>5, <2>6
  <2> HIDE DEF w, Upto
  <2> QED BY <2>1, <2>7
<1>5. \E v : v = E(v)
  <2>1. n \in Nat /\ n <= n /\ n \notin Stuck BY <1>4
  <2>2. PICK v : Upto(n, v) BY <2>1
  <2>3. v = E(v) BY <2>2 DEF E
  <2> QED BY <2>3
<1>6. Answers!compute_visibility(r, s, a) = E(Answers!compute_visibility(r, s, a)) BY <1>1, <1>5
<1> QED BY <1>6 DEF E

\* It is the only solution of that equation: what is visible does not depend on the
\* order in which the code looks at the questions.
THEOREM VisibilityIsDetermined ==
  ASSUME NEW r, NEW s, NEW a, NEW n \in Nat, DOMAIN s = 1 .. n, closed(s), NEW v
  PROVE  v = [i \in DOMAIN s |-> shown(r, s, a, v, i)]
           <=> v = Answers!compute_visibility(r, s, a)
<1> DEFINE V == Answers!compute_visibility(r, s, a)
           Differ == {m \in 1 .. n : v[m] # V[m]}
<1>1. V = [i \in DOMAIN s |-> shown(r, s, a, V, i)] BY VisibilityEquation
<1> HIDE DEF V
<1>2. ASSUME v = [i \in DOMAIN s |-> shown(r, s, a, v, i)] PROVE v = V
  <2>1. Differ = {}
    <3> SUFFICES ASSUME Differ # {} PROVE FALSE OBVIOUS
    <3>1. PICK m \in Differ : \A k \in Differ : ~(k < m)
      <4> HIDE DEF Differ
      <4>1. Differ \subseteq Nat BY DEF Differ
      <4> QED BY <4>1, LeastNat
    <3>2. m \in DOMAIN s /\ \A c \in DOMAIN s : c < m => v[c] = V[c] BY <3>1
    <3>3. shown(r, s, a, v, m) = shown(r, s, a, V, m) BY <3>2 DEF shown, closed
    <3>4. v[m] = shown(r, s, a, v, m) BY <1>2, <3>2
    <3>5. V[m] = shown(r, s, a, V, m) BY <1>1, <3>2
    <3> QED BY <3>1, <3>3, <3>4, <3>5
  <2>2. \A i \in DOMAIN s : v[i] = V[i] BY <2>1
  <2>3. v = [i \in DOMAIN s |-> v[i]] BY <1>2
  <2>4. V = [i \in DOMAIN s |-> V[i]] BY <1>1
  <2> QED BY <2>2, <2>3, <2>4
<1> QED BY <1>1, <1>2 DEF V

-----------------------------------------------------------------------------
(* What is stored *)

\* A structure is a list.
LEMMA StructureIsList ==
  ASSUME Answers!TypeOK
  PROVE  \E n \in Nat : DOMAIN pitanja = 1 .. n
<1>1. CASE pitanja = <<>>
  <2>1. DOMAIN pitanja = 1 .. 0 BY <1>1
  <2> QED BY <2>1
<1>2. CASE pitanja \in Predlog BY <1>2, AnswersAssumption DEF Answers!ConstantsAssumption
<1> QED BY <1>1, <1>2 DEF Answers!TypeOK

\* Stored answers st are answers of a, ask for one another, and leave no required
\* question that they ask out if the request was complete.
explain(r, a, st) ==
  /\ \A i \in DOMAIN st : i \in DOMAIN a /\ st[i] = a[i].v /\ a[i].v # {}
  /\ \A i \in DOMAIN st : i \in DOMAIN pitanja /\ Answers!asked(i, st)
  /\ Answers!complete(r, pitanja, a) =>
       \A i \in DOMAIN pitanja : pitanja[i].obavezno /\ Answers!asked(i, st) => i \in DOMAIN st

LEMMA StoredAnswers ==
  ASSUME Answers!TypeOK, Answers!StructureRests, status = "ACTIVE",
         NEW r, NEW a, DOMAIN a \subseteq DOMAIN pitanja
  PROVE  explain(r, a, Answers!stored(r, pitanja, a))
<1> PICK n \in Nat : DOMAIN pitanja = 1 .. n BY StructureIsList
<1> PICK st : st = Answers!stored(r, pitanja, a) OBVIOUS
<1> DEFINE V == Answers!compute_visibility(r, pitanja, a)
<1>1. closed(pitanja) BY DEF closed, Answers!StructureRests
<1>2. V = [i \in DOMAIN pitanja |-> shown(r, pitanja, a, V, i)] BY <1>1, VisibilityEquation
<1>3. st = [i \in {j \in DOMAIN a : V[j] /\ Answers!is_answered(r, pitanja, a, j)} |-> a[i].v]
  BY DEF Answers!stored
<1>4. Answers!complete(r, pitanja, a) =
        \A i \in DOMAIN pitanja : pitanja[i].obavezno /\ V[i] => Answers!is_answered(r, pitanja, a, i)
  BY DEF Answers!complete
<1> HIDE DEF V
<1>5. \A i : i \in DOMAIN st <=> i \in DOMAIN a /\ V[i] /\ Answers!is_answered(r, pitanja, a, i) BY <1>3
<1>6. \A i \in DOMAIN st : st[i] = a[i].v BY <1>3
<1>7. \A i \in DOMAIN st : i \in DOMAIN a /\ a[i].v # {} BY <1>5 DEF Answers!is_answered
<1>8. ASSUME NEW i \in DOMAIN pitanja PROVE V[i] <=> Answers!asked(i, st)
  <2>1. CASE ~Answers!conditional(pitanja[i])
    BY <1>2, <2>1 DEF shown, Answers!asked
  <2>2. CASE Answers!conditional(pitanja[i])
    <3> DEFINE u == pitanja[i].uslov
               c == u.pitanje
    <3>1. /\ c \in DOMAIN pitanja /\ c < i /\ Answers!komponenta(pitanja[c].tip) # "TEXT"
          /\ u.operator \in {"EQUALS", "NOT_EQUALS", "IN"}
      BY <2>2 DEF Answers!StructureRests
    <3>2. V[i] <=> /\ V[c] /\ Answers!is_answered(r, pitanja, a, c)
                   /\ Answers!condition_met(u, Answers!answer_tokens(pitanja, a, c))
      BY <1>2, <2>2, <3>1 DEF shown
    <3>3. V[c] /\ Answers!is_answered(r, pitanja, a, c) <=> c \in DOMAIN st
      BY <1>5 DEF Answers!is_answered
    <3>4. Answers!answer_tokens(pitanja, a, c) = a[c].v BY <3>1 DEF Answers!answer_tokens
    <3>5. c \in DOMAIN st => st[c] = a[c].v BY <1>6
    <3>6. Answers!asked(i, st) <=>
            /\ c \in DOMAIN st
            /\ CASE u.operator = "EQUALS"     -> u.vrednosti \subseteq st[c]
                 [] u.operator = "NOT_EQUALS" -> st[c] \cap u.vrednosti = {}
                 [] u.operator = "IN"         -> st[c] \cap u.vrednosti # {}
      BY <2>2 DEF Answers!asked
    <3> HIDE DEF c
    <3>7. ASSUME c \in DOMAIN st
          PROVE  Answers!condition_met(u, a[c].v) <=>
                   CASE u.operator = "EQUALS"     -> u.vrednosti \subseteq st[c]
                     [] u.operator = "NOT_EQUALS" -> st[c] \cap u.vrednosti = {}
                     [] u.operator = "IN"         -> st[c] \cap u.vrednosti # {}
      BY <3>1, <3>5, <3>7 DEF Answers!condition_met
    <3> QED BY <3>2, <3>3, <3>4, <3>6, <3>7
  <2> QED BY <2>1, <2>2
<1>9. \A i \in DOMAIN st : i \in DOMAIN pitanja /\ Answers!asked(i, st) BY <1>5, <1>8
<1>10. ASSUME Answers!complete(r, pitanja, a), NEW i \in DOMAIN pitanja,
              pitanja[i].obavezno /\ Answers!asked(i, st)
       PROVE  i \in DOMAIN st
  <2>1. V[i] /\ Answers!is_answered(r, pitanja, a, i) BY <1>4, <1>8, <1>10
  <2> QED BY <1>5, <2>1 DEF Answers!is_answered
<1> QED BY <1>6, <1>7, <1>9, <1>10 DEF explain

\* The sizes of sets that the instance speaks of are those of FiniteSets.
LEMMA SameSizes ==
  ASSUME NEW S
  PROVE  /\ Answers!IsFiniteSet(S) <=> IsFiniteSet(S)
         /\ Answers!Cardinality(S) = Cardinality(S)
<1>1. Answers!IsFiniteSet(S) <=> IsFiniteSet(S) BY DEF Answers!IsFiniteSet, IsFiniteSet
<1>2. Answers!Cardinality(S) = Cardinality(S) BY DEF Answers!Cardinality, Cardinality
<1> QED BY <1>1, <1>2

\* What passed the check of an answer are values that its question allows.
LEMMA CheckedIsAllowed ==
  ASSUME NEW r, NEW s, NEW a \in Poslato, Answers!validate_answers(r, s, a), NEW i \in DOMAIN a
  PROVE  i \in DOMAIN s /\ Answers!allowed(s[i], a[i].v)
<1> PICK q : q = s[i] OBVIOUS
<1> PICK od : od = a[i] OBVIOUS
<1> PICK w : w = od.v OBVIOUS
<1>1. i \in DOMAIN s /\ Answers!validate_one(r, q, od) BY DEF Answers!validate_answers
<1>2. /\ q.tip \in DOMAIN Tip
      /\ w # {} => od.polje = Answers!polje(q.tip)
      /\ Answers!ima_opcije(q.tip) => w \subseteq q.opcije
      /\ Answers!jedna_opcija(q.tip) => Cardinality(w) <= 1
      /\ Answers!komponenta(q.tip) = "SCALE" => w \subseteq Tip[q.tip].opseg
  <2>1. Answers!known(r, q.tip) BY <1>1 DEF Answers!validate_one
  <2>2. q.tip \in DOMAIN Tip BY <2>1 DEF Answers!known, Answers!Sifra
  <2> QED BY <1>1, <2>2, SameSizes DEF Answers!validate_one
<1>3. Answers!komponenta(q.tip) \in Answers!KOMPONENTE
  BY <1>2, AnswersAssumption DEF Answers!ConstantsAssumption, Answers!komponenta
<1>4. IsFiniteSet(w) /\ (od.polje # "opcija_ids" => Cardinality(w) <= 1)
  <2>1. \A x \in Poslato : \A j \in DOMAIN x :
          /\ Answers!IsFiniteSet(x[j].v)
          /\ x[j].polje # "opcija_ids" => Answers!Cardinality(x[j].v) <= 1
    BY AnswersAssumption DEF Answers!ConstantsAssumption
  <2>2. IsFiniteSet(a[i].v) /\ (a[i].polje # "opcija_ids" => Cardinality(a[i].v) <= 1)
    BY <2>1, SameSizes
  <2> QED BY <2>2
<1>5. ASSUME Answers!komponenta(q.tip) # "MULTI_CHOICE", w # {} PROVE Cardinality(w) = 1
  <2>1. Cardinality(w) <= 1
    <3>1. CASE Answers!jedna_opcija(q.tip) BY <1>2, <3>1
    <3>2. CASE ~Answers!jedna_opcija(q.tip)
      <4>1. Answers!komponenta(q.tip) \in {"TEXT", "BOOLEAN", "SCALE"}
        BY <1>3, <1>5, <3>2 DEF Answers!KOMPONENTE, Answers!jedna_opcija
      <4>2. Answers!polje(q.tip) \in {"tekst", "logicka", "broj"}
        BY <4>1 DEF Answers!polje, Answers!ima_opcije
      <4>3. od.polje # "opcija_ids" BY <1>2, <1>5, <4>2
      <4> QED BY <1>4, <4>3
    <3> QED BY <3>1, <3>2
  <2>2. Cardinality(w) \in Nat /\ Cardinality(w) # 0 BY <1>4, <1>5, FS_CardinalityType, FS_EmptySet
  <2> QED BY <2>1, <2>2
<1>6. Answers!allowed(q, w) BY <1>2, <1>5, SameSizes DEF Answers!allowed
<1> QED BY <1>1, <1>6

-----------------------------------------------------------------------------
(* Copies of the types *)

CopiesFit == /\ vreme \in Nat /\ promenjeno \in 0 .. vreme /\ kvarovi \in Nat
             /\ tabela \in Answers!Redovi /\ kes \in [Proces -> Answers!Kopija]
             /\ Answers!CopiesAreDated

\* A copy that is not renewed is no older than the last change, when the change is a
\* period old.
LEMMA CopiesTakenOver == CopiesFit => Answers!TypesAreTakenOver
<1> SUFFICES ASSUME CopiesFit, NEW p \in Proces,
                    vreme - promenjeno >= TTL,
                    Answers!db_provider(p, TRUE).svez \/ kvarovi = 0
             PROVE  Answers!db_provider(p, TRUE).tipovi = tabela
  BY DEF Answers!TypesAreTakenOver
<1>1. /\ kes[p].at \in Nat \cup {-1} /\ kes[p].at <= vreme /\ vreme \in Nat /\ promenjeno \in Nat
      /\ TTL \in Nat
      /\ kes[p].svez /\ kes[p].at > promenjeno => kes[p].tipovi = tabela
      /\ kvarovi = 0 /\ kes[p].at # -1 => kes[p].svez
  BY AnswersAssumption DEF CopiesFit, Answers!CopiesAreDated, Answers!Kopija, Answers!ConstantsAssumption
<1>2. CASE kes[p].at # -1 /\ vreme - kes[p].at < TTL
  <2>1. Answers!db_provider(p, TRUE) = kes[p] BY <1>2 DEF Answers!db_provider
  <2>2. kes[p].at > promenjeno BY <1>1, <1>2
  <2>3. kes[p].svez BY <1>1, <1>2, <2>1
  <2> QED BY <1>1, <2>1, <2>2, <2>3
<1>3. CASE ~(kes[p].at # -1 /\ vreme - kes[p].at < TTL)
  <2>1. Answers!db_provider(p, TRUE) = [tipovi |-> tabela, at |-> vreme, svez |-> TRUE]
    BY <1>3 DEF Answers!db_provider
  <2> PICK y : y = [tipovi |-> tabela, at |-> vreme, svez |-> TRUE] OBVIOUS
  <2>2. y.tipovi = tabela OBVIOUS
  <2> QED BY <2>1, <2>2
<1> QED BY <1>2, <1>3

\* A call of the registry keeps the copies dated.
LEMMA CopiesKept ==
  ASSUME CopiesFit, NEW p \in Proces, Answers!get_question_type(p), UNCHANGED <<vreme, promenjeno, tabela>>
  PROVE  CopiesFit'
<1>1. PICK ok \in BOOLEAN : /\ kes' = [kes EXCEPT ![p] = Answers!db_provider(p, ok)]
                            /\ ok \/ (kes'[p] # kes[p] /\ kvarovi < MaxKvar)
                            /\ kvarovi' = IF ok THEN kvarovi ELSE kvarovi + 1
  BY DEF Answers!get_question_type
<1> PICK k : k = kes[p] OBVIOUS
<1> PICK y : y = Answers!db_provider(p, ok) OBVIOUS
<1>2. /\ k \in Answers!Kopija /\ k.at <= vreme
      /\ k.svez /\ k.at > promenjeno => k.tipovi = tabela
      /\ kvarovi = 0 /\ k.at # -1 => k.svez
  BY DEF CopiesFit, Answers!CopiesAreDated
<1>3. y = k \/ y = [tipovi |-> IF ok THEN tabela ELSE k.tipovi, at |-> vreme, svez |-> ok]
  BY DEF Answers!db_provider
<1>4. /\ y \in Answers!Kopija /\ y.at <= vreme
      /\ y.svez /\ y.at > promenjeno => y.tipovi = tabela
      /\ y = k \/ (y.svez <=> ok)
  <2>1. CASE y = k BY <1>2, <2>1
  <2>2. CASE y = [tipovi |-> IF ok THEN tabela ELSE k.tipovi, at |-> vreme, svez |-> ok]
    <3>1. y \in Answers!Kopija BY <1>2, <2>2 DEF CopiesFit, Answers!Kopija
    <3>2. y.at = vreme /\ (y.svez <=> ok) /\ (ok => y.tipovi = tabela) BY <2>2
    <3> QED BY <3>1, <3>2 DEF CopiesFit
  <2> QED BY <1>3, <2>1, <2>2
<1>5. kes' \in [Proces -> Answers!Kopija] /\ \A q \in Proces : kes'[q] = IF q = p THEN y ELSE kes[q]
  BY <1>1, <1>4 DEF CopiesFit
<1>6. kvarovi \in Nat /\ kvarovi' \in Nat /\ (kvarovi' = 0 => kvarovi = 0 /\ ok)
  BY <1>1 DEF CopiesFit
<1>7. Answers!CopiesAreDated'
  <2> SUFFICES ASSUME NEW q \in Proces
               PROVE  /\ kes'[q].at <= vreme'
                      /\ kes'[q].svez /\ kes'[q].at > promenjeno' => kes'[q].tipovi = tabela'
                      /\ kvarovi' = 0 /\ kes'[q].at # -1 => kes'[q].svez
    BY DEF Answers!CopiesAreDated
  <2>1. CASE q = p
    <3>1. kes'[q] = y BY <1>5, <2>1
    <3>2. kvarovi' = 0 /\ y.at # -1 => y.svez BY <1>2, <1>4, <1>6
    <3> QED BY <1>4, <3>1, <3>2
  <2>2. CASE q # p
    <3>1. kes'[q] = kes[q] BY <1>5, <2>2
    <3> QED BY <1>6, <3>1 DEF CopiesFit, Answers!CopiesAreDated
  <2> QED BY <2>1, <2>2
<1> QED BY <1>5, <1>6, <1>7 DEF CopiesFit, Answers!Redovi, Answers!Kopija, Answers!Sifra

-----------------------------------------------------------------------------
(* Structure, request and stored answers, step by step *)

Shapes == /\ promene \in Nat /\ status \in {"DRAFT", "ACTIVE"} /\ (pitanja = <<>> \/ pitanja \in Predlog)
          /\ moj_status \in {"NOT_STARTED", "IN_PROGRESS", "SUBMITTED"}
          /\ unos # Answers!Idle =>
               /\ unos.pc \in Proces /\ unos.odgovori \in Poslato
               /\ DOMAIN unos.odgovori \subseteq DOMAIN pitanja

AnswersFit == /\ Answers!AnswersAreAsked /\ Answers!SubmissionIsComplete /\ Answers!AnswersHaveValues

Contents == Shapes /\ Answers!StructureRests /\ Answers!RequestIsChecked /\ AnswersFit

LEMMA InvariantParts == AnswersInv <=> CopiesFit /\ Contents
<1>1. Answers!TypeOK <=>
        /\ vreme \in Nat /\ promenjeno \in 0 .. vreme /\ kvarovi \in Nat
        /\ tabela \in Answers!Redovi /\ kes \in [Proces -> Answers!Kopija]
        /\ Shapes
  BY DEF Answers!TypeOK, Shapes
<1> QED BY <1>1, CopiesTakenOver DEF AnswersInv, Answers!AnswersInv, CopiesFit, Contents, AnswersFit

\* A request ends, or stays what it is.
LEMMA RequestEnds ==
  ASSUME Contents, unos' \in {unos, Answers!Idle}, promene' \in Nat,
         UNCHANGED <<status, pitanja, moj_status, odgovori>>
  PROVE  Contents'
<1>1. Shapes' BY DEF Contents, Shapes
<1>2. Answers!StructureRests' BY DEF Contents, Answers!StructureRests, Answers!conditional
<1>3. Answers!RequestIsChecked' BY DEF Contents, Answers!RequestIsChecked, Answers!allowed
<1>4. AnswersFit'
  BY DEF Contents, AnswersFit, Answers!AnswersAreAsked, Answers!SubmissionIsComplete,
         Answers!AnswersHaveValues, Answers!asked
<1> QED BY <1>1, <1>2, <1>3, <1>4 DEF Contents

\* An administrator writes the structure of a draft.
LEMMA StructureWritten ==
  ASSUME Contents, status = "DRAFT", NEW s \in Predlog, pitanja' = s,
         NEW r, Answers!validate_admin_survey_payload(r, s),
         UNCHANGED <<promene, status, unos, moj_status, odgovori>>
  PROVE  Contents'
<1>1. unos = Answers!Idle /\ moj_status = "NOT_STARTED" /\ odgovori = <<>>
  BY DEF Contents, Answers!StructureRests
<1>2. Shapes' BY <1>1 DEF Contents, Shapes
<1>3. Answers!StructureRests'
  <2>1. \A i \in DOMAIN s :
          /\ s[i].tip \in Answers!Sifra
          /\ Answers!conditional(s[i]) => s[i].uslov.operator \in {"EQUALS", "NOT_EQUALS", "IN"}
    BY DEF Answers!validate_admin_survey_payload, Answers!known
  <2> QED BY <1>1, <2>1 DEF Answers!StructureRests
<1>4. Answers!RequestIsChecked' BY <1>1 DEF Answers!RequestIsChecked
<1>5. AnswersFit'
  BY <1>1 DEF AnswersFit, Answers!AnswersAreAsked, Answers!SubmissionIsComplete, Answers!AnswersHaveValues
<1> QED BY <1>2, <1>3, <1>4, <1>5 DEF Contents

\* The survey is published with a structure that passed the check.
LEMMA StructurePublished ==
  ASSUME Contents, status = "DRAFT", status' = "ACTIVE",
         NEW r, Answers!validate_structure(r, pitanja),
         UNCHANGED <<promene, pitanja, unos, moj_status, odgovori>>
  PROVE  Contents'
<1>1. unos = Answers!Idle /\ moj_status = "NOT_STARTED" /\ odgovori = <<>>
  BY DEF Contents, Answers!StructureRests
<1>2. Shapes' BY <1>1 DEF Contents, Shapes
<1>3. Answers!StructureRests'
  <2>1. \A i \in DOMAIN pitanja : Answers!conditional(pitanja[i]) =>
          /\ pitanja[i].uslov.pitanje \in DOMAIN pitanja /\ pitanja[i].uslov.pitanje < i
          /\ Answers!komponenta(pitanja[pitanja[i].uslov.pitanje].tip) # "TEXT"
    BY DEF Answers!validate_structure
  <2> QED BY <2>1 DEF Contents, Answers!StructureRests
<1>4. Answers!RequestIsChecked' BY <1>1 DEF Answers!RequestIsChecked
<1>5. AnswersFit'
  BY <1>1 DEF AnswersFit, Answers!AnswersAreAsked, Answers!SubmissionIsComplete, Answers!AnswersHaveValues
<1> QED BY <1>2, <1>3, <1>4, <1>5 DEF Contents

\* The answers of a request have passed the check.
LEMMA AnswersChecked ==
  ASSUME Contents, status = "ACTIVE", NEW p \in Proces, NEW b \in BOOLEAN, NEW a \in Poslato,
         NEW r, Answers!validate_answers(r, pitanja, a),
         unos' = [pc |-> p, submit |-> b, odgovori |-> a],
         UNCHANGED <<promene, status, pitanja, moj_status, odgovori>>
  PROVE  Contents'
<1>1. unos'.pc = p /\ unos'.odgovori = a OBVIOUS
<1>2. DOMAIN a \subseteq DOMAIN pitanja BY DEF Answers!validate_answers
<1>3. Shapes' BY <1>1, <1>2 DEF Contents, Shapes
<1>4. Answers!StructureRests' BY DEF Contents, Answers!StructureRests, Answers!conditional
<1>5. Answers!RequestIsChecked'
  <2>1. \A i \in DOMAIN a : Answers!allowed(pitanja[i], a[i].v) BY CheckedIsAllowed
  <2> QED BY <1>1, <2>1 DEF Answers!RequestIsChecked, Answers!allowed
<1>6. AnswersFit'
  BY DEF Contents, AnswersFit, Answers!AnswersAreAsked, Answers!SubmissionIsComplete,
         Answers!AnswersHaveValues, Answers!asked
<1> QED BY <1>3, <1>4, <1>5, <1>6 DEF Contents

\* What is stored of the answers of a checked request.
LEMMA AnswersStored ==
  ASSUME Contents, Answers!TypeOK, unos # Answers!Idle, NEW r,
         odgovori' = Answers!stored(r, pitanja, unos.odgovori),
         moj_status' \in {"IN_PROGRESS", "SUBMITTED"},
         moj_status' = "SUBMITTED" => Answers!complete(r, pitanja, unos.odgovori),
         unos' = Answers!Idle, UNCHANGED <<promene, status, pitanja>>
  PROVE  Contents'
<1> PICK a \in Poslato : a = unos.odgovori BY DEF Contents, Shapes
<1>1. /\ status = "ACTIVE" /\ DOMAIN a \subseteq DOMAIN pitanja
      /\ \A i \in DOMAIN a : Answers!allowed(pitanja[i], a[i].v)
  BY DEF Contents, Shapes, Answers!StructureRests, Answers!RequestIsChecked
<1> PICK st : st = Answers!stored(r, pitanja, a) OBVIOUS
<1>2. /\ \A i \in DOMAIN st : i \in DOMAIN a /\ st[i] = a[i].v /\ a[i].v # {}
      /\ \A i \in DOMAIN st : i \in DOMAIN pitanja /\ Answers!asked(i, st)
      /\ Answers!complete(r, pitanja, a) =>
           \A i \in DOMAIN pitanja : pitanja[i].obavezno /\ Answers!asked(i, st) => i \in DOMAIN st
  <2>1. Answers!StructureRests BY DEF Contents
  <2>2. explain(r, a, st) BY <1>1, <2>1, StoredAnswers
  <2> QED BY <2>2 DEF explain
<1>3. odgovori' = st /\ pitanja' = pitanja OBVIOUS
<1>4. \A i \in DOMAIN pitanja : Answers!asked(i, odgovori)' <=> Answers!asked(i, st)
  BY <1>3 DEF Answers!asked
<1>5. Shapes' BY DEF Contents, Shapes
<1>6. Answers!StructureRests'
  BY <1>1 DEF Contents, Answers!StructureRests, Answers!conditional
<1>7. Answers!RequestIsChecked' BY DEF Answers!RequestIsChecked
<1>8. Answers!AnswersAreAsked'
  <2> SUFFICES ASSUME NEW i \in DOMAIN odgovori' PROVE i \in DOMAIN pitanja' /\ Answers!asked(i, odgovori)'
    BY DEF Answers!AnswersAreAsked
  <2> QED BY <1>2, <1>3, <1>4
<1>9. Answers!SubmissionIsComplete'
  <2> SUFFICES ASSUME moj_status' = "SUBMITTED", NEW i \in DOMAIN pitanja',
                      pitanja'[i].obavezno, Answers!asked(i, odgovori)'
               PROVE  i \in DOMAIN odgovori'
    BY DEF Answers!SubmissionIsComplete
  <2> QED BY <1>2, <1>3, <1>4
<1>10. Answers!AnswersHaveValues'
  <2>1. \A i \in DOMAIN st : st[i] # {} /\ Answers!allowed(pitanja[i], st[i]) BY <1>1, <1>2
  <2> QED BY <1>3, <2>1 DEF Answers!AnswersHaveValues, Answers!allowed
<1> QED BY <1>5, <1>6, <1>7, <1>8, <1>9, <1>10 DEF Contents, AnswersFit

-----------------------------------------------------------------------------
(* The invariant *)

LEMMA AnswersInit == Answers!Init => AnswersInv
<1> SUFFICES ASSUME Answers!Init PROVE CopiesFit /\ Contents BY InvariantParts
<1>1. /\ vreme = 0 /\ promenjeno = 0 /\ promene = 0 /\ kvarovi = 0
      /\ tabela = Answers!builtin_types /\ kes = [p \in Proces |-> Answers!NoCache]
      /\ status = "DRAFT" /\ pitanja = <<>> /\ unos = Answers!Idle
      /\ moj_status = "NOT_STARTED" /\ odgovori = <<>>
  BY DEF Answers!Init
<1>2. Answers!builtin_types \in Answers!Redovi BY DEF Answers!builtin_types, Answers!Redovi
<1>3. Answers!NoCache \in Answers!Kopija /\ Answers!NoCache.at = -1 /\ Answers!NoCache.svez = FALSE
  BY <1>2 DEF Answers!NoCache, Answers!Kopija
<1>4. CopiesFit BY <1>1, <1>2, <1>3 DEF CopiesFit, Answers!CopiesAreDated
<1>5. Contents
  BY <1>1 DEF Contents, Shapes, Answers!StructureRests, Answers!RequestIsChecked, AnswersFit,
              Answers!AnswersAreAsked, Answers!SubmissionIsComplete, Answers!AnswersHaveValues
<1> QED BY <1>4, <1>5

\* Copies and contents are disturbed by different parts of a step.
LEMMA AnswersStep == AnswersInv /\ [Answers!Next]_Answers!vars => AnswersInv'
<1> SUFFICES ASSUME CopiesFit, Contents, [Answers!Next]_Answers!vars PROVE CopiesFit' /\ Contents'
  <2>1. AnswersInv' <=> CopiesFit' /\ Contents' BY InvariantParts, PTL
  <2> QED BY <2>1, InvariantParts
<1>0. Answers!TypeOK /\ promene \in Nat /\ kvarovi \in Nat /\ vreme \in Nat
  BY InvariantParts DEF AnswersInv, Answers!AnswersInv, CopiesFit, Contents, Shapes
<1>1. ASSUME NEW p \in Proces, NEW s \in Predlog, Answers!update_survey(p, s) PROVE CopiesFit' /\ Contents'
  <2>1. /\ status = "DRAFT" /\ Answers!get_question_type(p)
        /\ pitanja' = IF Answers!validate_admin_survey_payload(kes'[p].tipovi, s) THEN s ELSE pitanja
        /\ UNCHANGED <<vreme, tabela, promene, promenjeno, status, unos, moj_status, odgovori>>
    BY <1>1 DEF Answers!update_survey
  <2> PICK r : r = kes'[p].tipovi OBVIOUS
  <2>2. CopiesFit' BY <2>1, CopiesKept
  <2>3. CASE Answers!validate_admin_survey_payload(r, s) BY <2>1, <2>2, <2>3, StructureWritten
  <2>4. CASE ~Answers!validate_admin_survey_payload(r, s) BY <1>0, <2>1, <2>2, <2>4, RequestEnds
  <2> QED BY <2>3, <2>4
<1>2. ASSUME NEW p \in Proces, Answers!change_status(p) PROVE CopiesFit' /\ Contents'
  <2>1. /\ status = "DRAFT" /\ Answers!get_question_type(p)
        /\ status' = IF Answers!validate_structure(kes'[p].tipovi, pitanja) THEN "ACTIVE" ELSE status
        /\ UNCHANGED <<vreme, tabela, promene, promenjeno, pitanja, unos, moj_status, odgovori>>
    BY <1>2 DEF Answers!change_status
  <2> PICK r : r = kes'[p].tipovi OBVIOUS
  <2>2. CopiesFit' BY <2>1, CopiesKept
  <2>3. CASE Answers!validate_structure(r, pitanja) BY <2>1, <2>2, <2>3, StructurePublished
  <2>4. CASE ~Answers!validate_structure(r, pitanja) BY <1>0, <2>1, <2>2, <2>4, RequestEnds
  <2> QED BY <2>3, <2>4
<1>3. ASSUME NEW p \in Proces, NEW b \in BOOLEAN, NEW a \in Poslato, Answers!check_answers(p, b, a)
      PROVE  CopiesFit' /\ Contents'
  <2>1. /\ status = "ACTIVE" /\ unos = Answers!Idle /\ Answers!get_question_type(p)
        /\ unos' = IF Answers!validate_answers(kes'[p].tipovi, pitanja, a)
                     THEN [pc |-> p, submit |-> b, odgovori |-> a] ELSE Answers!Idle
        /\ UNCHANGED <<vreme, tabela, promene, promenjeno, status, pitanja, moj_status, odgovori>>
    BY <1>3 DEF Answers!check_answers
  <2> PICK r : r = kes'[p].tipovi OBVIOUS
  <2>2. CopiesFit' BY <2>1, CopiesKept
  <2>3. CASE Answers!validate_answers(r, pitanja, a) BY <2>1, <2>2, <2>3, AnswersChecked
  <2>4. CASE ~Answers!validate_answers(r, pitanja, a) BY <1>0, <2>1, <2>2, <2>4, RequestEnds
  <2> QED BY <2>3, <2>4
<1>4. ASSUME Answers!save_draft PROVE CopiesFit' /\ Contents'
  <2> PICK p : p = unos.pc OBVIOUS
  <2>1. /\ unos # Answers!Idle /\ Answers!get_question_type(p)
        /\ odgovori' = Answers!stored(kes'[p].tipovi, pitanja, unos.odgovori)
        /\ moj_status' = "IN_PROGRESS" /\ unos' = Answers!Idle
        /\ UNCHANGED <<vreme, tabela, promene, promenjeno, status, pitanja>>
    BY <1>4 DEF Answers!save_draft
  <2> PICK r : r = kes'[p].tipovi OBVIOUS
  <2>2. p \in Proces BY <2>1 DEF Contents, Shapes
  <2>3. CopiesFit' BY <2>1, <2>2, CopiesKept
  <2>4. Contents' BY <1>0, <2>1, AnswersStored
  <2> QED BY <2>3, <2>4
<1>5. ASSUME Answers!submit PROVE CopiesFit' /\ Contents'
  <2> PICK p : p = unos.pc OBVIOUS
  <2> PICK r : r = kes'[p].tipovi OBVIOUS
  <2>1. /\ unos # Answers!Idle /\ Answers!get_question_type(p) /\ unos' = Answers!Idle
        /\ UNCHANGED <<vreme, tabela, promene, promenjeno, status, pitanja>>
        /\ IF Answers!complete(r, pitanja, unos.odgovori)
             THEN odgovori' = Answers!stored(r, pitanja, unos.odgovori) /\ moj_status' = "SUBMITTED"
             ELSE UNCHANGED <<odgovori, moj_status>>
    BY <1>5 DEF Answers!submit
  <2>2. p \in Proces BY <2>1 DEF Contents, Shapes
  <2>3. CopiesFit' BY <2>1, <2>2, CopiesKept
  <2>4. CASE Answers!complete(r, pitanja, unos.odgovori) BY <1>0, <2>1, <2>3, <2>4, AnswersStored
  <2>5. CASE ~Answers!complete(r, pitanja, unos.odgovori) BY <1>0, <2>1, <2>3, <2>5, RequestEnds
  <2> QED BY <2>4, <2>5
<1>6. ASSUME NEW p \in Proces, Answers!restart(p) PROVE CopiesFit' /\ Contents'
  <2>1. /\ kvarovi' = kvarovi + 1 /\ kes' = [kes EXCEPT ![p] = Answers!NoCache]
        /\ unos' \in {unos, Answers!Idle}
        /\ UNCHANGED <<vreme, tabela, promene, promenjeno, status, pitanja, moj_status, odgovori>>
    BY <1>6 DEF Answers!restart
  <2>2. Contents' BY <1>0, <2>1, RequestEnds
  <2>3. Answers!NoCache \in Answers!Kopija /\ Answers!NoCache.at = -1 /\ Answers!NoCache.svez = FALSE
    BY DEF Answers!NoCache, Answers!Kopija, Answers!builtin_types, Answers!Redovi
  <2>4. \A q \in Proces : kes'[q] = IF q = p THEN Answers!NoCache ELSE kes[q] BY <2>1 DEF CopiesFit
  <2>5. Answers!CopiesAreDated'
    <3> SUFFICES ASSUME NEW q \in Proces
                 PROVE  /\ kes'[q].at <= vreme'
                        /\ kes'[q].svez /\ kes'[q].at > promenjeno' => kes'[q].tipovi = tabela'
                        /\ kvarovi' = 0 /\ kes'[q].at # -1 => kes'[q].svez
      BY DEF Answers!CopiesAreDated
    <3>1. CASE q = p
      <4>1. kes'[q] = Answers!NoCache BY <2>4, <3>1
      <4> QED BY <1>0, <2>1, <2>3, <4>1
    <3>2. CASE q # p
      <4>1. kes'[q] = kes[q] BY <2>4, <3>2
      <4>2. kvarovi' # 0 BY <1>0, <2>1
      <4> QED BY <2>1, <4>1, <4>2 DEF CopiesFit, Answers!CopiesAreDated
    <3> QED BY <3>1, <3>2
  <2>6. kes' \in [Proces -> Answers!Kopija] BY <2>1, <2>3 DEF CopiesFit
  <2>7. CopiesFit' BY <1>0, <2>1, <2>5, <2>6 DEF CopiesFit, Answers!Redovi, Answers!Kopija, Answers!Sifra
  <2> QED BY <2>2, <2>7
<1>7. ASSUME NEW x \in Answers!Sifra, Answers!change_types(x) PROVE CopiesFit' /\ Contents'
  <2>1. /\ promene' = promene + 1 /\ promenjeno' = vreme
        /\ tabela' = [tabela EXCEPT ![x] = "D"] \/ tabela' = [tabela EXCEPT ![x] = "N"]
        /\ UNCHANGED <<vreme, kes, status, pitanja, unos, moj_status, odgovori, kvarovi>>
    BY <1>7 DEF Answers!change_types
  <2>2. Contents' BY <1>0, <2>1, RequestEnds
  <2>3. tabela' \in Answers!Redovi BY <2>1 DEF CopiesFit, Answers!Redovi
  <2>4. Answers!CopiesAreDated'
    <3> SUFFICES ASSUME NEW q \in Proces
                 PROVE  /\ kes'[q].at <= vreme'
                        /\ kes'[q].svez /\ kes'[q].at > promenjeno' => kes'[q].tipovi = tabela'
                        /\ kvarovi' = 0 /\ kes'[q].at # -1 => kes'[q].svez
      BY DEF Answers!CopiesAreDated
    <3>1. /\ kes[q].at <= vreme /\ kes[q].at \in Int
          /\ kvarovi = 0 /\ kes[q].at # -1 => kes[q].svez
      BY DEF CopiesFit, Answers!CopiesAreDated, Answers!Kopija
    <3>2. ~(kes[q].at > vreme) BY <1>0, <3>1
    <3> QED BY <2>1, <3>1, <3>2
  <2>5. promenjeno' \in 0 .. vreme' BY <1>0, <2>1
  <2>6. CopiesFit' BY <2>1, <2>3, <2>4, <2>5 DEF CopiesFit, Answers!Redovi, Answers!Kopija, Answers!Sifra
  <2> QED BY <2>2, <2>6
<1>8. ASSUME Answers!Tick PROVE CopiesFit' /\ Contents'
  <2>1. /\ vreme' = vreme + 1
        /\ UNCHANGED <<tabela, promene, promenjeno, kes, status, pitanja, unos, moj_status, odgovori, kvarovi>>
    BY <1>8 DEF Answers!Tick
  <2>2. Contents' BY <1>0, <2>1, RequestEnds
  <2>3. Answers!CopiesAreDated'
    <3> SUFFICES ASSUME NEW q \in Proces
                 PROVE  /\ kes'[q].at <= vreme'
                        /\ kes'[q].svez /\ kes'[q].at > promenjeno' => kes'[q].tipovi = tabela'
                        /\ kvarovi' = 0 /\ kes'[q].at # -1 => kes'[q].svez
      BY DEF Answers!CopiesAreDated
    <3>1. kes[q].at <= vreme /\ kes[q].at \in Int
      BY DEF CopiesFit, Answers!CopiesAreDated, Answers!Kopija
    <3>2. kes[q].at <= vreme' BY <1>0, <2>1, <3>1
    <3> QED BY <2>1, <3>2 DEF CopiesFit, Answers!CopiesAreDated
  <2>4. promenjeno' \in 0 .. vreme' /\ vreme' \in Nat BY <1>0, <2>1 DEF CopiesFit
  <2>5. CopiesFit' BY <2>1, <2>3, <2>4 DEF CopiesFit, Answers!Redovi, Answers!Kopija, Answers!Sifra
  <2> QED BY <2>2, <2>5
<1>9. CASE UNCHANGED Answers!vars
  <2>1. UNCHANGED <<vreme, tabela, promene, promenjeno, kes, status, pitanja, unos, moj_status,
                    odgovori, kvarovi>>
    BY <1>9 DEF Answers!vars
  <2>2. Contents' BY <1>0, <2>1, RequestEnds
  <2>3. CopiesFit'
    BY <2>1 DEF CopiesFit, Answers!CopiesAreDated, Answers!Redovi, Answers!Kopija, Answers!Sifra
  <2> QED BY <2>2, <2>3
<1> QED
  BY <1>1, <1>2, <1>3, <1>4, <1>5, <1>6, <1>7, <1>8, <1>9
     DEF Answers!Next, Answers!Administrator, Answers!Employee

\* What is stored fits what is asked (validate_answers, compute_visibility, save_draft,
\* submit), whatever the types, structures and payloads, and whichever copies of the
\* types the processes work with; a changed table is taken over in a period.
THEOREM AnswersHold == Answers!Spec => []AnswersInv
<1>1. AnswersInv /\ [Answers!Next]_Answers!vars => AnswersInv' BY AnswersStep
<1> QED BY AnswersInit, <1>1, PTL DEF Answers!Spec
=============================================================================
