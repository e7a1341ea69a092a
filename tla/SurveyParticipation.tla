------------------------- MODULE SurveyParticipation -------------------------
(***************************************************************************)
(* Answering one survey (app/services/survey_service.py).                  *)
(*                                                                         *)
(* Every targeted employee has one row of PULS_ANKETA_UCESCA.  Saving a    *)
(* draft replaces the employee's draft answers and marks the participation *)
(* as begun; submitting records a submission, deletes the drafts and       *)
(* closes the participation, holding the participation row FOR UPDATE.     *)
(* Requests of the same employee (two phones, a retry) run concurrently.   *)
(* Saving reads the participation without a lock and writes it at commit,  *)
(* from the copy it read.                                                  *)
(***************************************************************************)
EXTENDS Integers, FiniteSets

CONSTANTS
  User,          \* the targeted employees
  Question,      \* questions of the survey
  Request,       \* request threads
  Nobody,        \* the user of an idle thread
  Automatic,     \* employees whose participation was assigned automatically
  Pocetak, Kraj, \* the survey's period, both ends included
  Od, Do,        \* the window of automatic participations, end excluded
  MaxTime,       \* bound: the clock stops here
  MaxPredaja,    \* bound: submissions of one employee
  MaxFault       \* bound: requests that fail half-way

ASSUME ConstantsAssumption ==
  /\ Automatic \subseteq User
  /\ Nobody \notin User
  /\ {Pocetak, Kraj, Od, Do, MaxTime, MaxPredaja, MaxFault} \subseteq Nat

VARIABLES
  now,
  anketa,    \* status of the survey
  anonimna,  \* is it anonymous? (fixed when the survey leaves DRAFT)
  ucesce,    \* participation row of each employee
  nacrti,    \* questions for which the employee has a committed draft answer
  predaje,   \* committed submissions (an anonymous one has no KORISNIK_ID:
             \* this count is then the modeller's, not the database's)
  zahtev,    \* what each request thread is doing
  vraceno,   \* history: times a draft overwrote SUBMITTED
  greske     \* requests that failed so far (bounded by MaxFault)

vars == <<now, anketa, anonimna, ucesce, nacrti, predaje, zahtev, vraceno, greske>>

-----------------------------------------------------------------------------

NoTime == -1
Times == Nat \cup {NoTime}
UcesceStatus == {"NOT_STARTED", "IN_PROGRESS", "SUBMITTED"}
Ucesce == [status : UcesceStatus, datum_pocetka : Times, datum_predaje : Times]
Fresh == [status |-> "NOT_STARTED", datum_pocetka |-> NoTime, datum_predaje |-> NoTime]

\* at, anketa, ucesce: what the request has read; odgovori: the visible answered
\* questions it will store; obrisani: the draft rows it has deleted (and locked).
AnketaStatus == {"SCHEDULED", "ACTIVE", "CLOSED", "ARCHIVED"}
Zahtev == [pc : {"idle", "save", "saving", "submit", "locked"},
           korisnik : User \cup {Nobody}, at : Nat,
           anketa : AnketaStatus, ucesce : Ucesce,
           odgovori : SUBSET Question, obrisani : SUBSET Question]
Idle == [pc |-> "idle", korisnik |-> Nobody, at |-> 0, anketa |-> "CLOSED",
         ucesce |-> Fresh, odgovori |-> {}, obrisani |-> {}]

Init ==
  /\ now = 0
  /\ anketa \in {"SCHEDULED", "ACTIVE"}
  /\ anonimna \in BOOLEAN
  /\ ucesce = [u \in User |-> Fresh]
  /\ nacrti = [u \in User |-> {}]
  /\ predaje = [u \in User |-> 0]
  /\ zahtev = [r \in Request |-> Idle]
  /\ vraceno = [u \in User |-> 0]
  /\ greske = 0

\* An automatic participation has a window of its own and needs an ACTIVE
\* survey; any other follows the survey's period.
is_available(u, status, t) ==
  IF u \in Automatic
    THEN status = "ACTIVE" /\ Od <= t /\ t < Do
    ELSE status \in {"SCHEDULED", "ACTIVE"} /\ Pocetak <= t /\ t <= Kraj

\* The participation row is locked FOR UPDATE by a submit.
locked(u) == \E r \in Request : zahtev[r].pc = "locked" /\ zahtev[r].korisnik = u

\* The committed draft rows of u are not locked by another request's DELETE.
deletable(r, u) == \A q \in Request \ {r} :
  zahtev[q].pc = "saving" /\ zahtev[q].korisnik = u =>
    zahtev[q].obrisani \cap nacrti[u] = {}

finish(r) == zahtev' = [zahtev EXCEPT ![r] = Idle]

-----------------------------------------------------------------------------
(* save_draft *)

\* Read the survey and the participation (no lock), check, normalise answers.
save_draft(r, u) ==
  /\ zahtev[r].pc = "idle"
  /\ anketa # "ARCHIVED"
  /\ ucesce[u].status # "SUBMITTED"
  /\ is_available(u, anketa, now)
  /\ \E S \in SUBSET Question :
       zahtev' = [zahtev EXCEPT ![r] =
         [pc |-> "save", korisnik |-> u, at |-> now, anketa |-> anketa,
          ucesce |-> ucesce[u], odgovori |-> S, obrisani |-> {}]]
  /\ UNCHANGED <<now, anketa, anonimna, ucesce, nacrti, predaje, vraceno, greske>>

\* Delete the committed drafts; waits while another request has deleted them.
delete_draft(r) ==
  LET u == zahtev[r].korisnik IN
  /\ zahtev[r].pc = "save"
  /\ deletable(r, u)
  /\ zahtev' = [zahtev EXCEPT ![r].pc = "saving", ![r].obrisani = nacrti[u]]
  /\ UNCHANGED <<now, anketa, anonimna, ucesce, nacrti, predaje, vraceno, greske>>

\* Rows of other requests that the unique key of the drafts collides with.
colliding(r) == (nacrti[zahtev[r].korisnik] \ zahtev[r].obrisani) \cap zahtev[r].odgovori

\* (mutant) the participation is not marked as begun
begun_never(row, copy, t) == row

\* The participation after the flush: only a copy read as NOT_STARTED is written.
begun(row, copy, t) ==
  IF copy.status # "NOT_STARTED" THEN row
  ELSE [row EXCEPT !.status = "IN_PROGRESS",
                   !.datum_pocetka = IF copy.datum_pocetka = NoTime THEN t ELSE @]

\* Store the answers, flush the participation and commit; the UPDATE of the
\* participation waits for a submit that holds the row.
store_draft(r) ==
  LET z == zahtev[r]
      u == z.korisnik
  IN
  /\ z.pc = "saving"
  /\ colliding(r) = {}
  /\ z.ucesce.status = "NOT_STARTED" => ~locked(u)
  /\ nacrti' = [nacrti EXCEPT ![u] = (@ \ z.obrisani) \cup z.odgovori]
  /\ ucesce' = [ucesce EXCEPT ![u] = begun(@, z.ucesce, z.at)]
  /\ vraceno' = [vraceno EXCEPT ![u] =
       IF ucesce[u].status = "SUBMITTED" /\ ucesce'[u].status # "SUBMITTED" THEN @ + 1 ELSE @]
  /\ finish(r)
  /\ UNCHANGED <<now, anketa, anonimna, predaje, greske>>

\* Another save has committed a draft for the same question: IntegrityError.
store_draft_duplicate(r) ==
  /\ zahtev[r].pc = "saving"
  /\ colliding(r) # {}
  /\ finish(r)
  /\ UNCHANGED <<now, anketa, anonimna, ucesce, nacrti, predaje, vraceno, greske>>

-----------------------------------------------------------------------------
(* submit *)

\* Take the time and read the survey, before waiting for the participation row.
submit(r, u) ==
  /\ zahtev[r].pc = "idle"
  /\ anketa # "ARCHIVED"
  /\ predaje[u] < MaxPredaja
  /\ zahtev' = [zahtev EXCEPT ![r] =
       [Idle EXCEPT !.pc = "submit", !.korisnik = u, !.at = now, !.anketa = anketa]]
  /\ UNCHANGED <<now, anketa, anonimna, ucesce, nacrti, predaje, vraceno, greske>>

\* (mutant) the row is read without FOR UPDATE
get_ucesce_unlocked(r) ==
  LET z == zahtev[r] IN
  /\ z.pc = "submit"
  /\ IF ucesce[z.korisnik].status = "SUBMITTED" \/ ~is_available(z.korisnik, z.anketa, z.at)
       THEN finish(r)
       ELSE zahtev' = [zahtev EXCEPT ![r].pc = "locked", ![r].ucesce = ucesce[z.korisnik]]
  /\ UNCHANGED <<now, anketa, anonimna, ucesce, nacrti, predaje, vraceno, greske>>

\* Lock the participation, then check it and the survey read before.
get_ucesce_for_update(r) ==
  LET z == zahtev[r] IN
  /\ z.pc = "submit"
  /\ ~locked(z.korisnik)
  /\ IF ucesce[z.korisnik].status = "SUBMITTED" \/ ~is_available(z.korisnik, z.anketa, z.at)
       THEN finish(r)
       ELSE zahtev' = [zahtev EXCEPT ![r].pc = "locked", ![r].ucesce = ucesce[z.korisnik]]
  /\ UNCHANGED <<now, anketa, anonimna, ucesce, nacrti, predaje, vraceno, greske>>

\* (mutant) the database has no unique index on named submissions
refused_never(u) == FALSE

\* The unique index on (survey, employee) covers named submissions only.
refused(u) == ~anonimna /\ predaje[u] > 0

\* Insert the submission and its answers, delete the drafts, close the
\* participation and commit.
add_submission(r) ==
  LET u == zahtev[r].korisnik IN
  /\ zahtev[r].pc = "locked"
  /\ ~refused(u)
  /\ deletable(r, u)
  /\ predaje' = [predaje EXCEPT ![u] = @ + 1]
  /\ nacrti' = [nacrti EXCEPT ![u] = {}]
  /\ ucesce' = [ucesce EXCEPT ![u].status = "SUBMITTED", ![u].datum_predaje = zahtev[r].at]
  /\ finish(r)
  /\ UNCHANGED <<now, anketa, anonimna, vraceno, greske>>

\* The index refuses the submission: IntegrityError, rollback.
submission_refused(r) ==
  /\ zahtev[r].pc = "locked"
  /\ refused(zahtev[r].korisnik)
  /\ finish(r)
  /\ UNCHANGED <<now, anketa, anonimna, ucesce, nacrti, predaje, vraceno, greske>>

-----------------------------------------------------------------------------
(* Failures and the environment *)

\* A request fails before its commit: rollback.
rollback(r) ==
  /\ zahtev[r].pc # "idle" /\ greske < MaxFault
  /\ greske' = greske + 1
  /\ finish(r)
  /\ UNCHANGED <<now, anketa, anonimna, ucesce, nacrti, predaje, vraceno>>

\* A save waits for the row a submit holds while the submit waits for the drafts
\* the save has deleted: the database rolls one of the two back.
deadlock(r, q) ==
  LET u == zahtev[r].korisnik IN
  /\ zahtev[r].pc = "saving" /\ zahtev[r].ucesce.status = "NOT_STARTED"
  /\ zahtev[r].obrisani \cap nacrti[u] # {}
  /\ zahtev[q].pc = "locked" /\ zahtev[q].korisnik = u
  /\ finish(r) \/ finish(q)
  /\ UNCHANGED <<now, anketa, anonimna, ucesce, nacrti, predaje, vraceno, greske>>

\* The administrators and the worker: as their requests write stale copies over each
\* other, any status may follow any, but none is a draft (SurveyLifecycle).
change_status ==
  /\ anketa' \in AnketaStatus \ {anketa}
  /\ UNCHANGED <<now, anonimna, ucesce, nacrti, predaje, zahtev, vraceno, greske>>

Tick == /\ now < MaxTime /\ now' = now + 1
        /\ UNCHANGED <<anketa, anonimna, ucesce, nacrti, predaje, zahtev, vraceno, greske>>

Save(r) == \/ \E u \in User : save_draft(r, u)
           \/ delete_draft(r) \/ store_draft(r) \/ store_draft_duplicate(r)
Submit(r) == \/ \E u \in User : submit(r, u)
             \/ get_ucesce_for_update(r) \/ add_submission(r) \/ submission_refused(r)

Next == \/ \E r \in Request : Save(r) \/ Submit(r) \/ rollback(r)
        \/ \E r, q \in Request : deadlock(r, q)
        \/ change_status
        \/ Tick

Spec == Init /\ [][Next]_vars

-----------------------------------------------------------------------------
(* Properties *)

\* Every variable has its type.
TypeOK ==
  /\ now \in Nat
  /\ anketa \in AnketaStatus
  /\ anonimna \in BOOLEAN
  /\ ucesce \in [User -> Ucesce]
  /\ nacrti \in [User -> SUBSET Question]
  /\ predaje \in [User -> Nat]
  /\ zahtev \in [Request -> Zahtev]
  /\ vraceno \in [User -> Nat]
  /\ greske \in Nat

\* The books of a participation balance: however saves, submits and failures
\* overlap, every recorded submission closed the participation once, and is
\* either still closing it or was reopened by a stale draft.
SubmissionsBalance == \A u \in User :
  predaje[u] = vraceno[u] + (IF ucesce[u].status = "SUBMITTED" THEN 1 ELSE 0)

\* An employee has at most one named submission of a survey, even after a stale
\* draft has reopened the participation.
NamedOnce == ~anonimna => \A u \in User : predaje[u] <= 1

\* An employee with stored drafts has a participation that was begun: only then
\* are the drafts shown to them again.
DraftsAreReachable == \A u \in User :
  nacrti[u] # {} => ucesce[u].status # "NOT_STARTED" /\ ucesce[u].datum_pocetka # NoTime

\* Why it works: a submit holds its row alone, and nobody closes it meanwhile.
LockedIsOpen ==
  /\ \A r, q \in Request : zahtev[r].pc = "locked" /\ zahtev[q].pc = "locked"
       /\ zahtev[r].korisnik = zahtev[q].korisnik => r = q
  /\ \A r \in Request : zahtev[r].pc = "locked" =>
       ucesce[zahtev[r].korisnik].status # "SUBMITTED"
  /\ \A r \in Request : zahtev[r].pc # "idle" => zahtev[r].korisnik \in User

IInv == TypeOK /\ LockedIsOpen /\ SubmissionsBalance /\ NamedOnce

-----------------------------------------------------------------------------
(* What the tests and comments say and overlapping requests do not respect *)

\* test_resubmit_rejected: a survey that was submitted is not submitted again.
ResubmitRejected == \A u \in User : predaje[u] <= 1
=============================================================================
