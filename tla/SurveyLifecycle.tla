--------------------------- MODULE SurveyLifecycle ---------------------------
(***************************************************************************)
(* The life of one survey: administrators edit it while it is a draft,     *)
(* schedule, activate, close and archive it and extend its deadline; the   *)
(* system worker activates and closes it when its time comes.              *)
(*                                                                         *)
(* A request reads the row of the survey without a lock, decides on that   *)
(* copy and commits later, writing the columns it has changed.  So does    *)
(* the worker.  A flush takes the row lock only immediately before the     *)
(* commit, which therefore is one step here.                               *)
(***************************************************************************)
EXTENDS Integers

CONSTANTS
  Korisnik,    \* employees
  Struktura,   \* contents of a survey: ispravna (do its questions pass?), ciljevi
  Admin,       \* request threads of administrators
  Worker,      \* the thread of the system worker
  MaxTime,     \* bound: the clock stops here; no date is later
  MaxFault     \* bound: requests and worker rounds that fail half-way

\* A target group, with those who are in it while they are active.  A personal number is
\* a group of one; CENTRALA and MALOPRODAJA are not supported.
Cilj == {c \in [vrsta : {"SVI", "ORGJED", "CENTRALA"}, ljudi : SUBSET Korisnik] :
          c.vrsta = "SVI" => c.ljudi = Korisnik}

ASSUME ConstantsAssumption ==
  /\ \A s \in Struktura : s.ispravna \in BOOLEAN /\ s.ciljevi \subseteq Cilj
  /\ Worker \notin Admin
  /\ MaxTime \in Nat /\ MaxFault \in Nat

VARIABLES
  now,
  anketa,       \* the row of the survey
  struktura,    \* its committed content
  automatska,   \* does an onboarding rule refer to the survey?
  aktivni,      \* the active employees
  ucesca,       \* the participants
  izmaklo,      \* history: a first exit found nobody where it had found somebody before
  dogadjaj,     \* is the event SURVEY_ACTIVATED enqueued?
  podsetnici,   \* the deadlines for which SURVEY_EXPIRING is enqueued
  posao,        \* what each thread has read and is about to commit
  greske        \* failed requests and rounds so far (bounded by MaxFault)

vars == <<now, anketa, struktura, automatska, aktivni, ucesca, izmaklo, dogadjaj,
          podsetnici, posao, greske>>

-----------------------------------------------------------------------------

Thread == Admin \cup {Worker}
Dates == 0 .. MaxTime
Statuses == {"DRAFT", "SCHEDULED", "ACTIVE", "CLOSED", "ARCHIVED"}
Anketa == [status : Statuses, pocetak : Nat, kraj : Nat]

\* Statuses a survey may be moved to.
ANKETA_DOZVOLJENI_PRELAZI ==
  [DRAFT |-> {"SCHEDULED", "ACTIVE"}, SCHEDULED |-> {"ACTIVE", "CLOSED"},
   ACTIVE |-> {"CLOSED"}, CLOSED |-> {"ARCHIVED"}, ARCHIVED |-> {}]

\* copy, new: the row as read and as it shall be; auto: an onboarding rule was found;
\* provereni, ljudi: whom the targets gave when they were validated and when they were
\* read again; dodato: the participants it has inserted; sadrzaj: new content of an
\* update; podseti: deadlines to be reminded of.
Posao == [pc : {"idle", "update", "rule", "questions", "targets", "materialize", "insert",
                "extend", "commit", "discover"},
          copy : Anketa, new : Anketa, auto : BOOLEAN, provereni : SUBSET Korisnik,
          ljudi : SUBSET Korisnik, dodato : SUBSET Korisnik,
          sadrzaj : SUBSET Struktura, podseti : SUBSET Nat]
Blank == [status |-> "DRAFT", pocetak |-> 0, kraj |-> 1]
Idle == [pc |-> "idle", copy |-> Blank, new |-> Blank, auto |-> FALSE, provereni |-> {},
         ljudi |-> {}, dodato |-> {}, sadrzaj |-> {}, podseti |-> {}]

\* create_survey: a draft with dates in order.
Init ==
  /\ now = 0
  /\ anketa \in {a \in [status : {"DRAFT"}, pocetak : Dates, kraj : Dates] : a.kraj > a.pocetak}
  /\ struktura \in Struktura
  /\ automatska = FALSE
  /\ aktivni \in (SUBSET Korisnik) \ {{}}
  /\ ucesca = {} /\ izmaklo = FALSE
  /\ dogadjaj = FALSE
  /\ podsetnici = {}
  /\ posao = [a \in Thread |-> Idle]
  /\ greske = 0

\* The thread has read the survey and is about to write.
load(a, pc, new) ==
  posao' = [posao EXCEPT ![a] = [Idle EXCEPT !.pc = pc, !.copy = anketa, !.new = new]]

finish(a) == posao' = [posao EXCEPT ![a] = Idle]

\* (mutant) an UPDATE writes every column
column_as_loaded(stored, loaded, new) == new

\* An UPDATE writes the columns in which the copy was changed.
column(stored, loaded, new) == IF new # loaded THEN new ELSE stored
flush(copy, new) ==
  [status  |-> column(anketa.status, copy.status, new.status),
   pocetak |-> column(anketa.pocetak, copy.pocetak, new.pocetak),
   kraj    |-> column(anketa.kraj, copy.kraj, new.kraj)]

is_within_period(row) == row.pocetak <= now /\ now <= row.kraj

Tables == <<anketa, struktura, ucesca, izmaklo, dogadjaj, podsetnici>>

-----------------------------------------------------------------------------
(* update_survey *)

\* Read the survey; only a draft is edited.
update_survey(a) ==
  /\ posao[a].pc = "idle"
  /\ anketa.status = "DRAFT"
  /\ \E p, k \in Dates, s \in Struktura :
       /\ k > p
       /\ posao' = [posao EXCEPT ![a] =
            [Idle EXCEPT !.pc = "update", !.copy = anketa, !.sadrzaj = {s},
                         !.new = [anketa EXCEPT !.pocetak = p, !.kraj = k]]]
  /\ UNCHANGED <<now, automatska, aktivni, greske>> /\ UNCHANGED Tables

\* Replace the content, write the changed dates and commit; CK_ANKETE_DATUMI.
persist_structure(a) ==
  LET row == flush(posao[a].copy, posao[a].new) IN
  /\ posao[a].pc = "update"
  /\ row.kraj > row.pocetak
  /\ anketa' = row
  /\ struktura' \in posao[a].sadrzaj
  /\ finish(a)
  /\ UNCHANGED <<now, automatska, aktivni, ucesca, izmaklo, dogadjaj, podsetnici, greske>>

-----------------------------------------------------------------------------
(* change_status *)

\* (mutant) a survey can be closed from any status
closable_anytime(trenutni, novi) ==
  novi \in ANKETA_DOZVOLJENI_PRELAZI[trenutni] \cup {"CLOSED"}

is_valid_survey_transition(trenutni, novi) == novi \in ANKETA_DOZVOLJENI_PRELAZI[trenutni]

leaves_draft(z) == z.copy.status = "DRAFT" /\ z.new.status \in {"SCHEDULED", "ACTIVE"}

\* Read the survey and the clock; the transition must be allowed from the status read,
\* and the period fit.
change_status(a, novi) ==
  /\ posao[a].pc = "idle"
  /\ is_valid_survey_transition(anketa.status, novi)
  /\ anketa.status = "DRAFT" /\ novi = "SCHEDULED" => anketa.pocetak > now
  /\ novi = "ACTIVE" => is_within_period(anketa)
  /\ load(a, "rule", [anketa EXCEPT !.status = novi])
  /\ UNCHANGED <<now, automatska, aktivni, greske>> /\ UNCHANGED Tables

\* Look for an onboarding rule.  Only the first exit from DRAFT reads on.
get_by_survey_id(a) ==
  LET z == posao[a] IN
  /\ z.pc = "rule"
  /\ posao' = [posao EXCEPT ![a].auto = automatska,
                            ![a].pc = IF leaves_draft(z) THEN "questions" ELSE "commit"]
  /\ UNCHANGED <<now, automatska, aktivni, greske>> /\ UNCHANGED Tables

\* The questions must be in order; that of the dates is as CK_ANKETE_DATUMI has it.
validate_structure(a) ==
  /\ posao[a].pc = "questions"
  /\ struktura.ispravna
  /\ posao' = [posao EXCEPT ![a].pc = "targets"]
  /\ UNCHANGED <<now, automatska, aktivni, greske>> /\ UNCHANGED Tables

\* There is a target, unless a rule assigns the survey, and somebody active in each.
targets_valid(ciljevi, auto) ==
  /\ ciljevi = {} => auto
  /\ \A c \in ciljevi : /\ c.vrsta # "CENTRALA"
                        /\ c.vrsta = "ORGJED" => c.ljudi \cap aktivni # {}

\* The active employees in some target.
ciljani(ciljevi) == {k \in aktivni : \E c \in ciljevi : k \in c.ljudi}

\* The second half of validate_structure.
validate_targets(a) ==
  LET z == posao[a] IN
  /\ z.pc = "targets"
  /\ targets_valid(struktura.ciljevi, z.auto)
  /\ posao' = [posao EXCEPT ![a].pc = IF z.auto THEN "commit" ELSE "materialize",
                            ![a].provereni = IF z.auto THEN {} ELSE ciljani(struktura.ciljevi)]
  /\ UNCHANGED <<now, automatska, aktivni, greske>> /\ UNCHANGED Tables

\* (mutant) only an activation makes participants
materialize_on_activation(a) ==
  LET z == posao[a] IN
  /\ z.pc = "materialize"
  /\ posao' = [posao EXCEPT ![a].pc = IF z.new.status = "ACTIVE" THEN "insert" ELSE "commit",
                            ![a].ljudi = ciljani(struktura.ciljevi)]
  /\ UNCHANGED <<now, automatska, aktivni, greske>> /\ UNCHANGED Tables

\* Read targets and employees again, whatever they are by now: that somebody was found is
\* not checked.
_materialize_targets(a) ==
  LET z == posao[a] IN
  /\ z.pc = "materialize"
  /\ \A c \in struktura.ciljevi : c.vrsta # "CENTRALA"
  /\ posao' = [posao EXCEPT ![a].pc = "insert", ![a].ljudi = ciljani(struktura.ciljevi)]
  /\ UNCHANGED <<now, automatska, aktivni, greske>> /\ UNCHANGED Tables

\* Another thread has inserted one of these participants and not committed: the unique
\* key makes an insert wait for it.
inserting(a, S) == \E b \in Thread \ {a} : posao[b].dodato \cap S # {}

\* Insert those who do not take part yet.
add_ucesce(a) ==
  LET novi == posao[a].ljudi \ ucesca IN
  /\ posao[a].pc = "insert"
  /\ ~inserting(a, novi)
  /\ posao' = [posao EXCEPT ![a].pc = "commit", ![a].dodato = novi]
  /\ UNCHANGED <<now, automatska, aktivni, greske>> /\ UNCHANGED Tables

\* (mutant) the event is enqueued by the first exit only
announces_at_first_exit(z) == z.copy.status = "DRAFT" /\ z.new.status = "ACTIVE" /\ ~z.auto

\* An activation enqueues its event, unless the survey is automatic.
announces(z) == z.new.status = "ACTIVE" /\ ~z.auto

\* Status, participants and event commit together.
commit_status(a) ==
  LET z == posao[a] IN
  /\ z.pc = "commit"
  /\ anketa' = flush(z.copy, z.new)
  /\ ucesca' = ucesca \cup z.dodato
  /\ izmaklo' = (izmaklo \/ (z.provereni # {} /\ z.ljudi = {}))
  /\ dogadjaj' = (dogadjaj \/ announces(z))
  /\ finish(a)
  /\ UNCHANGED <<now, struktura, automatska, aktivni, podsetnici, greske>>

-----------------------------------------------------------------------------
(* extend_deadline, and the onboarding rule of the survey *)

extend_deadline(a, novi) ==
  /\ posao[a].pc = "idle"
  /\ anketa.status \in {"SCHEDULED", "ACTIVE"}
  /\ novi > anketa.kraj
  /\ load(a, "extend", [anketa EXCEPT !.kraj = novi])
  /\ UNCHANGED <<now, automatska, aktivni, greske>> /\ UNCHANGED Tables

commit_deadline(a) ==
  LET row == flush(posao[a].copy, posao[a].new) IN
  /\ posao[a].pc = "extend"
  /\ row.kraj > row.pocetak
  /\ anketa' = row
  /\ finish(a)
  /\ UNCHANGED <<now, struktura, automatska, aktivni, ucesca, izmaklo, dogadjaj, podsetnici,
                 greske>>

\* A rule is created for the survey, whatever its status; it is never deleted.
upsert ==
  /\ ~automatska
  /\ automatska' = TRUE
  /\ UNCHANGED <<now, aktivni, posao, greske>> /\ UNCHANGED Tables

\* Employees come and go, and accounts are locked and unlocked.  Whoever publishes is an
\* active employee himself: somebody always is.
synchronise ==
  /\ \E S \in (SUBSET Korisnik) \ {{}, aktivni} : aktivni' = S
  /\ UNCHANGED <<now, automatska, posao, greske>> /\ UNCHANGED Tables

-----------------------------------------------------------------------------
(* discover_events *)

EXPIRY_WINDOW == 1   \* 24 hours: one unit of the clock

find_scheduled_surveys_now_active ==
  anketa.status = "SCHEDULED" /\ anketa.pocetak <= now /\ anketa.kraj > now

\* (mutant) a deadline is past a day later
find_active_surveys_past_deadline == anketa.status = "ACTIVE" /\ anketa.kraj < now - 1

find_active_surveys_now_expired == anketa.status = "ACTIVE" /\ anketa.kraj <= now

find_surveys_expiring_within ==
  /\ anketa.status \in {"SCHEDULED", "ACTIVE"}
  /\ anketa.pocetak <= now /\ now < anketa.kraj /\ anketa.kraj <= now + EXPIRY_WINDOW

\* The status the worker gives the survey, which it has read.
discovered == IF find_scheduled_surveys_now_active THEN "ACTIVE"
              ELSE IF find_active_surveys_now_expired THEN "CLOSED"
              ELSE anketa.status

\* A round of the worker reads the survey and its onboarding rule.
discover_events ==
  /\ posao[Worker].pc = "idle"
  /\ \/ find_scheduled_surveys_now_active
     \/ find_active_surveys_now_expired
     \/ find_surveys_expiring_within /\ ~automatska /\ anketa.kraj \notin podsetnici
  /\ posao' = [posao EXCEPT ![Worker] =
       [Idle EXCEPT !.pc = "discover", !.copy = anketa, !.auto = automatska,
                    !.new = [anketa EXCEPT !.status = discovered],
                    !.podseti = IF find_surveys_expiring_within /\ ~automatska
                                  THEN {anketa.kraj} ELSE {}]]
  /\ UNCHANGED <<now, automatska, aktivni, greske>> /\ UNCHANGED Tables

\* The round commits the status, the event and the reminder.
commit_discovery ==
  LET z == posao[Worker] IN
  /\ z.pc = "discover"
  /\ anketa' = flush(z.copy, z.new)
  /\ dogadjaj' = (dogadjaj \/ (z.copy.status = "SCHEDULED" /\ announces(z)))
  /\ podsetnici' = podsetnici \cup z.podseti
  /\ finish(Worker)
  /\ UNCHANGED <<now, struktura, automatska, aktivni, ucesca, izmaklo, greske>>

-----------------------------------------------------------------------------

\* A request is refused by a check or a constraint (a participation or an event
\* key that exists meanwhile) or fails, and is rolled back.
rollback(a) ==
  /\ posao[a].pc # "idle" /\ (a = Worker => greske < MaxFault)
  /\ greske' = IF a = Worker THEN greske + 1 ELSE greske
  /\ finish(a)
  /\ UNCHANGED <<now, automatska, aktivni>> /\ UNCHANGED Tables

Tick == /\ now < MaxTime /\ now' = now + 1
        /\ UNCHANGED <<automatska, aktivni, posao, greske>> /\ UNCHANGED Tables

Request(a) == \/ update_survey(a) \/ persist_structure(a)
              \/ \E novi \in Statuses : change_status(a, novi)
              \/ get_by_survey_id(a) \/ validate_structure(a) \/ validate_targets(a)
              \/ _materialize_targets(a) \/ add_ucesce(a) \/ commit_status(a)
              \/ \E novi \in Dates : extend_deadline(a, novi)
              \/ commit_deadline(a)

Discovery == discover_events \/ commit_discovery

Next == \/ \E a \in Admin : Request(a)
        \/ upsert \/ synchronise
        \/ Discovery
        \/ \E a \in Thread : rollback(a)
        \/ Tick

Spec == Init /\ [][Next]_vars

\* The scheduler runs rounds for ever and a round ends.
FairSpec == Spec /\ WF_vars(Discovery)

-----------------------------------------------------------------------------
(* Properties *)

\* Every variable has its type.
TypeOK ==
  /\ now \in Nat
  /\ anketa \in Anketa
  /\ struktura \in Struktura
  /\ automatska \in BOOLEAN
  /\ aktivni \in (SUBSET Korisnik) \ {{}}
  /\ ucesca \subseteq Korisnik /\ izmaklo \in BOOLEAN
  /\ dogadjaj \in BOOLEAN
  /\ podsetnici \subseteq Nat
  /\ posao \in [Thread -> Posao]
  /\ greske \in Nat

\* An active survey without an onboarding rule has been announced, whoever
\* activated it and whatever stale copies were written over it.
ActivationAnnounced == anketa.status = "ACTIVE" => dogadjaj \/ automatska

\* A survey that left DRAFT has got participants, or an onboarding rule provides them;
\* except that the second reading of its targets found nobody although their validation,
\* just before, had (izmaklo): an edit or a departure in between leaves it without any.
LeftDraftHasParticipants == anketa.status # "DRAFT" => ucesca # {} \/ automatska \/ izmaklo

\* A scheduled survey whose period has begun and an active one whose deadline is
\* past do not stay so: the worker moves them, or their dates change, in spite of
\* administrators and a failed round.
DueToStart == anketa.status = "SCHEDULED" /\ anketa.pocetak <= now /\ now < anketa.kraj
DueToEnd == anketa.status = "ACTIVE" /\ anketa.kraj <= now
DueSurveysAreMoved == (DueToStart ~> ~DueToStart) /\ (DueToEnd ~> ~DueToEnd)

\* A survey that left DRAFT is no draft again, even if an edit, an extension or an
\* activation that read it as one commits afterwards; SurveyParticipation relies on it.
LeavesDraftForGood == [][anketa.status # "DRAFT" => anketa'.status # "DRAFT"]_vars

\* Why it works: what a thread knows of the survey stays true.  Whoever validated targets
\* without a rule found somebody, and inserts those it finds again unless they take part.
Provided == ucesca # {} \/ automatska \/ izmaklo
KnownToThreads == \A a \in Thread : LET z == posao[a] IN
  /\ z.auto => automatska
  /\ z.pc \in {"rule", "commit", "discover"} /\ z.copy.status # "DRAFT" => Provided
  /\ z.pc \in {"rule", "questions", "targets", "materialize", "insert", "commit"} =>
       z.new.status # "DRAFT"
  /\ z.pc = "rule" /\ z.copy.status = "DRAFT" => leaves_draft(z)
  /\ z.pc \in {"questions", "targets", "materialize", "insert"} => z.copy.status = "DRAFT"
  /\ z.pc \in {"materialize", "insert"} => z.provereni # {}
  /\ z.pc = "commit" /\ z.copy.status = "DRAFT" =>
       Provided \/ z.dodato # {} \/ (z.provereni # {} /\ z.ljudi = {})
  /\ z.pc \in {"extend", "update"} => z.new.status = z.copy.status
  /\ z.pc = "discover" => \/ z.new.status = z.copy.status
                          \/ z.copy.status = "SCHEDULED" /\ z.new.status = "ACTIVE"
                          \/ z.copy.status = "ACTIVE" /\ z.new.status = "CLOSED"

IInv == TypeOK /\ ActivationAnnounced /\ LeftDraftHasParticipants /\ KnownToThreads

-----------------------------------------------------------------------------
(* What the comments say and overlapping requests do not respect *)

\* "Statusi u kojima je struktura zakljucana (ne moze se menjati)".
StructureFrozen == [][anketa.status # "DRAFT" => struktura' = struktura]_vars
=============================================================================
