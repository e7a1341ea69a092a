------------------------- MODULE OnboardingAssignment -------------------------
(***************************************************************************)
(* Onboarding surveys: a rule gives its survey to every new employee at a  *)
(* milestone after his first day of work, for a number of days.  The       *)
(* system notification worker assigns what is due at the head of its       *)
(* discovery transaction, all rules in one transaction, while              *)
(* administrators change the rules and the HR synchronisation corrects the *)
(* dates of employment.                                                    *)
(*                                                                         *)
(* One worker is deployed; a restart may overlap it with its successor.    *)
(***************************************************************************)
EXTENDS Integers, FiniteSets

CONSTANTS
  Anketa,    \* surveys
  Korisnik,  \* employees
  Pravilo,   \* the rules administrators set: DANI_OD_ZAPOSLENJA, ROK_DANA, AKTIVNA
  Zatecena,  \* the rules there may be at first
  Dani,      \* the days that are observed (bounds time)
  Datumi,    \* the dates of employment the HR system may send
  Worker,    \* worker processes
  Admin,     \* overlapping requests of administrators
  None,
  MaxPreklapanja, \* bound: transactions that overlap
  MaxIzmena   \* bound: changes of rules, surveys and employees

ASSUME ConstantsAssumption ==
  /\ Pravilo \subseteq [dani : Nat, rok : Nat \ {0}, aktivna : BOOLEAN]
  /\ Zatecena \subseteq [Anketa -> Pravilo \cup {None}]
  /\ \A z \in Zatecena : \A r, s \in Anketa :
       None \notin {z[r], z[s]} /\ r # s => z[r].dani # z[s].dani
  /\ Dani \subseteq Nat /\ Dani # {} /\ Datumi \subseteq Nat
  /\ None \notin Nat \cup Anketa \cup [dani : Nat, rok : Nat, aktivna : BOOLEAN]
  /\ MaxPreklapanja \in Nat \ {0} /\ MaxIzmena \in Nat

VARIABLES
  dan,        \* today
  pravila,    \* the rule of each survey (PULS_ANKETA_AUTOMATIKA), or None
  ankete,     \* is the survey ACTIVE?
  korisnici,  \* DATUM_ZAPOSLENJA of each employee who is active and enabled, or None
  ucesca,     \* participations, each with its event ONBOARDING_SURVEY_AVAILABLE
  radnik,     \* the discovery of each worker
  zahtev,     \* the request of each administrator
  ispravljeni, \* history: employees whose date changed while a round went on
  izmene      \* changes so far (bounded by MaxIzmena)

vars == <<dan, pravila, ankete, korisnici, ucesca, radnik, zahtev,
          ispravljeni, izmene>>

-----------------------------------------------------------------------------

Payload == [dani : {p.dani : p \in Pravilo}, rok : {p.rok : p \in Pravilo}, aktivna : BOOLEAN]

\* od: DATUM_DOSTUPNOSTI; do: DATUM_ISTEKA, the first day it is closed again.
Ucesce == [anketa : Anketa, korisnik : Korisnik, od : Nat, do : Nat]

has(S, s, u) == \E x \in S : x.anketa = s /\ x.korisnik = u

\* pc "failed": the discovery was rolled back, and the next round is a new one.
\* pravila: the rules left, as they were read; kandidati: who is left of the rule at
\* work; datumi: DATUM_ZAPOSLENJA of the candidates in the session; nova: the
\* participations inserted and not committed.
Radnik == [pc : {"idle", "rules", "insert", "failed"}, danas : Nat,
           pravila : [Anketa -> Payload \cup {None}], anketa : Anketa \cup {None},
           kandidati : SUBSET Korisnik, datumi : [Korisnik -> Nat \cup {None}],
           nova : SUBSET Ucesce]

Zahtev == [pc : {"idle", "read", "locked"}, anketa : Anketa \cup {None},
           payload : Payload \cup {None}, kopija : Payload \cup {None}]

Nobody == [u \in Korisnik |-> None]
NoRules == [s \in Anketa |-> None]
Resting == [pc |-> "idle", danas |-> 0, pravila |-> NoRules, anketa |-> None,
            kandidati |-> {}, datumi |-> Nobody, nova |-> {}]
Failed == [Resting EXCEPT !.pc = "failed"]
Idle == [pc |-> "idle", anketa |-> None, payload |-> None, kopija |-> None]

active_rules == {s \in Anketa : pravila[s] # None /\ pravila[s].aktivna}

Init ==
  /\ dan \in Dani /\ \A d \in Dani : dan <= d
  /\ pravila \in Zatecena
  /\ ankete = [s \in Anketa |-> TRUE]
  /\ korisnici \in [Korisnik -> {0}]
  /\ ucesca = {}
  /\ radnik = [w \in Worker |-> Resting]
  /\ zahtev = [a \in Admin |-> Idle]
  /\ ispravljeni = {} /\ izmene = 0

in_round == {w \in Worker : radnik[w].pc \in {"rules", "insert"}}

room == Cardinality(in_round) +
          Cardinality({a \in Admin : zahtev[a].pc # "idle"}) < MaxPreklapanja

Business == <<ankete, korisnici, dan, ispravljeni>>

-----------------------------------------------------------------------------
(* upsert: an administrator sets the rule of a survey *)

Others == <<ucesca, radnik>>

\* The survey and its rule are read.
upsert(a, s, p) ==
  /\ zahtev[a] = Idle /\ room
  /\ izmene < MaxIzmena /\ izmene' = izmene + 1
  /\ zahtev' = [zahtev EXCEPT ![a] = [pc |-> "read", anketa |-> s, payload |-> p,
                                      kopija |-> pravila[s]]]
  /\ UNCHANGED pravila /\ UNCHANGED Business /\ UNCHANGED Others

no_milestone_conflict(s, p) ==
  p.aktivna => \A r \in active_rules \ {s} : pravila[r].dani # p.dani

\* The row is locked, if the rule exists; the copy in the session stays what it was.
get_for_update(a) ==
  LET z == zahtev[a] IN
  /\ z.pc = "read"
  /\ z.kopija # None =>
       \A b \in Admin : ~(zahtev[b].pc = "locked" /\ zahtev[b].anketa = z.anketa
                            /\ zahtev[b].kopija # None)
  /\ zahtev' = [zahtev EXCEPT ![a] = IF no_milestone_conflict(z.anketa, z.payload)
                                       THEN [z EXCEPT !.pc = "locked"] ELSE Idle]
  /\ UNCHANGED <<pravila, izmene>> /\ UNCHANGED Business /\ UNCHANGED Others

\* (mutant) only the survey is unique
ux_survey_only(s, p, kopija) == kopija = None => pravila[s] = None

\* UX_ANKETA_AUTOMATIKA_ANKETA and UX_ANKETA_AUTOMATIKA_AKTIVNA_MILESTONE: what the
\* database lets in, whatever the request has checked before.
ux_rules(s, p, kopija) ==
  /\ kopija = None => pravila[s] = None
  /\ no_milestone_conflict(s, p)

\* The columns that differ from the copy; all of them if there was none.
written(z) ==
  IF z.kopija = None THEN z.payload
  ELSE [c \in {"dani", "rok", "aktivna"} |->
          IF z.payload[c] # z.kopija[c] THEN z.payload[c] ELSE pravila[z.anketa][c]]

\* Flush and commit, or a conflict (409) and a rollback.
upsert_commit(a) ==
  LET z == zahtev[a] IN
  /\ z.pc = "locked"
  /\ pravila' = IF ux_rules(z.anketa, written(z), z.kopija)
                  THEN [pravila EXCEPT ![z.anketa] = written(z)] ELSE pravila
  /\ zahtev' = [zahtev EXCEPT ![a] = Idle]
  /\ UNCHANGED izmene /\ UNCHANGED Business /\ UNCHANGED Others

-----------------------------------------------------------------------------
(* assign_due_surveys *)

Tables == <<pravila, ankete, korisnici, dan, zahtev, ispravljeni, izmene>>

\* A round begins: find_active_rules.
assign_due_surveys(w) ==
  /\ w \notin in_round /\ room
  /\ radnik' = [radnik EXCEPT ![w] =
       [Resting EXCEPT !.pc = "rules", !.danas = dan,
                       !.pravila = [s \in Anketa |-> IF s \in active_rules
                                                       THEN pravila[s] ELSE None]]]
  /\ UNCHANGED ucesca /\ UNCHANGED Tables

\* (mutant) an employee who has the survey is a candidate again
qualified_again(s, p, danas, u) ==
  /\ korisnici[u] # None
  /\ korisnici[u] + p.dani <= danas /\ danas < korisnici[u] + p.dani + p.rok

\* Employee u is due for survey s by its rule p today.
qualified(s, p, danas, u) ==
  /\ korisnici[u] # None
  /\ korisnici[u] + p.dani <= danas /\ danas < korisnici[u] + p.dani + p.rok
  /\ ~has(ucesca, s, u)

\* The date of an employee who was a candidate of the rule before is not read again:
\* he is still in the session.
in_session(r, u) == IF r.datumi[u] # None THEN r.datumi[u] ELSE korisnici[u]

\* The next rule: its survey and its candidates are read; the rule of a survey that is
\* not ACTIVE is passed over.
find_qualified_candidates(w, s) ==
  LET r == radnik[w]
      due == {u \in Korisnik : qualified(s, r.pravila[s], r.danas, u)} IN
  /\ r.pc = "rules"
  /\ r.pravila[s] # None
  /\ radnik' = [radnik EXCEPT ![w] =
       IF ankete[s]
         THEN [r EXCEPT !.pc = "insert", !.anketa = s, !.kandidati = due,
                 !.datumi = [u \in Korisnik |-> IF u \in due THEN in_session(r, u) ELSE None]]
         ELSE [r EXCEPT !.pravila[s] = None]]
  /\ UNCHANGED ucesca /\ UNCHANGED Tables

\* Another worker has inserted the same participation and not committed yet.
inserting(w, s, u) == \E v \in Worker \ {w} : has(radnik[v].nova, s, u)

\* (mutant) the window is that of the rule now in force
window_of_rule(r, u) ==
  LET p == pravila[r.anketa] IN
  [anketa |-> r.anketa, korisnik |-> u,
   od |-> r.datumi[u] + p.dani, do |-> r.datumi[u] + p.dani + p.rok]

\* DATUM_DOSTUPNOSTI and DATUM_ISTEKA, of the rule and the date as they were read.
window(r, u) ==
  LET p == r.pravila[r.anketa] IN
  [anketa |-> r.anketa, korisnik |-> u,
   od |-> r.datumi[u] + p.dani, do |-> r.datumi[u] + p.dani + p.rok]

\* The participation of one candidate and its event; the unique key (ANKETA_ID,
\* KORISNIK_ID) makes it wait for a twin, and the twin's commit rolls the round back.
add_ucesce(w, u) ==
  LET r == radnik[w] IN
  /\ r.pc = "insert"
  /\ u \in r.kandidati
  /\ ~inserting(w, r.anketa, u)
  /\ radnik' = [radnik EXCEPT ![w] =
       IF has(ucesca, r.anketa, u) THEN Resting
       ELSE [r EXCEPT !.kandidati = @ \ {u}, !.nova = @ \cup {window(r, u)}]]
  /\ UNCHANGED ucesca /\ UNCHANGED Tables

\* No candidate of this rule is left.
next_rule(w) ==
  LET r == radnik[w] IN
  /\ r.pc = "insert" /\ r.kandidati = {}
  /\ radnik' = [radnik EXCEPT ![w] = [r EXCEPT !.pc = "rules", !.anketa = None,
                                               !.pravila[r.anketa] = None]]
  /\ UNCHANGED ucesca /\ UNCHANGED Tables

\* The discovery commits, the participations and their events together.
commit(w) ==
  LET r == radnik[w] IN
  /\ r.pc = "rules" /\ r.pravila = NoRules
  /\ ucesca' = ucesca \cup r.nova
  /\ radnik' = [radnik EXCEPT ![w] = Resting]
  /\ UNCHANGED Tables

\* Something of the discovery raises, or the worker is stopped: nothing of it remains.
rollback(w) ==
  /\ w \in in_round
  /\ radnik' = [radnik EXCEPT ![w] = Failed]
  /\ UNCHANGED ucesca /\ UNCHANGED Tables

\* Two workers wait for each other's participations: the database rolls one back.
waits_for(w, v) ==
  /\ radnik[w].pc = "insert"
  /\ radnik[w].kandidati # {}
  /\ \A u \in radnik[w].kandidati : has(radnik[v].nova, radnik[w].anketa, u)

deadlock_detected(w) ==
  /\ \E v \in Worker \ {w} : waits_for(w, v) /\ waits_for(v, w)
  /\ radnik' = [radnik EXCEPT ![w] = Failed]
  /\ UNCHANGED ucesca /\ UNCHANGED Tables

-----------------------------------------------------------------------------
(* The rest of the system *)

Rest == <<pravila, ucesca, radnik, zahtev>>

\* The HR synchronisation: a new employee, a corrected date, a leaver.
synchronise(u, d) ==
  /\ izmene < MaxIzmena /\ izmene' = izmene + 1
  /\ d # korisnici[u]
  /\ korisnici' = [korisnici EXCEPT ![u] = d]
  /\ ispravljeni' = IF in_round # {}
                      THEN ispravljeni \cup {u} ELSE ispravljeni
  /\ UNCHANGED <<ankete, dan>> /\ UNCHANGED Rest

\* A survey is closed, by an administrator or at its end, or opened again.
survey_changes(s) ==
  /\ izmene < MaxIzmena /\ izmene' = izmene + 1
  /\ ankete' = [ankete EXCEPT ![s] = ~@]
  /\ UNCHANGED <<korisnici, dan, ispravljeni>> /\ UNCHANGED Rest

tick ==
  /\ \E d \in Dani : d > dan /\ dan' = d /\ \A e \in Dani : e <= dan \/ d <= e
  /\ UNCHANGED <<ankete, korisnici, ispravljeni, izmene>> /\ UNCHANGED Rest

-----------------------------------------------------------------------------

Round(w) ==
  \/ assign_due_surveys(w) \/ next_rule(w) \/ commit(w)
  \/ \E s \in Anketa : find_qualified_candidates(w, s)
  \/ \E u \in Korisnik : add_ucesce(w, u)
  \/ deadlock_detected(w)

Next ==
  \/ \E a \in Admin, s \in Anketa, p \in Pravilo : upsert(a, s, p)
  \/ \E a \in Admin : get_for_update(a) \/ upsert_commit(a)
  \/ \E w \in Worker : Round(w) \/ rollback(w)
  \/ \E u \in Korisnik, d \in Datumi \cup {None} : synchronise(u, d)
  \/ \E s \in Anketa : survey_changes(s)
  \/ tick

\* Workers run round after round, and requests end.
Fairness ==
  /\ \A w \in Worker : WF_vars(Round(w))
  /\ \A a \in Admin : WF_vars(get_for_update(a) \/ upsert_commit(a))

Spec == Init /\ [][Next]_vars /\ Fairness

-----------------------------------------------------------------------------

\* Every variable has its type.
TypeOK ==
  /\ dan \in Dani
  /\ pravila \in [Anketa -> Payload \cup {None}] /\ ankete \in [Anketa -> BOOLEAN]
  /\ korisnici \in [Korisnik -> Nat \cup {None}]
  /\ ucesca \subseteq Ucesce
  /\ radnik \in [Worker -> Radnik] /\ zahtev \in [Admin -> Zahtev]
  /\ ispravljeni \subseteq Korisnik /\ izmene \in Nat

\* Whatever becomes of the rule meanwhile, a survey is assigned on a day of the window
\* it is assigned for (find_qualified_candidates and assign_due_surveys agree on it),
\* unless the date of employment was corrected in mid-round.
AssignedInItsWindow ==
  \A w \in Worker : \A x \in radnik[w].nova :
    x.korisnik \notin ispravljeni => x.od <= radnik[w].danas /\ radnik[w].danas < x.do

\* Overlapping workers never give an employee a survey twice.
AssignedOnce ==
  \A x, y \in ucesca : x.anketa = y.anketa /\ x.korisnik = y.korisnik => x = y

\* Two overlapping administrators never leave two active rules for a milestone.
OneRulePerMilestone ==
  \A r, s \in active_rules : pravila[r].dani = pravila[s].dani => r = s

\* What holds of rules and participations, whichever rounds and administrators overlap.
AssignmentInv == TypeOK /\ AssignedInItsWindow /\ AssignedOnce /\ OneRulePerMilestone

(* Why they hold: the inductive invariant. *)

\* Outside its rounds a worker holds nothing.
AtRest(r) == r.pc \in {"idle", "failed"} => r.nova = {} /\ r.datumi = Nobody

\* The dates of a round are those in force, unless they were corrected meanwhile; the
\* window of whoever is left of the rule at work is open.
DatesFit(r) ==
  /\ \A u \in Korisnik \ ispravljeni : r.datumi[u] # None => r.datumi[u] = korisnici[u]
  /\ r.pc = "insert" =>
       /\ r.anketa # None /\ r.pravila[r.anketa] # None
       /\ \A u \in r.kandidati :
            /\ r.datumi[u] # None
            /\ u \notin ispravljeni =>
                 window(r, u).od <= r.danas /\ r.danas < window(r, u).do

\* A round inserts for rules it is through with, and for who is no candidate any more.
InsertedOnce(r) ==
  /\ \A x, y \in r.nova : x.anketa = y.anketa /\ x.korisnik = y.korisnik => x = y
  /\ \A x \in r.nova :
       r.pravila[x.anketa] # None =>
         r.pc = "insert" /\ x.anketa = r.anketa /\ x.korisnik \notin r.kandidati

RoundFits == \A w \in Worker : AtRest(radnik[w]) /\ DatesFit(radnik[w]) /\ InsertedOnce(radnik[w])

\* Nobody inserts what is committed, or what another worker inserts.
NovelToAll ==
  \A w \in Worker : \A x \in radnik[w].nova :
    ~has(ucesca, x.anketa, x.korisnik) /\ ~inserting(w, x.anketa, x.korisnik)

\* A rule that was read is there: rules are never deleted.
RulesStay ==
  \A a \in Admin : zahtev[a].pc # "idle" =>
    /\ zahtev[a].anketa # None /\ zahtev[a].payload # None
    /\ zahtev[a].kopija # None => pravila[zahtev[a].anketa] # None

IInv == AssignmentInv /\ RoundFits /\ NovelToAll /\ RulesStay

\* The survey is active, its rule too, and today is in the employee's window.
due(s, u) ==
  /\ s \in active_rules /\ ankete[s]
  /\ korisnici[u] # None
  /\ dan - korisnici[u] \in pravila[s].dani .. pravila[s].dani + pravila[s].rok - 1
  /\ ~has(ucesca, s, u)

\* Who is due for a survey and stays so is given it: neither a twin of another worker nor
\* a colleague who has it already nor a change of rules keeps the batch from getting
\* there, if rounds do not fail for ever.
DueIsAssigned ==
  <>[](\A w \in Worker : radnik[w].pc # "failed") =>
    \A s \in Anketa, u \in Korisnik : [](due(s, u) => <>~due(s, u))
=============================================================================
