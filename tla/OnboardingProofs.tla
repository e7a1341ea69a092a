-------------------------- MODULE OnboardingProofs --------------------------
(***************************************************************************)
(* Proofs about OnboardingAssignment, for all surveys, employees, rules,   *)
(* workers and administrators, and about OnboardingDocuments, for all      *)
(* documents, contents, requests and readers.                              *)
(*                                                                         *)
(* A round inserts what it found due by the rule and the date as it read   *)
(* them (DatesFit); the unique key keeps rounds apart (NovelToAll).        *)
(* A request for a document commits on the row it read (HeldIsCurrent).    *)
(***************************************************************************)
EXTENDS OnboardingAssignment, EmployeeDocuments, TLAPS

-----------------------------------------------------------------------------
(* Types *)

LEMMA NoneApart ==
  None \notin Nat /\ None \notin Anketa /\ None \notin Payload
BY ConstantsAssumption DEF Payload

\* The fields of a rule are numbers.
LEMMA PayloadNumbers ==
  /\ \A p \in Payload : p.dani \in Nat /\ p.rok \in Nat \ {0} /\ p.aktivna \in BOOLEAN
  /\ Pravilo \subseteq Payload
BY ConstantsAssumption DEF Payload

LEMMA RestTypes ==
  /\ Nobody \in [Korisnik -> Nat \cup {None}] /\ NoRules \in [Anketa -> Payload \cup {None}]
  /\ Resting \in Radnik /\ Failed \in Radnik
  /\ Resting.pc = "idle" /\ Failed.pc = "failed"
  /\ Resting.nova = {} /\ Failed.nova = {}
  /\ Resting.datumi = Nobody /\ Failed.datumi = Nobody
  /\ Idle \in Zahtev
BY DEF Nobody, NoRules, Resting, Failed, Radnik, Idle, Zahtev

\* What a request writes is a rule.
LEMMA WrittenType ==
  ASSUME NEW z \in Zahtev, z.payload # None, z.kopija # None => pravila[z.anketa] \in Payload
  PROVE  written(z) \in Payload
<1>1. CASE z.kopija = None BY <1>1 DEF written, Zahtev
<1>2. CASE z.kopija # None
  <2>1. z.payload \in Payload /\ pravila[z.anketa] \in Payload BY <1>2 DEF Zahtev
  <2>2. written(z) = [c \in {"dani", "rok", "aktivna"} |->
          IF z.payload[c] # z.kopija[c] THEN z.payload[c] ELSE pravila[z.anketa][c]]
    BY <1>2 DEF written
  <2> DEFINE f(c) == IF z.payload[c] # z.kopija[c] THEN z.payload[c] ELSE pravila[z.anketa][c]
  <2>3. [c \in {"dani", "rok", "aktivna"} |-> f(c)]
          = [dani |-> f("dani"), rok |-> f("rok"), aktivna |-> f("aktivna")]
    OBVIOUS
  <2>4. f("dani") \in {p.dani : p \in Pravilo} /\ f("rok") \in {p.rok : p \in Pravilo}
        /\ f("aktivna") \in BOOLEAN
    BY <2>1 DEF Payload
  <2> HIDE DEF f
  <2>5. [dani |-> f("dani"), rok |-> f("rok"), aktivna |-> f("aktivna")] \in Payload
    BY <2>4 DEF Payload
  <2> QED BY <2>2, <2>3, <2>5 DEF f
<1> QED BY <1>1, <1>2

-----------------------------------------------------------------------------
(* Rules *)

\* A step that leaves the rules and the requests alone.
LEMMA RulesKept ==
  ASSUME IInv, UNCHANGED <<pravila, zahtev>>
  PROVE  RulesStay' /\ OneRulePerMilestone'
BY DEF IInv, AssignmentInv, RulesStay, OneRulePerMilestone, active_rules

\* A step that leaves the rounds, what they inserted and the dates alone.
LEMMA RoundsKept ==
  ASSUME IInv, UNCHANGED <<radnik, ucesca, korisnici, ispravljeni>>
  PROVE  RoundFits' /\ NovelToAll' /\ AssignedInItsWindow' /\ AssignedOnce'
BY DEF IInv, AssignmentInv, RoundFits, AtRest, DatesFit, InsertedOnce, NovelToAll, inserting,
       AssignedInItsWindow, AssignedOnce

LEMMA UpsertKeeps ==
  ASSUME IInv, NEW a \in Admin,
         \/ \E s \in Anketa, p \in Pravilo : upsert(a, s, p)
         \/ get_for_update(a) \/ upsert_commit(a)
  PROVE  IInv'
<1>0. /\ TypeOK /\ RulesStay /\ OneRulePerMilestone /\ zahtev[a] \in Zahtev
      /\ pravila \in [Anketa -> Payload \cup {None}] /\ zahtev \in [Admin -> Zahtev]
  BY DEF IInv, AssignmentInv, TypeOK
<1>1. UNCHANGED <<radnik, ucesca, korisnici, ispravljeni, ankete, dan>>
  BY DEF upsert, get_for_update, upsert_commit, Business, Others
<1>2. RoundFits' /\ NovelToAll' /\ AssignedInItsWindow' /\ AssignedOnce'
  BY <1>1, RoundsKept
<1>3. ASSUME pravila' \in [Anketa -> Payload \cup {None}], zahtev' \in [Admin -> Zahtev], izmene' \in Nat,
             RulesStay', OneRulePerMilestone'
      PROVE  IInv'
  BY <1>0, <1>1, <1>2, <1>3 DEF IInv, AssignmentInv, TypeOK
<1>4. ASSUME NEW s \in Anketa, NEW p \in Pravilo, upsert(a, s, p) PROVE IInv'
  <2> DEFINE z == [pc |-> "read", anketa |-> s, payload |-> p, kopija |-> pravila[s]]
  <2>1. z \in Zahtev BY <1>0, PayloadNumbers DEF Zahtev
  <2>2. z.anketa = s /\ z.payload = p /\ z.kopija = pravila[s] /\ p # None
    BY PayloadNumbers, NoneApart
  <2>3. zahtev' = [zahtev EXCEPT ![a] = z] /\ pravila' = pravila /\ izmene' \in Nat
    BY <1>0, <1>4 DEF upsert, TypeOK
  <2> HIDE DEF z
  <2>4. zahtev' \in [Admin -> Zahtev] /\ zahtev'[a] = z /\ \A b \in Admin \ {a} : zahtev'[b] = zahtev[b]
    BY <1>0, <2>1, <2>3
  <2>5. RulesStay' BY <1>0, <2>2, <2>3, <2>4, NoneApart DEF RulesStay
  <2>6. OneRulePerMilestone' BY <1>0, <2>3 DEF OneRulePerMilestone, active_rules
  <2> QED BY <1>0, <1>3, <2>3, <2>4, <2>5, <2>6
<1>5. ASSUME get_for_update(a) PROVE IInv'
  <2> DEFINE z == IF no_milestone_conflict(zahtev[a].anketa, zahtev[a].payload)
                    THEN [zahtev[a] EXCEPT !.pc = "locked"] ELSE Idle
  <2>1. /\ zahtev' = [zahtev EXCEPT ![a] = z] /\ pravila' = pravila /\ izmene' \in Nat
        /\ zahtev[a].pc = "read"
    BY <1>0, <1>5 DEF get_for_update, TypeOK
  <2>2. z \in Zahtev BY <1>0, RestTypes DEF Zahtev
  <2>3. z.pc # "idle" => z.anketa = zahtev[a].anketa /\ z.payload = zahtev[a].payload
                           /\ z.kopija = zahtev[a].kopija
    BY <1>0 DEF Zahtev, Idle
  <2> HIDE DEF z
  <2>4. zahtev' \in [Admin -> Zahtev] /\ zahtev'[a] = z /\ \A b \in Admin \ {a} : zahtev'[b] = zahtev[b]
    BY <1>0, <2>1, <2>2
  <2>5. RulesStay' BY <1>0, <2>1, <2>3, <2>4 DEF RulesStay
  <2>6. OneRulePerMilestone' BY <1>0, <2>1 DEF OneRulePerMilestone, active_rules
  <2> QED BY <1>0, <1>3, <2>1, <2>4, <2>5, <2>6
<1>6. ASSUME upsert_commit(a) PROVE IInv'
  <2> DEFINE z == zahtev[a]
             w == written(z)
  <2>1. /\ z \in Zahtev /\ z.anketa \in Anketa /\ z.payload # None
        /\ z.kopija # None => pravila[z.anketa] \in Payload
    BY <1>0, <1>6 DEF upsert_commit, RulesStay, Zahtev
  <2>2. w \in Payload BY <2>1, WrittenType
  <2>3. /\ pravila' = IF ux_rules(z.anketa, w, z.kopija) THEN [pravila EXCEPT ![z.anketa] = w] ELSE pravila
        /\ zahtev' = [zahtev EXCEPT ![a] = Idle] /\ izmene' \in Nat
    BY <1>0, <1>6 DEF upsert_commit, TypeOK
  <2> HIDE DEF w, z
  <2>4. zahtev' \in [Admin -> Zahtev] /\ zahtev'[a] = Idle /\ \A b \in Admin \ {a} : zahtev'[b] = zahtev[b]
    BY <1>0, <2>3, RestTypes
  <2>5. CASE ~ux_rules(z.anketa, w, z.kopija)
    <3>1. pravila' = pravila BY <2>3, <2>5
    <3>2. RulesStay' BY <1>0, <2>4, <3>1 DEF RulesStay, Idle
    <3>3. OneRulePerMilestone' BY <1>0, <3>1 DEF OneRulePerMilestone, active_rules
    <3> QED BY <1>0, <1>3, <2>3, <2>4, <3>1, <3>2, <3>3
  <2>6. CASE ux_rules(z.anketa, w, z.kopija)
    <3>1. /\ pravila' \in [Anketa -> Payload \cup {None}] /\ pravila'[z.anketa] = w
          /\ \A s \in Anketa \ {z.anketa} : pravila'[s] = pravila[s]
      BY <1>0, <2>1, <2>2, <2>3, <2>6
    <3>2. RulesStay'
      BY <1>0, <2>2, <2>4, <3>1, NoneApart DEF RulesStay, Zahtev, Idle
    <3>3. w.aktivna => \A r \in active_rules \ {z.anketa} : pravila[r].dani # w.dani
      BY <2>6 DEF ux_rules, no_milestone_conflict
    <3>4. OneRulePerMilestone'
      BY <1>0, <3>1, <3>3 DEF OneRulePerMilestone, active_rules
    <3> QED BY <1>3, <2>3, <2>4, <3>1, <3>2, <3>4
  <2> QED BY <2>5, <2>6
<1> QED BY <1>4, <1>5, <1>6

-----------------------------------------------------------------------------
(* Rounds *)

\* What is asked of what a round has inserted.
InWindow(r) == \A x \in r.nova : x.korisnik \notin ispravljeni => x.od <= r.danas /\ r.danas < x.do

\* A worker moves on, and what it has inserted is still new to all.
LEMMA RoundMoves ==
  ASSUME IInv, NEW w \in Worker, NEW r \in Radnik, radnik' = [radnik EXCEPT ![w] = r],
         UNCHANGED ucesca, UNCHANGED Tables,
         AtRest(r), DatesFit(r), InsertedOnce(r), InWindow(r),
         \A x \in r.nova : ~has(ucesca, x.anketa, x.korisnik) /\ ~inserting(w, x.anketa, x.korisnik)
  PROVE  IInv'
<1>1. /\ radnik' \in [Worker -> Radnik] /\ radnik'[w] = r
      /\ \A v \in Worker \ {w} : radnik'[v] = radnik[v]
  BY DEF IInv, AssignmentInv, TypeOK
<1>2. TypeOK' BY <1>1 DEF IInv, AssignmentInv, TypeOK, Tables
<1>3. RulesStay' /\ OneRulePerMilestone' BY RulesKept DEF Tables
<1>4. korisnici' = korisnici /\ ispravljeni' = ispravljeni /\ ucesca' = ucesca BY DEF Tables
<1>5. RoundFits'
  <2>1. \A v \in Worker : AtRest(radnik[v]) /\ DatesFit(radnik[v]) /\ InsertedOnce(radnik[v])
    BY DEF IInv, RoundFits
  <2>2. \A v \in Worker : AtRest(radnik'[v]) /\ DatesFit(radnik'[v]) /\ InsertedOnce(radnik'[v])
    BY <1>1, <2>1
  <2> QED BY <1>4, <2>2 DEF RoundFits, AtRest, DatesFit, InsertedOnce
<1>6. AssignedInItsWindow' /\ AssignedOnce'
  BY <1>1, <1>4 DEF IInv, AssignmentInv, AssignedInItsWindow, AssignedOnce, InWindow
<1>7. NovelToAll'
  <2> SUFFICES ASSUME NEW v \in Worker, NEW x \in radnik'[v].nova
               PROVE  /\ ~has(ucesca, x.anketa, x.korisnik)
                      /\ \A o \in Worker \ {v} : ~has(radnik'[o].nova, x.anketa, x.korisnik)
    BY <1>4 DEF NovelToAll, inserting, has
  <2>1. \A y, o : o \in Worker /\ y \in radnik[o].nova =>
          /\ ~has(ucesca, y.anketa, y.korisnik)
          /\ \A q \in Worker \ {o} : ~has(radnik[q].nova, y.anketa, y.korisnik)
    BY DEF IInv, NovelToAll, inserting
  <2>2. \A y \in r.nova : \A q \in Worker \ {w} : ~has(radnik[q].nova, y.anketa, y.korisnik)
    BY DEF inserting
  <2>3. CASE v = w BY <1>1, <2>2, <2>3
  <2>4. CASE v # w
    <3>1. x \in radnik[v].nova BY <1>1, <2>4
    <3>2. ~has(r.nova, x.anketa, x.korisnik)
      <4> SUFFICES ASSUME NEW y \in r.nova, y.anketa = x.anketa, y.korisnik = x.korisnik PROVE FALSE
        BY DEF has
      <4>1. ~has(radnik[v].nova, y.anketa, y.korisnik) BY <2>2, <2>4
      <4> QED BY <3>1, <4>1 DEF has
    <3> QED BY <1>1, <2>1, <2>4, <3>1, <3>2
  <2> QED BY <2>3, <2>4
<1> QED BY <1>2, <1>3, <1>5, <1>6, <1>7 DEF IInv, AssignmentInv

\* A worker that holds nothing.
LEMMA EmptyFits ==
  ASSUME NEW r \in Radnik, r.nova = {}, r.datumi = Nobody, r.pc # "insert"
  PROVE  AtRest(r) /\ DatesFit(r) /\ InsertedOnce(r) /\ InWindow(r)
BY DEF AtRest, DatesFit, InsertedOnce, InWindow, Nobody

LEMMA WorkerRests ==
  ASSUME IInv, NEW w \in Worker, NEW r \in {Resting, Failed}, radnik' = [radnik EXCEPT ![w] = r],
         UNCHANGED ucesca, UNCHANGED Tables
  PROVE  IInv'
<1>1. r \in Radnik /\ r.nova = {} /\ r.datumi = Nobody /\ r.pc # "insert" BY RestTypes
<1> QED BY <1>1, EmptyFits, RoundMoves

LEMMA RoundBegins ==
  ASSUME IInv, NEW w \in Worker, assign_due_surveys(w)
  PROVE  IInv'
<1> PICK rules \in [Anketa -> Payload \cup {None}] :
      rules = [s \in Anketa |-> IF s \in active_rules THEN pravila[s] ELSE None]
  BY DEF IInv, AssignmentInv, TypeOK
<1> DEFINE r == [Resting EXCEPT !.pc = "rules", !.danas = dan, !.pravila = rules]
<1>1. dan \in Nat BY ConstantsAssumption DEF IInv, AssignmentInv, TypeOK
<1>2. r \in Radnik BY <1>1, RestTypes DEF Radnik
<1>3. r.nova = {} /\ r.datumi = Nobody /\ r.pc # "insert" BY DEF Resting
<1>4. radnik' = [radnik EXCEPT ![w] = r] /\ UNCHANGED ucesca /\ UNCHANGED Tables
  BY DEF assign_due_surveys
<1> HIDE DEF r
<1> QED BY <1>2, <1>3, <1>4, EmptyFits, RoundMoves

\* What IInv says of one worker.
LEMMA OneRound ==
  ASSUME IInv, NEW w \in Worker
  PROVE  /\ radnik[w] \in Radnik
         /\ AtRest(radnik[w]) /\ DatesFit(radnik[w]) /\ InsertedOnce(radnik[w]) /\ InWindow(radnik[w])
         /\ \A x \in radnik[w].nova :
              ~has(ucesca, x.anketa, x.korisnik) /\ ~inserting(w, x.anketa, x.korisnik)
BY DEF IInv, AssignmentInv, TypeOK, RoundFits, AssignedInItsWindow, InWindow, NovelToAll

LEMMA CandidatesFound ==
  ASSUME IInv, NEW w \in Worker, NEW s \in Anketa, find_qualified_candidates(w, s)
  PROVE  IInv'
<1> PICK r \in Radnik : r = radnik[w] BY OneRound
<1> DEFINE toDo == {u \in Korisnik : qualified(s, r.pravila[s], r.danas, u)}
           dates == [u \in Korisnik |-> IF u \in toDo THEN in_session(r, u) ELSE None]
           y == [r EXCEPT !.pc = "insert", !.anketa = s, !.kandidati = toDo, !.datumi = dates]
           n == [r EXCEPT !.pravila[s] = None]
<1>1. /\ r.pc = "rules" /\ r.pravila[s] # None /\ UNCHANGED ucesca /\ UNCHANGED Tables
      /\ radnik' = [radnik EXCEPT ![w] = IF ankete[s] THEN y ELSE n]
  BY DEF find_qualified_candidates
<1>2. /\ AtRest(r) /\ DatesFit(r) /\ InsertedOnce(r) /\ InWindow(r)
      /\ \A x \in r.nova : ~has(ucesca, x.anketa, x.korisnik) /\ ~inserting(w, x.anketa, x.korisnik)
  BY OneRound
<1>3. r.pravila \in [Anketa -> Payload \cup {None}] /\ r.datumi \in [Korisnik -> Nat \cup {None}]
      /\ r.nova \subseteq Ucesce /\ korisnici \in [Korisnik -> Nat \cup {None}] /\ r.danas \in Nat
  BY DEF IInv, AssignmentInv, TypeOK, Radnik
<1>4. CASE ~ankete[s]
  <2>1. /\ n \in Radnik /\ n.pc = "rules" /\ n.nova = r.nova /\ n.danas = r.danas /\ n.datumi = r.datumi
        /\ \A q \in Anketa : n.pravila[q] # None => r.pravila[q] # None
    BY <1>1, <1>3 DEF Radnik
  <2>2. radnik' = [radnik EXCEPT ![w] = n] BY <1>1, <1>4
  <2>3. \A x \in r.nova : x.anketa \in Anketa BY <1>3 DEF Ucesce
  <2> HIDE DEF n
  <2>4. AtRest(n) /\ InWindow(n) BY <1>2, <2>1 DEF AtRest, InWindow
  <2>5. DatesFit(n) BY <1>2, <2>1 DEF DatesFit
  <2>6. InsertedOnce(n) BY <1>1, <1>2, <2>1, <2>3 DEF InsertedOnce
  <2> QED BY <1>1, <1>2, <2>1, <2>2, <2>4, <2>5, <2>6, RoundMoves
<1>5. CASE ankete[s]
  <2>1. \A u \in toDo : in_session(r, u) \in Nat
    BY <1>3 DEF qualified, in_session
  <2>2. toDo \subseteq Korisnik /\ dates \in [Korisnik -> Nat \cup {None}]
        /\ \A u \in Korisnik : dates[u] = IF u \in toDo THEN in_session(r, u) ELSE None
    BY <2>1
  <2>3. \A u \in Korisnik \ ispravljeni : dates[u] # None => dates[u] = korisnici[u]
    BY <1>2, <2>2 DEF DatesFit, in_session
  <2>4. \A u \in toDo : /\ dates[u] # None
                        /\ u \notin ispravljeni =>
                             /\ korisnici[u] + r.pravila[s].dani <= r.danas
                             /\ r.danas < korisnici[u] + r.pravila[s].dani + r.pravila[s].rok
    BY <2>1, <2>2, NoneApart DEF qualified
  <2> HIDE DEF toDo, dates
  <2>5. /\ y \in Radnik /\ y.pc = "insert" /\ y.anketa = s /\ y.kandidati = toDo /\ y.datumi = dates
        /\ y.nova = r.nova /\ y.danas = r.danas /\ y.pravila = r.pravila
    BY <2>2 DEF Radnik
  <2>6. radnik' = [radnik EXCEPT ![w] = y] BY <1>1, <1>5
  <2> HIDE DEF y
  <2>7. AtRest(y) /\ InWindow(y) BY <1>2, <2>5 DEF AtRest, InWindow
  <2>8. \A u \in Korisnik : /\ window(y, u).od = dates[u] + r.pravila[s].dani
                            /\ window(y, u).do = dates[u] + r.pravila[s].dani + r.pravila[s].rok
    BY <2>5 DEF window
  <2>9. DatesFit(y)
    <3>1. ASSUME NEW u \in toDo, u \notin ispravljeni
          PROVE  window(y, u).od <= y.danas /\ y.danas < window(y, u).do
      <4>1. dates[u] = korisnici[u] /\ u \in Korisnik BY <2>2, <2>3, <2>4, <3>1
      <4> QED BY <2>4, <2>5, <2>8, <3>1, <4>1
    <3> QED BY <1>1, <2>3, <2>4, <2>5, <3>1, NoneApart DEF DatesFit
  <2>10. InsertedOnce(y) BY <1>1, <1>2, <2>5 DEF InsertedOnce
  <2> QED BY <1>1, <1>2, <2>5, <2>6, <2>7, <2>9, <2>10, RoundMoves
<1> QED BY <1>4, <1>5

LEMMA CandidateInserted ==
  ASSUME IInv, NEW w \in Worker, NEW u \in Korisnik, add_ucesce(w, u)
  PROVE  IInv'
<1> PICK r \in Radnik : r = radnik[w] BY OneRound
<1> DEFINE x == window(r, u)
           y == [r EXCEPT !.kandidati = @ \ {u}, !.nova = @ \cup {x}]
<1>1. /\ r.pc = "insert" /\ u \in r.kandidati /\ ~inserting(w, r.anketa, u)
      /\ UNCHANGED ucesca /\ UNCHANGED Tables
      /\ radnik' = [radnik EXCEPT ![w] = IF has(ucesca, r.anketa, u) THEN Resting ELSE y]
  BY DEF add_ucesce
<1>2. /\ AtRest(r) /\ DatesFit(r) /\ InsertedOnce(r) /\ InWindow(r)
      /\ \A o \in r.nova : ~has(ucesca, o.anketa, o.korisnik) /\ ~inserting(w, o.anketa, o.korisnik)
  BY OneRound
<1>3. /\ r.pravila[r.anketa] \in Payload /\ r.anketa \in Anketa /\ r.datumi[u] \in Nat
      /\ u \notin ispravljeni => x.od <= r.danas /\ r.danas < x.do
  BY <1>1, <1>2, NoneApart DEF DatesFit, Radnik
<1>4. x.anketa = r.anketa /\ x.korisnik = u /\ x \in Ucesce
  <2>1. r.datumi[u] + r.pravila[r.anketa].dani \in Nat
        /\ r.datumi[u] + r.pravila[r.anketa].dani + r.pravila[r.anketa].rok \in Nat
    BY <1>3, PayloadNumbers
  <2> QED BY <1>3, <2>1 DEF window, Ucesce
<1> HIDE DEF x
<1>5. CASE has(ucesca, r.anketa, u)
  <2>1. radnik' = [radnik EXCEPT ![w] = Resting] BY <1>1, <1>5
  <2> QED BY <1>1, <2>1, WorkerRests
<1>6. CASE ~has(ucesca, r.anketa, u)
  <2>1. /\ y \in Radnik /\ y.pc = "insert" /\ y.anketa = r.anketa /\ y.kandidati = r.kandidati \ {u}
        /\ y.datumi = r.datumi /\ y.nova = r.nova \cup {x} /\ y.danas = r.danas /\ y.pravila = r.pravila
    BY <1>1, <1>4 DEF Radnik
  <2>2. radnik' = [radnik EXCEPT ![w] = y] BY <1>1, <1>6
  <2> HIDE DEF y
  <2>3. AtRest(y) BY <2>1 DEF AtRest
  <2>4. InWindow(y) BY <1>2, <1>3, <1>4, <2>1 DEF InWindow
  <2>5. \A k : window(y, k) = window(r, k) BY <2>1 DEF window
  <2>6. DatesFit(y)
    <3>1. ASSUME NEW k \in y.kandidati
          PROVE  /\ y.datumi[k] # None
                 /\ k \notin ispravljeni => window(y, k).od <= y.danas /\ y.danas < window(y, k).do
      <4>1. k \in r.kandidati /\ window(y, k) = window(r, k) BY <2>1, <2>5
      <4>2. /\ r.datumi[k] # None
            /\ k \notin ispravljeni => window(r, k).od <= r.danas /\ r.danas < window(r, k).do
        BY <1>1, <1>2, <4>1 DEF DatesFit
      <4> QED BY <2>1, <4>1, <4>2
    <3> QED BY <1>1, <1>2, <2>1, <3>1 DEF DatesFit
  <2>7. InsertedOnce(y)
    <3>1. \A o \in r.nova : ~(o.anketa = x.anketa /\ o.korisnik = x.korisnik)
      BY <1>1, <1>2, <1>3, <1>4, NoneApart DEF InsertedOnce
    <3>2. \A o, q \in y.nova : o.anketa = q.anketa /\ o.korisnik = q.korisnik => o = q
      BY <1>2, <2>1, <3>1 DEF InsertedOnce
    <3>3. \A o \in y.nova : y.pravila[o.anketa] # None =>
            y.pc = "insert" /\ o.anketa = y.anketa /\ o.korisnik \notin y.kandidati
      BY <1>2, <1>4, <2>1 DEF InsertedOnce
    <3> QED BY <3>2, <3>3 DEF InsertedOnce
  <2>8. \A o \in y.nova : ~has(ucesca, o.anketa, o.korisnik) /\ ~inserting(w, o.anketa, o.korisnik)
    BY <1>1, <1>2, <1>4, <1>6, <2>1
  <2> QED BY <1>1, <2>1, <2>2, <2>3, <2>4, <2>6, <2>7, <2>8, RoundMoves
<1> QED BY <1>5, <1>6

LEMMA RuleDone ==
  ASSUME IInv, NEW w \in Worker, next_rule(w)
  PROVE  IInv'
<1> PICK r \in Radnik : r = radnik[w] BY OneRound
<1> DEFINE y == [r EXCEPT !.pc = "rules", !.anketa = None, !.pravila[r.anketa] = None]
<1>1. /\ r.pc = "insert" /\ r.kandidati = {} /\ UNCHANGED ucesca /\ UNCHANGED Tables
      /\ radnik' = [radnik EXCEPT ![w] = y]
  BY DEF next_rule
<1>2. /\ AtRest(r) /\ DatesFit(r) /\ InsertedOnce(r) /\ InWindow(r)
      /\ \A o \in r.nova : ~has(ucesca, o.anketa, o.korisnik) /\ ~inserting(w, o.anketa, o.korisnik)
  BY OneRound
<1>3. r.anketa \in Anketa /\ r.nova \subseteq Ucesce /\ r.pravila \in [Anketa -> Payload \cup {None}]
  BY <1>1, <1>2 DEF DatesFit, Radnik
<1>4. /\ y \in Radnik /\ y.pc = "rules" /\ y.nova = r.nova /\ y.danas = r.danas /\ y.datumi = r.datumi
      /\ y.pravila[r.anketa] = None /\ \A s \in Anketa \ {r.anketa} : y.pravila[s] = r.pravila[s]
  BY <1>3 DEF Radnik
<1> HIDE DEF y
<1>5. AtRest(y) /\ InWindow(y) BY <1>2, <1>4 DEF AtRest, InWindow
<1>6. DatesFit(y)
  <2>1. y.pc # "insert" BY <1>4
  <2> QED BY <1>2, <1>4, <2>1 DEF DatesFit
<1>7. InsertedOnce(y)
  <2>1. \A o \in r.nova : y.pravila[o.anketa] = None
    BY <1>2, <1>3, <1>4 DEF InsertedOnce, Ucesce
  <2> QED BY <1>2, <1>4, <2>1 DEF InsertedOnce
<1> QED BY <1>1, <1>2, <1>4, <1>5, <1>6, <1>7, RoundMoves

LEMMA RoundCommits ==
  ASSUME IInv, NEW w \in Worker, commit(w)
  PROVE  IInv'
<1> PICK r \in Radnik : r = radnik[w] BY OneRound
<1>1. /\ ucesca' = ucesca \cup r.nova /\ radnik' = [radnik EXCEPT ![w] = Resting] /\ UNCHANGED Tables
  BY DEF commit
<1>2. /\ InsertedOnce(r)
      /\ \A o \in r.nova : ~has(ucesca, o.anketa, o.korisnik) /\ ~inserting(w, o.anketa, o.korisnik)
  BY OneRound
<1>3. /\ radnik' \in [Worker -> Radnik] /\ radnik'[w] = Resting
      /\ \A v \in Worker \ {w} : radnik'[v] = radnik[v]
  BY <1>1, RestTypes DEF IInv, AssignmentInv, TypeOK
<1>4. TypeOK'
  <2>1. ucesca' \subseteq Ucesce BY <1>1 DEF IInv, AssignmentInv, TypeOK, Radnik
  <2> QED BY <1>1, <1>3, <2>1 DEF IInv, AssignmentInv, TypeOK, Tables
<1>5. RulesStay' /\ OneRulePerMilestone' BY <1>1, RulesKept DEF Tables
<1>6. korisnici' = korisnici /\ ispravljeni' = ispravljeni BY <1>1 DEF Tables
<1>7. \A v \in Worker : radnik'[v].nova = IF v = w THEN {} ELSE radnik[v].nova BY <1>3, RestTypes
<1>8. RoundFits'
  <2>1. AtRest(Resting) /\ DatesFit(Resting) /\ InsertedOnce(Resting) BY RestTypes, EmptyFits
  <2>2. \A v \in Worker : AtRest(radnik'[v]) /\ DatesFit(radnik'[v]) /\ InsertedOnce(radnik'[v])
    BY <1>3, <2>1 DEF IInv, RoundFits
  <2> QED BY <1>6, <2>2 DEF RoundFits, AtRest, DatesFit, InsertedOnce
<1>9. AssignedInItsWindow'
  BY <1>3, <1>6, <1>7 DEF IInv, AssignmentInv, AssignedInItsWindow
<1>10. AssignedOnce'
  BY <1>1, <1>2 DEF IInv, AssignmentInv, AssignedOnce, InsertedOnce, has
<1>11. NovelToAll'
  <2> SUFFICES ASSUME NEW v \in Worker, NEW x \in radnik'[v].nova
               PROVE  /\ ~has(ucesca', x.anketa, x.korisnik)
                      /\ \A o \in Worker \ {v} : ~has(radnik'[o].nova, x.anketa, x.korisnik)
    BY DEF NovelToAll, inserting, has
  <2>1. v # w /\ x \in radnik[v].nova BY <1>7
  <2>2. /\ ~has(ucesca, x.anketa, x.korisnik)
        /\ \A o \in Worker \ {v} : ~has(radnik[o].nova, x.anketa, x.korisnik)
    BY <2>1 DEF IInv, NovelToAll, inserting
  <2>3. ~has(r.nova, x.anketa, x.korisnik) BY <2>1, <2>2
  <2> QED BY <1>1, <1>7, <2>2, <2>3 DEF has
<1> QED BY <1>4, <1>5, <1>8, <1>9, <1>10, <1>11 DEF IInv, AssignmentInv

LEMMA WorkerKeeps ==
  ASSUME IInv, NEW w \in Worker, Round(w) \/ rollback(w)
  PROVE  IInv'
<1>1. rollback(w) => IInv' BY WorkerRests DEF rollback
<1>2. deadlock_detected(w) => IInv' BY WorkerRests DEF deadlock_detected
<1> QED BY <1>1, <1>2, RoundBegins, CandidatesFound, CandidateInserted, RuleDone, RoundCommits DEF Round

-----------------------------------------------------------------------------
(* The theorem *)

\* A corrected date is remembered while a round goes on; otherwise no round holds one.
LEMMA SynchroniseKeeps ==
  ASSUME IInv, NEW u \in Korisnik, NEW d \in Datumi \cup {None}, synchronise(u, d)
  PROVE  IInv'
<1>1. /\ korisnici' = [korisnici EXCEPT ![u] = d] /\ izmene' = izmene + 1
      /\ ispravljeni' = IF in_round # {} THEN ispravljeni \cup {u} ELSE ispravljeni
      /\ UNCHANGED <<ankete, dan, pravila, ucesca, radnik, zahtev>>
  BY DEF synchronise, Rest
<1>2. korisnici' \in [Korisnik -> Nat \cup {None}]
      /\ \A v \in Korisnik \ {u} : korisnici'[v] = korisnici[v]
  BY <1>1, ConstantsAssumption DEF IInv, AssignmentInv, TypeOK
<1>3. TypeOK' BY <1>1, <1>2 DEF IInv, AssignmentInv, TypeOK
<1>4. RulesStay' /\ OneRulePerMilestone' BY <1>1, RulesKept
<1>5. AssignedOnce' /\ NovelToAll'
  BY <1>1 DEF IInv, AssignmentInv, AssignedOnce, NovelToAll, inserting
<1>6. AssignedInItsWindow'
  BY <1>1 DEF IInv, AssignmentInv, AssignedInItsWindow
<1>7. RoundFits'
  <2> SUFFICES ASSUME NEW w \in Worker PROVE DatesFit(radnik[w])'
    BY <1>1 DEF IInv, RoundFits, AtRest, InsertedOnce
  <2> PICK r \in Radnik : r = radnik[w] BY OneRound
  <2>1. AtRest(r) /\ DatesFit(r) BY OneRound
  <2>2. CASE r.pc \in {"idle", "failed"}
    <3>1. r.datumi = Nobody BY <2>1, <2>2 DEF AtRest
    <3> QED BY <1>1, <2>2, <3>1 DEF DatesFit, Nobody
  <2>3. CASE r.pc \notin {"idle", "failed"}
    <3>1. w \in in_round BY <2>3 DEF in_round, Radnik
    <3>2. ispravljeni' = ispravljeni \cup {u} BY <1>1, <3>1
    <3> QED BY <1>1, <1>2, <2>1, <3>2 DEF DatesFit
  <2> QED BY <2>2, <2>3
<1> QED BY <1>3, <1>4, <1>5, <1>6, <1>7 DEF IInv, AssignmentInv

LEMMA RestKeeps ==
  ASSUME IInv, (\E s \in Anketa : survey_changes(s)) \/ tick \/ UNCHANGED vars
  PROVE  IInv'
<1>1. UNCHANGED <<radnik, ucesca, korisnici, ispravljeni, pravila, zahtev>>
  BY DEF survey_changes, tick, vars, Rest
<1>2. /\ dan' \in Dani /\ ankete' \in [Anketa -> BOOLEAN] /\ izmene' \in Nat
  <2>1. TypeOK BY DEF IInv, AssignmentInv
  <2>2. ASSUME NEW s \in Anketa, survey_changes(s)
        PROVE  dan' = dan /\ ankete' \in [Anketa -> BOOLEAN] /\ izmene' \in Nat
    BY <2>1, <2>2 DEF TypeOK, survey_changes
  <2>3. tick => dan' \in Dani /\ ankete' = ankete /\ izmene' = izmene BY DEF tick
  <2>4. UNCHANGED vars => dan' = dan /\ ankete' = ankete /\ izmene' = izmene BY DEF vars
  <2> QED BY <2>1, <2>2, <2>3, <2>4 DEF TypeOK
<1>3. TypeOK' BY <1>1, <1>2 DEF IInv, AssignmentInv, TypeOK
<1> QED BY <1>1, <1>3, RulesKept, RoundsKept DEF IInv, AssignmentInv

LEMMA InitInv == Init => IInv
<1> SUFFICES ASSUME Init PROVE IInv OBVIOUS
<1>1. pravila \in [Anketa -> Payload \cup {None}]
  BY ConstantsAssumption, PayloadNumbers DEF Init
<1>2. TypeOK BY <1>1, RestTypes DEF Init, TypeOK
<1>3. AtRest(Resting) /\ DatesFit(Resting) /\ InsertedOnce(Resting) /\ Resting.nova = {}
  BY RestTypes, EmptyFits
<1>4. RoundFits /\ NovelToAll /\ AssignedInItsWindow /\ AssignedOnce
  BY <1>3 DEF Init, RoundFits, NovelToAll, AssignedInItsWindow, AssignedOnce
<1>5. RulesStay BY DEF Init, RulesStay, Idle
<1>6. OneRulePerMilestone
  BY ConstantsAssumption DEF Init, OneRulePerMilestone, active_rules
<1> QED BY <1>2, <1>4, <1>5, <1>6 DEF IInv, AssignmentInv

LEMMA StepInv == IInv /\ [Next]_vars => IInv'
BY UpsertKeeps, WorkerKeeps, SynchroniseKeeps, RestKeeps DEF Next

\* What a round holds stays what it read, nothing is inserted twice and no rule goes away:
\* every step keeps that.
THEOREM Invariance == Spec => []IInv
BY InitInv, StepInv, PTL DEF Spec

\* Whichever rounds, administrators and corrections overlap: a survey is assigned once, on
\* a day of its window, and a milestone has one active rule.
THEOREM Assigned == Spec => []AssignmentInv
<1>1. IInv => AssignmentInv BY DEF IInv
<1> QED BY <1>1, Invariance, PTL

-----------------------------------------------------------------------------
(* Documents: the row a request holds is as it was read until it commits,  *)
(* so that the copy is the row, and what is written is the row it made.    *)

LEMMA NoValueApart ==
  ASSUME Docs!ConstantsAssumption
  PROVE  /\ NoValue \notin Docs!Time /\ NoValue \notin Docs!Red
         /\ NoValue \notin Docs!Zahtev /\ NoValue \notin Docs!Citanje
BY DEF Docs!ConstantsAssumption

\* A request takes a row nobody holds, with the row as its copy.
LEMMA RowTaken ==
  ASSUME Docs!ConstantsAssumption, Docs!DocumentInv, NEW a \in Urednik, NEW d \in Dokument,
         NEW red \in Docs!Red, NEW akcija \in Docs!Akcija,
         Docs!flush(a, d, dokumenti[d], red, akcija),
         \A b \in Urednik : zahtevi[b] # NoValue => zahtevi[b].dok # d,
         Docs!changes(dokumenti[d], [red EXCEPT !.izmena = now], akcija)
  PROVE  Docs!DocumentInv'
<1> DEFINE z == [dok |-> d, kopija |-> dokumenti[d], red |-> [red EXCEPT !.izmena = now], akcija |-> akcija]
<1>1. /\ now \in Docs!Time /\ dokumenti[d] \in Docs!Red \cup {NoValue}
      /\ zahtevi \in [Urednik -> Docs!Zahtev \cup {NoValue}]
  BY DEF Docs!DocumentInv, Docs!TypeOK
<1>2. [red EXCEPT !.izmena = now] \in Docs!Red /\ [red EXCEPT !.izmena = now].izmena = now
  BY <1>1 DEF Docs!Red
<1>3. z \in Docs!Zahtev BY <1>1, <1>2 DEF Docs!Zahtev
<1>4. /\ zahtevi' = [zahtevi EXCEPT ![a] = z]
      /\ now' = now /\ dokumenti' = dokumenti /\ dnevnik' = dnevnik /\ citalac' = citalac /\ izdanja' = izdanja
  BY DEF Docs!flush, Docs!Tables
<1>5. z.dok = d /\ z.kopija = dokumenti[d] /\ z.akcija = akcija /\ z.red = [red EXCEPT !.izmena = now]
  OBVIOUS
<1> HIDE DEF z
<1>6. /\ zahtevi' \in [Urednik -> Docs!Zahtev \cup {NoValue}] /\ zahtevi'[a] = z
      /\ \A b \in Urednik \ {a} : zahtevi'[b] = zahtevi[b]
  BY <1>1, <1>3, <1>4
<1>7. Docs!HeldByOne'
  BY <1>5, <1>6 DEF Docs!DocumentInv, Docs!HeldByOne
<1>8. Docs!HeldIsCurrent'
  <2>1. Docs!changes(z.kopija, z.red, z.akcija) BY <1>5, Zenon
  <2>2. z.red.izmena <= now BY <1>1, <1>2, <1>5 DEF Docs!Time
  <2> SUFFICES ASSUME NEW b \in Urednik, zahtevi'[b] # NoValue
               PROVE  /\ zahtevi'[b].kopija = dokumenti[zahtevi'[b].dok]
                      /\ Docs!changes(zahtevi'[b].kopija, zahtevi'[b].red, zahtevi'[b].akcija)
                      /\ zahtevi'[b].red.izmena <= now
    BY <1>4 DEF Docs!HeldIsCurrent, Docs!changes
  <2>3. CASE b = a BY <1>5, <1>6, <2>1, <2>2, <2>3
  <2>4. CASE b # a BY <1>6, <2>4 DEF Docs!DocumentInv, Docs!HeldIsCurrent
  <2> QED BY <2>3, <2>4
<1>9. Docs!TypeOK' BY <1>4, <1>6 DEF Docs!DocumentInv, Docs!TypeOK
<1>10. /\ Docs!VersionIdentifiesContent' /\ Docs!DateTellsPublished' /\ Docs!AuditTellsDocument'
       /\ Docs!ContentNotOlder' /\ Docs!LastEdition' /\ Docs!ShownIsPast'
  BY <1>4 DEF Docs!DocumentInv, Docs!VersionIdentifiesContent, Docs!DateTellsPublished,
     Docs!AuditTellsDocument, Docs!ContentNotOlder, Docs!LastEdition, Docs!ShownIsPast
<1> QED BY <1>7, <1>8, <1>9, <1>10 DEF Docs!DocumentInv

LEMMA AdministratorKeeps ==
  ASSUME Docs!ConstantsAssumption, Docs!DocumentInv, NEW a \in Urednik, Docs!Administrator(a)
  PROVE  Docs!DocumentInv'
<1>0. Docs!TypeOK /\ now \in Docs!Time /\ now \in Nat
  BY DEF Docs!ConstantsAssumption, Docs!DocumentInv, Docs!TypeOK, Docs!Time
\* The row of a change: there, held by nobody, older than now.
<1>1. ASSUME NEW d \in Dokument, Docs!get_for_update(a, d)
      PROVE  /\ dokumenti[d] \in Docs!Red /\ dokumenti[d] # NoValue
             /\ dokumenti[d].izmena <= now
             /\ \A b \in Urednik : zahtevi[b] # NoValue => zahtevi[b].dok # d
  BY <1>0, <1>1 DEF Docs!get_for_update, Docs!TypeOK, Docs!DocumentInv, Docs!LastEdition
<1>2. ASSUME NEW d \in Dokument, NEW n \in Naziv, Docs!update(a, d, n) PROVE Docs!DocumentInv'
  <2> DEFINE red == [dokumenti[d] EXCEPT !.naziv = n]
  <2>1. Docs!get_for_update(a, d) /\ Docs!flush(a, d, dokumenti[d], red, "UPDATED")
    BY <1>2 DEF Docs!update
  <2>2. red \in Docs!Red /\ "UPDATED" \in Docs!Akcija BY <1>1, <2>1 DEF Docs!Red, Docs!Akcija
  <2>3. Docs!changes(dokumenti[d], [red EXCEPT !.izmena = now], "UPDATED")
    BY <1>0, <1>1, <2>1 DEF Docs!changes, Docs!Red
  <2> HIDE DEF red
  <2> QED BY <1>1, <2>1, <2>2, <2>3, RowTaken
<1>3. ASSUME NEW d \in Dokument, NEW n \in Naziv, NEW p \in Pdf, Docs!create(a, d, n, p)
      PROVE  Docs!DocumentInv'
  <2> DEFINE red == [status |-> "DRAFT", naziv |-> n, sadrzaj |-> p, verzija |-> 1,
                     objava |-> NoValue, izmena |-> now]
  <2>1. /\ dokumenti[d] = NoValue /\ Docs!flush(a, d, NoValue, red, "CREATED")
        /\ \A b \in Urednik : zahtevi[b] # NoValue => zahtevi[b].dok # d
    BY <1>3 DEF Docs!create
  <2>2. red \in Docs!Red /\ "CREATED" \in Docs!Akcija
    BY <1>0 DEF Docs!Red, Docs!Akcija, Docs!Status, Docs!ConstantsAssumption
  <2>3. Docs!changes(NoValue, [red EXCEPT !.izmena = now], "CREATED") BY DEF Docs!changes
  <2> HIDE DEF red
  <2> QED BY <2>1, <2>2, <2>3, RowTaken
<1>4. ASSUME NEW d \in Dokument, NEW p \in Pdf, Docs!replace_content(a, d, p) PROVE Docs!DocumentInv'
  <2> DEFINE red == [dokumenti[d] EXCEPT !.sadrzaj = p, !.verzija = @ + 1]
  <2>1. /\ Docs!get_for_update(a, d) /\ Docs!flush(a, d, dokumenti[d], red, "CONTENT_REPLACED")
        /\ dokumenti[d].status = "DRAFT" /\ dokumenti[d].verzija < MaxVerzija
    BY <1>4 DEF Docs!replace_content
  <2>2. red \in Docs!Red /\ "CONTENT_REPLACED" \in Docs!Akcija
    <3>1. dokumenti[d] \in Docs!Red /\ MaxVerzija \in Nat
      BY <1>1, <2>1 DEF Docs!ConstantsAssumption
    <3>2. dokumenti[d].verzija + 1 \in 1 .. MaxVerzija BY <2>1, <3>1 DEF Docs!Red
    <3> QED BY <3>1, <3>2 DEF Docs!Red, Docs!Akcija
  <2>3. Docs!changes(dokumenti[d], [red EXCEPT !.izmena = now], "CONTENT_REPLACED")
    BY <1>0, <1>1, <2>1 DEF Docs!changes, Docs!Red
  <2> HIDE DEF red
  <2> QED BY <1>1, <2>1, <2>2, <2>3, RowTaken
<1>5. ASSUME NEW d \in Dokument, NEW target \in Docs!Status, Docs!change_status(a, d, target)
      PROVE  Docs!DocumentInv'
  <2> DEFINE red == [dokumenti[d] EXCEPT !.status = target, !.objava = Docs!objava(dokumenti[d], target)]
             akcija == IF target = "DRAFT" THEN "UNPUBLISHED" ELSE target
  <2>1. /\ Docs!get_for_update(a, d) /\ Docs!flush(a, d, dokumenti[d], red, akcija)
    BY <1>5 DEF Docs!change_status
  <2>2. dokumenti[d] \in Docs!Red BY <1>1, <2>1
  <2>3. /\ Docs!objava(dokumenti[d], target) \in Docs!Time \cup {NoValue}
        /\ target = "DRAFT" => Docs!objava(dokumenti[d], target) = NoValue
        /\ target = "PUBLISHED" => Docs!objava(dokumenti[d], target) # NoValue
    <3>1. CASE target = "DRAFT" BY <3>1 DEF Docs!objava
    <3>2. CASE target = "PUBLISHED" BY <1>0, <3>2, NoValueApart DEF Docs!objava
    <3>3. CASE target = "ARCHIVED" BY <2>2, <3>3 DEF Docs!objava, Docs!Red
    <3> QED BY <3>1, <3>2, <3>3 DEF Docs!Status
  <2>4. red \in Docs!Red /\ akcija \in Docs!Akcija BY <2>2, <2>3 DEF Docs!Red, Docs!Akcija, Docs!Status
  <2>5. Docs!changes(dokumenti[d], [red EXCEPT !.izmena = now], akcija)
    <3>1. PICK new : new = [red EXCEPT !.izmena = now] OBVIOUS
    <3>2. /\ new.status = target /\ new.objava = Docs!objava(dokumenti[d], target) /\ new.izmena = now
          /\ new.verzija = dokumenti[d].verzija /\ new.sadrzaj = dokumenti[d].sadrzaj
      BY <2>2, <3>1 DEF Docs!Red
    <3>3. Docs!changes(dokumenti[d], new, akcija)
      BY <1>0, <1>1, <2>1, <2>3, <3>2 DEF Docs!changes, Docs!Status
    <3> QED BY <3>1, <3>3
  <2> HIDE DEF red, akcija
  <2> QED BY <1>1, <2>1, <2>4, <2>5, RowTaken
<1> QED BY <1>2, <1>3, <1>4, <1>5 DEF Docs!Administrator

\* All columns of a row are a row.
LEMMA ColumnsAreRow ==
  ASSUME NEW r \in Docs!Red
  PROVE  [c \in Docs!Kolone |-> r[c]] = r
BY DEF Docs!Red, Docs!Kolone

\* What a commit finds and writes.
LEMMA RowWritten ==
  ASSUME Docs!DocumentInv, NEW a \in Urednik, Docs!commit(a)
  PROVE  LET z == zahtevi[a] IN
         /\ z \in Docs!Zahtev /\ z.dok \in Dokument /\ z.red \in Docs!Red /\ z.akcija \in Docs!Akcija
         /\ Docs!changes(dokumenti[z.dok], z.red, z.akcija) /\ z.red.izmena <= now
         /\ dokumenti' = [dokumenti EXCEPT ![z.dok] = z.red]
         /\ dnevnik' = Docs!_audit(z.dok, z.akcija)
         /\ izdanja' = [izdanja EXCEPT ![z.dok] = @ \cup {<<z.red.verzija, z.red.sadrzaj>>}]
         /\ zahtevi' = [zahtevi EXCEPT ![a] = NoValue]
         /\ now' = now /\ citalac' = citalac
<1> PICK z : z = zahtevi[a] OBVIOUS
<1>1. z \in Docs!Zahtev /\ z.dok \in Dokument /\ z.red \in Docs!Red /\ z.akcija \in Docs!Akcija
      /\ z.kopija \in Docs!Red \cup {NoValue}
  BY DEF Docs!commit, Docs!DocumentInv, Docs!TypeOK, Docs!Zahtev
<1>2. /\ z.kopija = dokumenti[z.dok] /\ z.red.izmena <= now
      /\ Docs!changes(z.kopija, z.red, z.akcija)
  BY DEF Docs!commit, Docs!DocumentInv, Docs!HeldIsCurrent
<1>3. Docs!written(z) = z.red
  <2>1. CASE z.kopija = NoValue BY <2>1 DEF Docs!written
  <2>2. CASE z.kopija # NoValue
    <3>1. Docs!written(z) = [c \in Docs!Kolone |-> z.red[c]]
      BY <1>2, <2>2 DEF Docs!written
    <3> QED BY <1>1, <3>1, ColumnsAreRow
  <2> QED BY <2>1, <2>2
<1>4. Docs!changes(dokumenti[z.dok], z.red, z.akcija) BY <1>2, Zenon
<1>5. /\ dokumenti' = [dokumenti EXCEPT ![z.dok] = Docs!written(z)]
      /\ dnevnik' = Docs!_audit(z.dok, z.akcija)
      /\ izdanja' = [izdanja EXCEPT ![z.dok] = @ \cup {<<Docs!written(z).verzija, Docs!written(z).sadrzaj>>}]
      /\ zahtevi' = [zahtevi EXCEPT ![a] = NoValue] /\ now' = now /\ citalac' = citalac
  BY DEF Docs!commit
<1> QED BY <1>1, <1>2, <1>3, <1>4, <1>5

\* One more audit row: what it tells of the version and the status.
LEMMA AuditRow ==
  ASSUME Docs!TypeOK, NEW d \in Dokument, NEW akcija \in Docs!Akcija, dnevnik' = Docs!_audit(d, akcija)
  PROVE  /\ dnevnik' \in [Dokument -> Docs!Dnevnik]
         /\ dnevnik'[d].zamena = IF akcija = "CONTENT_REPLACED" THEN dnevnik[d].zamena + 1 ELSE dnevnik[d].zamena
         /\ dnevnik'[d].stanje = IF akcija \in {"CONTENT_REPLACED", "UPDATED"} THEN dnevnik[d].stanje ELSE akcija
         /\ \A e \in Dokument \ {d} : dnevnik'[e] = dnevnik[e]
<1>1. dnevnik \in [Dokument -> Docs!Dnevnik] BY DEF Docs!TypeOK
<1>2. CASE akcija = "CONTENT_REPLACED"
  BY <1>1, <1>2 DEF Docs!_audit, Docs!Dnevnik
<1>3. CASE akcija = "UPDATED"
  BY <1>1, <1>3 DEF Docs!_audit, Docs!Dnevnik
<1>4. CASE akcija \notin {"CONTENT_REPLACED", "UPDATED"}
  <2>1. dnevnik' = [dnevnik EXCEPT ![d].stanje = akcija] BY <1>4 DEF Docs!_audit
  <2> QED BY <1>1, <1>4, <2>1 DEF Docs!Dnevnik
<1> QED BY <1>2, <1>3, <1>4

LEMMA CommitKeeps ==
  ASSUME Docs!ConstantsAssumption, Docs!DocumentInv, NEW a \in Urednik, Docs!commit(a)
  PROVE  Docs!DocumentInv'
<1> PICK z \in Docs!Zahtev : z = zahtevi[a] BY RowWritten
<1> PICK d \in Dokument : d = z.dok BY RowWritten
<1> PICK red \in Docs!Red : red = z.red BY RowWritten
<1> PICK old : old = dokumenti[d] OBVIOUS
<1>1. Docs!TypeOK /\ old \in Docs!Red \cup {NoValue} BY DEF Docs!DocumentInv, Docs!TypeOK
<1>2. Docs!changes(old, red, z.akcija) /\ red.izmena <= now /\ z.akcija \in Docs!Akcija
  BY RowWritten
<1>3. /\ dokumenti' = [dokumenti EXCEPT ![d] = red] /\ dnevnik' = Docs!_audit(d, z.akcija)
      /\ izdanja' = [izdanja EXCEPT ![d] = @ \cup {<<red.verzija, red.sadrzaj>>}]
      /\ zahtevi' = [zahtevi EXCEPT ![a] = NoValue] /\ now' = now /\ citalac' = citalac
  BY RowWritten
<1>4. /\ dokumenti'[d] = red /\ \A e \in Dokument \ {d} : dokumenti'[e] = dokumenti[e]
      /\ izdanja'[d] = izdanja[d] \cup {<<red.verzija, red.sadrzaj>>}
      /\ \A e \in Dokument \ {d} : izdanja'[e] = izdanja[e]
      /\ zahtevi'[a] = NoValue /\ \A b \in Urednik \ {a} : zahtevi'[b] = zahtevi[b]
  BY <1>1, <1>3 DEF Docs!TypeOK
<1>5. /\ dnevnik' \in [Dokument -> Docs!Dnevnik]
      /\ dnevnik'[d].zamena = IF z.akcija = "CONTENT_REPLACED" THEN dnevnik[d].zamena + 1 ELSE dnevnik[d].zamena
      /\ dnevnik'[d].stanje = IF z.akcija \in {"CONTENT_REPLACED", "UPDATED"} THEN dnevnik[d].stanje ELSE z.akcija
      /\ \A e \in Dokument \ {d} : dnevnik'[e] = dnevnik[e]
  BY <1>1, <1>2, <1>3, AuditRow
<1>6. red # NoValue BY NoValueApart
<1>7. red.verzija \in 1 .. MaxVerzija /\ red.sadrzaj \in Pdf /\ red.verzija \in Nat BY DEF Docs!Red
\* What was known of the row.
<1>8. IF old = NoValue THEN izdanja[d] = {} /\ dnevnik[d].zamena = 0
      ELSE /\ <<old.verzija, old.sadrzaj>> \in izdanja[d] /\ \A x \in izdanja[d] : x[1] <= old.verzija
           /\ old.verzija = dnevnik[d].zamena + 1 /\ old.verzija \in Nat
           /\ dnevnik[d].stanje \in IF old.status = "DRAFT" THEN {"CREATED", "UNPUBLISHED"} ELSE {old.status}
           /\ old.status = "DRAFT" => old.objava = NoValue
           /\ old.status = "PUBLISHED" => old.objava # NoValue
  <2>1. IF old = NoValue THEN izdanja[d] = {} /\ dnevnik[d].zamena = 0
        ELSE <<old.verzija, old.sadrzaj>> \in izdanja[d] /\ \A x \in izdanja[d] : x[1] <= old.verzija
    BY DEF Docs!DocumentInv, Docs!LastEdition
  <2>2. old # NoValue =>
          /\ old.verzija = dnevnik[d].zamena + 1
          /\ dnevnik[d].stanje \in IF old.status = "DRAFT" THEN {"CREATED", "UNPUBLISHED"} ELSE {old.status}
    BY DEF Docs!DocumentInv, Docs!AuditTellsDocument
  <2>3. old # NoValue => /\ old.status = "DRAFT" => old.objava = NoValue
                         /\ old.status = "PUBLISHED" => old.objava # NoValue
    BY DEF Docs!DocumentInv, Docs!DateTellsPublished
  <2>4. old # NoValue => old.verzija \in Nat BY <1>1 DEF Docs!Red
  <2> QED BY <2>1, <2>2, <2>3, <2>4
\* What the change makes of it.
<1>9. /\ red.verzija = dnevnik'[d].zamena + 1
      /\ dnevnik'[d].stanje \in IF red.status = "DRAFT" THEN {"CREATED", "UNPUBLISHED"} ELSE {red.status}
      /\ red.status = "DRAFT" => red.objava = NoValue
      /\ red.status = "PUBLISHED" => red.objava # NoValue
      /\ old = NoValue => izdanja[d] = {}
      /\ old # NoValue => /\ <<old.verzija, old.sadrzaj>> \in izdanja[d] /\ old.verzija \in Nat
                          /\ \A x \in izdanja[d] : x[1] <= old.verzija
                          /\ \/ red.verzija = old.verzija /\ red.sadrzaj = old.sadrzaj
                             \/ red.verzija = old.verzija + 1
  <2>1. CASE old = NoValue
    <3>1. z.akcija = "CREATED" /\ red.status = "DRAFT" /\ red.verzija = 1 /\ red.objava = NoValue
      BY <1>2, <2>1 DEF Docs!changes
    <3> QED BY <1>5, <1>8, <2>1, <3>1
  <2>2. CASE old # NoValue
    <3>1. /\ z.akcija # "CREATED" /\ old \in Docs!Red
          /\ dnevnik[d].stanje \in IF old.status = "DRAFT" THEN {"CREATED", "UNPUBLISHED"} ELSE {old.status}
      BY <1>1, <1>2, <1>8, <2>2 DEF Docs!changes
    <3>2. CASE z.akcija = "CONTENT_REPLACED"
      <4>1. /\ old.status = "DRAFT" /\ red.status = "DRAFT" /\ red.objava = old.objava
            /\ red.verzija = old.verzija + 1
        BY <1>2, <2>2, <3>2 DEF Docs!changes
      <4>2. /\ dnevnik'[d].zamena = dnevnik[d].zamena + 1
            /\ dnevnik'[d].stanje = dnevnik[d].stanje
        BY <1>5, <3>2
      <4>3. /\ old.verzija = dnevnik[d].zamena + 1 /\ old.verzija \in Nat
            /\ old.objava = NoValue /\ dnevnik[d].stanje \in {"CREATED", "UNPUBLISHED"}
            /\ <<old.verzija, old.sadrzaj>> \in izdanja[d]
            /\ \A x \in izdanja[d] : x[1] <= old.verzija
        BY <1>8, <2>2, <4>1
      <4>4. red.verzija = dnevnik'[d].zamena + 1 BY <4>1, <4>2, <4>3
      <4> QED BY <2>2, <4>1, <4>2, <4>3, <4>4
    <3>3. CASE z.akcija = "UPDATED"
      <4>1. /\ red.verzija = old.verzija /\ red.sadrzaj = old.sadrzaj
            /\ red.status = old.status /\ red.objava = old.objava
        BY <1>2, <2>2, <3>3 DEF Docs!changes
      <4> QED BY <1>5, <1>8, <2>2, <3>3, <4>1
    <3>4. CASE z.akcija \notin {"CONTENT_REPLACED", "UPDATED"}
      <4>1. /\ red.verzija = old.verzija /\ red.sadrzaj = old.sadrzaj
            /\ red.status = (IF z.akcija = "UNPUBLISHED" THEN "DRAFT" ELSE z.akcija)
            /\ red.status = "DRAFT" => red.objava = NoValue
            /\ red.status = "PUBLISHED" => red.objava # NoValue
        BY <1>2, <2>2, <3>4 DEF Docs!changes
      <4>2. dnevnik'[d].stanje = z.akcija /\ dnevnik'[d].zamena = dnevnik[d].zamena BY <1>5, <3>4
      <4>3. z.akcija # "DRAFT" BY <1>2 DEF Docs!Akcija
      <4> QED BY <1>8, <2>2, <4>1, <4>2, <4>3
    <3> QED BY <3>2, <3>3, <3>4
  <2> QED BY <2>1, <2>2
<1>10. izdanja[d] \subseteq (1 .. MaxVerzija) \X Pdf BY <1>1 DEF Docs!TypeOK
<1>11. \A x \in izdanja[d] : x[1] <= red.verzija /\ (x[1] = red.verzija => x = <<red.verzija, red.sadrzaj>>)
  <2> SUFFICES ASSUME NEW x \in izdanja[d], old # NoValue
               PROVE  x[1] <= red.verzija /\ (x[1] = red.verzija => x = <<red.verzija, red.sadrzaj>>)
    BY <1>9
  <2>1. x[1] \in Nat /\ x[1] <= old.verzija /\ old.verzija \in Nat
    <3>1. x \in (1 .. MaxVerzija) \X Pdf BY <1>10
    <3>2. x[1] \in 1 .. MaxVerzija BY <3>1
    <3>3. x[1] <= old.verzija /\ old.verzija \in Nat BY <1>9
    <3> QED BY <3>2, <3>3
  <2>2. x[1] = old.verzija => x = <<old.verzija, old.sadrzaj>>
    BY <1>9 DEF Docs!DocumentInv, Docs!VersionIdentifiesContent
  <2>3. CASE red.verzija = old.verzija /\ red.sadrzaj = old.sadrzaj BY <2>1, <2>2, <2>3
  <2>4. CASE red.verzija = old.verzija + 1
    <3>1. x[1] <= red.verzija /\ x[1] # red.verzija BY <2>1, <2>4
    <3> QED BY <3>1
  <2> QED BY <1>9, <2>3, <2>4
<1>12. old # NoValue => old.verzija \in Nat /\ old.verzija <= red.verzija BY <1>9
\* The invariant.
<1>13. Docs!TypeOK'
  <2>1. dokumenti' \in [Dokument -> Docs!Red \cup {NoValue}] BY <1>1, <1>3 DEF Docs!TypeOK
  <2>2. izdanja' \in [Dokument -> SUBSET ((1 .. MaxVerzija) \X Pdf)]
    <3>1. izdanja[d] \cup {<<red.verzija, red.sadrzaj>>} \subseteq (1 .. MaxVerzija) \X Pdf
      BY <1>7, <1>10
    <3> QED BY <1>1, <1>3, <3>1 DEF Docs!TypeOK
  <2>3. zahtevi' \in [Urednik -> Docs!Zahtev \cup {NoValue}] BY <1>1, <1>3 DEF Docs!TypeOK
  <2> QED BY <1>1, <1>3, <1>5, <2>1, <2>2, <2>3 DEF Docs!TypeOK
<1>14. Docs!VersionIdentifiesContent'
  <2> SUFFICES ASSUME NEW e \in Dokument, NEW x \in izdanja'[e], NEW y \in izdanja'[e], x[1] = y[1]
               PROVE  x = y
    BY DEF Docs!VersionIdentifiesContent
  <2>1. CASE e # d BY <1>4, <2>1 DEF Docs!DocumentInv, Docs!VersionIdentifiesContent
  <2>2. CASE e = d
    <3>1. \A v, w \in izdanja[d] : v[1] = w[1] => v = w
      BY DEF Docs!DocumentInv, Docs!VersionIdentifiesContent
    <3>2. x \in izdanja[d] \/ x = <<red.verzija, red.sadrzaj>> BY <1>4, <2>2
    <3>3. y \in izdanja[d] \/ y = <<red.verzija, red.sadrzaj>> BY <1>4, <2>2
    <3> QED BY <1>11, <3>1, <3>2, <3>3
  <2> QED BY <2>1, <2>2
<1>15. Docs!DateTellsPublished' /\ Docs!AuditTellsDocument'
  <2>1. Docs!DateTellsPublished'
    <3> SUFFICES ASSUME NEW e \in Dokument, dokumenti'[e] # NoValue
                 PROVE  /\ dokumenti'[e].status = "DRAFT" => dokumenti'[e].objava = NoValue
                        /\ dokumenti'[e].status = "PUBLISHED" => dokumenti'[e].objava # NoValue
      BY DEF Docs!DateTellsPublished
    <3>1. CASE e = d BY <1>4, <1>9, <3>1
    <3>2. CASE e # d BY <1>4, <3>2 DEF Docs!DocumentInv, Docs!DateTellsPublished
    <3> QED BY <3>1, <3>2
  <2>2. Docs!AuditTellsDocument'
    <3> SUFFICES ASSUME NEW e \in Dokument, dokumenti'[e] # NoValue
                 PROVE  /\ dokumenti'[e].verzija = dnevnik'[e].zamena + 1
                        /\ dnevnik'[e].stanje \in IF dokumenti'[e].status = "DRAFT"
                                                   THEN {"CREATED", "UNPUBLISHED"}
                                                   ELSE {dokumenti'[e].status}
      BY DEF Docs!AuditTellsDocument
    <3>1. CASE e = d BY <1>4, <1>9, <3>1
    <3>2. CASE e # d
      <4>1. dokumenti'[e] = dokumenti[e] BY <1>4, <3>2
      <4>2. dnevnik'[e] = dnevnik[e] BY <1>5, <3>2
      <4>3. /\ dokumenti[e].verzija = dnevnik[e].zamena + 1
            /\ dnevnik[e].stanje \in IF dokumenti[e].status = "DRAFT"
                                       THEN {"CREATED", "UNPUBLISHED"} ELSE {dokumenti[e].status}
        BY <4>1 DEF Docs!DocumentInv, Docs!AuditTellsDocument
      <4> QED BY <4>1, <4>2, <4>3
    <3> QED BY <3>1, <3>2
  <2> QED BY <2>1, <2>2
<1>16. Docs!ContentNotOlder' BY <1>3 DEF Docs!DocumentInv, Docs!ContentNotOlder
<1>17. Docs!HeldByOne' BY <1>4 DEF Docs!DocumentInv, Docs!HeldByOne
<1>18. Docs!HeldIsCurrent'
  <2> SUFFICES ASSUME NEW b \in Urednik, zahtevi'[b] # NoValue
               PROVE  /\ zahtevi'[b].kopija = dokumenti'[zahtevi'[b].dok]
                      /\ Docs!changes(zahtevi'[b].kopija, zahtevi'[b].red, zahtevi'[b].akcija)
                      /\ zahtevi'[b].red.izmena <= now
    BY <1>3 DEF Docs!HeldIsCurrent, Docs!changes
  <2>1. b # a /\ zahtevi'[b] = zahtevi[b] BY <1>4
  <2>2. zahtevi[b].dok \in Dokument /\ zahtevi[b].dok # d
    <3>1. zahtevi[b] \in Docs!Zahtev BY <1>1, <2>1 DEF Docs!TypeOK
    <3>2. zahtevi[b].dok # d
      BY <2>1, NoValueApart DEF Docs!DocumentInv, Docs!HeldByOne
    <3> QED BY <3>1, <3>2 DEF Docs!Zahtev
  <2> QED BY <1>4, <2>1, <2>2 DEF Docs!DocumentInv, Docs!HeldIsCurrent
<1>19. Docs!LastEdition'
  <2> SUFFICES ASSUME NEW e \in Dokument
               PROVE  IF dokumenti'[e] = NoValue THEN izdanja'[e] = {} /\ dnevnik'[e].zamena = 0
                      ELSE /\ <<dokumenti'[e].verzija, dokumenti'[e].sadrzaj>> \in izdanja'[e]
                           /\ \A x \in izdanja'[e] : x[1] <= dokumenti'[e].verzija
                           /\ dokumenti'[e].izmena <= now
    BY <1>3 DEF Docs!LastEdition
  <2>1. CASE e = d BY <1>2, <1>4, <1>6, <1>7, <1>11, <2>1
  <2>2. CASE e # d BY <1>4, <1>5, <2>2 DEF Docs!DocumentInv, Docs!LastEdition
  <2> QED BY <2>1, <2>2
<1>20. Docs!ShownIsPast'
  <2> SUFFICES ASSUME NEW e \in Citalac, citalac[e] # NoValue
               PROVE  dokumenti'[citalac[e].dok] # NoValue
                      /\ citalac[e].verzija <= dokumenti'[citalac[e].dok].verzija
    BY <1>3 DEF Docs!ShownIsPast
  <2>1. citalac[e].dok \in Dokument /\ citalac[e].verzija \in Nat
    BY <1>1 DEF Docs!TypeOK, Docs!Citanje
  <2>2. dokumenti[citalac[e].dok] # NoValue /\ citalac[e].verzija <= dokumenti[citalac[e].dok].verzija
    BY DEF Docs!DocumentInv, Docs!ShownIsPast
  <2>3. CASE citalac[e].dok = d
    <3>1. old # NoValue /\ citalac[e].verzija <= old.verzija BY <2>2, <2>3
    <3> QED BY <1>4, <1>6, <1>7, <1>12, <2>1, <2>3, <3>1
  <2>4. CASE citalac[e].dok # d BY <1>4, <2>1, <2>2, <2>4
  <2> QED BY <2>3, <2>4
<1> QED BY <1>13, <1>14, <1>15, <1>16, <1>17, <1>18, <1>19, <1>20 DEF Docs!DocumentInv

LEMMA RollbackKeeps ==
  ASSUME Docs!DocumentInv, NEW a \in Urednik, Docs!rollback(a)
  PROVE  Docs!DocumentInv'
<1>1. /\ zahtevi \in [Urednik -> Docs!Zahtev \cup {NoValue}]
      /\ zahtevi' = [zahtevi EXCEPT ![a] = NoValue]
      /\ now' = now /\ dokumenti' = dokumenti /\ dnevnik' = dnevnik /\ citalac' = citalac /\ izdanja' = izdanja
  BY DEF Docs!DocumentInv, Docs!TypeOK, Docs!rollback, Docs!Tables
<1>2. /\ zahtevi' \in [Urednik -> Docs!Zahtev \cup {NoValue}] /\ zahtevi'[a] = NoValue
      /\ \A b \in Urednik \ {a} : zahtevi'[b] = zahtevi[b]
  BY <1>1
<1>3. Docs!TypeOK' BY <1>1, <1>2 DEF Docs!DocumentInv, Docs!TypeOK
<1>4. Docs!HeldByOne' BY <1>2 DEF Docs!DocumentInv, Docs!HeldByOne
<1>5. Docs!HeldIsCurrent'
  <2> SUFFICES ASSUME NEW b \in Urednik, zahtevi'[b] # NoValue
               PROVE  /\ zahtevi'[b].kopija = dokumenti[zahtevi'[b].dok]
                      /\ Docs!changes(zahtevi'[b].kopija, zahtevi'[b].red, zahtevi'[b].akcija)
                      /\ zahtevi'[b].red.izmena <= now
    BY <1>1 DEF Docs!HeldIsCurrent, Docs!changes
  <2> QED BY <1>2 DEF Docs!DocumentInv, Docs!HeldIsCurrent
<1>6. /\ Docs!VersionIdentifiesContent' /\ Docs!DateTellsPublished' /\ Docs!AuditTellsDocument'
      /\ Docs!ContentNotOlder' /\ Docs!LastEdition' /\ Docs!ShownIsPast'
  BY <1>1 DEF Docs!DocumentInv, Docs!VersionIdentifiesContent, Docs!DateTellsPublished,
     Docs!AuditTellsDocument, Docs!ContentNotOlder, Docs!LastEdition, Docs!ShownIsPast
<1> QED BY <1>3, <1>4, <1>5, <1>6 DEF Docs!DocumentInv

\* An employee is shown a version no later than the one he may download.
LEMMA ReaderKeeps ==
  ASSUME Docs!DocumentInv, NEW e \in Citalac, NEW c \in Docs!Citanje,
         citalac' = [citalac EXCEPT ![e] = c],
         dokumenti[c.dok] # NoValue, c.verzija <= dokumenti[c.dok].verzija,
         c.procitana # 0 => c.procitana >= c.verzija,
         UNCHANGED <<now, dokumenti, dnevnik, zahtevi, izdanja>>
  PROVE  Docs!DocumentInv'
<1>1. citalac \in [Citalac -> Docs!Citanje \cup {NoValue}] BY DEF Docs!DocumentInv, Docs!TypeOK
<1>2. /\ citalac' \in [Citalac -> Docs!Citanje \cup {NoValue}] /\ citalac'[e] = c
      /\ \A f \in Citalac \ {e} : citalac'[f] = citalac[f]
  BY <1>1
<1>3. Docs!TypeOK' BY <1>2 DEF Docs!DocumentInv, Docs!TypeOK
<1>4. Docs!ContentNotOlder' BY <1>2 DEF Docs!DocumentInv, Docs!ContentNotOlder
<1>5. Docs!ShownIsPast'
  <2> SUFFICES ASSUME NEW f \in Citalac, citalac'[f] # NoValue
               PROVE  dokumenti[citalac'[f].dok] # NoValue
                      /\ citalac'[f].verzija <= dokumenti[citalac'[f].dok].verzija
    BY DEF Docs!ShownIsPast
  <2>1. CASE f = e BY <1>2, <2>1
  <2>2. CASE f # e BY <1>2, <2>2 DEF Docs!DocumentInv, Docs!ShownIsPast
  <2> QED BY <2>1, <2>2
<1>6. Docs!HeldIsCurrent' BY DEF Docs!DocumentInv, Docs!HeldIsCurrent, Docs!changes
<1>7. /\ Docs!VersionIdentifiesContent' /\ Docs!DateTellsPublished' /\ Docs!AuditTellsDocument'
      /\ Docs!HeldByOne' /\ Docs!LastEdition'
  BY DEF Docs!DocumentInv, Docs!VersionIdentifiesContent, Docs!DateTellsPublished,
     Docs!AuditTellsDocument, Docs!HeldByOne, Docs!LastEdition
<1> QED BY <1>3, <1>4, <1>5, <1>6, <1>7 DEF Docs!DocumentInv

LEMMA EmployeeKeeps ==
  ASSUME Docs!ConstantsAssumption, Docs!DocumentInv, NEW e \in Citalac, Docs!Employee(e)
  PROVE  Docs!DocumentInv'
<1>1. /\ dokumenti \in [Dokument -> Docs!Red \cup {NoValue}]
      /\ citalac \in [Citalac -> Docs!Citanje \cup {NoValue}]
  BY DEF Docs!DocumentInv, Docs!TypeOK
<1>2. ASSUME Docs!get_published_content(e) PROVE Docs!DocumentInv'
  <2> PICK d : d = citalac[e].dok OBVIOUS
  <2> PICK c : c = [citalac[e] EXCEPT !.procitana = dokumenti[d].verzija] OBVIOUS
  <2>1. /\ citalac[e] \in Docs!Citanje /\ citalac[e] # NoValue
        /\ d \in Dokument /\ dokumenti[d] \in Docs!Red /\ dokumenti[d] # NoValue
    BY <1>1, <1>2 DEF Docs!get_published_content, Docs!list_published
  <2>2. c \in Docs!Citanje /\ c.dok = d /\ c.verzija = citalac[e].verzija
        /\ c.procitana = dokumenti[d].verzija
    BY <2>1 DEF Docs!Citanje, Docs!Red
  <2>3. citalac[e].verzija <= dokumenti[d].verzija
    BY <2>1 DEF Docs!DocumentInv, Docs!ShownIsPast
  <2>4. /\ citalac' = [citalac EXCEPT ![e] = c]
        /\ UNCHANGED <<now, dokumenti, dnevnik, zahtevi, izdanja>>
    <3>1. citalac' = [citalac EXCEPT ![e].procitana = dokumenti[citalac[e].dok].verzija]
          /\ UNCHANGED <<now, dokumenti, dnevnik, zahtevi, izdanja>>
      BY <1>2 DEF Docs!get_published_content
    <3> QED BY <1>1, <3>1
  <2>5. dokumenti[d].verzija \in Nat /\ citalac[e].verzija \in Nat BY <2>1 DEF Docs!Red, Docs!Citanje
  <2>6. c.procitana >= c.verzija /\ c.verzija <= dokumenti[c.dok].verzija /\ dokumenti[c.dok] # NoValue
    BY <2>1, <2>2, <2>3, <2>5
  <2> QED BY <2>2, <2>4, <2>6, ReaderKeeps
<1>3. ASSUME NEW d \in Dokument, Docs!get_published(e, d) PROVE Docs!DocumentInv'
  <2> PICK c : c = [dok |-> d, verzija |-> dokumenti[d].verzija, procitana |-> 0] OBVIOUS
  <2>1. dokumenti[d] \in Docs!Red /\ dokumenti[d] # NoValue
    BY <1>1, <1>3 DEF Docs!get_published, Docs!list_published
  <2>2. /\ c \in Docs!Citanje /\ c.dok = d /\ c.verzija = dokumenti[d].verzija /\ c.procitana = 0
        /\ c.verzija <= dokumenti[c.dok].verzija
    <3>1. dokumenti[d].verzija \in 1 .. MaxVerzija BY <2>1 DEF Docs!Red
    <3>2. 0 \in 0 .. MaxVerzija BY DEF Docs!ConstantsAssumption
    <3> QED BY <3>1, <3>2 DEF Docs!Citanje
  <2>3. /\ citalac' = [citalac EXCEPT ![e] = c]
        /\ UNCHANGED <<now, dokumenti, dnevnik, zahtevi, izdanja>>
    BY <1>3 DEF Docs!get_published
  <2> QED BY <2>1, <2>2, <2>3, ReaderKeeps
<1> QED BY <1>2, <1>3 DEF Docs!Employee

LEMMA TickKeeps ==
  ASSUME Docs!ConstantsAssumption, Docs!DocumentInv, Docs!Tick
  PROVE  Docs!DocumentInv'
<1>1. /\ now \in Nat /\ now' = now + 1 /\ now' \in Docs!Time
      /\ UNCHANGED <<dokumenti, dnevnik, zahtevi, citalac, izdanja>>
  BY DEF Docs!ConstantsAssumption, Docs!DocumentInv, Docs!TypeOK, Docs!Tick, Docs!Time
<1>2. Docs!TypeOK' BY <1>1 DEF Docs!DocumentInv, Docs!TypeOK
<1>3. Docs!LastEdition'
  <2>1. \A d \in Dokument : dokumenti[d] # NoValue => dokumenti[d].izmena \in Nat
    BY DEF Docs!DocumentInv, Docs!TypeOK, Docs!Red, Docs!Time
  <2> QED BY <1>1, <2>1 DEF Docs!DocumentInv, Docs!LastEdition
<1>4. Docs!HeldIsCurrent'
  <2> SUFFICES ASSUME NEW b \in Urednik, zahtevi[b] # NoValue
               PROVE  /\ zahtevi[b].kopija = dokumenti[zahtevi[b].dok]
                      /\ Docs!changes(zahtevi[b].kopija, zahtevi[b].red, zahtevi[b].akcija)
                      /\ zahtevi[b].red.izmena <= now'
    BY <1>1 DEF Docs!HeldIsCurrent, Docs!changes
  <2>1. zahtevi[b].red \in Docs!Red BY DEF Docs!DocumentInv, Docs!TypeOK, Docs!Zahtev
  <2>2. zahtevi[b].red.izmena \in Nat BY <2>1 DEF Docs!Red, Docs!Time
  <2> QED BY <1>1, <2>2 DEF Docs!DocumentInv, Docs!HeldIsCurrent
<1>5. /\ Docs!VersionIdentifiesContent' /\ Docs!DateTellsPublished' /\ Docs!AuditTellsDocument'
      /\ Docs!ContentNotOlder' /\ Docs!HeldByOne' /\ Docs!ShownIsPast'
  BY <1>1 DEF Docs!DocumentInv, Docs!VersionIdentifiesContent, Docs!DateTellsPublished,
     Docs!AuditTellsDocument, Docs!ContentNotOlder, Docs!HeldByOne, Docs!ShownIsPast
<1> QED BY <1>2, <1>3, <1>4, <1>5 DEF Docs!DocumentInv

LEMMA DocumentsStay ==
  ASSUME Docs!DocumentInv, UNCHANGED Docs!vars
  PROVE  Docs!DocumentInv'
<1>1. /\ now' = now /\ dokumenti' = dokumenti /\ dnevnik' = dnevnik /\ zahtevi' = zahtevi
      /\ citalac' = citalac /\ izdanja' = izdanja
  BY DEF Docs!vars
<1>2. Docs!TypeOK' BY <1>1 DEF Docs!DocumentInv, Docs!TypeOK
<1>3. Docs!VersionIdentifiesContent' BY <1>1 DEF Docs!DocumentInv, Docs!VersionIdentifiesContent
<1>4. Docs!DateTellsPublished' BY <1>1 DEF Docs!DocumentInv, Docs!DateTellsPublished
<1>5. Docs!AuditTellsDocument' BY <1>1 DEF Docs!DocumentInv, Docs!AuditTellsDocument
<1>6. Docs!ContentNotOlder' BY <1>1 DEF Docs!DocumentInv, Docs!ContentNotOlder
<1>7. Docs!HeldByOne' BY <1>1 DEF Docs!DocumentInv, Docs!HeldByOne
<1>8. Docs!HeldIsCurrent' BY <1>1 DEF Docs!DocumentInv, Docs!HeldIsCurrent, Docs!changes
<1>9. Docs!LastEdition' BY <1>1 DEF Docs!DocumentInv, Docs!LastEdition
<1>10. Docs!ShownIsPast' BY <1>1 DEF Docs!DocumentInv, Docs!ShownIsPast
<1> QED BY <1>2, <1>3, <1>4, <1>5, <1>6, <1>7, <1>8, <1>9, <1>10 DEF Docs!DocumentInv

LEMMA DocumentsInit ==
  ASSUME Docs!ConstantsAssumption, Docs!Init
  PROVE  Docs!DocumentInv
<1>1. Docs!TypeOK
  BY DEF Docs!ConstantsAssumption, Docs!Init, Docs!TypeOK, Docs!Time, Docs!Dnevnik
<1>2. /\ Docs!VersionIdentifiesContent /\ Docs!DateTellsPublished /\ Docs!AuditTellsDocument
      /\ Docs!ContentNotOlder /\ Docs!HeldByOne /\ Docs!ShownIsPast
  BY DEF Docs!Init, Docs!VersionIdentifiesContent, Docs!DateTellsPublished,
     Docs!AuditTellsDocument, Docs!ContentNotOlder, Docs!HeldByOne, Docs!ShownIsPast
<1>3. Docs!HeldIsCurrent /\ Docs!LastEdition
  BY DEF Docs!Init, Docs!HeldIsCurrent, Docs!LastEdition
<1> QED BY <1>1, <1>2, <1>3 DEF Docs!DocumentInv

LEMMA DocumentsStep ==
  ASSUME Docs!ConstantsAssumption, Docs!DocumentInv, [Docs!Next]_Docs!vars
  PROVE  Docs!DocumentInv'
BY AdministratorKeeps, CommitKeeps, RollbackKeeps, EmployeeKeeps, TickKeeps, DocumentsStay
   DEF Docs!Next

\* Whichever changes, publications, withdrawals and downloads overlap, and wherever a request
\* of onboarding_document_service ends: a version is one content, the date and the audit log
\* tell the status, and an employee downloads no older version than he was shown.
THEOREM DocumentsHold == Docs!Spec => []DocumentInv
<1>1. Docs!Init => DocumentInv BY DocumentsAssumption, DocumentsInit DEF DocumentInv
<1>2. DocumentInv /\ [Docs!Next]_Docs!vars => DocumentInv'
  BY DocumentsAssumption, DocumentsStep DEF DocumentInv
<1> QED BY <1>1, <1>2, PTL DEF Docs!Spec

\* What every step leaves of a row: a commit is the one that writes it.
LEMMA FrozenStep ==
  ASSUME Docs!ConstantsAssumption, Docs!DocumentInv, [Docs!Next]_Docs!vars,
         NEW d \in Dokument, dokumenti[d] # NoValue
  PROVE  /\ dokumenti'[d] # NoValue
         /\ dokumenti'[d].izmena >= dokumenti[d].izmena
         /\ dokumenti[d].status # "DRAFT" =>
              /\ dokumenti'[d].sadrzaj = dokumenti[d].sadrzaj
              /\ dokumenti'[d].verzija = dokumenti[d].verzija
<1>0. dokumenti \in [Dokument -> Docs!Red \cup {NoValue}] /\ dokumenti[d].izmena \in Nat
  BY DEF Docs!DocumentInv, Docs!TypeOK, Docs!Red, Docs!Time
<1>1. CASE dokumenti' = dokumenti BY <1>0, <1>1
<1>2. ASSUME NEW a \in Urednik, Docs!commit(a)
      PROVE  /\ dokumenti'[d] # NoValue
             /\ dokumenti'[d].izmena >= dokumenti[d].izmena
             /\ dokumenti[d].status # "DRAFT" =>
                  /\ dokumenti'[d].sadrzaj = dokumenti[d].sadrzaj
                  /\ dokumenti'[d].verzija = dokumenti[d].verzija
  <2> PICK z : z = zahtevi[a] OBVIOUS
  <2>1. /\ z.dok \in Dokument /\ z.red \in Docs!Red
        /\ Docs!changes(dokumenti[z.dok], z.red, z.akcija)
        /\ dokumenti' = [dokumenti EXCEPT ![z.dok] = z.red]
    BY <1>2, RowWritten
  <2>2. CASE z.dok = d
    <3>1. dokumenti'[d] = z.red /\ z.red # NoValue BY <1>0, <2>1, <2>2, NoValueApart
    <3>2. Docs!changes(dokumenti[d], z.red, z.akcija) BY <2>1, <2>2
    <3> QED BY <3>1, <3>2 DEF Docs!changes
  <2>3. CASE z.dok # d BY <1>0, <2>1, <2>3
  <2> QED BY <2>2, <2>3
<1>3. dokumenti' = dokumenti \/ \E a \in Urednik : Docs!commit(a)
  <2>1. ASSUME NEW a \in Urednik, Docs!Administrator(a) PROVE dokumenti' = dokumenti
    BY <2>1 DEF Docs!Administrator, Docs!update, Docs!create, Docs!replace_content,
       Docs!change_status, Docs!flush, Docs!Tables
  <2>2. ASSUME NEW a \in Urednik, Docs!rollback(a) PROVE dokumenti' = dokumenti
    BY <2>2 DEF Docs!rollback, Docs!Tables
  <2>3. ASSUME NEW e \in Citalac, Docs!Employee(e) PROVE dokumenti' = dokumenti
    BY <2>3 DEF Docs!Employee, Docs!get_published, Docs!get_published_content
  <2>4. ASSUME Docs!Tick \/ UNCHANGED Docs!vars PROVE dokumenti' = dokumenti
    BY <2>4 DEF Docs!Tick, Docs!vars
  <2> QED BY <2>1, <2>2, <2>3, <2>4 DEF Docs!Next
<1> QED BY <1>1, <1>2, <1>3

\* A document that employees can read keeps its content and its version, and no change of a
\* row is dated before the last one: the lock on the row lasts until the commit.
THEOREM PublishedStays == Docs!Spec => PublishedIsFrozen
<1>1. DocumentInv /\ [Docs!Next]_Docs!vars =>
        [\A d \in Dokument : dokumenti[d] # NoValue =>
           /\ dokumenti'[d] # NoValue
           /\ dokumenti'[d].izmena >= dokumenti[d].izmena
           /\ dokumenti[d].status # "DRAFT" =>
                /\ dokumenti'[d].sadrzaj = dokumenti[d].sadrzaj
                /\ dokumenti'[d].verzija = dokumenti[d].verzija]_Docs!vars
  BY DocumentsAssumption, FrozenStep DEF DocumentInv
<1> QED BY <1>1, DocumentsHold, PTL DEF Docs!Spec, PublishedIsFrozen, Docs!PublishedIsFrozen
=============================================================================
