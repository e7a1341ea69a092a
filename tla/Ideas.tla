-------------------------------- MODULE Ideas --------------------------------
(***************************************************************************)
(* Idea cycles and the ideas employees submit to them.                     *)
(*                                                                         *)
(* An employee's create_idea locks the row of the active cycle, so that    *)
(* counting his ideas and adding one are serial within a cycle.  Nothing   *)
(* else is locked: an employee's edit, a decision, a score and a change of *)
(* a cycle's status work on a copy of the row and write, at the flush next *)
(* to the commit, the columns in which the copy was changed.               *)
(*                                                                         *)
(* No code writes AI_OCENA, so KONACNA_OCENA stays empty with it.          *)
(***************************************************************************)
EXTENDS Integers, FiniteSets

CONSTANTS
  Ciklus,      \* ids of cycles
  Ideja,       \* ids of ideas
  Korisnik,    \* employees
  Tekst,       \* texts of ideas: title and description
  Ocena,       \* HR scores given
  None,        \* "no cycle, no idea, no employee"
  Thread,      \* request threads
  MAX_IDEJA,   \* MAX_IDEJA_PO_CIKLUSU of the configuration
  Period,      \* the instants from DATUM_POCETKA to DATUM_ZAVRSETKA of a cycle
  MaxTime      \* bound: the clock stops here

ASSUME ConstantsAssumption ==
  /\ None \notin Ciklus \cup Ideja \cup Korisnik
  /\ IsFiniteSet(Ideja)
  /\ Ocena \subseteq 1 .. 10
  /\ MAX_IDEJA \in Nat /\ MaxTime \in Nat
  /\ Period \in [Ciklus -> SUBSET Nat]

VARIABLES
  now,
  ciklusi,     \* status of each cycle
  ideje,       \* the rows of ideas
  dogadjaji,   \* keys of the enqueued system events
  posao        \* what each thread has read and is about to commit

vars == <<now, ciklusi, ideje, dogadjaji, posao>>

-----------------------------------------------------------------------------

CIKLUS_DOZVOLJENI_PRELAZI ==
  [NONE |-> {}, PLANIRAN |-> {"AKTIVAN"}, AKTIVAN |-> {"ZATVOREN"}, ZATVOREN |-> {}]
IDEJA_DOZVOLJENI_PRELAZI ==
  [NONE |-> {}, POSLATA |-> {"U_OBRADI", "ODBIJENA"}, U_OBRADI |-> {"ODOBRENA", "ODBIJENA"},
   ODOBRENA |-> {"TOP_10", "ODBIJENA"}, TOP_10 |-> {"NAGRADJENA"},
   ODBIJENA |-> {}, NAGRADJENA |-> {}]

\* "NONE": the row does not exist.
CycleStatuses == {"NONE", "PLANIRAN", "AKTIVAN", "ZATVOREN"}
IdeaStatuses == {"NONE", "POSLATA", "U_OBRADI", "ODOBRENA", "TOP_10", "NAGRADJENA", "ODBIJENA"}

\* hr = 0: not scored.
Red == [korisnik : Korisnik \cup {None}, ciklus : Ciklus \cup {None}, status : IdeaStatuses,
        tekst : Tekst \cup {None}, hr : Ocena \cup {0}]
NoRow == [korisnik |-> None, ciklus |-> None, status |-> "NONE", tekst |-> None, hr |-> 0]

\* Keys of events: a cycle is activated, an idea enters the best ten or is awarded.
Kljuc == {"IDEA_CYCLE_ACTIVATED"} \X Ciklus \cup {"IDEA_TOP_10", "IDEA_NAGRADJENA"} \X Ideja

\* at: the request's now; copy, new: the idea as read and as it shall be; bio,
\* bice: the same for the status of a cycle; novi: the event keys it inserts.
Posao == [pc : {"idle", "enter", "insert", "decide", "write", "cycle", "write_cycle"},
          at : Nat, korisnik : Korisnik \cup {None}, ciklus : Ciklus \cup {None},
          ideja : Ideja \cup {None}, copy : Red, new : Red,
          bio : CycleStatuses, bice : CycleStatuses, novi : SUBSET Kljuc]
Idle == [pc |-> "idle", at |-> 0, korisnik |-> None, ciklus |-> None, ideja |-> None,
         copy |-> NoRow, new |-> NoRow, bio |-> "NONE", bice |-> "NONE", novi |-> {}]

Init ==
  /\ now = 0
  /\ ciklusi = [c \in Ciklus |-> "NONE"]
  /\ ideje = [i \in Ideja |-> NoRow]
  /\ dogadjaji = {}
  /\ posao = [t \in Thread |-> Idle]

become(t, z) == posao' = [posao EXCEPT ![t] = z]

Tables == <<ciklusi, ideje, dogadjaji>>

is_submission_open(c, at) == ciklusi[c] = "AKTIVAN" /\ at \in Period[c]

-----------------------------------------------------------------------------
(* create_idea *)

\* The request takes the time before it waits for the cycle.
create_idea(t, u) ==
  /\ posao[t].pc = "idle"
  /\ become(t, [Idle EXCEPT !.pc = "enter", !.at = now, !.korisnik = u])
  /\ UNCHANGED now /\ UNCHANGED Tables

\* (mutant) the active cycle is read without FOR UPDATE
unlocked(c) == c \in Ciklus

\* Nobody holds the row of cycle c.
free(c) == \A t \in Thread : ~(posao[t].pc = "insert" /\ posao[t].ciklus = c)

ideas_of(u, c) == {i \in Ideja : ideje[i].korisnik = u /\ ideje[i].ciklus = c}

\* (mutant) rejected ideas do not count
count_not_rejected(u, c) ==
  Cardinality({i \in ideas_of(u, c) : ideje[i].status # "ODBIJENA"})

\* All ideas the employee sent to the cycle count, the rejected ones too.
count_user_ideas_in_cycle(u, c) == Cardinality(ideas_of(u, c))

\* Lock the active cycle, check that it is open, count.
get_active_cycle_for_update(t, c) ==
  LET z == posao[t] IN
  /\ z.pc = "enter"
  /\ free(c)
  /\ is_submission_open(c, z.at)
  /\ count_user_ideas_in_cycle(z.korisnik, c) < MAX_IDEJA
  /\ become(t, [z EXCEPT !.pc = "insert", !.ciklus = c])
  /\ UNCHANGED now /\ UNCHANGED Tables

\* Insert, commit, release the cycle.
insert_idea(t, i, x) ==
  LET z == posao[t] IN
  /\ z.pc = "insert"
  /\ ideje[i] = NoRow
  /\ ideje' = [ideje EXCEPT ![i] = [korisnik |-> z.korisnik, ciklus |-> z.ciklus,
                                    status |-> "POSLATA", tekst |-> x, hr |-> 0]]
  /\ become(t, Idle)
  /\ UNCHANGED <<now, ciklusi, dogadjaji>>

-----------------------------------------------------------------------------
(* update_my_idea, set_hr_score, change_idea_status *)

\* Read idea i and intend row.
load(t, i, pc, row) ==
  /\ posao[t].pc = "idle"
  /\ ideje[i] # NoRow
  /\ become(t, [Idle EXCEPT !.pc = pc, !.ideja = i, !.copy = ideje[i], !.new = row])
  /\ UNCHANGED now /\ UNCHANGED Tables

update_my_idea(t, i, x) ==
  /\ ideje[i].status = "POSLATA"
  /\ is_submission_open(ideje[i].ciklus, now)
  /\ load(t, i, "write", [ideje[i] EXCEPT !.tekst = x])

set_hr_score(t, i, hr) == load(t, i, "write", [ideje[i] EXCEPT !.hr = hr])

\* (mutant) an approved idea may be awarded at once
award_shortcut(trenutni, novi) ==
  novi \in IDEJA_DOZVOLJENI_PRELAZI[trenutni] \/ <<trenutni, novi>> = <<"ODOBRENA", "NAGRADJENA">>

is_valid_idea_transition(trenutni, novi) == novi \in IDEJA_DOZVOLJENI_PRELAZI[trenutni]

change_idea_status(t, i, novi) ==
  /\ is_valid_idea_transition(ideje[i].status, novi)
  /\ load(t, i, "decide", [ideje[i] EXCEPT !.status = novi])

\* (mutant) only an award is announced
awards_only(i, status) == IF status = "NAGRADJENA" THEN {<<"IDEA_NAGRADJENA", i>>} ELSE {}

\* The event a decision calls for.
distinction(i, status) ==
  CASE status = "TOP_10"     -> {<<"IDEA_TOP_10", i>>}
    [] status = "NAGRADJENA" -> {<<"IDEA_NAGRADJENA", i>>}
    [] OTHER                 -> {}

\* enqueue_if_absent: the keys of committed events are not inserted again.
absent(K) == K \ dogadjaji

enqueue_distinction(t) ==
  LET z == posao[t] IN
  /\ z.pc = "decide"
  /\ become(t, [z EXCEPT !.pc = "write", !.novi = absent(distinction(z.ideja, z.new.status))])
  /\ UNCHANGED now /\ UNCHANGED Tables

\* (mutant) an UPDATE writes every column
whole_row(stored, loaded, new) == new

\* An UPDATE writes the columns in which the copy was changed.
column(stored, loaded, new) == IF new # loaded THEN new ELSE stored

flush(row, copy, new) ==
  [row EXCEPT !.status = column(row.status, copy.status, new.status),
              !.tekst  = column(row.tekst, copy.tekst, new.tekst),
              !.hr     = column(row.hr, copy.hr, new.hr)]

\* Row and event commit together; an event key that exists meanwhile refuses both.
commit_idea(t) ==
  LET z == posao[t] IN
  /\ z.pc = "write"
  /\ z.novi \cap dogadjaji = {}
  /\ ideje' = [ideje EXCEPT ![z.ideja] = flush(ideje[z.ideja], z.copy, z.new)]
  /\ dogadjaji' = dogadjaji \cup z.novi
  /\ become(t, Idle)
  /\ UNCHANGED <<now, ciklusi>>

-----------------------------------------------------------------------------
(* create_cycle, change_cycle_status *)

create_cycle(c) ==
  /\ ciklusi[c] = "NONE"
  /\ ciklusi' = [ciklusi EXCEPT ![c] = "PLANIRAN"]
  /\ UNCHANGED <<now, ideje, dogadjaji, posao>>

is_valid_cycle_transition(trenutni, novi) == novi \in CIKLUS_DOZVOLJENI_PRELAZI[trenutni]

change_cycle_status(t, c, novi) ==
  /\ posao[t].pc = "idle"
  /\ is_valid_cycle_transition(ciklusi[c], novi)
  /\ become(t, [Idle EXCEPT !.pc = "cycle", !.ciklus = c, !.bio = ciklusi[c], !.bice = novi])
  /\ UNCHANGED now /\ UNCHANGED Tables

count_active_cycles == Cardinality({c \in Ciklus : ciklusi[c] = "AKTIVAN"})

\* An activation is announced.
activation(c, status) == IF status = "AKTIVAN" THEN {<<"IDEA_CYCLE_ACTIVATED", c>>} ELSE {}

\* No other cycle may seem active; then look for the event.
enqueue_idea_cycle_activated(t) ==
  LET z == posao[t] IN
  /\ z.pc = "cycle"
  /\ z.bice = "AKTIVAN" => count_active_cycles = 0
  /\ become(t, [z EXCEPT !.pc = "write_cycle", !.novi = absent(activation(z.ciklus, z.bice))])
  /\ UNCHANGED now /\ UNCHANGED Tables

\* (mutant) without the index UX_IDEA_CIKLUS_JEDAN_AKTIVAN
unindexed(c, status) == c \in Ciklus

\* UX_IDEA_CIKLUS_JEDAN_AKTIVAN
single_active(c, status) == status = "AKTIVAN" => \A d \in Ciklus \ {c} : ciklusi[d] # "AKTIVAN"

\* The UPDATE waits for an employee who holds the cycle.
commit_cycle(t) ==
  LET z == posao[t] IN
  /\ z.pc = "write_cycle"
  /\ free(z.ciklus)
  /\ single_active(z.ciklus, z.bice)
  /\ z.novi \cap dogadjaji = {}
  /\ ciklusi' = [ciklusi EXCEPT ![z.ciklus] = z.bice]
  /\ dogadjaji' = dogadjaji \cup z.novi
  /\ become(t, Idle)
  /\ UNCHANGED <<now, ideje>>

-----------------------------------------------------------------------------

\* A request is refused by a check or a constraint, or fails: nothing remains.
rollback(t) ==
  /\ posao[t].pc # "idle"
  /\ become(t, Idle)
  /\ UNCHANGED now /\ UNCHANGED Tables

Tick == now < MaxTime /\ now' = now + 1 /\ UNCHANGED posao /\ UNCHANGED Tables

Employee(t) == \/ \E u \in Korisnik : create_idea(t, u)
               \/ \E c \in Ciklus : get_active_cycle_for_update(t, c)
               \/ \E i \in Ideja, x \in Tekst : insert_idea(t, i, x) \/ update_my_idea(t, i, x)

Hr(t) == \/ \E i \in Ideja : \/ \E hr \in Ocena : set_hr_score(t, i, hr)
                             \/ \E novi \in IdeaStatuses : change_idea_status(t, i, novi)
         \/ enqueue_distinction(t)
         \/ \E c \in Ciklus, novi \in CycleStatuses : change_cycle_status(t, c, novi)
         \/ enqueue_idea_cycle_activated(t) \/ commit_cycle(t)

Next == \/ \E t \in Thread : Employee(t) \/ Hr(t) \/ commit_idea(t) \/ rollback(t)
        \/ \E c \in Ciklus : create_cycle(c)
        \/ Tick

Spec == Init /\ [][Next]_vars

-----------------------------------------------------------------------------
(* Properties *)

\* Every variable has its type.
TypeOK ==
  /\ now \in Nat
  /\ ciklusi \in [Ciklus -> CycleStatuses]
  /\ ideje \in [Ideja -> Red]
  /\ dogadjaji \subseteq Kljuc
  /\ posao \in [Thread -> Posao]

\* At most one cycle is active, though activations overlap.
OneActiveCycle == \A c, d \in Ciklus : ciklusi[c] = "AKTIVAN" /\ ciklusi[d] = "AKTIVAN" => c = d

\* Nobody has more ideas in a cycle than the limit, though his requests overlap.
WithinLimit == \A u \in Korisnik, c \in Ciklus : Cardinality(ideas_of(u, c)) <= MAX_IDEJA

\* An active cycle, an idea among the best ten and an awarded one, which was among
\* them, have been announced, whatever stale copies were written.
DistinctionsAnnounced ==
  /\ \A c \in Ciklus : ciklusi[c] = "AKTIVAN" => <<"IDEA_CYCLE_ACTIVATED", c>> \in dogadjaji
  /\ \A i \in Ideja :
       /\ ideje[i].status \in {"TOP_10", "NAGRADJENA"} => <<"IDEA_TOP_10", i>> \in dogadjaji
       /\ ideje[i].status = "NAGRADJENA" => <<"IDEA_NAGRADJENA", i>> \in dogadjaji

\* An idea enters a cycle only while that is active: closing it waits for those
\* who hold it, and who comes later finds it closed.
EnteredWhileActive ==
  [][\A i \in Ideja : ideje[i] = NoRow /\ ideje'[i] # NoRow => ciklusi[ideje'[i].ciklus] = "AKTIVAN"]_vars

\* An edit or a score that overlaps a decision does not undo it.
EditsKeepDecisions ==
  [][\A i \in Ideja : ideje[i] # NoRow /\ <<ideje'[i].tekst, ideje'[i].hr>> # <<ideje[i].tekst, ideje[i].hr>>
       => ideje'[i].status = ideje[i].status]_vars

\* Why it works: who holds a cycle is alone and it stays active and below the limit.
Holders == \A t \in Thread : posao[t].pc = "insert" => LET z == posao[t] IN
  /\ z.ciklus \in Ciklus /\ z.korisnik \in Korisnik
  /\ ciklusi[z.ciklus] = "AKTIVAN"
  /\ Cardinality(ideas_of(z.korisnik, z.ciklus)) < MAX_IDEJA
  /\ \A s \in Thread : posao[s].pc = "insert" /\ posao[s].ciklus = z.ciklus => s = t

existing == {i \in Ideja : ideje[i] # NoRow}
Authored == \A i \in existing : ideje[i].korisnik \in Korisnik

\* Events K and ideas E are never removed, so what a thread knows of them stays true.
Known(z, K, E) ==
  /\ z.pc = "enter" => z.korisnik \in Korisnik
  /\ z.pc \in {"decide", "write"} =>
       /\ z.ideja \in Ideja /\ z.ideja \in E
       /\ z.copy.status = "TOP_10" => <<"IDEA_TOP_10", z.ideja>> \in K
       /\ z.new.status # z.copy.status /\ z.new.status = "NAGRADJENA" => z.copy.status = "TOP_10"
       /\ z.new.status # z.copy.status => z.new.tekst = z.copy.tekst /\ z.new.hr = z.copy.hr
  /\ z.pc = "write" /\ z.new.status # z.copy.status =>
       distinction(z.ideja, z.new.status) \subseteq K \cup z.novi
  /\ z.pc \in {"cycle", "write_cycle"} => z.ciklus \in Ciklus
  /\ z.pc = "write_cycle" => activation(z.ciklus, z.bice) \subseteq K \cup z.novi
KnownToThreads == \A t \in Thread : Known(posao[t], dogadjaji, existing)

IInv == /\ TypeOK /\ OneActiveCycle /\ WithinLimit /\ DistinctionsAnnounced
        /\ Holders /\ Authored /\ KnownToThreads
=============================================================================
