----------------------------- MODULE IdeasProofs -----------------------------
(***************************************************************************)
(* Proofs about Ideas, for all cycles, employees, threads and limits.      *)
(*                                                                         *)
(* A thread that holds a cycle is alone in that (Holders): its count stays *)
(* right until it inserts, and the cycle stays active, because a change of *)
(* its status waits.  Events are never removed, so that a stale copy of a  *)
(* distinguished idea still tells that the event exists (Known).           *)
(***************************************************************************)
EXTENDS Ideas, FiniteSetTheorems, TLAPS

-----------------------------------------------------------------------------
(* Lemmas about the operators *)

\* An UPDATE of a row with columns of copies gives a row, of the same author and cycle.
LEMMA FlushTyped ==
  ASSUME NEW row \in Red, NEW copy \in Red, NEW new \in Red
  PROVE  /\ flush(row, copy, new) \in Red
         /\ flush(row, copy, new).korisnik = row.korisnik
         /\ flush(row, copy, new).ciklus = row.ciklus
         /\ flush(row, copy, new).status = IF new.status # copy.status THEN new.status ELSE row.status
<1> DEFINE f == flush(row, copy, new)
<1>1. f = [row EXCEPT !.status = column(row.status, copy.status, new.status),
                      !.tekst  = column(row.tekst, copy.tekst, new.tekst),
                      !.hr     = column(row.hr, copy.hr, new.hr)]
  BY DEF flush
<1> HIDE DEF f
<1>2. /\ f.korisnik = row.korisnik /\ f.ciklus = row.ciklus
      /\ f.status = column(row.status, copy.status, new.status)
      /\ f.tekst = column(row.tekst, copy.tekst, new.tekst)
      /\ f.hr = column(row.hr, copy.hr, new.hr)
  BY <1>1 DEF Red
<1>3. /\ row.korisnik \in Korisnik \cup {None} /\ row.ciklus \in Ciklus \cup {None}
      /\ row.status \in IdeaStatuses /\ new.status \in IdeaStatuses
      /\ row.tekst \in Tekst \cup {None} /\ new.tekst \in Tekst \cup {None}
      /\ row.hr \in Ocena \cup {0} /\ new.hr \in Ocena \cup {0}
  BY DEF Red
<1>4. /\ column(row.status, copy.status, new.status) \in IdeaStatuses
      /\ column(row.tekst, copy.tekst, new.tekst) \in Tekst \cup {None}
      /\ column(row.hr, copy.hr, new.hr) \in Ocena \cup {0}
  BY <1>3 DEF column
<1>5. f \in Red
  <2>1. f = [korisnik |-> row.korisnik, ciklus |-> row.ciklus,
             status |-> column(row.status, copy.status, new.status),
             tekst |-> column(row.tekst, copy.tekst, new.tekst),
             hr |-> column(row.hr, copy.hr, new.hr)]
    BY <1>1 DEF Red
  <2> QED BY <1>3, <1>4, <2>1 DEF Red
<1> QED BY <1>2, <1>5 DEF column, f

\* The events of decisions and activations are keys.
LEMMA EventsAreKeys ==
  ASSUME NEW s
  PROVE  /\ \A i \in Ideja : distinction(i, s) \subseteq Kljuc
         /\ \A c \in Ciklus : activation(c, s) \subseteq Kljuc
<1>1. ASSUME NEW i \in Ideja PROVE distinction(i, s) \subseteq Kljuc
  <2>1. CASE s = "TOP_10" BY <2>1 DEF distinction, Kljuc
  <2>2. CASE s = "NAGRADJENA" BY <2>2 DEF distinction, Kljuc
  <2>3. CASE s \notin {"TOP_10", "NAGRADJENA"} BY <2>3 DEF distinction, Kljuc
  <2> QED BY <2>1, <2>2, <2>3
<1>2. ASSUME NEW c \in Ciklus PROVE activation(c, s) \subseteq Kljuc
  BY DEF activation, Kljuc
<1> QED BY <1>1, <1>2

\* What is known stays known when events are added.
LEMMA KnownMonotone ==
  ASSUME NEW z, NEW K, NEW L, NEW E, NEW F, K \subseteq L, E \subseteq F, Known(z, K, E)
  PROVE  Known(z, L, F)
BY DEF Known

\* One thread moves on: types and knowledge of all threads.
LEMMA ThreadStep ==
  ASSUME posao \in [Thread -> Posao], KnownToThreads, NEW t \in Thread, NEW z \in Posao,
         become(t, z), Known(z, dogadjaji', existing'), dogadjaji \subseteq dogadjaji', existing \subseteq existing'
  PROVE  /\ posao' \in [Thread -> Posao]
         /\ KnownToThreads'
<1>1. posao' \in [Thread -> Posao]
  BY DEF become
<1>2. ASSUME NEW s \in Thread PROVE Known(posao'[s], dogadjaji', existing')
  <2>1. CASE s = t BY <2>1 DEF become
  <2>2. CASE s # t
    <3>1. posao'[s] = posao[s] BY <2>2 DEF become
    <3>2. Known(posao[s], dogadjaji, existing) BY DEF KnownToThreads
    <3> QED BY <3>1, <3>2, KnownMonotone
  <2> QED BY <2>1, <2>2
<1> QED BY <1>1, <1>2 DEF KnownToThreads

\* A step that moves no idea between authors and cycles and takes no cycle keeps
\* the holders.
LEMMA HoldersKept ==
  ASSUME posao \in [Thread -> Posao], Holders, NEW t \in Thread, NEW z \in Posao, become(t, z),
         z.pc # "insert",
         \A u \in Korisnik, c \in Ciklus : ideas_of(u, c)' = ideas_of(u, c),
         \A s \in Thread \ {t} : posao[s].pc = "insert" => ciklusi'[posao[s].ciklus] = ciklusi[posao[s].ciklus]
  PROVE  Holders'
<1> SUFFICES ASSUME NEW s \in Thread, posao'[s].pc = "insert"
             PROVE  /\ posao'[s].ciklus \in Ciklus /\ posao'[s].korisnik \in Korisnik
                    /\ ciklusi'[posao'[s].ciklus] = "AKTIVAN"
                    /\ Cardinality(ideas_of(posao[s].korisnik, posao[s].ciklus)') < MAX_IDEJA
                    /\ posao'[s] = posao[s]
                    /\ \A r \in Thread : posao'[r].pc = "insert" /\ posao'[r].ciklus = posao'[s].ciklus => r = s
  BY DEF Holders, ideas_of
<1>1. s # t /\ posao'[s] = posao[s]
  BY DEF become
<1>2. \A r \in Thread : posao'[r].pc = "insert" => posao'[r] = posao[r]
  BY DEF become
<1>3. posao[s].ciklus \in Ciklus /\ posao[s].korisnik \in Korisnik
  BY <1>1 DEF Holders
<1> QED BY <1>1, <1>2, <1>3 DEF Holders

\* A step of a thread that leaves the tables alone and takes no cycle.
LEMMA QuietStep ==
  ASSUME IInv, NEW t \in Thread, NEW z \in Posao, become(t, z), z.pc # "insert",
         Known(z, dogadjaji, existing), now' = now, UNCHANGED Tables
  PROVE  IInv'
<1>1. posao \in [Thread -> Posao] /\ KnownToThreads /\ Holders BY DEF IInv, TypeOK
<1>2. /\ ciklusi' = ciklusi /\ ideje' = ideje /\ dogadjaji' = dogadjaji
      /\ existing' = existing
  BY DEF Tables, existing
<1>3. posao' \in [Thread -> Posao] /\ KnownToThreads'
  BY <1>1, <1>2, ThreadStep
<1>4. \A u \in Korisnik, c \in Ciklus : ideas_of(u, c)' = ideas_of(u, c) BY <1>2 DEF ideas_of
<1>5. Holders' BY <1>1, <1>2, <1>4, HoldersKept
<1>6. TypeOK' BY <1>2, <1>3 DEF IInv, TypeOK
<1>7. OneActiveCycle' /\ WithinLimit' /\ DistinctionsAnnounced' /\ Authored'
  BY <1>2, <1>4 DEF IInv, OneActiveCycle, WithinLimit, DistinctionsAnnounced, Authored
<1> QED BY <1>3, <1>5, <1>6, <1>7 DEF IInv

LEMMA IdleKnown == Idle \in Posao /\ Idle.pc = "idle" /\ \A K, E : Known(Idle, K, E)
<1>1. NoRow \in Red BY DEF NoRow, Red, IdeaStatuses
<1> QED BY <1>1 DEF Idle, Posao, CycleStatuses, Known

LEMMA InitInv == Init => IInv
<1> SUFFICES ASSUME Init PROVE IInv OBVIOUS
<1>1. TypeOK BY IdleKnown DEF Init, TypeOK, Idle, Posao, CycleStatuses
<1>2. OneActiveCycle /\ DistinctionsAnnounced /\ Holders /\ Authored /\ KnownToThreads
  BY IdleKnown DEF Init, OneActiveCycle, DistinctionsAnnounced, Holders, Authored, existing,
                   KnownToThreads, NoRow
<1>3. \A u \in Korisnik, c \in Ciklus : ideas_of(u, c) = {}
  BY ConstantsAssumption DEF Init, ideas_of, NoRow
<1>4. WithinLimit BY <1>3, FS_EmptySet, ConstantsAssumption DEF WithinLimit
<1> QED BY <1>1, <1>2, <1>4 DEF IInv

-----------------------------------------------------------------------------
(* create_idea *)

LEMMA CreateStep ==
  ASSUME IInv, NEW t \in Thread, NEW u \in Korisnik, create_idea(t, u)
  PROVE  IInv'
<1> DEFINE z == [Idle EXCEPT !.pc = "enter", !.at = now, !.korisnik = u]
<1>1. z \in Posao /\ z.pc = "enter"
  BY IdleKnown DEF IInv, TypeOK, Posao, Idle
<1>2. Known(z, dogadjaji, existing) BY DEF Known, Idle
<1>3. become(t, z) /\ now' = now /\ UNCHANGED Tables BY DEF create_idea
<1> HIDE DEF z
<1> QED BY <1>1, <1>2, <1>3, QuietStep

LEMMA LockStep ==
  ASSUME IInv, NEW t \in Thread, NEW c \in Ciklus, get_active_cycle_for_update(t, c)
  PROVE  IInv'
<1> DEFINE w == posao[t]
           z == [w EXCEPT !.pc = "insert", !.ciklus = c]
<1>1. posao \in [Thread -> Posao] /\ KnownToThreads /\ Holders /\ w \in Posao
  BY DEF IInv, TypeOK
<1>2. z \in Posao /\ z.pc = "insert" /\ z.ciklus = c /\ z.korisnik = w.korisnik
  BY <1>1 DEF Posao
<1>3. Known(z, dogadjaji, existing) BY <1>2 DEF Known
<1>4. /\ become(t, z) /\ now' = now /\ ciklusi' = ciklusi /\ ideje' = ideje /\ dogadjaji' = dogadjaji
      /\ w.pc = "enter" /\ free(c) /\ ciklusi[c] = "AKTIVAN"
      /\ Cardinality(ideas_of(w.korisnik, c)) < MAX_IDEJA
  BY DEF get_active_cycle_for_update, Tables, is_submission_open, count_user_ideas_in_cycle
<1> HIDE DEF z
<1>10. existing' = existing BY <1>4 DEF existing
<1>5. posao' \in [Thread -> Posao] /\ KnownToThreads'
  BY <1>1, <1>2, <1>3, <1>4, <1>10, ThreadStep
<1>6. \A u, d : ideas_of(u, d)' = ideas_of(u, d) BY <1>4 DEF ideas_of
<1>7. TypeOK' BY <1>4, <1>5 DEF IInv, TypeOK
<1>8. OneActiveCycle' /\ WithinLimit' /\ DistinctionsAnnounced' /\ Authored'
  BY <1>4, <1>6, <1>10 DEF IInv, OneActiveCycle, WithinLimit, DistinctionsAnnounced, Authored
<1>9. Holders'
  <2> SUFFICES ASSUME NEW s \in Thread, posao'[s].pc = "insert"
               PROVE  /\ posao'[s].ciklus \in Ciklus /\ posao'[s].korisnik \in Korisnik
                      /\ ciklusi'[posao'[s].ciklus] = "AKTIVAN"
                      /\ Cardinality(ideas_of(posao'[s].korisnik, posao'[s].ciklus)) < MAX_IDEJA
                      /\ \A r \in Thread : posao'[r].pc = "insert" /\ posao'[r].ciklus = posao'[s].ciklus => r = s
    BY <1>4 DEF Holders, ideas_of
  <2>1. \A r \in Thread : posao'[r] = IF r = t THEN z ELSE posao[r]
    BY <1>1, <1>4 DEF become
  <2>2. \A r \in Thread : posao[r].pc = "insert" => posao[r].ciklus # c
    BY <1>4 DEF free
  <2>3. w.korisnik \in Korisnik BY <1>1, <1>4 DEF KnownToThreads, Known
  <2>4. CASE s = t BY <1>2, <1>4, <2>1, <2>2, <2>3, <2>4
  <2>5. CASE s # t
    <3>1. posao'[s] = posao[s] /\ posao[s].ciklus # c BY <2>1, <2>2, <2>5
    <3> QED BY <1>1, <1>2, <1>4, <2>1, <3>1 DEF Holders
  <2> QED BY <2>4, <2>5
<1> QED BY <1>5, <1>7, <1>8, <1>9 DEF IInv

LEMMA InsertStep ==
  ASSUME IInv, NEW t \in Thread, NEW i \in Ideja, NEW x \in Tekst, insert_idea(t, i, x)
  PROVE  IInv'
<1> DEFINE w == posao[t]
           u == w.korisnik
           c == w.ciklus
           row == [korisnik |-> u, ciklus |-> c, status |-> "POSLATA", tekst |-> x, hr |-> 0]
<1>1. posao \in [Thread -> Posao] /\ KnownToThreads /\ Holders /\ ideje \in [Ideja -> Red] /\ w \in Posao
  BY DEF IInv, TypeOK
<1>2. /\ w.pc = "insert" /\ ideje[i] = NoRow /\ ideje' = [ideje EXCEPT ![i] = row]
      /\ become(t, Idle) /\ now' = now /\ ciklusi' = ciklusi /\ dogadjaji' = dogadjaji
  BY DEF insert_idea
<1>3. u \in Korisnik /\ c \in Ciklus /\ Cardinality(ideas_of(u, c)) < MAX_IDEJA
  BY <1>1, <1>2 DEF Holders
<1>4. row \in Red /\ row # NoRow BY <1>3, ConstantsAssumption DEF Red, IdeaStatuses, NoRow
<1>12. existing' = existing \cup {i} /\ Authored'
  BY <1>1, <1>2, <1>3, <1>4 DEF existing, IInv, Authored
<1>5. posao' \in [Thread -> Posao] /\ KnownToThreads'
  BY <1>1, <1>2, <1>12, IdleKnown, ThreadStep
<1>6. TypeOK' BY <1>1, <1>2, <1>4, <1>5 DEF IInv, TypeOK
<1>7. OneActiveCycle' BY <1>2 DEF IInv, OneActiveCycle
<1>8. DistinctionsAnnounced' BY <1>1, <1>2 DEF IInv, DistinctionsAnnounced
<1>9. \A v \in Korisnik, d \in Ciklus :
        ideas_of(v, d)' = IF v = u /\ d = c THEN ideas_of(v, d) \cup {i} ELSE ideas_of(v, d)
  <2> SUFFICES ASSUME NEW v \in Korisnik, NEW d \in Ciklus
               PROVE  ideas_of(v, d)' = IF v = u /\ d = c THEN ideas_of(v, d) \cup {i} ELSE ideas_of(v, d)
    OBVIOUS
  <2>1. i \notin ideas_of(v, d) BY <1>2, ConstantsAssumption DEF ideas_of, NoRow
  <2>2. \A j \in Ideja : ideje'[j] = IF j = i THEN row ELSE ideje[j] BY <1>1, <1>2
  <2>3. row.korisnik = u /\ row.ciklus = c OBVIOUS
  <2> HIDE DEF row, u, c
  <2>4. ideas_of(v, d)' = {j \in Ideja : ideje'[j].korisnik = v /\ ideje'[j].ciklus = d} BY DEF ideas_of
  <2>5. CASE v = u /\ d = c
    <3>1. \A j : j \in ideas_of(v, d)' <=> j \in ideas_of(v, d) \cup {i}
      BY <2>2, <2>3, <2>4, <2>5 DEF ideas_of
    <3> QED BY <2>5, <3>1
  <2>6. CASE ~(v = u /\ d = c)
    <3>1. \A j : j \in ideas_of(v, d)' <=> j \in ideas_of(v, d)
      BY <2>1, <2>2, <2>3, <2>4, <2>6 DEF ideas_of
    <3> QED BY <2>6, <3>1
  <2> QED BY <2>5, <2>6
<1> HIDE DEF row
<1>10. WithinLimit'
  <2> SUFFICES ASSUME NEW v \in Korisnik, NEW d \in Ciklus PROVE Cardinality(ideas_of(v, d)') <= MAX_IDEJA
    BY DEF WithinLimit
  <2>1. Cardinality(ideas_of(v, d)) <= MAX_IDEJA BY DEF IInv, WithinLimit
  <2>2. CASE ~(v = u /\ d = c) BY <1>9, <2>1, <2>2
  <2>3. CASE v = u /\ d = c
    <3>1. IsFiniteSet(ideas_of(u, c)) BY ConstantsAssumption, FS_Subset DEF ideas_of
    <3>2. Cardinality(ideas_of(u, c) \cup {i}) \in {Cardinality(ideas_of(u, c)), Cardinality(ideas_of(u, c)) + 1}
      BY <3>1, FS_AddElement
    <3>3. Cardinality(ideas_of(u, c)) \in Nat BY <3>1, FS_CardinalityType
    <3>4. Cardinality(ideas_of(v, d)') \in {Cardinality(ideas_of(u, c)), Cardinality(ideas_of(u, c)) + 1}
      BY <1>9, <2>3, <3>2
    <3> HIDE DEF u, c
    <3> QED BY <1>3, <3>3, <3>4, ConstantsAssumption
  <2> QED BY <2>2, <2>3
<1>11. Holders'
  <2> SUFFICES ASSUME NEW s \in Thread, posao'[s].pc = "insert"
               PROVE  /\ posao'[s].ciklus \in Ciklus /\ posao'[s].korisnik \in Korisnik
                      /\ ciklusi'[posao'[s].ciklus] = "AKTIVAN"
                      /\ Cardinality({j \in Ideja : /\ ideje'[j].korisnik = posao'[s].korisnik
                                                   /\ ideje'[j].ciklus = posao'[s].ciklus}) < MAX_IDEJA
                      /\ \A r \in Thread : posao'[r].pc = "insert" /\ posao'[r].ciklus = posao'[s].ciklus => r = s
    BY DEF Holders, ideas_of
  <2>1. \A r \in Thread : posao'[r] = IF r = t THEN Idle ELSE posao[r]
    BY <1>1, <1>2 DEF become
  <2>2. s # t /\ posao'[s] = posao[s] /\ posao[s].pc = "insert" BY <2>1, IdleKnown
  <2> DEFINE v == posao[s].korisnik
             d == posao[s].ciklus
  <2>3. /\ d \in Ciklus /\ v \in Korisnik /\ ciklusi[d] = "AKTIVAN" /\ d # c
        /\ Cardinality(ideas_of(v, d)) < MAX_IDEJA
    BY <1>1, <1>2, <2>2 DEF Holders
  <2>4. \A y \in Korisnik, e \in Ciklus : e # c =>
          {j \in Ideja : ideje'[j].korisnik = y /\ ideje'[j].ciklus = e} = ideas_of(y, e)
    BY <1>9 DEF ideas_of
  <2>5. {j \in Ideja : ideje'[j].korisnik = v /\ ideje'[j].ciklus = d} = ideas_of(v, d)
    BY <2>3, <2>4
  <2>6. posao'[s].korisnik = v /\ posao'[s].ciklus = d BY <2>2
  <2>7. \A r \in Thread : posao'[r].pc = "insert" /\ posao'[r].ciklus = d => r = s
    <3> SUFFICES ASSUME NEW r \in Thread, posao'[r].pc = "insert", posao'[r].ciklus = d PROVE r = s
      OBVIOUS
    <3>1. posao'[r] = posao[r] BY <2>1, IdleKnown
    <3>2. posao[r].pc = "insert" /\ posao[r].ciklus = d BY <3>1
    <3>3. \A q \in Thread : posao[q].pc = "insert" /\ posao[q].ciklus = posao[s].ciklus => q = s
      BY <1>1, <2>2 DEF Holders
    <3> QED BY <3>2, <3>3
  <2> HIDE DEF v, d
  <2> QED BY <1>2, <2>3, <2>5, <2>6, <2>7
<1> QED BY <1>5, <1>6, <1>7, <1>8, <1>10, <1>11, <1>12 DEF IInv

-----------------------------------------------------------------------------
(* Edits, scores and decisions *)

LEMMA LoadStep ==
  ASSUME IInv, NEW t \in Thread, NEW i \in Ideja, NEW pc \in {"decide", "write"}, NEW row \in Red,
         pc = "write" => row.status = ideje[i].status,
         is_valid_idea_transition(ideje[i].status, row.status) \/ row.status = ideje[i].status,
         row.status # ideje[i].status => row.tekst = ideje[i].tekst /\ row.hr = ideje[i].hr,
         load(t, i, pc, row)
  PROVE  IInv'
<1> DEFINE z == [Idle EXCEPT !.pc = pc, !.ideja = i, !.copy = ideje[i], !.new = row]
<1>1. ideje[i] \in Red BY DEF IInv, TypeOK
<1>2. z \in Posao /\ z.pc = pc /\ z.ideja = i /\ z.copy = ideje[i] /\ z.new = row
  BY <1>1, IdleKnown DEF Idle, Posao
<1>3. become(t, z) /\ now' = now /\ UNCHANGED Tables /\ i \in existing BY DEF load, existing
<1> HIDE DEF z
<1>4. ideje[i].status = "TOP_10" => <<"IDEA_TOP_10", i>> \in dogadjaji
  BY DEF IInv, DistinctionsAnnounced
<1>5. row.status # ideje[i].status /\ row.status = "NAGRADJENA" => ideje[i].status = "TOP_10"
  BY <1>1 DEF is_valid_idea_transition, IDEJA_DOZVOLJENI_PRELAZI, Red, IdeaStatuses
<1>6. Known(z, dogadjaji, existing) BY <1>2, <1>3, <1>4, <1>5 DEF Known
<1> QED BY <1>2, <1>3, <1>6, QuietStep

LEMMA EditStep ==
  ASSUME IInv, NEW t \in Thread, NEW i \in Ideja, NEW x \in Tekst, update_my_idea(t, i, x)
  PROVE  IInv'
<1>1. [ideje[i] EXCEPT !.tekst = x] \in Red /\ [ideje[i] EXCEPT !.tekst = x].status = ideje[i].status
  BY DEF IInv, TypeOK, Red
<1> QED BY <1>1, LoadStep DEF update_my_idea

LEMMA ScoreStep ==
  ASSUME IInv, NEW t \in Thread, NEW i \in Ideja, NEW hr \in Ocena, set_hr_score(t, i, hr)
  PROVE  IInv'
<1>1. [ideje[i] EXCEPT !.hr = hr] \in Red /\ [ideje[i] EXCEPT !.hr = hr].status = ideje[i].status
  BY DEF IInv, TypeOK, Red
<1> QED BY <1>1, LoadStep DEF set_hr_score

LEMMA DecideStep ==
  ASSUME IInv, NEW t \in Thread, NEW i \in Ideja, NEW novi \in IdeaStatuses,
         change_idea_status(t, i, novi)
  PROVE  IInv'
<1>1. /\ [ideje[i] EXCEPT !.status = novi] \in Red /\ [ideje[i] EXCEPT !.status = novi].status = novi
      /\ [ideje[i] EXCEPT !.status = novi].tekst = ideje[i].tekst
      /\ [ideje[i] EXCEPT !.status = novi].hr = ideje[i].hr
  BY DEF IInv, TypeOK, Red
<1> QED BY <1>1, LoadStep DEF change_idea_status

LEMMA EnqueueStep ==
  ASSUME IInv, NEW t \in Thread, enqueue_distinction(t)
  PROVE  IInv'
<1> DEFINE w == posao[t]
           z == [w EXCEPT !.pc = "write", !.novi = absent(distinction(w.ideja, w.new.status))]
<1>1. w \in Posao /\ Known(w, dogadjaji, existing) /\ w.pc = "decide"
  BY DEF IInv, TypeOK, KnownToThreads, enqueue_distinction
<1>2. w.ideja \in Ideja BY <1>1 DEF Known
<1>3. absent(distinction(w.ideja, w.new.status)) \subseteq Kljuc
  BY <1>2, EventsAreKeys DEF absent
<1>4. /\ z \in Posao /\ z.pc = "write" /\ z.ideja = w.ideja /\ z.copy = w.copy /\ z.new = w.new
      /\ z.novi = absent(distinction(w.ideja, w.new.status))
  BY <1>1, <1>3 DEF Posao
<1>5. become(t, z) /\ now' = now /\ UNCHANGED Tables BY DEF enqueue_distinction
<1> HIDE DEF z
<1>6. distinction(w.ideja, w.new.status) \subseteq dogadjaji \cup absent(distinction(w.ideja, w.new.status))
  BY DEF absent
<1>7. Known(z, dogadjaji, existing) BY <1>1, <1>4, <1>6 DEF Known
<1> QED BY <1>4, <1>5, <1>7, QuietStep

LEMMA CommitIdeaStep ==
  ASSUME IInv, NEW t \in Thread, commit_idea(t)
  PROVE  IInv'
<1> DEFINE z == posao[t]
           i == z.ideja
           row == flush(ideje[i], z.copy, z.new)
<1>1. /\ posao \in [Thread -> Posao] /\ KnownToThreads /\ Holders /\ ideje \in [Ideja -> Red]
      /\ z \in Posao /\ Known(z, dogadjaji, existing) /\ z.pc = "write" /\ i \in Ideja
  BY DEF IInv, TypeOK, KnownToThreads, commit_idea, Known
<1>2. /\ ideje' = [ideje EXCEPT ![i] = row] /\ dogadjaji' = dogadjaji \cup z.novi
      /\ become(t, Idle) /\ now' = now /\ ciklusi' = ciklusi
  BY DEF commit_idea
<1>3. ideje[i] \in Red /\ z.copy \in Red /\ z.new \in Red /\ z.novi \subseteq Kljuc
  BY <1>1 DEF Posao
<1>4. /\ row \in Red /\ row.korisnik = ideje[i].korisnik /\ row.ciklus = ideje[i].ciklus
      /\ row.status = IF z.new.status # z.copy.status THEN z.new.status ELSE ideje[i].status
  BY <1>3, FlushTyped
<1> HIDE DEF row
<1>11. existing' = existing /\ Authored'
  <2>1. i \in existing /\ ideje[i].korisnik \in Korisnik BY <1>1 DEF Known, IInv, Authored
  <2>2. row # NoRow BY <1>4, <2>1, ConstantsAssumption DEF NoRow
  <2> QED BY <1>1, <1>2, <1>4, <2>1, <2>2 DEF existing, IInv, Authored
<1>5. posao' \in [Thread -> Posao] /\ KnownToThreads'
  BY <1>1, <1>2, <1>11, IdleKnown, ThreadStep
<1>6. TypeOK' BY <1>1, <1>2, <1>3, <1>4, <1>5 DEF IInv, TypeOK
<1>7. \A u \in Korisnik, c \in Ciklus : ideas_of(u, c)' = ideas_of(u, c)
  BY <1>1, <1>2, <1>4 DEF ideas_of
<1>8. Holders' BY <1>1, <1>2, <1>7, IdleKnown, HoldersKept
<1>9. OneActiveCycle' /\ WithinLimit' BY <1>2, <1>7 DEF IInv, OneActiveCycle, WithinLimit
<1>10. DistinctionsAnnounced'
  <2>1. \A c \in Ciklus : ciklusi'[c] = "AKTIVAN" => <<"IDEA_CYCLE_ACTIVATED", c>> \in dogadjaji'
    BY <1>2 DEF IInv, DistinctionsAnnounced
  <2>2. ASSUME NEW j \in Ideja
        PROVE  /\ ideje'[j].status \in {"TOP_10", "NAGRADJENA"} => <<"IDEA_TOP_10", j>> \in dogadjaji'
               /\ ideje'[j].status = "NAGRADJENA" => <<"IDEA_NAGRADJENA", j>> \in dogadjaji'
    <3>1. CASE ideje'[j].status = ideje[j].status
      BY <1>2, <3>1 DEF IInv, DistinctionsAnnounced
    <3>2. CASE ideje'[j].status # ideje[j].status
      <4>1. j = i /\ z.new.status # z.copy.status /\ ideje'[j].status = z.new.status
        BY <1>1, <1>2, <1>4, <3>2
      <4>2. distinction(i, z.new.status) \subseteq dogadjaji' BY <1>1, <1>2, <4>1 DEF Known
      <4>3. z.new.status = "TOP_10" => <<"IDEA_TOP_10", i>> \in dogadjaji'
        BY <4>2 DEF distinction
      <4>4. z.new.status = "NAGRADJENA" => <<"IDEA_NAGRADJENA", i>> \in dogadjaji'
        BY <4>2 DEF distinction
      <4>5. z.new.status = "NAGRADJENA" => <<"IDEA_TOP_10", i>> \in dogadjaji'
        BY <1>1, <1>2, <4>1 DEF Known
      <4> QED BY <4>1, <4>3, <4>4, <4>5
    <3> QED BY <3>1, <3>2
  <2> QED BY <2>1, <2>2 DEF DistinctionsAnnounced
<1> QED BY <1>5, <1>6, <1>8, <1>9, <1>10, <1>11 DEF IInv

-----------------------------------------------------------------------------
(* Cycles *)

LEMMA ChangeCycleStep ==
  ASSUME IInv, NEW t \in Thread, NEW c \in Ciklus, NEW novi \in CycleStatuses,
         change_cycle_status(t, c, novi)
  PROVE  IInv'
<1> DEFINE z == [Idle EXCEPT !.pc = "cycle", !.ciklus = c, !.bio = ciklusi[c], !.bice = novi]
<1>1. z \in Posao /\ z.pc = "cycle" /\ z.ciklus = c
  BY IdleKnown DEF Idle, Posao, IInv, TypeOK
<1>2. become(t, z) /\ now' = now /\ UNCHANGED Tables BY DEF change_cycle_status
<1> HIDE DEF z
<1>3. Known(z, dogadjaji, existing) BY <1>1 DEF Known
<1> QED BY <1>1, <1>2, <1>3, QuietStep

LEMMA EnqueueCycleStep ==
  ASSUME IInv, NEW t \in Thread, enqueue_idea_cycle_activated(t)
  PROVE  IInv'
<1> DEFINE w == posao[t]
           z == [w EXCEPT !.pc = "write_cycle", !.novi = absent(activation(w.ciklus, w.bice))]
<1>1. w \in Posao /\ Known(w, dogadjaji, existing) /\ w.pc = "cycle"
  BY DEF IInv, TypeOK, KnownToThreads, enqueue_idea_cycle_activated
<1>2. w.ciklus \in Ciklus BY <1>1 DEF Known
<1>3. absent(activation(w.ciklus, w.bice)) \subseteq Kljuc
  BY <1>2, EventsAreKeys DEF absent
<1>4. /\ z \in Posao /\ z.pc = "write_cycle" /\ z.ciklus = w.ciklus /\ z.bice = w.bice
      /\ z.novi = absent(activation(w.ciklus, w.bice))
  BY <1>1, <1>3 DEF Posao
<1>5. become(t, z) /\ now' = now /\ UNCHANGED Tables BY DEF enqueue_idea_cycle_activated
<1> HIDE DEF z
<1>6. activation(w.ciklus, w.bice) \subseteq dogadjaji \cup absent(activation(w.ciklus, w.bice))
  BY DEF absent
<1>7. Known(z, dogadjaji, existing) BY <1>2, <1>4, <1>6 DEF Known
<1> QED BY <1>4, <1>5, <1>7, QuietStep

LEMMA CommitCycleStep ==
  ASSUME IInv, NEW t \in Thread, commit_cycle(t)
  PROVE  IInv'
<1> DEFINE z == posao[t]
           c == z.ciklus
<1>1. /\ posao \in [Thread -> Posao] /\ KnownToThreads /\ Holders /\ ciklusi \in [Ciklus -> CycleStatuses]
      /\ z \in Posao /\ Known(z, dogadjaji, existing) /\ z.pc = "write_cycle" /\ c \in Ciklus
  BY DEF IInv, TypeOK, KnownToThreads, commit_cycle, Known
<1>2. /\ ciklusi' = [ciklusi EXCEPT ![c] = z.bice] /\ dogadjaji' = dogadjaji \cup z.novi
      /\ become(t, Idle) /\ now' = now /\ ideje' = ideje /\ free(c) /\ single_active(c, z.bice)
  BY DEF commit_cycle
<1>3. z.bice \in CycleStatuses /\ z.novi \subseteq Kljuc BY <1>1 DEF Posao
<1>12. existing' = existing /\ Authored' BY <1>2 DEF existing, IInv, Authored
<1>4. posao' \in [Thread -> Posao] /\ KnownToThreads'
  BY <1>1, <1>2, <1>12, IdleKnown, ThreadStep
<1>5. TypeOK' BY <1>1, <1>2, <1>3, <1>4 DEF IInv, TypeOK
<1>6. \A u \in Korisnik, d \in Ciklus : ideas_of(u, d)' = ideas_of(u, d) BY <1>2 DEF ideas_of
<1>7. ASSUME NEW s \in Thread, posao[s].pc = "insert" PROVE ciklusi'[posao[s].ciklus] = ciklusi[posao[s].ciklus]
  BY <1>1, <1>2, <1>7 DEF free, Holders
<1>8. Holders' BY <1>1, <1>2, <1>6, <1>7, IdleKnown, HoldersKept
<1>9. OneActiveCycle' BY <1>1, <1>2 DEF IInv, OneActiveCycle, single_active
<1>10. WithinLimit' BY <1>6 DEF IInv, WithinLimit
<1>11. DistinctionsAnnounced'
  <2>1. z.bice = "AKTIVAN" => <<"IDEA_CYCLE_ACTIVATED", c>> \in dogadjaji'
    BY <1>1, <1>2 DEF Known, activation
  <2>2. \A d \in Ciklus : ciklusi'[d] = "AKTIVAN" => <<"IDEA_CYCLE_ACTIVATED", d>> \in dogadjaji'
    BY <1>1, <1>2, <2>1 DEF IInv, DistinctionsAnnounced
  <2> QED BY <1>2, <2>2 DEF IInv, DistinctionsAnnounced
<1> QED BY <1>4, <1>5, <1>8, <1>9, <1>10, <1>11, <1>12 DEF IInv

\* A step that changes nothing but the clock.
LEMMA ClockStep ==
  ASSUME IInv, now' \in Nat, UNCHANGED <<ciklusi, ideje, dogadjaji, posao>>
  PROVE  IInv'
<1>1. TypeOK' BY DEF IInv, TypeOK
<1>2. OneActiveCycle' /\ WithinLimit' /\ DistinctionsAnnounced'
  BY DEF IInv, OneActiveCycle, WithinLimit, DistinctionsAnnounced, ideas_of
<1>3. Holders' BY DEF IInv, Holders, ideas_of
<1>4. existing' = existing BY DEF existing
<1>5. Authored' /\ KnownToThreads' BY <1>4 DEF IInv, Authored, KnownToThreads
<1> QED BY <1>1, <1>2, <1>3, <1>5 DEF IInv

LEMMA CreateCycleStep ==
  ASSUME IInv, NEW c \in Ciklus, create_cycle(c)
  PROVE  IInv'
<1>1. /\ ciklusi[c] = "NONE" /\ ciklusi' = [ciklusi EXCEPT ![c] = "PLANIRAN"]
      /\ UNCHANGED <<now, ideje, dogadjaji, posao>>
  BY DEF create_cycle
<1>2. ciklusi \in [Ciklus -> CycleStatuses] BY DEF IInv, TypeOK
<1>3. \A d \in Ciklus : ciklusi'[d] = "AKTIVAN" <=> ciklusi[d] = "AKTIVAN"
  BY <1>1, <1>2
<1>4. TypeOK' BY <1>1, <1>2 DEF IInv, TypeOK, CycleStatuses
<1>5. OneActiveCycle' /\ DistinctionsAnnounced'
  BY <1>1, <1>3 DEF IInv, OneActiveCycle, DistinctionsAnnounced
<1>6. WithinLimit' BY <1>1 DEF IInv, WithinLimit, ideas_of
<1>7. Holders' BY <1>1, <1>3 DEF IInv, Holders, ideas_of
<1>8. existing' = existing BY <1>1 DEF existing
<1>9. Authored' /\ KnownToThreads' BY <1>1, <1>8 DEF IInv, Authored, KnownToThreads
<1> QED BY <1>4, <1>5, <1>6, <1>7, <1>9 DEF IInv

-----------------------------------------------------------------------------
(* The invariant *)

LEMMA NextInv == IInv /\ [Next]_vars => IInv'
<1> SUFFICES ASSUME IInv, [Next]_vars PROVE IInv' OBVIOUS
<1>1. ASSUME NEW t \in Thread, Employee(t) PROVE IInv'
  BY <1>1, CreateStep, LockStep, InsertStep, EditStep DEF Employee
<1>2. ASSUME NEW t \in Thread, Hr(t) PROVE IInv'
  BY <1>2, ScoreStep, DecideStep, EnqueueStep, ChangeCycleStep, EnqueueCycleStep, CommitCycleStep DEF Hr
<1>3. ASSUME NEW t \in Thread, rollback(t) PROVE IInv'
  BY <1>3, IdleKnown, QuietStep DEF rollback
<1>4. CASE Tick BY <1>4, ClockStep DEF Tick, Tables, IInv, TypeOK
<1>5. CASE UNCHANGED vars BY <1>5, ClockStep DEF vars, IInv, TypeOK
<1> QED BY <1>1, <1>2, <1>3, <1>4, <1>5, CommitIdeaStep, CreateCycleStep DEF Next

\* The inductive invariant of cycles and ideas.
THEOREM IdeasInvariance == Spec => []IInv
BY InitInv, NextInv, PTL DEF Spec

\* Nobody has more ideas in a cycle than the limit, however his requests overlap.
THEOREM LimitRespected == Spec => []WithinLimit
<1>1. IInv => WithinLimit BY DEF IInv
<1> QED BY <1>1, IdeasInvariance, PTL

\* Active cycles and distinguished ideas have their events.
THEOREM DistinctionsHaveEvents == Spec => []DistinctionsAnnounced
<1>1. IInv => DistinctionsAnnounced BY DEF IInv
<1> QED BY <1>1, IdeasInvariance, PTL

\* At most one cycle is active.
THEOREM OneCycleActive == Spec => []OneActiveCycle
<1>1. IInv => OneActiveCycle BY DEF IInv
<1> QED BY <1>1, IdeasInvariance, PTL

\* Only insert_idea adds a row and only commit_idea changes one.
LEMMA IdeasChange ==
  ASSUME [Next]_vars, ideje' # ideje
  PROVE  \E t \in Thread : commit_idea(t) \/ \E i \in Ideja, x \in Tekst : insert_idea(t, i, x)
BY DEF Next, vars, Employee, Hr, Tick, Tables, create_idea, get_active_cycle_for_update, update_my_idea,
       set_hr_score, change_idea_status, load, enqueue_distinction, create_cycle, change_cycle_status,
       enqueue_idea_cycle_activated, commit_cycle, rollback

\* An idea enters a cycle only while that is active.
THEOREM EnteredActiveCycle == Spec => EnteredWhileActive
<1>1. ASSUME IInv, [Next]_vars, NEW i \in Ideja, ideje[i] = NoRow, ideje'[i] # NoRow
      PROVE  ciklusi[ideje'[i].ciklus] = "AKTIVAN"
  <2>1. ideje \in [Ideja -> Red] BY <1>1 DEF IInv, TypeOK
  <2>2. ASSUME NEW t \in Thread, NEW j \in Ideja, NEW x \in Tekst, insert_idea(t, j, x)
        PROVE  ciklusi[ideje'[i].ciklus] = "AKTIVAN"
    <3>1. j = i /\ ideje'[i].ciklus = posao[t].ciklus BY <1>1, <2>1, <2>2 DEF insert_idea
    <3> QED BY <1>1, <2>2, <3>1 DEF insert_idea, IInv, Holders
  <2>3. ASSUME NEW t \in Thread, commit_idea(t) PROVE FALSE
    <3>1. ideje[posao[t].ideja] # NoRow
      BY <1>1, <2>3 DEF commit_idea, IInv, KnownToThreads, Known, existing
    <3> QED BY <1>1, <2>1, <2>3, <3>1 DEF commit_idea
  <2> QED BY <1>1, <2>2, <2>3, IdeasChange
<1>2. IInv /\ [Next]_vars =>
        [\A i \in Ideja : ideje[i] = NoRow /\ ideje'[i] # NoRow => ciklusi[ideje'[i].ciklus] = "AKTIVAN"]_vars
  BY <1>1
<1> QED BY <1>2, IdeasInvariance, PTL DEF Spec, EnteredWhileActive

\* An edit or a score does not undo a decision.
THEOREM DecisionsKept == Spec => EditsKeepDecisions
<1>1. ASSUME IInv, [Next]_vars, NEW i \in Ideja, ideje[i] # NoRow,
             <<ideje'[i].tekst, ideje'[i].hr>> # <<ideje[i].tekst, ideje[i].hr>>
      PROVE  ideje'[i].status = ideje[i].status
  <2>1. ideje \in [Ideja -> Red] BY <1>1 DEF IInv, TypeOK
  <2>2. ASSUME NEW t \in Thread, NEW j \in Ideja, NEW x \in Tekst, insert_idea(t, j, x) PROVE FALSE
    BY <1>1, <2>1, <2>2 DEF insert_idea
  <2>3. ASSUME NEW t \in Thread, commit_idea(t) PROVE ideje'[i].status = ideje[i].status
    <3>1. posao[t] \in Posao /\ Known(posao[t], dogadjaji, existing) /\ posao[t].pc = "write"
      BY <1>1, <2>3 DEF commit_idea, IInv, TypeOK, KnownToThreads
    <3> DEFINE z == posao[t]
               row == flush(ideje[i], z.copy, z.new)
    <3>2. i = z.ideja /\ ideje'[i] = row BY <1>1, <2>1, <2>3 DEF commit_idea
    <3>3. row.tekst = column(ideje[i].tekst, z.copy.tekst, z.new.tekst) /\ row.hr = column(ideje[i].hr, z.copy.hr, z.new.hr)
      BY <2>1 DEF flush, Red
    <3>4. z.copy.tekst # z.new.tekst \/ z.copy.hr # z.new.hr BY <1>1, <3>2, <3>3 DEF column
    <3>5. z.new.status = z.copy.status BY <3>1, <3>4 DEF Known
    <3>6. row.status = ideje[i].status BY <2>1, <3>1, <3>5, FlushTyped DEF Posao
    <3> QED BY <3>2, <3>6
  <2> QED BY <1>1, <2>2, <2>3, IdeasChange
<1>2. IInv /\ [Next]_vars =>
        [\A i \in Ideja : ideje[i] # NoRow /\ <<ideje'[i].tekst, ideje'[i].hr>> # <<ideje[i].tekst, ideje[i].hr>>
           => ideje'[i].status = ideje[i].status]_vars
  BY <1>1
<1> QED BY <1>2, IdeasInvariance, PTL DEF Spec, EditsKeepDecisions
=============================================================================
