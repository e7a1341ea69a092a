---------------------------- MODULE EventsProofs ----------------------------
(***************************************************************************)
(* Proofs about SystemEvents, for any events, workers and business         *)
(* transactions: types, the exclusion by the row lock, the single          *)
(* announcement of an event and the tie of an event to its change.         *)
(***************************************************************************)
EXTENDS SystemEvents, FiniteSetTheorems, TLAPS

USE ConstantsAssumption

LEMMA RestingTyped == \A S \in SUBSET Event : Resting(S) \in Radnik
BY DEF Resting, Radnik

\* The steps of a worker's control state keep it typed.
LEMMA WorkerTyped ==
  ASSUME NEW z \in Radnik, NEW e \in Event
  PROVE  /\ [pc |-> "resolve", batch |-> z.batch \ {e}, event |-> e, ishod |-> "PENDING"] \in Radnik
         /\ Resting(z.batch \ {e}) \in Radnik
         /\ Resting(z.batch) \in Radnik
         /\ \A o \in {"PROCESSED", "SKIPPED"} : [z EXCEPT !.pc = "commit", !.ishod = o] \in Radnik
         /\ [z EXCEPT !.pc = "failed"] \in Radnik
BY DEF Resting, Radnik

\* The steps of a transaction's control state keep it typed.
LEMMA TransactionTyped ==
  ASSUME NEW z \in Zahtev, NEW p \in {"idle", "check", "insert", "commit", "done"},
         NEW b \in BOOLEAN, NEW t \in Nat, NEW e \in Event
  PROVE  /\ [pc |-> "check", event |-> e, nov |-> FALSE, at |-> 0] \in Zahtev
         /\ [z EXCEPT !.pc = p, !.at = t] \in Zahtev
         /\ [z EXCEPT !.pc = p, !.nov = b] \in Zahtev
BY DEF Zahtev

\* The backoff is a number of minutes.
LEMMA BackoffTyped == ASSUME NEW n \in Nat PROVE _retry_backoff(n) \in Nat
<1>1. n > 6 => _retry_backoff(n) = 60 BY DEF _retry_backoff, MAX_BACKOFF_MIN
<1>2. n \in {0, 1} => _retry_backoff(n) = 1
  <2>1. 2 ^ 0 = 1 OBVIOUS
  <2> QED BY <2>1 DEF _retry_backoff
<1>3. n = 2 => _retry_backoff(n) = 2
  <2>1. 2 ^ 1 = 2 OBVIOUS
  <2> QED BY <2>1 DEF _retry_backoff
<1>4. n = 3 => _retry_backoff(n) = 4
  <2>1. 2 ^ 2 = 4 OBVIOUS
  <2> QED BY <2>1 DEF _retry_backoff
<1>5. n = 4 => _retry_backoff(n) = 8
  <2>1. 2 ^ 3 = 8 OBVIOUS
  <2> QED BY <2>1 DEF _retry_backoff
<1>6. n = 5 => _retry_backoff(n) = 16
  <2>1. 2 ^ 4 = 16 OBVIOUS
  <2> QED BY <2>1 DEF _retry_backoff
<1>7. n = 6 => _retry_backoff(n) = 32
  <2>1. 2 ^ 5 = 32 OBVIOUS
  <2> QED BY <2>1 DEF _retry_backoff
<1> QED BY <1>1, <1>2, <1>3, <1>4, <1>5, <1>6, <1>7

\* Counting a failure leaves a row that is pending or given up.
LEMMA CountedTyped ==
  ASSUME NEW row \in Row, now \in Nat
  PROVE  counted(row) \in Row /\ counted(row).status \in {"PENDING", "FAILED"}
<1> DEFINE n == row.broj_pokusaja + 1
<1>1. n \in Nat BY DEF Row
<1>2. now + _retry_backoff(n) \in Nat
  <2>1. _retry_backoff(n) \in Nat BY <1>1, BackoffTyped
  <2> HIDE DEF n
  <2> QED BY <2>1
<1>3. counted(row) = IF n >= MaxAttempts
        THEN [status |-> "FAILED", broj_pokusaja |-> n, sledeci |-> NoTime]
        ELSE [status |-> "PENDING", broj_pokusaja |-> n, sledeci |-> now + _retry_backoff(n)]
      BY DEF counted
<1> HIDE DEF n
<1> QED BY <1>1, <1>2, <1>3 DEF Row

LEMMA RowTyped ==
  ASSUME NEW row \in Row, NEW t \in Nat, NEW s \in {"PENDING", "PROCESSED", "SKIPPED"}
  PROVE  Enqueued(t) \in Row /\ NoRow \in Row /\ [row EXCEPT !.status = s] \in Row
BY DEF Row, Enqueued, NoRow, NoTime

\* What a worker that is about to settle an event knows of it.
LEMMA SettleFacts ==
  ASSUME TypeOK, LockHeld, NEW w \in Worker, radnik[w].pc = "commit"
  PROVE  /\ radnik[w].event \in Event /\ radnik[w].ishod \in {"PROCESSED", "SKIPPED"}
         /\ dogadjaji[radnik[w].event] \in Row
BY DEF TypeOK, LockHeld

LEMMA SettleTyped ==
  ASSUME TypeOK, LockHeld, NEW w \in Worker, radnik[w].pc = "commit", settle(w)
  PROVE  dogadjaji' \in [Event -> Row] /\ obavestenja' \in [Event -> Nat]
<1> DEFINE e == radnik[w].event
<1>1. PICK row : row = dogadjaji[e] /\ row \in Row BY SettleFacts
<1>2. [row EXCEPT !.status = radnik[w].ishod] \in Row BY <1>1, SettleFacts, RowTyped
<1>3. dogadjaji' = [dogadjaji EXCEPT ![e] = [row EXCEPT !.status = radnik[w].ishod]]
      BY <1>1, SettleFacts DEF settle, TypeOK
<1>4. dogadjaji' \in [Event -> Row] BY <1>2, <1>3 DEF TypeOK
<1> QED BY <1>4, SettleFacts DEF settle, TypeOK

LEMMA InitEvents == Init => EventInv
<1> SUFFICES ASSUME Init PROVE EventInv
    OBVIOUS
<1>1. TypeOK
  <2>1. NoRow \in Row BY DEF Row, NoRow, NoTime
  <2>2. Resting({}) \in Radnik BY RestingTyped
  <2>3. Unborn \in Zahtev BY DEF Unborn, Zahtev
  <2> QED BY <2>1, <2>2, <2>3 DEF Init, TypeOK
<1>2. LockHeld BY DEF Init, LockHeld, Resting
<1>3. AnnouncedIffProcessed BY DEF Init, AnnouncedIffProcessed, NoRow
<1>4. InsertAlone BY DEF Init, InsertAlone, Unborn
<1>5. EventIffChange BY DEF Init, EventIffChange, NoRow
<1> QED BY <1>1, <1>2, <1>3, <1>4, <1>5 DEF EventInv

-----------------------------------------------------------------------------
(* Types *)

LEMMA BusinessTyped ==
  ASSUME TypeOK, InsertAlone, NEW r \in Request, Transaction(r)
  PROVE  TypeOK'
<1>1. ASSUME NEW e \in Event, begin(r, e) PROVE TypeOK'
  <2>1. zahtev' \in [Request -> Zahtev] BY <1>1, TransactionTyped DEF begin, TypeOK
  <2> QED BY <1>1, <2>1 DEF begin, Business, TypeOK
<1>2. ASSUME enqueue_if_absent(r) PROVE TypeOK'
  <2>1. PICK z \in Zahtev : z = zahtev[r] BY DEF TypeOK
  <2>2. z.event \in Event BY <1>2, <2>1 DEF enqueue_if_absent, InsertAlone
  <2>3. PICK p \in {"commit", "insert"} : zahtev' = [zahtev EXCEPT ![r] = [z EXCEPT !.pc = p, !.at = now]]
        BY <1>2, <2>1 DEF enqueue_if_absent
  <2>4. [z EXCEPT !.pc = p, !.at = now] \in Zahtev BY <2>2, TransactionTyped DEF TypeOK
  <2>5. zahtev' \in [Request -> Zahtev] BY <2>3, <2>4 DEF TypeOK
  <2> QED BY <1>2, <2>5 DEF enqueue_if_absent, Business, TypeOK
<1>3. ASSUME insert_event(r) PROVE TypeOK'
  <2>1. PICK z \in Zahtev : z = zahtev[r] BY DEF TypeOK
  <2>2. z.event \in Event BY <1>3, <2>1 DEF insert_event, InsertAlone
  <2>3. PICK p \in {"commit", "done"}, b \in BOOLEAN :
          zahtev' = [zahtev EXCEPT ![r] = [z EXCEPT !.pc = p, !.nov = b]]
    <3> DEFINE fresh == dogadjaji[z.event].status = "NONE"
    <3>1. zahtev' = [zahtev EXCEPT ![r] = [z EXCEPT !.pc = IF ~fresh THEN "done" ELSE "commit", !.nov = fresh]]
          BY <1>3, <2>1 DEF insert_event
    <3>2. fresh \in BOOLEAN OBVIOUS
    <3> HIDE DEF fresh
    <3>3. CASE fresh BY <3>1, <3>2, <3>3
    <3>4. CASE ~fresh BY <3>1, <3>2, <3>4
    <3> QED BY <3>3, <3>4
  <2>4. [z EXCEPT !.pc = p, !.nov = b] \in Zahtev BY <2>2, TransactionTyped, 0 \in Nat
  <2>5. zahtev' \in [Request -> Zahtev] BY <2>3, <2>4 DEF TypeOK
  <2> QED BY <1>3, <2>5 DEF insert_event, Business, TypeOK
<1>4. ASSUME commit_change(r) PROVE TypeOK'
  <2>1. PICK z \in Zahtev : z = zahtev[r] BY DEF TypeOK
  <2>2. z.event \in Event /\ z.at \in Nat BY <1>4, <2>1 DEF commit_change, InsertAlone, Zahtev
  <2>3. [z EXCEPT !.pc = "done", !.nov = FALSE] \in Zahtev BY <2>2, TransactionTyped
  <2>4. zahtev' = [zahtev EXCEPT ![r] = [z EXCEPT !.pc = "done", !.nov = FALSE]]
        BY <1>4, <2>1 DEF commit_change
  <2>5. zahtev' \in [Request -> Zahtev] BY <2>3, <2>4 DEF TypeOK
  <2>6. dogadjaji' \in [Event -> Row]
    <3>1. Enqueued(z.at) \in Row BY <2>2 DEF Enqueued, Row
    <3> QED BY <1>4, <2>1, <3>1 DEF commit_change, TypeOK
  <2>7. promene' \in [Event -> Nat] /\ vazi' \in [Event -> BOOLEAN]
        BY <1>4, <2>1, <2>2 DEF commit_change, TypeOK
  <2> QED BY <1>4, <2>5, <2>6, <2>7 DEF commit_change, TypeOK
<1>5. ASSUME rollback_change(r) PROVE TypeOK'
  <2>1. PICK z \in Zahtev : z = zahtev[r] BY DEF TypeOK
  <2>2. z.event \in Event BY <1>5, <2>1 DEF rollback_change, InsertAlone
  <2>3. [z EXCEPT !.pc = "done", !.nov = FALSE] \in Zahtev BY <2>2, TransactionTyped
  <2>4. zahtev' = [zahtev EXCEPT ![r] = [z EXCEPT !.pc = "done", !.nov = FALSE]]
        BY <1>5, <2>1 DEF rollback_change
  <2>5. zahtev' \in [Request -> Zahtev] BY <2>3, <2>4 DEF TypeOK
  <2> QED BY <1>5, <2>5 DEF rollback_change, Business, TypeOK
<1> QED BY <1>1, <1>2, <1>3, <1>4, <1>5 DEF Transaction

LEMMA RadnikTyped ==
  ASSUME TypeOK, LockHeld, NEW w \in Worker, process_batch(w) \/ Failures(w)
  PROVE  radnik' \in [Worker -> Radnik]
<1> SUFFICES ASSUME NEW z \in Radnik, z = radnik[w],
                    \A y \in Radnik : radnik' = [radnik EXCEPT ![w] = y] => radnik' \in [Worker -> Radnik]
             PROVE  radnik' \in [Worker -> Radnik]
    BY DEF TypeOK
<1>0. z.batch \in SUBSET Event BY DEF Radnik
<1>1. CASE list_ready_ids(w)
      BY <1>1, RestingTyped DEF list_ready_ids
<1>2. ASSUME NEW e \in Event, get_for_update(w, e) PROVE radnik' \in [Worker -> Radnik]
      BY <1>2, WorkerTyped DEF get_for_update
<1>3. CASE resolve(w)
  <2>1. PICK o \in {"PROCESSED", "SKIPPED"} : radnik' = [radnik EXCEPT ![w] = [z EXCEPT !.pc = "commit", !.ishod = o]]
        BY <1>3 DEF resolve, outcome
  <2>2. radnik[w].event \in Event BY <1>3 DEF resolve, LockHeld
  <2> QED BY <2>1, <2>2, WorkerTyped
<1>4. CASE process_fails(w) \/ commit_raises(w)
  <2>1. radnik' = [radnik EXCEPT ![w] = [z EXCEPT !.pc = "failed"]]
        BY <1>4 DEF process_fails, commit_raises
  <2>2. radnik[w].event \in Event BY <1>4 DEF process_fails, commit_raises, LockHeld
  <2> QED BY <2>1, <2>2, WorkerTyped
<1>5. CASE commit_event(w) \/ record_failure(w) \/ record_failure_raises(w)
  <2>1. radnik' = [radnik EXCEPT ![w] = Resting(z.batch)]
        BY <1>5 DEF commit_event, record_failure, record_failure_raises
  <2> QED BY <1>0, <2>1, RestingTyped
<1>6. CASE crash(w)
      BY <1>6, RestingTyped DEF crash
<1> QED BY <1>1, <1>2, <1>3, <1>4, <1>5, <1>6 DEF process_batch, Failures

LEMMA WorkerStepTyped ==
  ASSUME TypeOK, LockHeld, NEW w \in Worker, process_batch(w) \/ Failures(w)
  PROVE  TypeOK'
<1>1. radnik' \in [Worker -> Radnik] BY RadnikTyped
<1>2. CASE list_ready_ids(w) \/ resolve(w) \/ \E e \in Event : get_for_update(w, e)
      BY <1>1, <1>2 DEF list_ready_ids, resolve, get_for_update, Queue, TypeOK
<1>3. CASE process_fails(w)
  <2>1. radnik[w].event \in Event BY <1>3 DEF process_fails, LockHeld
  <2> QED BY <1>1, <1>3, <2>1 DEF process_fails, Queue, TypeOK
<1>4. CASE commit_event(w) \/ commit_raises(w)
  <2>1. radnik[w].pc = "commit" /\ radnik[w].event \in Event
        BY <1>4 DEF commit_event, commit_raises, LockHeld
  <2>2. dogadjaji' \in [Event -> Row] /\ obavestenja' \in [Event -> Nat]
        BY <1>4, <2>1, SettleTyped DEF commit_event, commit_raises, TypeOK
  <2>3. neuspesi' \in [Event -> Nat] /\ greske' \in Nat
        BY <1>4, <2>1 DEF commit_event, commit_raises, TypeOK
  <2> QED BY <1>1, <1>4, <2>2, <2>3 DEF commit_event, commit_raises, Queue, TypeOK
<1>5. CASE record_failure(w)
  <2>1. PICK row \in Row : row = dogadjaji[radnik[w].event] BY <1>5 DEF record_failure, LockHeld, TypeOK
  <2>2. counted(row) \in Row BY CountedTyped DEF TypeOK
  <2>3. dogadjaji' = dogadjaji \/ dogadjaji' = [dogadjaji EXCEPT ![radnik[w].event] = counted(row)]
        BY <1>5, <2>1 DEF record_failure
  <2>4. dogadjaji' \in [Event -> Row] BY <2>2, <2>3 DEF TypeOK
  <2> QED BY <1>1, <1>5, <2>4 DEF record_failure, Queue, TypeOK
<1>6. CASE record_failure_raises(w) \/ crash(w)
      BY <1>1, <1>6 DEF record_failure_raises, crash, Queue, TypeOK
<1> QED BY <1>2, <1>3, <1>4, <1>5, <1>6 DEF process_batch, Failures

LEMMA NextTyped == EventInv /\ [Next]_vars => TypeOK'
<1> SUFFICES ASSUME TypeOK, LockHeld, InsertAlone, [Next]_vars PROVE TypeOK'
    BY DEF EventInv
<1>1. ASSUME NEW e \in Event, resource_changes(e) PROVE TypeOK'
      BY <1>1 DEF resource_changes, TypeOK
<1>2. CASE Tick
  <2>1. now' \in Nat BY <1>2 DEF Tick
  <2> QED BY <1>2, <2>1 DEF Tick, TypeOK
<1>3. CASE UNCHANGED vars BY <1>3 DEF vars, TypeOK
<1> QED BY <1>1, <1>2, <1>3, BusinessTyped, WorkerStepTyped DEF Next

-----------------------------------------------------------------------------
(* The row lock *)

\* A business step leaves the rows of known events alone, and the workers.
LEMMA BusinessKeepsKnown ==
  ASSUME TypeOK, InsertAlone, NEW r \in Request, Transaction(r)
  PROVE  /\ UNCHANGED <<radnik, obavestenja>>
         /\ \A e \in Event : dogadjaji[e].status # "NONE" => dogadjaji'[e] = dogadjaji[e]
<1>1. CASE commit_change(r)
  <2>1. zahtev[r].nov => dogadjaji[zahtev[r].event].status = "NONE"
        BY <1>1 DEF commit_change, InsertAlone
  <2> QED BY <1>1, <2>1 DEF commit_change, TypeOK
<1>2. CASE ~commit_change(r)
      BY <1>2 DEF Transaction, begin, enqueue_if_absent, insert_event, rollback_change, Business
<1> QED BY <1>1, <1>2

\* A worker that locks, holds or leaves an event, while no known event's row
\* stops being PENDING under another worker's lock, keeps the lock exclusive.
LEMMA LockKept ==
  ASSUME TypeOK, LockHeld, NEW w \in Worker, NEW y \in Radnik,
         radnik' = [radnik EXCEPT ![w] = y],
         \A e \in Event : dogadjaji[e].status # "NONE" => dogadjaji'[e].status # "NONE",
         \A v \in Worker \ {w} : radnik[v].pc \in {"resolve", "commit"}
            => dogadjaji'[radnik[v].event].status = "PENDING",
         y.pc \in {"resolve", "commit"} =>
            /\ y.event \in Event /\ dogadjaji'[y.event].status = "PENDING"
            /\ ~locked(w, y.event),
         y.pc = "failed" => y.event \in Event /\ dogadjaji'[y.event].status # "NONE",
         \A e \in y.batch : e \in Event /\ dogadjaji'[e].status # "NONE",
         y.pc = "commit" => y.ishod \in {"PROCESSED", "SKIPPED"}
  PROVE  LockHeld'
<1>1. \A v \in Worker : radnik'[v] = IF v = w THEN y ELSE radnik[v] BY DEF TypeOK
<1>2. \A v \in Worker : radnik'[v].pc \in {"resolve", "commit"} =>
         radnik'[v].event \in Event /\ dogadjaji'[radnik'[v].event].status = "PENDING"
      BY <1>1 DEF LockHeld
<1>3. \A v \in Worker, u \in Worker :
         (/\ radnik'[v].pc \in {"resolve", "commit"} /\ radnik'[u].pc \in {"resolve", "commit"}
          /\ radnik'[u].event = radnik'[v].event) => u = v
  <2> SUFFICES ASSUME NEW v \in Worker, NEW u \in Worker,
                      radnik'[v].pc \in {"resolve", "commit"}, radnik'[u].pc \in {"resolve", "commit"},
                      radnik'[u].event = radnik'[v].event
               PROVE  u = v
      OBVIOUS
  <2>1. CASE u # w /\ v # w BY <1>1, <2>1 DEF LockHeld
  <2>2. CASE u # w /\ v = w
    <3>1. radnik[u].pc \in {"resolve", "commit"} /\ radnik[u].event = y.event
          /\ y.pc \in {"resolve", "commit"} BY <1>1, <2>2
    <3> QED BY <2>2, <3>1 DEF locked
  <2>3. CASE u = w /\ v # w
    <3>1. radnik[v].pc \in {"resolve", "commit"} /\ radnik[v].event = y.event
          /\ y.pc \in {"resolve", "commit"} BY <1>1, <2>3
    <3> QED BY <2>3, <3>1 DEF locked
  <2> QED BY <2>1, <2>2, <2>3
<1>4. \A v \in Worker : radnik'[v].pc = "failed" =>
         radnik'[v].event \in Event /\ dogadjaji'[radnik'[v].event].status # "NONE"
      BY <1>1 DEF LockHeld
<1>5. \A v \in Worker : \A e \in radnik'[v].batch : dogadjaji'[e].status # "NONE"
  <2>1. \A v \in Worker : radnik[v].batch \in SUBSET Event BY DEF TypeOK, Radnik
  <2> QED BY <1>1, <2>1 DEF LockHeld
<1>6. \A v \in Worker : radnik'[v].pc = "commit" => radnik'[v].ishod \in {"PROCESSED", "SKIPPED"}
      BY <1>1 DEF LockHeld
<1> QED BY <1>2, <1>3, <1>4, <1>5, <1>6 DEF LockHeld

\* The same for a step that changes no row.
LEMMA LockKeptStill ==
  ASSUME TypeOK, LockHeld, NEW w \in Worker, NEW y \in Radnik,
         radnik' = [radnik EXCEPT ![w] = y], dogadjaji' = dogadjaji,
         y.pc \in {"resolve", "commit"} =>
            /\ y.event \in Event /\ dogadjaji[y.event].status = "PENDING"
            /\ ~locked(w, y.event),
         y.pc = "failed" => y.event \in Event /\ dogadjaji[y.event].status # "NONE",
         \A e \in y.batch : e \in Event /\ dogadjaji[e].status # "NONE",
         y.pc = "commit" => y.ishod \in {"PROCESSED", "SKIPPED"}
  PROVE  LockHeld'
<1>1. \A v \in Worker \ {w} : radnik[v].pc \in {"resolve", "commit"}
        => dogadjaji'[radnik[v].event].status = "PENDING"
      BY DEF LockHeld
<1> QED BY <1>1, LockKept

\* Holding the lock means nobody else holds it.
LEMMA HolderAlone ==
  ASSUME LockHeld, NEW w \in Worker, radnik[w].pc \in {"resolve", "commit"}
  PROVE  ~locked(w, radnik[w].event)
BY DEF LockHeld, locked

LEMMA WorkerStepLocked ==
  ASSUME TypeOK, LockHeld, NEW w \in Worker, process_batch(w) \/ Failures(w)
  PROVE  LockHeld'
<1> DEFINE e == radnik[w].event
           B == radnik[w].batch
<1>0. /\ B \in SUBSET Event /\ radnik[w] \in Radnik
      /\ \A f \in B : dogadjaji[f].status # "NONE"
      BY DEF TypeOK, Radnik, LockHeld
<1>1. CASE list_ready_ids(w)
  <2>1. PICK S \in SUBSET {f \in Event : due(f)} : radnik' = [radnik EXCEPT ![w] = Resting(S)]
        BY <1>1 DEF list_ready_ids
  <2>2. Resting(S) \in Radnik BY RestingTyped
  <2>3. Resting(S).pc = "pick" /\ Resting(S).batch = S BY DEF Resting
  <2>4. \A f \in S : f \in Event /\ dogadjaji[f].status # "NONE" BY DEF due
  <2>5. dogadjaji' = dogadjaji BY <1>1 DEF list_ready_ids
  <2> HIDE <1>1
  <2> QED BY <2>1, <2>2, <2>3, <2>4, <2>5, LockKeptStill
<1>2. ASSUME NEW f \in Event, get_for_update(w, f) PROVE LockHeld'
  <2> DEFINE y == [pc |-> "resolve", batch |-> B \ {f}, event |-> f, ishod |-> "PENDING"]
             x == Resting(B \ {f})
  <2>1. dogadjaji' = dogadjaji /\ ~locked(w, f) BY <1>2 DEF get_for_update
  <2>2. CASE dogadjaji[f].status = "PENDING"
    <3>1. radnik' = [radnik EXCEPT ![w] = y] BY <1>2, <2>2 DEF get_for_update, still_pending
    <3>2. y \in Radnik BY <1>0, WorkerTyped
    <3>3. y.pc = "resolve" /\ y.event = f /\ y.batch = B \ {f} OBVIOUS
    <3> HIDE DEF y
    <3> QED BY <1>0, <2>1, <2>2, <3>1, <3>2, <3>3, LockKeptStill
  <2>3. CASE dogadjaji[f].status # "PENDING"
    <3>1. radnik' = [radnik EXCEPT ![w] = x] BY <1>2, <2>3 DEF get_for_update, still_pending
    <3>2. x \in Radnik BY <1>0, WorkerTyped
    <3>3. x.pc = "pick" /\ x.batch = B \ {f} BY DEF Resting
    <3> HIDE DEF x
    <3> QED BY <1>0, <2>1, <3>1, <3>2, <3>3, LockKeptStill
  <2> QED BY <2>2, <2>3
<1>3. CASE resolve(w)
  <2>1. PICK z \in Radnik : z = radnik[w] BY <1>0
  <2>2. z.pc = "resolve" /\ e \in Event BY <1>3, <2>1 DEF resolve, LockHeld
  <2>3. PICK o \in {"PROCESSED", "SKIPPED"} : radnik' = [radnik EXCEPT ![w] = [z EXCEPT !.pc = "commit", !.ishod = o]]
        BY <1>3, <2>1 DEF resolve, outcome
  <2> DEFINE y == [z EXCEPT !.pc = "commit", !.ishod = o]
  <2>4. y \in Radnik BY <2>2, WorkerTyped
  <2>5. y.pc = "commit" /\ y.ishod = o /\ y.event = e /\ y.batch = B BY <2>1 DEF Radnik
  <2>6. dogadjaji' = dogadjaji BY <1>3 DEF resolve
  <2>7. ~locked(w, e) /\ dogadjaji[e].status = "PENDING" BY <2>1, <2>2, HolderAlone DEF LockHeld
  <2>8. radnik' = [radnik EXCEPT ![w] = y] BY <2>3
  <2> HIDE DEF y
  <2> QED BY <1>0, <2>2, <2>4, <2>5, <2>6, <2>7, <2>8, LockKeptStill
<1>4. ASSUME commit_event(w) \/ commit_raises(w) PROVE LockHeld'
  <2>1. PICK z \in Radnik : z = radnik[w] BY <1>0
  <2>2. z.pc = "commit" /\ e \in Event /\ ~locked(w, e) /\ z.ishod \in {"PROCESSED", "SKIPPED"}
        /\ dogadjaji[e].status = "PENDING"
        BY <1>4, <2>1, HolderAlone DEF commit_event, commit_raises, LockHeld
  <2>3. dogadjaji' = dogadjaji \/ dogadjaji' = [dogadjaji EXCEPT ![e].status = z.ishod]
        BY <1>4, <2>1 DEF commit_event, commit_raises, settle
  <2>4. \A f \in Event : /\ dogadjaji[f].status # "NONE" => dogadjaji'[f].status # "NONE"
                         /\ f # e => dogadjaji'[f] = dogadjaji[f]
    <3>1. dogadjaji[e] \in Row BY <2>2 DEF TypeOK
    <3> QED BY <2>2, <2>3, <3>1 DEF TypeOK, Row
  <2>5. \A v \in Worker \ {w} : radnik[v].pc \in {"resolve", "commit"}
          => dogadjaji'[radnik[v].event].status = "PENDING"
        BY <2>2, <2>4 DEF LockHeld, locked
  <2>6. PICK y \in Radnik : /\ radnik' = [radnik EXCEPT ![w] = y] /\ y.pc \in {"pick", "failed"}
                            /\ y.batch = B /\ (y.pc = "failed" => y.event = e)
    <3>1. /\ Resting(B) \in Radnik /\ [z EXCEPT !.pc = "failed"] \in Radnik BY <2>1, <2>2, WorkerTyped
    <3>2. CASE radnik' = [radnik EXCEPT ![w] = Resting(B)]
          BY <3>1, <3>2 DEF Resting
    <3>3. CASE radnik' = [radnik EXCEPT ![w] = [z EXCEPT !.pc = "failed"]]
      <4>1. /\ [z EXCEPT !.pc = "failed"].pc = "failed"
            /\ [z EXCEPT !.pc = "failed"].batch = B /\ [z EXCEPT !.pc = "failed"].event = e
            BY <2>1 DEF Radnik
      <4> QED BY <3>1, <3>3, <4>1
    <3> QED BY <1>4, <2>1, <3>2, <3>3 DEF commit_event, commit_raises
  <2>7. dogadjaji'[e].status # "NONE" BY <2>2, <2>4
  <2>8. \A f \in y.batch : f \in Event /\ dogadjaji'[f].status # "NONE"
    <3>1. \A f \in B : f \in Event /\ dogadjaji[f].status # "NONE" BY <1>0
    <3> QED BY <2>4, <2>6, <3>1
  <2>9. /\ y.pc \notin {"resolve", "commit"}
        /\ y.pc = "failed" => y.event \in Event /\ dogadjaji'[y.event].status # "NONE"
        BY <2>2, <2>6, <2>7
  <2>10. radnik' = [radnik EXCEPT ![w] = y] BY <2>6
  <2> QED BY <2>4, <2>5, <2>8, <2>9, <2>10, LockKept
<1>5. ASSUME process_fails(w) PROVE LockHeld'
  <2>1. PICK z \in Radnik : z = radnik[w] BY <1>0
  <2>2. e \in Event /\ dogadjaji[e].status = "PENDING" /\ dogadjaji' = dogadjaji
        BY <1>5 DEF process_fails, LockHeld
  <2> DEFINE y == [z EXCEPT !.pc = "failed"]
  <2>3. y \in Radnik BY <2>2, WorkerTyped
  <2>4. y.pc = "failed" /\ y.batch = B /\ y.event = e BY <2>1 DEF Radnik
  <2>5. radnik' = [radnik EXCEPT ![w] = y] BY <1>5, <2>1 DEF process_fails
  <2> HIDE DEF y
  <2> QED BY <1>0, <2>2, <2>3, <2>4, <2>5, LockKeptStill
<1>6. ASSUME record_failure(w) PROVE LockHeld'
  <2>1. e \in Event /\ ~locked(w, e) BY <1>6 DEF record_failure, LockHeld
  <2>2. PICK row \in Row : row = dogadjaji[e] BY <2>1 DEF TypeOK
  <2>3. counted(row).status \in {"PENDING", "FAILED"} BY CountedTyped DEF TypeOK
  <2>4. dogadjaji' = dogadjaji \/ dogadjaji' = [dogadjaji EXCEPT ![e] = counted(row)]
        BY <1>6, <2>2 DEF record_failure
  <2>5. \A f \in Event : /\ dogadjaji[f].status # "NONE" => dogadjaji'[f].status # "NONE"
                         /\ f # e => dogadjaji'[f] = dogadjaji[f]
        BY <2>1, <2>3, <2>4 DEF TypeOK
  <2>6. \A v \in Worker \ {w} : radnik[v].pc \in {"resolve", "commit"}
          => dogadjaji'[radnik[v].event].status = "PENDING"
        BY <2>1, <2>5 DEF LockHeld, locked
  <2>7. radnik' = [radnik EXCEPT ![w] = Resting(B)] BY <1>6 DEF record_failure
  <2>8. Resting(B) \in Radnik /\ Resting(B).pc = "pick" /\ Resting(B).batch = B
        BY <1>0, RestingTyped DEF Resting
  <2> QED BY <1>0, <2>5, <2>6, <2>7, <2>8, LockKept
<1>7. ASSUME record_failure_raises(w) \/ crash(w) PROVE LockHeld'
  <2>1. dogadjaji' = dogadjaji BY <1>7 DEF record_failure_raises, crash
  <2>2. PICK S \in {{}, B} : radnik' = [radnik EXCEPT ![w] = Resting(S)]
        BY <1>7 DEF record_failure_raises, crash
  <2>3. Resting(S) \in Radnik /\ Resting(S).pc = "pick" /\ Resting(S).batch = S
        BY <1>0, RestingTyped DEF Resting
  <2> QED BY <1>0, <2>1, <2>2, <2>3, LockKeptStill
<1> QED BY <1>1, <1>2, <1>3, <1>4, <1>5, <1>6, <1>7 DEF process_batch, Failures

LEMMA NextLocked == EventInv /\ [Next]_vars => LockHeld'
<1> SUFFICES ASSUME TypeOK, LockHeld, InsertAlone, [Next]_vars PROVE LockHeld'
    BY DEF EventInv
<1>1. ASSUME NEW r \in Request, Transaction(r) PROVE LockHeld'
  <2>1. radnik' = radnik BY <1>1, BusinessKeepsKnown
  <2>2. \A e \in Event : dogadjaji[e].status # "NONE" => dogadjaji'[e] = dogadjaji[e]
        BY <1>1, BusinessKeepsKnown
  <2>3. \A w \in Worker : radnik[w].batch \in SUBSET Event BY DEF TypeOK, Radnik
  <2> QED BY <2>1, <2>2, <2>3 DEF LockHeld
<1>2. ASSUME \/ Tick \/ UNCHANGED vars \/ \E e \in Event : resource_changes(e) PROVE LockHeld'
      BY <1>2 DEF Tick, vars, resource_changes, LockHeld
<1> QED BY <1>1, <1>2, WorkerStepLocked DEF Next

-----------------------------------------------------------------------------
(* The single announcement *)

\* What the steps of workers do to the rows: they settle a PENDING event with or
\* without its notification, count a failure of one that is not PROCESSED, or
\* leave rows and notifications as they are.
LEMMA WorkerStepRows ==
  ASSUME TypeOK, LockHeld, NEW w \in Worker, process_batch(w) \/ Failures(w)
  PROVE  /\ UNCHANGED <<zahtev, promene>>
         /\ \/ UNCHANGED <<dogadjaji, obavestenja>>
            \/ \E e \in Event, s \in {"PROCESSED", "SKIPPED"} :
                 /\ dogadjaji[e].status = "PENDING"
                 /\ dogadjaji' = [dogadjaji EXCEPT ![e].status = s]
                 /\ obavestenja' = [obavestenja EXCEPT ![e] = IF s = "PROCESSED" THEN @ + 1 ELSE @]
            \/ \E e \in Event, row \in Row :
                 /\ dogadjaji[e].status \notin {"NONE", "PROCESSED"}
                 /\ row.status \in {"PENDING", "FAILED"}
                 /\ dogadjaji' = [dogadjaji EXCEPT ![e] = row]
                 /\ UNCHANGED obavestenja
<1> DEFINE e == radnik[w].event
<1>1. UNCHANGED <<zahtev, promene>>
      BY DEF process_batch, Failures, list_ready_ids, get_for_update, resolve, process_fails,
             commit_event, record_failure, commit_raises, record_failure_raises, crash, Queue
<1>2. CASE (commit_event(w) \/ commit_raises(w)) /\ settle(w)
  <2>1. /\ e \in Event /\ dogadjaji[e].status = "PENDING"
        /\ radnik[w].ishod \in {"PROCESSED", "SKIPPED"}
        BY <1>2 DEF commit_event, commit_raises, LockHeld
  <2> QED BY <1>1, <1>2, <2>1 DEF settle
<1>3. CASE record_failure(w)
  <2>1. e \in Event /\ dogadjaji[e].status # "NONE" BY <1>3 DEF record_failure, LockHeld
  <2>2. PICK row \in Row : row = dogadjaji[e] BY <2>1 DEF TypeOK
  <2>3. counted(row) \in Row /\ counted(row).status \in {"PENDING", "FAILED"}
        BY CountedTyped DEF TypeOK
  <2>4. \/ dogadjaji' = dogadjaji
        \/ row.status # "PROCESSED" /\ dogadjaji' = [dogadjaji EXCEPT ![e] = counted(row)]
        BY <1>3, <2>2 DEF record_failure, refused_by_check
  <2>5. obavestenja' = obavestenja BY <1>3 DEF record_failure
  <2> QED BY <1>1, <2>1, <2>2, <2>3, <2>4, <2>5
<1>4. CASE UNCHANGED <<dogadjaji, obavestenja>> BY <1>1, <1>4
<1> QED BY <1>2, <1>3, <1>4
        DEF process_batch, Failures, list_ready_ids, get_for_update, resolve, process_fails,
            commit_event, commit_raises, record_failure_raises, crash

LEMMA NextAnnounced == EventInv /\ [Next]_vars => AnnouncedIffProcessed'
<1> SUFFICES ASSUME TypeOK, LockHeld, InsertAlone, AnnouncedIffProcessed, [Next]_vars
             PROVE  AnnouncedIffProcessed'
    BY DEF EventInv
<1>1. ASSUME NEW w \in Worker, process_batch(w) \/ Failures(w) PROVE AnnouncedIffProcessed'
  <2>1. CASE UNCHANGED <<dogadjaji, obavestenja>> BY <2>1 DEF AnnouncedIffProcessed
  <2>2. ASSUME NEW e \in Event, NEW s \in {"PROCESSED", "SKIPPED"},
               dogadjaji[e].status = "PENDING",
               dogadjaji' = [dogadjaji EXCEPT ![e].status = s],
               obavestenja' = [obavestenja EXCEPT ![e] = IF s = "PROCESSED" THEN @ + 1 ELSE @]
        PROVE  AnnouncedIffProcessed'
    <3>1. dogadjaji'[e].status = s BY <2>2 DEF TypeOK, Row
    <3>2. obavestenja[e] = 0 BY <2>2 DEF AnnouncedIffProcessed
    <3>3. obavestenja'[e] = IF s = "PROCESSED" THEN 1 ELSE 0 BY <2>2, <3>2 DEF TypeOK
    <3>4. \A f \in Event : f # e => dogadjaji'[f] = dogadjaji[f] /\ obavestenja'[f] = obavestenja[f]
          BY <2>2 DEF TypeOK
    <3> QED BY <3>1, <3>3, <3>4 DEF AnnouncedIffProcessed
  <2>3. ASSUME NEW e \in Event, NEW row \in Row,
               dogadjaji[e].status \notin {"NONE", "PROCESSED"}, row.status \in {"PENDING", "FAILED"},
               dogadjaji' = [dogadjaji EXCEPT ![e] = row], UNCHANGED obavestenja
        PROVE  AnnouncedIffProcessed'
        BY <2>3 DEF TypeOK, AnnouncedIffProcessed
  <2> QED BY <1>1, <2>1, <2>2, <2>3, WorkerStepRows
<1>2. ASSUME NEW r \in Request, Transaction(r) PROVE AnnouncedIffProcessed'
  <2>1. obavestenja' = obavestenja BY <1>2, BusinessKeepsKnown
  <2>2. \A e \in Event : dogadjaji[e].status # "NONE" => dogadjaji'[e] = dogadjaji[e]
        BY <1>2, BusinessKeepsKnown
  <2>3. \A e \in Event : dogadjaji'[e] = dogadjaji[e] \/ dogadjaji'[e].status = "PENDING"
        BY <1>2 DEF Transaction, begin, enqueue_if_absent, insert_event, commit_change,
                    rollback_change, Enqueued, TypeOK
  <2> QED BY <2>1, <2>2, <2>3 DEF AnnouncedIffProcessed
<1>3. ASSUME \/ Tick \/ UNCHANGED vars \/ \E e \in Event : resource_changes(e)
      PROVE  AnnouncedIffProcessed'
      BY <1>3 DEF Tick, vars, resource_changes, AnnouncedIffProcessed
<1> QED BY <1>1, <1>2, <1>3 DEF Next

-----------------------------------------------------------------------------
(* The key and its business change *)

LEMMA WorkerStepKeepsKeys ==
  ASSUME TypeOK, LockHeld, NEW w \in Worker, process_batch(w) \/ Failures(w)
  PROVE  /\ UNCHANGED <<zahtev, promene>>
         /\ \A f \in Event : dogadjaji'[f].status = "NONE" <=> dogadjaji[f].status = "NONE"
<1>1. UNCHANGED <<zahtev, promene>> BY WorkerStepRows
<1>2. CASE UNCHANGED dogadjaji BY <1>1, <1>2
<1>3. ASSUME NEW e \in Event, NEW s \in {"PROCESSED", "SKIPPED"}, dogadjaji[e].status = "PENDING",
             dogadjaji' = [dogadjaji EXCEPT ![e].status = s]
      PROVE  \A f \in Event : dogadjaji'[f].status = "NONE" <=> dogadjaji[f].status = "NONE"
  <2>1. dogadjaji'[e].status = s BY <1>3 DEF TypeOK, Row
  <2>2. \A f \in Event : f # e => dogadjaji'[f] = dogadjaji[f] BY <1>3 DEF TypeOK
  <2> QED BY <1>3, <2>1, <2>2
<1>4. ASSUME NEW e \in Event, NEW row \in Row, dogadjaji[e].status # "NONE",
             row.status \in {"PENDING", "FAILED"}, dogadjaji' = [dogadjaji EXCEPT ![e] = row]
      PROVE  \A f \in Event : dogadjaji'[f].status = "NONE" <=> dogadjaji[f].status = "NONE"
      BY <1>4 DEF TypeOK
<1> QED BY <1>1, <1>2, <1>3, <1>4, WorkerStepRows

\* A request that stands nowhere near the key, or only looks at it, ties nothing.
LEMMA RequestTied ==
  ASSUME TypeOK, InsertAlone, NEW r \in Request, NEW y, zahtev' = [zahtev EXCEPT ![r] = y],
         UNCHANGED dogadjaji, ~y.nov,
         y.pc # "idle" => y.event \in Event,
         y.pc = "commit" => dogadjaji[y.event].status # "NONE"
  PROVE  InsertAlone'
<1>1. \A q \in Request : zahtev'[q] = IF q = r THEN y ELSE zahtev[q] BY DEF TypeOK
<1>2. SUFFICES ASSUME NEW q \in Request
               PROVE  /\ zahtev'[q].pc # "idle" => zahtev'[q].event \in Event
                      /\ zahtev'[q].nov => /\ zahtev'[q].pc = "commit"
                                           /\ dogadjaji'[zahtev'[q].event].status = "NONE"
                                           /\ \A p \in Request \ {q} : ~(zahtev'[p].nov /\ zahtev'[p].event = zahtev'[q].event)
                      /\ zahtev'[q].pc = "commit" /\ ~zahtev'[q].nov => dogadjaji'[zahtev'[q].event].status # "NONE"
  BY DEF InsertAlone, inserting
<1>3. CASE q = r
  <2>1. zahtev'[q] = y BY <1>1, <1>3
  <2> QED BY <2>1
<1>4. CASE q # r
  <2>1. zahtev'[q] = zahtev[q] BY <1>1, <1>4
  <2>2. /\ zahtev[q].pc # "idle" => zahtev[q].event \in Event
        /\ zahtev[q].nov => /\ zahtev[q].pc = "commit"
                            /\ dogadjaji[zahtev[q].event].status = "NONE"
        /\ zahtev[q].pc = "commit" /\ ~zahtev[q].nov => dogadjaji[zahtev[q].event].status # "NONE"
    BY DEF InsertAlone
  <2>3. ASSUME zahtev[q].nov, NEW p \in Request \ {q}
        PROVE  ~(zahtev'[p].nov /\ zahtev'[p].event = zahtev[q].event)
    <3>1. ~(zahtev[p].nov /\ zahtev[p].event = zahtev[q].event) BY <2>3 DEF InsertAlone, inserting
    <3> QED BY <1>1, <3>1
  <2> QED BY <2>1, <2>2, <2>3
<1> QED BY <1>3, <1>4

LEMMA NextTied == EventInv /\ [Next]_vars => InsertAlone' /\ EventIffChange'
<1> SUFFICES ASSUME TypeOK, LockHeld, InsertAlone, EventIffChange, [Next]_vars
             PROVE  InsertAlone' /\ EventIffChange'
    BY DEF EventInv
<1>1. ASSUME NEW w \in Worker, process_batch(w) \/ Failures(w) PROVE InsertAlone' /\ EventIffChange'
  <2>1. /\ zahtev' = zahtev /\ promene' = promene
        /\ \A f \in Event : dogadjaji'[f].status = "NONE" <=> dogadjaji[f].status = "NONE"
        BY <1>1, WorkerStepKeepsKeys
  <2>2. EventIffChange' BY <2>1 DEF EventIffChange
  <2>3. \A r \in Request : zahtev[r].nov \/ zahtev[r].pc = "commit" => zahtev[r].event \in Event
        BY DEF InsertAlone
  <2> QED BY <2>1, <2>2, <2>3 DEF InsertAlone, inserting
<1>2. ASSUME NEW r \in Request, NEW e \in Event, begin(r, e) PROVE InsertAlone' /\ EventIffChange'
  <2> PICK y : y = [pc |-> "check", event |-> e, nov |-> FALSE, at |-> 0] OBVIOUS
  <2>1. zahtev' = [zahtev EXCEPT ![r] = y] /\ UNCHANGED <<dogadjaji, promene>> BY <1>2 DEF begin
  <2>2. y.pc = "check" /\ y.event \in Event /\ ~y.nov OBVIOUS
  <2>3. InsertAlone' BY <2>1, <2>2, RequestTied
  <2> QED BY <2>1, <2>3 DEF EventIffChange
<1>3. ASSUME NEW r \in Request, enqueue_if_absent(r) PROVE InsertAlone' /\ EventIffChange'
  <2> PICK z \in Zahtev : z = zahtev[r] BY DEF TypeOK
  <2> PICK y : y = [z EXCEPT !.pc = IF present(z.event) THEN "commit" ELSE "insert", !.at = now] OBVIOUS
  <2>1. zahtev' = [zahtev EXCEPT ![r] = y] /\ UNCHANGED <<dogadjaji, promene>>
    BY <1>3 DEF enqueue_if_absent
  <2>2. z.pc = "check" /\ z.event \in Event /\ ~z.nov BY <1>3 DEF enqueue_if_absent, InsertAlone, Zahtev
  <2>3. y.event = z.event /\ y.nov = z.nov /\ (y.pc = IF present(z.event) THEN "commit" ELSE "insert")
    BY DEF Zahtev
  <2>4. y.pc = "commit" => dogadjaji[y.event].status # "NONE" BY <2>3 DEF present
  <2>5. InsertAlone' BY <2>1, <2>2, <2>3, <2>4, RequestTied
  <2> QED BY <2>1, <2>5 DEF EventIffChange
<1>4. ASSUME NEW r \in Request, insert_event(r) PROVE InsertAlone' /\ EventIffChange'
  <2> PICK z \in Zahtev : z = zahtev[r] BY DEF TypeOK
  <2> PICK e : e = z.event OBVIOUS
  <2> PICK y : y = [z EXCEPT !.pc  = IF dogadjaji[e].status # "NONE" THEN "done" ELSE "commit",
                             !.nov = dogadjaji[e].status = "NONE"] OBVIOUS
  <2>1. /\ zahtev' = [zahtev EXCEPT ![r] = y] /\ UNCHANGED <<dogadjaji, promene>>
        /\ ~inserting(r, e) /\ z.pc = "insert"
    BY <1>4 DEF insert_event
  <2>2. e \in Event BY <2>1 DEF InsertAlone
  <2>3. /\ y.event = e /\ (y.pc = IF dogadjaji[e].status # "NONE" THEN "done" ELSE "commit")
        /\ y.nov <=> dogadjaji[e].status = "NONE"
    BY DEF Zahtev
  <2>4. EventIffChange' BY <2>1 DEF EventIffChange
  <2>5. CASE dogadjaji[e].status # "NONE"
    <3>1. InsertAlone' BY <2>1, <2>2, <2>3, <2>5, RequestTied
    <3> QED BY <2>4, <3>1
  <2>6. CASE dogadjaji[e].status = "NONE"
    <3>1. \A q \in Request : zahtev'[q] = IF q = r THEN y ELSE zahtev[q] BY <2>1 DEF TypeOK
    <3>2. y.pc = "commit" /\ y.nov BY <2>3, <2>6
    <3>3. ASSUME NEW q \in Request, q # r, zahtev[q].nov PROVE zahtev[q].event # e
      BY <2>1, <3>3 DEF inserting
    <3>4. ASSUME NEW q \in Request
          PROVE  /\ zahtev'[q].pc # "idle" => zahtev'[q].event \in Event
                 /\ zahtev'[q].nov => /\ zahtev'[q].pc = "commit"
                                      /\ dogadjaji'[zahtev'[q].event].status = "NONE"
                                      /\ \A p \in Request \ {q} : ~(zahtev'[p].nov /\ zahtev'[p].event = zahtev'[q].event)
                 /\ zahtev'[q].pc = "commit" /\ ~zahtev'[q].nov => dogadjaji'[zahtev'[q].event].status # "NONE"
      <4>1. CASE q = r
        <5>1. zahtev'[q] = y BY <3>1, <4>1
        <5>2. \A p \in Request \ {q} : ~(zahtev'[p].nov /\ zahtev'[p].event = e) BY <3>1, <3>3, <4>1
        <5>3. y.event = e /\ dogadjaji'[e].status = "NONE" BY <2>1, <2>3, <2>6
        <5>4. zahtev'[q].event = e /\ zahtev'[q].pc = "commit" /\ zahtev'[q].nov BY <3>2, <5>1, <5>3
        <5> QED BY <2>2, <4>1, <5>2, <5>3, <5>4
      <4>2. CASE q # r
        <5>1. zahtev'[q] = zahtev[q] BY <3>1, <4>2
        <5>2. /\ zahtev[q].pc # "idle" => zahtev[q].event \in Event
              /\ zahtev[q].nov => /\ zahtev[q].pc = "commit"
                                  /\ dogadjaji[zahtev[q].event].status = "NONE"
              /\ zahtev[q].pc = "commit" /\ ~zahtev[q].nov => dogadjaji[zahtev[q].event].status # "NONE"
          BY DEF InsertAlone
        <5>3. ASSUME zahtev[q].nov, NEW p \in Request \ {q}
              PROVE  ~(zahtev'[p].nov /\ zahtev'[p].event = zahtev[q].event)
          <6>1. CASE p = r
            <7>1. zahtev[q].event # e BY <3>3, <4>2, <5>3
            <7>2. zahtev'[p].event = e BY <2>3, <3>1, <6>1
            <7> QED BY <7>1, <7>2
          <6>2. CASE p # r
            <7>1. ~(zahtev[p].nov /\ zahtev[p].event = zahtev[q].event) BY <5>3 DEF InsertAlone, inserting
            <7> QED BY <3>1, <6>2, <7>1
          <6> QED BY <6>1, <6>2
        <5> QED BY <2>1, <5>1, <5>2, <5>3
      <4> QED BY <4>1, <4>2
    <3>5. InsertAlone' BY <3>4 DEF InsertAlone, inserting
    <3> QED BY <2>4, <3>5
  <2> QED BY <2>5, <2>6
<1>5. ASSUME NEW r \in Request, commit_change(r) PROVE InsertAlone' /\ EventIffChange'
  <2> PICK z \in Zahtev : z = zahtev[r] BY DEF TypeOK
  <2> PICK e : e = z.event OBVIOUS
  <2> PICK y : y = [z EXCEPT !.pc = "done", !.nov = FALSE] OBVIOUS
  <2>1. /\ zahtev' = [zahtev EXCEPT ![r] = y] /\ z.pc = "commit"
        /\ promene' = [promene EXCEPT ![e] = @ + 1]
        /\ dogadjaji' = IF z.nov THEN [dogadjaji EXCEPT ![e] = Enqueued(z.at)] ELSE dogadjaji
    BY <1>5 DEF commit_change
  <2>2. e \in Event BY <2>1 DEF InsertAlone
  <2>3. y.event = e /\ y.pc = "done" /\ y.nov = FALSE BY DEF Zahtev
  <2>4. \A q \in Request : zahtev'[q] = IF q = r THEN y ELSE zahtev[q] BY <2>1 DEF TypeOK
  <2>5. /\ \A f \in Event : promene'[f] = IF f = e THEN promene[f] + 1 ELSE promene[f]
        /\ promene[e] \in Nat
    BY <2>1, <2>2 DEF TypeOK
  <2>6. \A f \in Event : f # e => dogadjaji'[f] = dogadjaji[f] BY <2>1 DEF TypeOK
  <2>7. dogadjaji'[e].status # "NONE"
    <3>1. CASE z.nov
      <4>1. dogadjaji'[e] = Enqueued(z.at) BY <2>1, <2>2, <3>1 DEF TypeOK
      <4> QED BY <4>1 DEF Enqueued
    <3>2. CASE ~z.nov BY <2>1, <3>2 DEF InsertAlone
    <3> QED BY <3>1, <3>2
  <2>8. \A f \in Event : dogadjaji[f].status # "NONE" => dogadjaji'[f].status # "NONE" BY <2>6, <2>7
  <2>9. EventIffChange'
    <3>1. promene'[e] > 0 BY <2>2, <2>5
    <3> QED BY <2>5, <2>6, <2>7, <3>1 DEF EventIffChange
  <2>10. ASSUME NEW q \in Request
         PROVE  /\ zahtev'[q].pc # "idle" => zahtev'[q].event \in Event
                /\ zahtev'[q].nov => /\ zahtev'[q].pc = "commit"
                                     /\ dogadjaji'[zahtev'[q].event].status = "NONE"
                                     /\ \A p \in Request \ {q} : ~(zahtev'[p].nov /\ zahtev'[p].event = zahtev'[q].event)
                /\ zahtev'[q].pc = "commit" /\ ~zahtev'[q].nov => dogadjaji'[zahtev'[q].event].status # "NONE"
    <3>1. CASE q = r
      <4>1. zahtev'[q] = y BY <2>4, <3>1
      <4> QED BY <2>2, <2>3, <4>1
    <3>2. CASE q # r
      <4>1. zahtev'[q] = zahtev[q] BY <2>4, <3>2
      <4>2. /\ zahtev[q].pc # "idle" => zahtev[q].event \in Event
            /\ zahtev[q].nov => /\ zahtev[q].pc = "commit"
                                /\ dogadjaji[zahtev[q].event].status = "NONE"
            /\ zahtev[q].pc = "commit" /\ ~zahtev[q].nov => dogadjaji[zahtev[q].event].status # "NONE"
        BY DEF InsertAlone
      <4>3. ASSUME zahtev[q].nov, NEW p \in Request \ {q}
            PROVE  ~(zahtev'[p].nov /\ zahtev'[p].event = zahtev[q].event)
        <5>1. ~(zahtev[p].nov /\ zahtev[p].event = zahtev[q].event) BY <4>3 DEF InsertAlone, inserting
        <5> QED BY <2>3, <2>4, <5>1
      <4>4. zahtev[q].nov => zahtev[q].event # e
        <5>1. ASSUME zahtev[q].nov, zahtev[q].event = e PROVE FALSE
          <6>1. CASE z.nov BY <3>2, <5>1, <6>1 DEF InsertAlone, inserting
          <6>2. CASE ~z.nov
            <7>1. dogadjaji[e].status # "NONE" BY <2>1, <6>2 DEF InsertAlone
            <7> QED BY <4>2, <5>1, <7>1
          <6> QED BY <6>1, <6>2
        <5> QED BY <5>1
      <4>5. zahtev[q].nov => /\ zahtev[q].event \in Event /\ zahtev[q].pc = "commit"
                             /\ dogadjaji'[zahtev[q].event].status = "NONE"
        BY <2>6, <4>2, <4>4
      <4>6. zahtev[q].pc = "commit" /\ ~zahtev[q].nov => dogadjaji'[zahtev[q].event].status # "NONE"
        BY <2>8, <4>2
      <4> QED BY <4>1, <4>2, <4>3, <4>5, <4>6
    <3> QED BY <3>1, <3>2
  <2>11. InsertAlone' BY <2>10 DEF InsertAlone, inserting
  <2> QED BY <2>9, <2>11
<1>6. ASSUME NEW r \in Request, rollback_change(r) PROVE InsertAlone' /\ EventIffChange'
  <2> PICK z \in Zahtev : z = zahtev[r] BY DEF TypeOK
  <2> PICK y : y = [z EXCEPT !.pc = "done", !.nov = FALSE] OBVIOUS
  <2>1. zahtev' = [zahtev EXCEPT ![r] = y] /\ UNCHANGED <<dogadjaji, promene>> BY <1>6 DEF rollback_change
  <2>2. z.pc # "idle" BY <1>6 DEF rollback_change
  <2>3. z.event \in Event BY <2>2 DEF InsertAlone
  <2>4. y.event = z.event /\ y.pc = "done" /\ ~y.nov BY DEF Zahtev
  <2>5. InsertAlone' BY <2>1, <2>3, <2>4, RequestTied
  <2> QED BY <2>1, <2>5 DEF EventIffChange
<1>7. ASSUME \/ Tick \/ UNCHANGED vars \/ \E e \in Event : resource_changes(e)
      PROVE  InsertAlone' /\ EventIffChange'
      BY <1>7 DEF Tick, vars, resource_changes, InsertAlone, EventIffChange, inserting
<1> QED BY <1>1, <1>2, <1>3, <1>4, <1>5, <1>6, <1>7 DEF Next, Transaction

-----------------------------------------------------------------------------
(* The count of failed attempts *)

\* A worker step changes who is about to count a failure of e by that worker.
LEMMA CountingOf ==
  ASSUME TypeOK, NEW w \in Worker, NEW y, radnik' = [radnik EXCEPT ![w] = y], NEW e \in Event
  PROVE  /\ IsFiniteSet(Counting(e)) /\ Cardinality(Counting(e)) \in Nat
         /\ (y.pc = "failed" /\ y.event = e /\ radnik[w].pc # "failed")
              => Cardinality(Counting(e)') = Cardinality(Counting(e)) + 1
         /\ ~(y.pc = "failed" /\ y.event = e)
              => Cardinality(Counting(e)') <= Cardinality(Counting(e))
         /\ (y.pc # "failed" /\ radnik[w].pc = "failed" /\ radnik[w].event = e)
              => Cardinality(Counting(e)') = Cardinality(Counting(e)) - 1
<1>1. \A v \in Worker : radnik'[v] = IF v = w THEN y ELSE radnik[v] BY DEF TypeOK
<1>2. IsFiniteSet(Counting(e)) /\ Cardinality(Counting(e)) \in Nat
  <2>1. Counting(e) \subseteq Worker BY DEF Counting
  <2>2. IsFiniteSet(Counting(e)) BY <2>1, FS_Subset
  <2> QED BY <2>2, FS_CardinalityType
<1>3. ASSUME y.pc = "failed" /\ y.event = e /\ radnik[w].pc # "failed"
      PROVE  Cardinality(Counting(e)') = Cardinality(Counting(e)) + 1
  <2>1. Counting(e)' = Counting(e) \cup {w} /\ w \notin Counting(e) BY <1>1, <1>3 DEF Counting
  <2> QED BY <1>2, <2>1, FS_AddElement
<1>4. ASSUME ~(y.pc = "failed" /\ y.event = e)
      PROVE  Cardinality(Counting(e)') <= Cardinality(Counting(e))
  <2>1. Counting(e)' \subseteq Counting(e) BY <1>1, <1>4 DEF Counting
  <2> QED BY <1>2, <2>1, FS_Subset
<1>5. ASSUME y.pc # "failed" /\ radnik[w].pc = "failed" /\ radnik[w].event = e
      PROVE  Cardinality(Counting(e)') = Cardinality(Counting(e)) - 1
  <2>1. Counting(e)' = Counting(e) \ {w} /\ w \in Counting(e) BY <1>1, <1>5 DEF Counting
  <2>2. Cardinality(Counting(e) \ {w}) = IF w \in Counting(e) THEN Cardinality(Counting(e)) - 1
                                         ELSE Cardinality(Counting(e))
    BY <1>2, FS_RemoveElement
  <2> QED BY <2>1, <2>2
<1> QED BY <1>2, <1>3, <1>4, <1>5

LEMMA WorkerStepCounts ==
  ASSUME EventInv, AttemptsFailed, NEW w \in Worker, process_batch(w) \/ Failures(w), TypeOK'
  PROVE  AttemptsFailed'
<1> USE DEF EventInv
<1> DEFINE x == radnik[w].event
<1>0. SUFFICES ASSUME NEW e \in Event
               PROVE  dogadjaji'[e].broj_pokusaja + Cardinality(Counting(e)') <= neuspesi'[e]
      BY DEF AttemptsFailed
<1>1. /\ dogadjaji[e].broj_pokusaja \in Nat /\ neuspesi[e] \in Nat
      /\ dogadjaji[e].broj_pokusaja + Cardinality(Counting(e)) <= neuspesi[e]
      BY DEF TypeOK, Row, AttemptsFailed
<1>2. CASE process_fails(w) \/ commit_raises(w)
  <2>1. PICK z \in Radnik : z = radnik[w] BY DEF TypeOK
  <2>2. z.pc \in {"resolve", "commit"} /\ x \in Event
        BY <1>2, <2>1 DEF process_fails, commit_raises, LockHeld
  <2> DEFINE y == [z EXCEPT !.pc = "failed"]
  <2>3. radnik' = [radnik EXCEPT ![w] = y] /\ y.pc = "failed" /\ y.event = x
        BY <1>2, <2>1 DEF process_fails, commit_raises, Radnik
  <2>4. neuspesi' = [neuspesi EXCEPT ![x] = @ + 1] BY <1>2 DEF process_fails, commit_raises
  <2>5. dogadjaji'[e].broj_pokusaja = dogadjaji[e].broj_pokusaja
    <3>1. \/ dogadjaji' = dogadjaji
          \/ dogadjaji' = [dogadjaji EXCEPT ![x].status = radnik[w].ishod]
          BY <1>2 DEF process_fails, commit_raises, settle
    <3>2. CASE dogadjaji' = [dogadjaji EXCEPT ![x].status = radnik[w].ishod]
      <4>1. e # x => dogadjaji'[e] = dogadjaji[e] BY <3>2 DEF TypeOK
      <4>2. e = x => dogadjaji'[e] = [dogadjaji[e] EXCEPT !.status = radnik[w].ishod]
            BY <3>2 DEF TypeOK
      <4>3. dogadjaji[e] \in Row BY DEF TypeOK
      <4> QED BY <4>1, <4>2, <4>3 DEF Row
    <3> QED BY <3>1, <3>2
  <2> HIDE DEF y
  <2>6. CASE e = x
    <3>1. Cardinality(Counting(e)') = Cardinality(Counting(e)) + 1
          BY <2>1, <2>2, <2>3, <2>6, CountingOf
    <3>2. neuspesi'[e] = neuspesi[e] + 1 BY <2>2, <2>4, <2>6 DEF TypeOK
    <3>3. Cardinality(Counting(e)) \in Nat BY <2>3, CountingOf
    <3> QED BY <1>1, <2>5, <3>1, <3>2, <3>3
  <2>7. CASE e # x
    <3>1. Cardinality(Counting(e)') <= Cardinality(Counting(e)) /\ Cardinality(Counting(e)) \in Nat
          BY <2>3, <2>7, CountingOf
    <3>2. neuspesi'[e] = neuspesi[e] BY <2>2, <2>4, <2>7 DEF TypeOK
    <3>3. Counting(e)' = Counting(e) BY <2>1, <2>2, <2>3, <2>7 DEF Counting, TypeOK
    <3> QED BY <1>1, <2>5, <3>1, <3>2, <3>3
  <2> QED BY <2>6, <2>7
<1>3. CASE record_failure(w)
  <2>1. /\ radnik[w].pc = "failed" /\ radnik' = [radnik EXCEPT ![w] = Resting(radnik[w].batch)]
        /\ neuspesi' = neuspesi /\ x \in Event
        BY <1>3 DEF record_failure, LockHeld
  <2>2. Resting(radnik[w].batch).pc # "failed" BY DEF Resting
  <2>3. dogadjaji' = dogadjaji \/ dogadjaji' = [dogadjaji EXCEPT ![x] = counted(@)]
        BY <1>3 DEF record_failure
  <2>4. counted(dogadjaji[x]).broj_pokusaja = dogadjaji[x].broj_pokusaja + 1 BY DEF counted
  <2>5. CASE e = x
    <3>1. /\ Cardinality(Counting(e)') = Cardinality(Counting(e)) - 1
          /\ Cardinality(Counting(e)) \in Nat
          BY <2>1, <2>2, <2>5, CountingOf
    <3>2. dogadjaji'[e].broj_pokusaja \in {dogadjaji[e].broj_pokusaja, dogadjaji[e].broj_pokusaja + 1}
          BY <2>1, <2>3, <2>4, <2>5 DEF TypeOK
    <3> QED BY <1>1, <2>1, <3>1, <3>2
  <2>6. CASE e # x
    <3>1. dogadjaji'[e] = dogadjaji[e] BY <2>3, <2>6 DEF TypeOK
    <3>2. Counting(e)' = Counting(e) BY <2>1, <2>2, <2>6 DEF Counting, TypeOK
    <3> QED BY <1>1, <2>1, <3>1, <3>2
  <2> QED BY <2>5, <2>6
<1>4. CASE commit_event(w)
  <2>1. /\ radnik' = [radnik EXCEPT ![w] = Resting(radnik[w].batch)] /\ neuspesi' = neuspesi
        /\ dogadjaji' = [dogadjaji EXCEPT ![x].status = radnik[w].ishod]
        BY <1>4 DEF commit_event, settle
  <2>2. dogadjaji'[e].broj_pokusaja = dogadjaji[e].broj_pokusaja BY <2>1 DEF TypeOK, Row
  <2>3. Resting(radnik[w].batch).pc # "failed" BY DEF Resting
  <2>4. Cardinality(Counting(e)') <= Cardinality(Counting(e)) /\ Cardinality(Counting(e)) \in Nat
        BY <2>1, <2>3, CountingOf
  <2>5. radnik[w].pc = "commit" BY <1>4 DEF commit_event
  <2>6. Counting(e)' = Counting(e) BY <2>1, <2>3, <2>5 DEF Counting, TypeOK
  <2> QED BY <1>1, <2>1, <2>2, <2>4, <2>6
<1>5. ASSUME NEW y, y.pc # "failed", radnik' = [radnik EXCEPT ![w] = y], UNCHANGED <<dogadjaji, neuspesi>>
      PROVE  dogadjaji'[e].broj_pokusaja + Cardinality(Counting(e)') <= neuspesi'[e]
  <2>1. Cardinality(Counting(e)') <= Cardinality(Counting(e)) /\ Cardinality(Counting(e)) \in Nat
        BY <1>5, CountingOf
  <2>2. Cardinality(Counting(e)') \in Nat
    <3>1. Counting(e)' \subseteq Worker BY DEF Counting
    <3>2. IsFiniteSet(Counting(e)') BY <3>1, FS_Subset
    <3> QED BY <3>2, FS_CardinalityType
  <2> QED BY <1>1, <1>5, <2>1, <2>2
<1>6. CASE list_ready_ids(w)
  <2>1. PICK S : radnik' = [radnik EXCEPT ![w] = Resting(S)] BY <1>6 DEF list_ready_ids
  <2> QED BY <1>5, <1>6, <2>1 DEF list_ready_ids, Resting
<1>7. ASSUME NEW f \in Event, get_for_update(w, f)
      PROVE  dogadjaji'[e].broj_pokusaja + Cardinality(Counting(e)') <= neuspesi'[e]
  <2>1. PICK y : y.pc # "failed" /\ radnik' = [radnik EXCEPT ![w] = y]
        BY <1>7 DEF get_for_update, Resting
  <2> QED BY <1>5, <1>7, <2>1 DEF get_for_update
<1>8. CASE resolve(w)
  <2>1. PICK z \in Radnik : z = radnik[w] BY DEF TypeOK
  <2>2. PICK o : radnik' = [radnik EXCEPT ![w] = [z EXCEPT !.pc = "commit", !.ishod = o]]
        BY <1>8, <2>1 DEF resolve
  <2>3. [z EXCEPT !.pc = "commit", !.ishod = o].pc # "failed" BY DEF Radnik
  <2> QED BY <1>5, <1>8, <2>2, <2>3 DEF resolve
<1>9. CASE record_failure_raises(w) \/ crash(w)
  <2>1. PICK S : radnik' = [radnik EXCEPT ![w] = Resting(S)] BY <1>9 DEF record_failure_raises, crash
  <2> QED BY <1>5, <1>9, <2>1 DEF record_failure_raises, crash, Resting
<1> QED BY <1>2, <1>3, <1>4, <1>6, <1>7, <1>8, <1>9 DEF process_batch, Failures

\* A business or environment step leaves a row as it is or starts its count.
LEMMA KnownOrEnqueued ==
  ASSUME EventInv, NEW e \in Event,
         \/ \E r \in Request : Transaction(r)
         \/ \E f \in Event : resource_changes(f)
         \/ Tick \/ UNCHANGED vars
  PROVE  dogadjaji'[e] = dogadjaji[e] \/ dogadjaji'[e].broj_pokusaja = 0
<1>1. ASSUME NEW r \in Request, commit_change(r)
      PROVE  dogadjaji'[e] = dogadjaji[e] \/ dogadjaji'[e].broj_pokusaja = 0
  <2>1. Enqueued(zahtev[r].at).broj_pokusaja = 0 BY DEF Enqueued
  <2>2. \/ dogadjaji' = dogadjaji
        \/ dogadjaji' = [dogadjaji EXCEPT ![zahtev[r].event] = Enqueued(zahtev[r].at)]
        BY <1>1 DEF commit_change
  <2> QED BY <2>1, <2>2 DEF EventInv, TypeOK
<1>2. CASE UNCHANGED dogadjaji BY <1>2
<1> QED BY <1>1, <1>2 DEF Transaction, begin, enqueue_if_absent, insert_event, rollback_change,
        resource_changes, Tick, vars

\* A business or environment step leaves the counts alone.
LEMMA OtherStepCounts ==
  ASSUME EventInv, AttemptsFailed,
         \/ \E r \in Request : Transaction(r)
         \/ \E e \in Event : resource_changes(e)
         \/ Tick \/ UNCHANGED vars
  PROVE  AttemptsFailed'
<1>1. neuspesi' = neuspesi /\ radnik' = radnik
      BY DEF Transaction, begin, enqueue_if_absent, insert_event, commit_change, rollback_change,
             Business, resource_changes, Tick, vars
<1>2. ASSUME NEW e \in Event PROVE dogadjaji'[e].broj_pokusaja <= dogadjaji[e].broj_pokusaja
  <2>0. dogadjaji[e].broj_pokusaja \in Nat BY DEF EventInv, TypeOK, Row
  <2>1. dogadjaji'[e] = dogadjaji[e] \/ dogadjaji'[e].broj_pokusaja = 0
        BY KnownOrEnqueued
  <2> QED BY <2>0, <2>1
<1>3. ASSUME NEW e \in Event
      PROVE  dogadjaji'[e].broj_pokusaja + Cardinality(Counting(e)') <= neuspesi'[e]
  <2>1. Counting(e)' = Counting(e) BY <1>1 DEF Counting
  <2>2. Cardinality(Counting(e)) \in Nat
    <3>1. Counting(e) \subseteq Worker BY DEF Counting
    <3>2. IsFiniteSet(Counting(e)) BY <3>1, FS_Subset
    <3> QED BY <3>2, FS_CardinalityType
  <2>3. dogadjaji[e].broj_pokusaja + Cardinality(Counting(e)) <= neuspesi[e] BY DEF AttemptsFailed
  <2>4. dogadjaji[e].broj_pokusaja \in Nat /\ neuspesi[e] \in Nat BY DEF EventInv, TypeOK, Row
  <2>5. dogadjaji'[e].broj_pokusaja \in Int
    <3>1. dogadjaji'[e] = dogadjaji[e] \/ dogadjaji'[e].broj_pokusaja = 0
          BY KnownOrEnqueued
    <3> QED BY <2>4, <3>1
  <2> QED BY <1>1, <1>2, <2>1, <2>2, <2>3, <2>4, <2>5
<1> QED BY <1>3 DEF AttemptsFailed

LEMMA NextGivenUp == EventInv /\ GivenUpInTime /\ [Next]_vars => GivenUpInTime'
<1> SUFFICES ASSUME EventInv, GivenUpInTime, [Next]_vars PROVE GivenUpInTime'
    OBVIOUS
<1> USE DEF EventInv
<1>1. ASSUME NEW w \in Worker, settle(w), radnik[w].pc = "commit" PROVE GivenUpInTime'
  <2> DEFINE x == radnik[w].event
  <2>1. x \in Event /\ radnik[w].ishod # "FAILED" BY <1>1 DEF LockHeld
  <2>2. dogadjaji' = [dogadjaji EXCEPT ![x].status = radnik[w].ishod] BY <1>1 DEF settle
  <2>3. dogadjaji'[x].status # "FAILED" BY <2>1, <2>2 DEF TypeOK, Row
  <2>4. \A e \in Event : e # x => dogadjaji'[e] = dogadjaji[e] BY <2>2 DEF TypeOK
  <2> QED BY <2>3, <2>4 DEF GivenUpInTime
<1>2. ASSUME NEW w \in Worker, record_failure(w) PROVE GivenUpInTime'
  <2> DEFINE x == radnik[w].event
  <2>1. x \in Event BY <1>2 DEF record_failure, LockHeld
  <2>2. dogadjaji' = dogadjaji \/ dogadjaji' = [dogadjaji EXCEPT ![x] = counted(@)]
        BY <1>2 DEF record_failure
  <2>3. counted(dogadjaji[x]).status = "FAILED" => counted(dogadjaji[x]).broj_pokusaja >= MaxAttempts
        BY DEF counted
  <2>4. dogadjaji' = dogadjaji \/ dogadjaji' = [dogadjaji EXCEPT ![x] = counted(dogadjaji[x])]
        BY <2>2
  <2> QED BY <2>1, <2>3, <2>4 DEF GivenUpInTime, TypeOK
<1>3. CASE UNCHANGED dogadjaji BY <1>3 DEF GivenUpInTime
<1>4. ASSUME NEW r \in Request, commit_change(r) PROVE GivenUpInTime'
      BY <1>4 DEF commit_change, Enqueued, TypeOK, GivenUpInTime
<1> QED BY <1>1, <1>2, <1>3, <1>4
        DEF Next, Transaction, begin, enqueue_if_absent, insert_event, rollback_change, process_batch,
            list_ready_ids, get_for_update, resolve, process_fails, commit_event, Failures,
            commit_raises, record_failure_raises, crash, resource_changes, Tick, vars

-----------------------------------------------------------------------------
(* The theorems *)

LEMMA InitInv == Init => IInv
<1> SUFFICES ASSUME Init PROVE IInv
    OBVIOUS
<1>1. EventInv BY InitEvents
<1>2. AttemptsFailed
  <2>1. \A e \in Event : Counting(e) = {} BY DEF Init, Counting, Resting
  <2>2. \A e \in Event : Cardinality(Counting(e)) = 0 BY <2>1, FS_EmptySet
  <2> QED BY <2>2 DEF Init, NoRow, AttemptsFailed
<1>3. GivenUpInTime BY DEF Init, NoRow, GivenUpInTime
<1> QED BY <1>1, <1>2, <1>3 DEF IInv

LEMMA NextInv == IInv /\ [Next]_vars => IInv'
<1> SUFFICES ASSUME EventInv, AttemptsFailed, GivenUpInTime, [Next]_vars PROVE IInv'
    BY DEF IInv
<1>1. EventInv' BY NextTyped, NextLocked, NextAnnounced, NextTied DEF EventInv
<1>2. AttemptsFailed'
  <2>1. ASSUME NEW w \in Worker, process_batch(w) \/ Failures(w) PROVE AttemptsFailed'
        BY <1>1, <2>1, WorkerStepCounts DEF EventInv
  <2> QED BY <2>1, OtherStepCounts DEF Next
<1> QED BY <1>1, <1>2, NextGivenUp DEF IInv

\* The inductive invariant of the event queue: the row lock is exclusive, an
\* event is PROCESSED exactly when it has its one notification, an event exists
\* exactly for a committed change, and every counted attempt has failed.
THEOREM EventsInvariance == Spec => []IInv
BY InitInv, NextInv, PTL DEF Spec

\* Every variable of the event queue keeps its type (TypeOK), for any number of
\* events, workers and business transactions.
THEOREM EventsTyped == Spec => []TypeOK
<1>1. IInv => TypeOK BY DEF IInv, EventInv
<1> QED BY <1>1, EventsInvariance, PTL

\* An event is announced at most once (_process_one publishes only under the row
\* lock and from PENDING; a published row cannot go back).
THEOREM EventAnnouncedOnce == Spec => []AnnouncedOnce
<1>1. IInv => AnnouncedOnce
      BY DEF IInv, EventInv, AnnouncedIffProcessed, AnnouncedOnce
<1> QED BY <1>1, EventsInvariance, PTL

\* A business change and its event (enqueue_if_absent in the same transaction)
\* stand or fall together.
THEOREM EventTiedToChange == Spec => []EventIffChange
<1>1. IInv => EventIffChange BY DEF IInv, EventInv
<1> QED BY <1>1, EventsInvariance, PTL

\* An event is given up (_record_failure) only after MaxAttempts failures.
THEOREM EventGivenUpInTime == Spec => []GivenUpAfterMaxAttempts
<1>1. ASSUME IInv PROVE GivenUpAfterMaxAttempts
  <2> SUFFICES ASSUME NEW e \in Event, dogadjaji[e].status = "FAILED"
               PROVE  neuspesi[e] >= MaxAttempts
      BY DEF GivenUpAfterMaxAttempts
  <2>1. dogadjaji[e].broj_pokusaja >= MaxAttempts BY <1>1 DEF IInv, GivenUpInTime
  <2>2. dogadjaji[e].broj_pokusaja + Cardinality(Counting(e)) <= neuspesi[e]
        BY <1>1 DEF IInv, AttemptsFailed
  <2>3. Cardinality(Counting(e)) \in Nat
    <3>1. Counting(e) \subseteq Worker BY DEF Counting
    <3>2. IsFiniteSet(Counting(e)) BY <3>1, FS_Subset
    <3> QED BY <3>2, FS_CardinalityType
  <2>4. dogadjaji[e].broj_pokusaja \in Nat /\ neuspesi[e] \in Nat
        BY <1>1 DEF IInv, EventInv, TypeOK, Row
  <2> QED BY <2>1, <2>2, <2>3, <2>4
<1> QED BY <1>1, EventsInvariance, PTL

=============================================================================
