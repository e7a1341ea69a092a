---------------------------- MODULE SystemEvents ----------------------------
(***************************************************************************)
(* The queue of system events (PULS_SISTEMSKI_DOGADJAJI).                  *)
(*                                                                         *)
(* A business transaction (a survey or idea cycle is activated, an idea is *)
(* awarded, the app version changes, the worker discovers a deadline)      *)
(* enqueues an event under a unique key, in the same transaction.  The     *)
(* worker lists ready events and handles them one by one, each in its own  *)
(* transaction: lock the row, check it is still PENDING, decide whether    *)
(* the event still calls for a notification, publish it to the inbox and   *)
(* the push outbox and mark the event, or count the failure and back off.  *)
(*                                                                         *)
(* The deployment rule is one worker process; a restart can overlap it     *)
(* with its successor, which is what the row lock and the second look at   *)
(* the status are for, so Worker may have two members.                     *)
(***************************************************************************)
EXTENDS Integers, FiniteSets

CONSTANTS
  Event,        \* event keys (DOGADJAJ_KLJUC)
  NoEvent,      \* "no event"
  Worker,       \* worker processes
  Request,      \* business transactions; each runs once
  MaxAttempts,  \* settings.sys_notification_max_attempts
  BatchSize,    \* settings.sys_notification_batch_size
  Instants,     \* the minutes at which the clock is observed (bounds time)
  MaxFault      \* bound: commits with unknown outcome, lost bookkeeping, crashes

ASSUME ConstantsAssumption ==
  /\ NoEvent \notin Event /\ IsFiniteSet(Worker)
  /\ MaxAttempts \in Nat \ {0}
  /\ BatchSize \in Nat \ {0}
  /\ Instants \subseteq Nat /\ 0 \in Instants
  /\ MaxFault \in Nat

VARIABLES
  now,          \* wall clock, in minutes
  dogadjaji,    \* the committed rows, by key
  vazi,         \* does the event still call for a notification to somebody?
  obavestenja,  \* notifications published for the event
  radnik,       \* control state of each worker
  zahtev,       \* control state of each business transaction
  promene,      \* history: committed business changes that call for the event
  neuspesi,     \* history: attempts that raised
  greske        \* faults so far (bounded by MaxFault)

vars == <<now, dogadjaji, vazi, obavestenja, radnik, zahtev, promene, neuspesi, greske>>

-----------------------------------------------------------------------------

NoTime == -1
Row == [status : {"NONE", "PENDING", "PROCESSED", "SKIPPED", "FAILED"},
        broj_pokusaja : Nat, sledeci : Nat \cup {NoTime}]
NoRow == [status |-> "NONE", broj_pokusaja |-> 0, sledeci |-> NoTime]
Enqueued(t) == [status |-> "PENDING", broj_pokusaja |-> 0, sledeci |-> t]

\* A worker lists a batch, takes an event (holding its row), has an outcome to
\* commit, or has rolled back and has a failure to count.
Radnik == [pc : {"pick", "resolve", "commit", "failed"}, batch : SUBSET Event,
           event : Event \cup {NoEvent}, ishod : {"PENDING", "PROCESSED", "SKIPPED"}]
Resting(S) == [pc |-> "pick", batch |-> S, event |-> NoEvent, ishod |-> "PENDING"]

Zahtev == [pc : {"idle", "check", "insert", "commit", "done"},
           event : Event \cup {NoEvent}, nov : BOOLEAN, at : Nat]
Unborn == [pc |-> "idle", event |-> NoEvent, nov |-> FALSE, at |-> 0]

Init ==
  /\ now = 0
  /\ dogadjaji = [e \in Event |-> NoRow]
  /\ vazi = [e \in Event |-> FALSE]
  /\ obavestenja = [e \in Event |-> 0]
  /\ radnik = [w \in Worker |-> Resting({})]
  /\ zahtev = [r \in Request |-> Unborn]
  /\ promene = [e \in Event |-> 0]
  /\ neuspesi = [e \in Event |-> 0]
  /\ greske = 0

-----------------------------------------------------------------------------
(* enqueue_if_absent, inside a business transaction *)

Business == <<now, vazi, obavestenja, radnik, neuspesi, greske>>

\* A business operation starts that calls for event e.
begin(r, e) ==
  /\ zahtev[r].pc = "idle"
  /\ zahtev' = [zahtev EXCEPT ![r] = [pc |-> "check", event |-> e, nov |-> FALSE, at |-> 0]]
  /\ UNCHANGED <<dogadjaji, promene>> /\ UNCHANGED Business

\* (mutant) a row another transaction has not committed counts as existing
present_dirty(e) == \/ dogadjaji[e].status # "NONE"
                    \/ \E r \in Request : zahtev[r].event = e /\ zahtev[r].nov

\* The key as the SELECT sees it: committed rows only.
present(e) == dogadjaji[e].status # "NONE"

\* Look for the key.
enqueue_if_absent(r) ==
  /\ zahtev[r].pc = "check"
  /\ zahtev' = [zahtev EXCEPT ![r].pc = IF present(zahtev[r].event) THEN "commit" ELSE "insert",
                              ![r].at = now]
  /\ UNCHANGED <<dogadjaji, promene>> /\ UNCHANGED Business

\* Another transaction has inserted the key and not committed yet.
inserting(r, e) == \E q \in Request \ {r} : zahtev[q].nov /\ zahtev[q].event = e

\* Insert: the unique key makes it wait for an uncommitted twin, and refuses it
\* when a twin is committed, which rolls the business operation back.
insert_event(r) ==
  LET e == zahtev[r].event IN
  /\ zahtev[r].pc = "insert"
  /\ ~inserting(r, e)
  /\ zahtev' = [zahtev EXCEPT ![r].pc  = IF dogadjaji[e].status # "NONE" THEN "done" ELSE "commit",
                              ![r].nov = dogadjaji[e].status = "NONE"]
  /\ UNCHANGED <<dogadjaji, promene>> /\ UNCHANGED Business

\* The business operation commits, and its event with it.
commit_change(r) ==
  LET e == zahtev[r].event IN
  /\ zahtev[r].pc = "commit"
  /\ promene' = [promene EXCEPT ![e] = @ + 1]
  /\ dogadjaji' = IF zahtev[r].nov
                    THEN [dogadjaji EXCEPT ![e] = Enqueued(zahtev[r].at)] ELSE dogadjaji
  /\ vazi' = [vazi EXCEPT ![e] = TRUE]
  /\ zahtev' = [zahtev EXCEPT ![r].pc = "done", ![r].nov = FALSE]
  /\ UNCHANGED <<now, obavestenja, radnik, neuspesi, greske>>

\* The business operation fails: nothing of it remains.
rollback_change(r) ==
  /\ zahtev[r].pc \in {"check", "insert", "commit"}
  /\ zahtev' = [zahtev EXCEPT ![r].pc = "done", ![r].nov = FALSE]
  /\ UNCHANGED <<dogadjaji, promene>> /\ UNCHANGED Business

-----------------------------------------------------------------------------
(* process_batch *)

Queue == <<now, vazi, zahtev, promene>>

due(e) == /\ dogadjaji[e].status = "PENDING"
          /\ dogadjaji[e].sledeci <= now

\* The row is locked FOR UPDATE by another worker.
locked(w, e) == \E v \in Worker \ {w} : radnik[v].pc \in {"resolve", "commit"} /\ radnik[v].event = e

\* The order of the batch; the order of events of one instant is left open.
earliest(e, f) == dogadjaji[e].sledeci <= dogadjaji[f].sledeci

\* List the first ready events, without locking them.
list_ready_ids(w) ==
  /\ radnik[w] = Resting({})
  /\ \E S \in SUBSET {e \in Event : due(e)} \ {{}} :
       /\ Cardinality(S) <= BatchSize
       /\ Cardinality(S) < BatchSize => \A e \in Event : due(e) => e \in S
       /\ \A e \in S, f \in Event \ S : due(f) => earliest(e, f)
       /\ radnik' = [radnik EXCEPT ![w] = Resting(S)]
  /\ UNCHANGED <<dogadjaji, obavestenja, neuspesi, greske>> /\ UNCHANGED Queue

\* (mutant) the event is handled whatever its status has become
still_pending_unchecked(e) == TRUE

\* The second look at the status, under the lock.
still_pending(e) == dogadjaji[e].status = "PENDING"

\* Lock the next event of the batch; one that is settled by now is passed over.
get_for_update(w, e) ==
  /\ radnik[w].pc = "pick" /\ e \in radnik[w].batch
  /\ ~locked(w, e)
  /\ radnik' = [radnik EXCEPT ![w] =
       IF still_pending(e)
         THEN [pc |-> "resolve", batch |-> radnik[w].batch \ {e}, event |-> e, ishod |-> "PENDING"]
         ELSE Resting(radnik[w].batch \ {e})]
  /\ UNCHANGED <<dogadjaji, obavestenja, neuspesi, greske>> /\ UNCHANGED Queue

\* (mutant) an event that calls for nothing is left as it is
outcome_kept(e) == IF vazi[e] THEN "PROCESSED" ELSE "PENDING"

\* No recipients, nothing to say or an expiry already past skips the event.
outcome(e) == IF vazi[e] THEN "PROCESSED" ELSE "SKIPPED"

\* Decide; for PROCESSED the notification and its delivery rows are written.
resolve(w) ==
  /\ radnik[w].pc = "resolve"
  /\ radnik' = [radnik EXCEPT ![w].pc = "commit",
                              ![w].ishod = outcome(radnik[w].event)]
  /\ UNCHANGED <<dogadjaji, obavestenja, neuspesi, greske>> /\ UNCHANGED Queue

\* Resolving or publishing raises: rollback.
process_fails(w) ==
  /\ radnik[w].pc = "resolve"
  /\ radnik' = [radnik EXCEPT ![w].pc = "failed"]
  /\ neuspesi' = [neuspesi EXCEPT ![radnik[w].event] = @ + 1]
  /\ UNCHANGED <<dogadjaji, obavestenja, greske>> /\ UNCHANGED Queue

\* The outcome takes effect: one transaction for the notification and the event.
settle(w) ==
  LET e == radnik[w].event IN
  /\ dogadjaji' = [dogadjaji EXCEPT ![e].status = radnik[w].ishod]
  /\ obavestenja' = [obavestenja EXCEPT ![e] = IF radnik[w].ishod = "PROCESSED" THEN @ + 1 ELSE @]

commit_event(w) ==
  /\ radnik[w].pc = "commit"
  /\ settle(w)
  /\ radnik' = [radnik EXCEPT ![w] = Resting(@.batch)]
  /\ UNCHANGED <<neuspesi, greske>> /\ UNCHANGED Queue

\* The commit raises, whether the database applied it or not.
commit_raises(w) ==
  /\ radnik[w].pc = "commit" /\ greske < MaxFault
  /\ settle(w) \/ UNCHANGED <<dogadjaji, obavestenja>>
  /\ radnik' = [radnik EXCEPT ![w].pc = "failed"]
  /\ neuspesi' = [neuspesi EXCEPT ![radnik[w].event] = @ + 1]
  /\ greske' = greske + 1
  /\ UNCHANGED Queue

MAX_BACKOFF_MIN == 60
_retry_backoff(attempts) ==
  IF attempts > 6 THEN MAX_BACKOFF_MIN ELSE 2 ^ (IF attempts > 1 THEN attempts - 1 ELSE 0)

\* (mutant) an attempt is given up one too early
counted_early(row) ==
  LET n == row.broj_pokusaja + 1 IN
  IF n >= MaxAttempts - 1
    THEN [status |-> "FAILED", broj_pokusaja |-> n, sledeci |-> NoTime]
    ELSE [status |-> "PENDING", broj_pokusaja |-> n, sledeci |-> now + _retry_backoff(n)]

\* The row after a failure; its status is not looked at.
counted(row) ==
  LET n == row.broj_pokusaja + 1 IN
  IF n >= MaxAttempts
    THEN [status |-> "FAILED", broj_pokusaja |-> n, sledeci |-> NoTime]
    ELSE [status |-> "PENDING", broj_pokusaja |-> n, sledeci |-> now + _retry_backoff(n)]

\* (mutant) no check constraint ties the status to the notification
refused_by_check_never(row) == FALSE

\* CK_SIST_DOG_PROCESSED_OBAV: a row with its notification must stay PROCESSED.
refused_by_check(row) == row.status = "PROCESSED"

\* Count the failure in a transaction of its own; a refused one is rolled back.
record_failure(w) ==
  LET e == radnik[w].event IN
  /\ radnik[w].pc = "failed"
  /\ ~locked(w, e)
  /\ dogadjaji' = IF refused_by_check(dogadjaji[e]) THEN dogadjaji
                  ELSE [dogadjaji EXCEPT ![e] = counted(@)]
  /\ radnik' = [radnik EXCEPT ![w] = Resting(@.batch)]
  /\ UNCHANGED <<obavestenja, neuspesi, greske>> /\ UNCHANGED Queue

\* Counting the failure fails too: the row is as before.
record_failure_raises(w) ==
  /\ radnik[w].pc = "failed" /\ greske < MaxFault
  /\ radnik' = [radnik EXCEPT ![w] = Resting(@.batch)]
  /\ greske' = greske + 1
  /\ UNCHANGED <<dogadjaji, obavestenja, neuspesi>> /\ UNCHANGED Queue

\* The worker process dies: its transaction is rolled back.
crash(w) ==
  /\ radnik[w] # Resting({}) /\ greske < MaxFault
  /\ radnik' = [radnik EXCEPT ![w] = Resting({})]
  /\ greske' = greske + 1
  /\ UNCHANGED <<dogadjaji, obavestenja, neuspesi>> /\ UNCHANGED Queue

-----------------------------------------------------------------------------
(* The environment *)

\* The resource of a recorded event changes: a survey closes, an idea loses its
\* status, the version is changed back, recipients leave or come.
resource_changes(e) ==
  /\ dogadjaji[e].status # "NONE"
  /\ vazi' = [vazi EXCEPT ![e] = ~@]
  /\ UNCHANGED <<now, dogadjaji, obavestenja, radnik, zahtev, promene, neuspesi, greske>>

Tick == /\ \E t \in Instants : t > now /\ now' = t
        /\ UNCHANGED <<dogadjaji, vazi, obavestenja, radnik, zahtev, promene, neuspesi, greske>>

Transaction(r) ==
  \/ \E e \in Event : begin(r, e)
  \/ enqueue_if_absent(r) \/ insert_event(r) \/ commit_change(r) \/ rollback_change(r)

process_batch(w) ==
  \/ list_ready_ids(w)
  \/ \E e \in Event : get_for_update(w, e)
  \/ resolve(w) \/ process_fails(w) \/ commit_event(w) \/ record_failure(w)

Failures(w) == commit_raises(w) \/ record_failure_raises(w) \/ crash(w)

Next == \/ \E r \in Request : Transaction(r)
        \/ \E w \in Worker : process_batch(w) \/ Failures(w)
        \/ \E e \in Event : resource_changes(e)
        \/ Tick

Spec == Init /\ [][Next]_vars

\* The scheduler keeps calling process_batch and a call runs to its end.
FairSpec == Spec /\ \A w \in Worker : WF_vars(process_batch(w))

-----------------------------------------------------------------------------
(* Properties *)

\* Every variable has its type.
TypeOK ==
  /\ now \in Nat
  /\ dogadjaji \in [Event -> Row]
  /\ vazi \in [Event -> BOOLEAN]
  /\ obavestenja \in [Event -> Nat]
  /\ radnik \in [Worker -> Radnik]
  /\ zahtev \in [Request -> Zahtev]
  /\ promene \in [Event -> Nat]
  /\ neuspesi \in [Event -> Nat]
  /\ greske \in Nat

\* An event is announced at most once: overlapping workers, commits with unknown
\* outcome, retries and crashes never publish a second notification for it.
AnnouncedOnce == \A e \in Event : obavestenja[e] <= 1

\* A business change and its event stand or fall together, also when two
\* transactions enqueue the same key: no committed change is left without its
\* event and no event stems from a change that was rolled back.
EventIffChange == \A e \in Event : (dogadjaji[e].status # "NONE") <=> (promene[e] > 0)

\* An event is given up only after MaxAttempts attempts have really failed.
GivenUpAfterMaxAttempts == \A e \in Event :
  dogadjaji[e].status = "FAILED" => neuspesi[e] >= MaxAttempts

\* No due event is left behind: whatever attempts fail before it in the queue,
\* it is handled, or its own failure is counted and its next turn moved.
DueEventsAreHandled == \A e \in Event : due(e) ~> ~due(e)

-----------------------------------------------------------------------------
(* Why it works: the inductive invariant *)

\* The row lock is exclusive, and who holds it holds a PENDING event.
LockHeld ==
  /\ \A w \in Worker : radnik[w].pc \in {"resolve", "commit"} =>
       /\ radnik[w].event \in Event
       /\ dogadjaji[radnik[w].event].status = "PENDING"
       /\ \A v \in Worker : radnik[v].pc \in {"resolve", "commit"}
            /\ radnik[v].event = radnik[w].event => v = w
  /\ \A w \in Worker : radnik[w].pc = "failed" =>
       radnik[w].event \in Event /\ dogadjaji[radnik[w].event].status # "NONE"
  /\ \A w \in Worker : \A e \in radnik[w].batch : dogadjaji[e].status # "NONE"
  /\ \A w \in Worker : radnik[w].pc = "commit" => radnik[w].ishod \in {"PROCESSED", "SKIPPED"}

\* A notification exists exactly for the PROCESSED events.
AnnouncedIffProcessed == \A e \in Event :
  obavestenja[e] = IF dogadjaji[e].status = "PROCESSED" THEN 1 ELSE 0

\* The workers about to count a failure of e.
Counting(e) == {w \in Worker : radnik[w].pc = "failed" /\ radnik[w].event = e}

\* Every counted attempt has failed, and so has each one about to be counted.
AttemptsFailed == \A e \in Event :
  dogadjaji[e].broj_pokusaja + Cardinality(Counting(e)) <= neuspesi[e]

\* A transaction that has inserted the key is alone in that, and its key is not
\* committed; one that found the key present still has it.
InsertAlone == \A r \in Request :
  /\ zahtev[r].pc # "idle" => zahtev[r].event \in Event
  /\ zahtev[r].nov => /\ zahtev[r].pc = "commit"
                      /\ dogadjaji[zahtev[r].event].status = "NONE"
                      /\ ~inserting(r, zahtev[r].event)
  /\ zahtev[r].pc = "commit" /\ ~zahtev[r].nov => dogadjaji[zahtev[r].event].status # "NONE"

\* What keeps announcements single and events tied to their changes.
EventInv == TypeOK /\ LockHeld /\ AnnouncedIffProcessed /\ InsertAlone /\ EventIffChange

GivenUpInTime == \A e \in Event :
  dogadjaji[e].status = "FAILED" => dogadjaji[e].broj_pokusaja >= MaxAttempts

IInv == EventInv /\ AttemptsFailed /\ GivenUpInTime
=============================================================================
