----------------------------- MODULE PushOutbox -----------------------------
(***************************************************************************)
(* Push delivery of notifications (app/services/push_service.py and the    *)
(* services that write the rows it reads).                                 *)
(*                                                                         *)
(* Publishing a notification materialises its recipients and, in the same  *)
(* transaction, one PENDING row of PULS_PUSH_ISPORUKE per recipient.  A    *)
(* single worker process claims due PENDING rows, checks each one, calls   *)
(* FCM and commits row by row.  Administrators may meanwhile archive the   *)
(* notification or resend it to those who have not read it; users log in,  *)
(* log out, register their phone and read the notification.                *)
(*                                                                         *)
(* The worker and the resend request both keep a private copy of a row     *)
(* (the SQLAlchemy instance, sessions use expire_on_commit=False) and an   *)
(* UPDATE writes only the columns whose value differs from that copy:      *)
(* reading, deciding and writing are therefore separate steps here.        *)
(***************************************************************************)
EXTENDS Integers, FiniteSets

CONSTANTS
  Notif,         \* notifications (PULS_OBAVESTENJA)
  User,          \* employees (PULS_KORISNICI)
  Device,        \* phones; the FCM token of a phone is identified with it
  NoDevice,      \* "no active token"
  MaxAttempts,   \* settings.fcm_max_attempts
  BatchSize,     \* settings.fcm_batch_size
  Instants,      \* the minutes at which the clock is observed (bounds time)
  Accounts,      \* the account states a run lets users be in
  MaxResend,     \* bound: resends of one notification
  MaxFault,      \* bound: failed transactions and worker crashes
  MaxUnanswered  \* bound: acceptances of one row that are answered with an error

ASSUME ConstantsAssumption ==
  /\ MaxAttempts \in Nat \ {0}
  /\ BatchSize \in Nat \ {0}
  /\ Instants \subseteq Nat /\ 0 \in Instants
  /\ Accounts \subseteq {"ok", "locked", "off"} /\ "ok" \in Accounts
  /\ NoDevice \notin Device
  /\ MaxResend \in Nat /\ MaxFault \in Nat /\ MaxUnanswered \in Nat

VARIABLES
  now,        \* wall clock, in minutes
  notif,      \* [status, datum_isteka] of each notification
  primaoci,   \* recipients of each notification, materialised at publish
  procitano,  \* the recipients that have read it
  nalog,      \* account state: "ok", "locked" (zakljucan), "off" (inactive)
  sesije,     \* devices on which the user has an unexpired active session
  token,      \* the device of the user's active push token, or NoDevice
  isporuke,   \* the rows of PULS_PUSH_ISPORUKE, one per recipient
  resend,     \* the resend request in progress for each notification
  worker,     \* the worker's control state and private copies
  accepted,   \* history: how many calls of send FCM accepted this row's message in
  confirmed,  \* history: those of them that were answered so
  unconfirmed,\* history: the row in hand, if it was accepted and answered with an error
  lost,       \* history: acceptances whose row update was never committed
  late,       \* history: acceptances after the notification was archived
  faults      \* faults so far (bounded by MaxFault)

users  == <<nalog, sesije, token>>
inbox  == <<notif, primaoci, procitano>>
counts == <<accepted, confirmed, lost, late>>
hist   == <<counts, unconfirmed>>
vars == <<now, inbox, users, isporuke, resend, worker, hist, faults>>

-----------------------------------------------------------------------------
(* Rows and times *)

Rows == Notif \X User
NoTime == -1             \* a NULL timestamp; NULLs sort first in the claim
Times == Nat \cup {NoTime}

Statuses == {"PENDING", "SENT", "FAILED", "SKIPPED"}
Row == [status : Statuses \cup {"NONE"}, broj_pokusaja : Nat,
        sledeci_pokusaj : Times, datum_slanja : Times, ponovnih : Nat]

\* No row in the table for this recipient.
NoRow == [status |-> "NONE", broj_pokusaja |-> 0, sledeci_pokusaj |-> NoTime,
          datum_slanja |-> NoTime, ponovnih |-> 0]

\* add_pending: what publish inserts for a recipient.
add_pending(t) == [NoRow EXCEPT !.status = "PENDING", !.sledeci_pokusaj = t]

NO_TOKEN_BACKOFF_MIN == 30
MAX_BACKOFF_MIN == 60

\* min(60, 2 ** (attempts - 1)) minutes.
retry_backoff(attempts) ==
  IF attempts \in 1..6 THEN <<1, 2, 4, 8, 16, 32>>[attempts] ELSE MAX_BACKOFF_MIN

\* PUBLISHED and not past its expiry at instant t.
available(n, t) == notif[n].status = "PUBLISHED" /\ notif[n].datum_isteka > t

\* What an UPDATE leaves in one column: an attribute equal to the copy that was
\* loaded is not part of the UPDATE.
column(stored, loaded, new) == IF new # loaded THEN new ELSE stored

\* The row after the ORM flushes `new`, given the copy `loaded` it started from.
flush(stored, loaded, new) ==
  [status          |-> column(stored.status, loaded.status, new.status),
   broj_pokusaja   |-> column(stored.broj_pokusaja, loaded.broj_pokusaja,
                              new.broj_pokusaja),
   sledeci_pokusaj |-> column(stored.sledeci_pokusaj, loaded.sledeci_pokusaj,
                              new.sledeci_pokusaj),
   datum_slanja    |-> column(stored.datum_slanja, loaded.datum_slanja,
                              new.datum_slanja),
   ponovnih        |-> column(stored.ponovnih, loaded.ponovnih, new.ponovnih)]

-----------------------------------------------------------------------------
(* The worker's private state *)

NoCopies == [d \in Rows |-> NoRow]
NoResend == [active |-> FALSE, at |-> 0, unread |-> {}, copy |-> [u \in User |-> NoRow]]

\* todo: claimed rows not yet handled; copy: the instances of the batch;
\* expired: a rollback has expired them, so the next access re-reads the row;
\* cur, at, dev, new: row in hand, its `now`, its token's device, its new values;
\* drop: the token deactivation to commit with the row ("user" or "hash").
PCs == {"idle", "pick", "notif", "user", "token", "session", "send", "commit"}
Worker == [pc : PCs, todo : SUBSET Rows, copy : [Rows -> Row], expired : BOOLEAN,
           cur : SUBSET Rows, at : Nat, dev : Device \cup {NoDevice},
           new : Row, drop : {"none", "user", "hash"}]

Resting(pc, todo, copy, expired) ==
  [pc |-> pc, todo |-> todo, copy |-> copy, expired |-> expired, cur |-> {},
   at |-> 0, dev |-> NoDevice, new |-> NoRow, drop |-> "none"]
Idle == Resting("idle", {}, NoCopies, FALSE)

\* The worker after it finished (or gave up) the row in hand.
Advance(expired) ==
  IF worker.todo = {} THEN Idle
  ELSE Resting("pick", worker.todo,
               [d \in Rows |-> IF d \in worker.todo THEN worker.copy[d] ELSE NoRow],
               expired)

Init ==
  /\ now = 0
  /\ notif = [n \in Notif |-> [status |-> "DRAFT", datum_isteka |-> NoTime]]
  /\ primaoci = [n \in Notif |-> {}]
  /\ procitano = [n \in Notif |-> {}]
  /\ nalog = [u \in User |-> "ok"]
  /\ sesije = [u \in User |-> {}]
  /\ token = [u \in User |-> NoDevice]
  /\ isporuke = NoCopies
  /\ resend = [n \in Notif |-> NoResend]
  /\ worker = Idle
  /\ accepted = [d \in Rows |-> 0]
  /\ confirmed = [d \in Rows |-> 0]
  /\ unconfirmed = {}
  /\ lost = [d \in Rows |-> 0]
  /\ late = [n \in Notif |-> 0]
  /\ faults = 0

-----------------------------------------------------------------------------
(* Administration: the notification row is locked FOR UPDATE by each of these, *)
(* so a resend in progress excludes the others on the same notification.      *)

\* (mutant) only those who have a phone get a row
apply_publish_to_phones(n) ==
  /\ notif[n].status = "DRAFT"
  /\ \E ciljani \in SUBSET User, istek \in Instants :
       LET user_ids == {u \in ciljani : nalog[u] # "off"} IN
       /\ user_ids # {} /\ istek > now
       /\ primaoci' = [primaoci EXCEPT ![n] = @ \cup user_ids]
       /\ isporuke' = [d \in Rows |-> IF d[1] = n /\ d[2] \in user_ids /\ token[d[2]] # NoDevice
                                       THEN add_pending(now) ELSE isporuke[d]]
       /\ notif' = [notif EXCEPT ![n] = [status |-> "PUBLISHED", datum_isteka |-> istek]]
  /\ UNCHANGED <<now, procitano, users, resend, worker, hist, faults>>

\* Resolve the targeted accounts that are active (locked ones included),
\* materialise them and their PENDING rows, stamp the expiry; one transaction.
apply_publish(n) ==
  /\ notif[n].status = "DRAFT"
  /\ \E ciljani \in SUBSET User, istek \in Instants :
       LET user_ids == {u \in ciljani : nalog[u] # "off"} IN
       /\ user_ids # {}
       /\ istek > now
       /\ primaoci' = [primaoci EXCEPT ![n] = @ \cup user_ids]
       /\ isporuke' = [d \in Rows |->
            IF d[1] = n /\ d[2] \in user_ids /\ isporuke[d].status = "NONE"
              THEN add_pending(now) ELSE isporuke[d]]
       /\ notif' = [notif EXCEPT ![n] = [status |-> "PUBLISHED", datum_isteka |-> istek]]
  /\ UNCHANGED <<now, procitano, users, resend, worker, hist, faults>>

\* PUBLISHED -> ARCHIVED; recipients and delivery rows stay.
apply_archive(n) ==
  /\ notif[n].status = "PUBLISHED"
  /\ ~resend[n].active
  /\ notif' = [notif EXCEPT ![n].status = "ARCHIVED"]
  /\ UNCHANGED <<now, primaoci, procitano, users, isporuke, resend, worker, hist, faults>>

\* Resend, first half: check the notification, read the unread recipients and
\* load their rows (without locking the rows).
resend_load(n) ==
  /\ ~resend[n].active
  /\ available(n, now)
  /\ \A d \in Rows : d[1] = n => isporuke[d].ponovnih < MaxResend
  /\ LET unread == primaoci[n] \ procitano[n] IN
     resend' = [resend EXCEPT ![n] =
       [active |-> TRUE, at |-> now, unread |-> unread,
        copy |-> [u \in User |-> IF u \in unread THEN isporuke[<<n, u>>] ELSE NoRow]]]
  /\ UNCHANGED <<now, inbox, users, isporuke, worker, hist, faults>>

\* (mutant) the resend is not counted
requeued_uncounted(row, t) ==
  [status |-> "PENDING", broj_pokusaja |-> 0, sledeci_pokusaj |-> t,
   datum_slanja |-> NoTime, ponovnih |-> row.ponovnih]

\* (mutant) the old DATUM_SLANJA survives the resend
requeued_keeps_sent(row, t) ==
  [status |-> "PENDING", broj_pokusaja |-> 0, sledeci_pokusaj |-> t,
   datum_slanja |-> row.datum_slanja, ponovnih |-> row.ponovnih + 1]

\* The clean PENDING state requeue_unread gives a loaded row, or a new row.
requeued(row, t) ==
  [status |-> "PENDING", broj_pokusaja |-> 0, sledeci_pokusaj |-> t,
   datum_slanja |-> NoTime, ponovnih |-> row.ponovnih + 1]

\* Resend, second half: flush the changed columns of every unread recipient's
\* row and commit.
resend_commit(n) ==
  /\ resend[n].active
  /\ isporuke' = [d \in Rows |->
       IF d[1] = n /\ d[2] \in resend[n].unread
         THEN LET loaded == resend[n].copy[d[2]]
              IN flush(isporuke[d], loaded, requeued(loaded, resend[n].at))
         ELSE isporuke[d]]
  /\ resend' = [resend EXCEPT ![n] = NoResend]
  /\ UNCHANGED <<now, inbox, users, worker, hist, faults>>

-----------------------------------------------------------------------------
(* Employees *)

mark_read(n, u) ==
  /\ available(n, now) /\ u \in primaoci[n] /\ u \notin procitano[n]
  /\ procitano' = [procitano EXCEPT ![n] = @ \cup {u}]
  /\ UNCHANGED <<now, notif, primaoci, users, isporuke, resend, worker, hist, faults>>

mark_unread(n, u) ==
  /\ available(n, now) /\ u \in procitano[n]
  /\ procitano' = [procitano EXCEPT ![n] = @ \ {u}]
  /\ UNCHANGED <<now, notif, primaoci, users, isporuke, resend, worker, hist, faults>>

\* A login ends every other session of the user and deactivates its tokens.
login(u, dev) ==
  /\ nalog[u] = "ok"
  /\ sesije' = [sesije EXCEPT ![u] = {dev}]
  /\ token' = [token EXCEPT ![u] = NoDevice]
  /\ UNCHANGED <<now, inbox, nalog, isporuke, resend, worker, hist, faults>>

\* A logout ends the session and deactivates the token of the same device.
logout(u, dev) ==
  /\ dev \in sesije[u]
  /\ sesije' = [sesije EXCEPT ![u] = @ \ {dev}]
  /\ token' = [token EXCEPT ![u] = IF @ = dev THEN NoDevice ELSE @]
  /\ UNCHANGED <<now, inbox, nalog, isporuke, resend, worker, hist, faults>>

\* PUT /push/token: the device's token becomes the user's only active one and
\* is deactivated for every other user.
upsert(u, dev) ==
  /\ nalog[u] = "ok" /\ dev \in sesije[u] /\ token[u] # dev
  /\ token' = [v \in User |-> IF v = u THEN dev
                              ELSE IF token[v] = dev THEN NoDevice ELSE token[v]]
  /\ UNCHANGED <<now, inbox, nalog, sesije, isporuke, resend, worker, hist, faults>>

\* DATUM_ISTEKA of a session passes; its token stays active.
session_expires(u, dev) ==
  /\ dev \in sesije[u]
  /\ sesije' = [sesije EXCEPT ![u] = @ \ {dev}]
  /\ UNCHANGED <<now, inbox, nalog, token, isporuke, resend, worker, hist, faults>>

\* HR synchronisation, administration or failed logins change the account;
\* sessions and tokens are left alone until the next request.
account_changes(u) ==
  /\ \E a \in Accounts \ {nalog[u]} : nalog' = [nalog EXCEPT ![u] = a]
  /\ UNCHANGED <<now, inbox, sesije, token, isporuke, resend, worker, hist, faults>>

Tick ==
  /\ \E t \in Instants : t > now /\ now' = t
  /\ UNCHANGED <<inbox, users, isporuke, resend, worker, hist, faults>>

-----------------------------------------------------------------------------
(* The push worker: one process, one batch at a time, one commit per row *)

\* (mutant) the claim forgets the status, or also retries failed rows
due_any_status(d) == isporuke[d].status # "NONE" /\ isporuke[d].sledeci_pokusaj <= now
due_or_failed(d) == /\ isporuke[d].status \in {"PENDING", "FAILED"}
                    /\ isporuke[d].sledeci_pokusaj <= now

\* PENDING and its next attempt is NULL or not in the future.
due(d) == isporuke[d].status = "PENDING" /\ isporuke[d].sledeci_pokusaj <= now

\* The first BatchSize due rows, the longest due first.
claim_ready_batch ==
  LET ready == {d \in Rows : due(d)}
      size  == IF Cardinality(ready) < BatchSize THEN Cardinality(ready) ELSE BatchSize
  IN
  /\ worker.pc = "idle" /\ ready # {}
  /\ \E batch \in SUBSET ready :
       /\ Cardinality(batch) = size
       /\ \A d \in batch, e \in ready \ batch :
            isporuke[d].sledeci_pokusaj <= isporuke[e].sledeci_pokusaj
       /\ worker' = Resting("pick", batch,
            [d \in Rows |-> IF d \in batch THEN isporuke[d] ELSE NoRow], FALSE)
  /\ UNCHANGED <<now, inbox, users, isporuke, resend, hist, faults>>

\* Take the next row of the batch; the copy is the one loaded by the claim
\* unless a rollback has expired it.
process_next ==
  /\ worker.pc = "pick"
  /\ \E d \in worker.todo :
       /\ \A e \in worker.todo :
            worker.copy[d].sledeci_pokusaj <= worker.copy[e].sledeci_pokusaj
       /\ LET red == IF worker.expired THEN isporuke[d] ELSE worker.copy[d] IN
          worker' = [worker EXCEPT !.pc = "notif", !.todo = @ \ {d}, !.cur = {d},
                                   !.copy = [@ EXCEPT ![d] = red], !.new = red,
                                   !.at = now]
  /\ UNCHANGED <<now, inbox, users, isporuke, resend, hist, faults>>

\* _skip: the row will be SKIPPED.
skip(d) == worker' = [worker EXCEPT !.pc = "commit",
             !.new = [@ EXCEPT !.status = "SKIPPED", !.sledeci_pokusaj = NoTime]]

\* (mutant) the next attempt is not moved
postpone_nowhere(d, dropped) ==
  worker' = [worker EXCEPT !.pc = "commit", !.drop = dropped]

\* Leave the row PENDING for a later attempt that costs no attempt.
postpone(d, dropped) == worker' = [worker EXCEPT !.pc = "commit", !.drop = dropped,
  !.new = [@ EXCEPT !.status = "PENDING",
                    !.sledeci_pokusaj = worker.at + NO_TOKEN_BACKOFF_MIN]]

goto(step) == worker' = [worker EXCEPT !.pc = step]

\* (mutant) the claim's own look at the notification is trusted
check_notification_trusting(d) ==
  /\ worker.pc = "notif" /\ d \in worker.cur
  /\ goto("user")
  /\ UNCHANGED <<now, inbox, users, isporuke, resend, hist, faults>>

\* 1) The notification must be available.
check_notification(d) ==
  /\ worker.pc = "notif" /\ d \in worker.cur
  /\ IF available(d[1], worker.at) THEN goto("user") ELSE skip(d)
  /\ UNCHANGED <<now, inbox, users, isporuke, resend, hist, faults>>

\* 2) The user must be active, unlocked and still a recipient.
check_user(d) ==
  /\ worker.pc = "user" /\ d \in worker.cur
  /\ IF nalog[d[2]] = "ok" /\ d[2] \in primaoci[d[1]] THEN goto("token") ELSE skip(d)
  /\ UNCHANGED <<now, inbox, users, isporuke, resend, hist, faults>>

\* 3) The user must have an active token.
get_active_token(d) ==
  /\ worker.pc = "token" /\ d \in worker.cur
  /\ IF token[d[2]] = NoDevice THEN postpone(d, "none")
     ELSE worker' = [worker EXCEPT !.pc = "session", !.dev = token[d[2]]]
  /\ UNCHANGED <<now, inbox, users, isporuke, resend, hist, faults>>

\* 3b) The token's device must have an active session; otherwise the token is
\* deactivated with the row's commit.
check_session(d) ==
  /\ worker.pc = "session" /\ d \in worker.cur
  /\ IF worker.dev \in sesije[d[2]] THEN goto("send") ELSE postpone(d, "user")
  /\ UNCHANGED <<now, inbox, users, isporuke, resend, hist, faults>>

\* FCM accepts the message.
accepts(d) ==
  /\ accepted' = [accepted EXCEPT ![d] = @ + 1]
  /\ late' = [late EXCEPT ![d[1]] = IF notif[d[1]].status = "ARCHIVED" THEN @ + 1 ELSE @]

\* 4) FCM accepts the message and says so.
send_ok(d) ==
  /\ worker.pc = "send" /\ d \in worker.cur
  /\ worker' = [worker EXCEPT !.pc = "commit", !.new =
       [@ EXCEPT !.status = "SENT", !.datum_slanja = worker.at,
                 !.broj_pokusaja = worker.copy[d].broj_pokusaja + 1]]
  /\ accepts(d)
  /\ confirmed' = [confirmed EXCEPT ![d] = @ + 1]
  /\ UNCHANGED <<now, inbox, users, isporuke, resend, unconfirmed, lost, faults>>

\* FCM reports the token unusable: no attempt is consumed.
send_invalid_token(d) ==
  /\ worker.pc = "send" /\ d \in worker.cur
  /\ postpone(d, "hash")
  /\ UNCHANGED <<now, inbox, users, isporuke, resend, hist, faults>>

\* (mutant) one attempt too many
last_attempt_off_by_one(pokusaji) == pokusaji > MaxAttempts

last_attempt(pokusaji) == pokusaji >= MaxAttempts

\* Any other answer consumes an attempt, the last one fails the row.  A time-out or a lost
\* response is such an answer: FCM may have accepted the message all the same.
send_error(d) ==
  /\ worker.pc = "send" /\ d \in worker.cur
  /\ LET pokusaji == worker.copy[d].broj_pokusaja + 1 IN
     worker' = [worker EXCEPT !.pc = "commit", !.new =
       IF last_attempt(pokusaji)
         THEN [@ EXCEPT !.status = "FAILED", !.broj_pokusaja = pokusaji,
                        !.sledeci_pokusaj = NoTime]
         ELSE [@ EXCEPT !.status = "PENDING", !.broj_pokusaja = pokusaji,
                        !.sledeci_pokusaj = worker.at + retry_backoff(pokusaji)]]
  /\ \/ accepted[d] - confirmed[d] < MaxUnanswered /\ accepts(d) /\ unconfirmed' = {d}
     \/ UNCHANGED <<accepted, late, unconfirmed>>
  /\ UNCHANGED <<now, inbox, users, isporuke, resend, confirmed, lost, faults>>

\* Deactivate the token in hand: of this user's device, or wherever the hash is active.
deactivated(d, drop) ==
  [u \in User |-> IF token[u] = worker.dev /\ (drop = "hash" \/ u = d[2])
                    THEN NoDevice ELSE token[u]]

\* Flush the changed columns and commit, together with the token deactivation.
commit_row(d) ==
  /\ worker.pc = "commit" /\ d \in worker.cur
  /\ isporuke' = [isporuke EXCEPT ![d] = flush(@, worker.copy[d], worker.new)]
  /\ token' = IF worker.drop = "none" THEN token ELSE deactivated(d, worker.drop)
  /\ worker' = Advance(worker.expired)
  /\ unconfirmed' = {}
  /\ UNCHANGED <<now, inbox, nalog, sesije, resend, counts, faults>>

\* The answer that FCM accepted the row in hand is not recorded in the database.
unrecorded(d) == IF worker.pc = "commit" /\ d \in worker.cur /\ worker.new.status = "SENT"
                   THEN 1 ELSE 0

\* Nor is that it accepted the row without the worker's knowing.
outstanding(d) == IF unrecorded(d) = 1 \/ d \in unconfirmed THEN 1 ELSE 0

\* An exception in the row's checks, call or commit: rollback, next row.
rollback_row(d) ==
  /\ d \in worker.cur /\ faults < MaxFault
  /\ lost' = [lost EXCEPT ![d] = @ + outstanding(d)]
  /\ worker' = Advance(TRUE)
  /\ unconfirmed' = {}
  /\ faults' = faults + 1
  /\ UNCHANGED <<now, inbox, users, isporuke, resend, accepted, confirmed, late>>

\* The worker process dies and is started again.
crash ==
  /\ worker.pc # "idle" /\ faults < MaxFault
  /\ lost' = [d \in Rows |-> lost[d] + outstanding(d)]
  /\ worker' = Idle
  /\ unconfirmed' = {}
  /\ faults' = faults + 1
  /\ UNCHANGED <<now, inbox, users, isporuke, resend, accepted, confirmed, late>>

process_one(d) ==
  \/ check_notification(d)
  \/ check_user(d)
  \/ get_active_token(d)
  \/ check_session(d)
  \/ send_ok(d)
  \/ send_invalid_token(d)
  \/ send_error(d)
  \/ commit_row(d)

process_batch == claim_ready_batch \/ process_next \/ \E d \in Rows : process_one(d)

Administration == \E n \in Notif :
  apply_publish(n) \/ apply_archive(n) \/ resend_load(n) \/ resend_commit(n)

Employees ==
  \/ \E n \in Notif, u \in User : mark_read(n, u) \/ mark_unread(n, u)
  \/ \E u \in User, dev \in Device :
       login(u, dev) \/ logout(u, dev) \/ upsert(u, dev) \/ session_expires(u, dev)
  \/ \E u \in User : account_changes(u)

Failures == crash \/ \E d \in Rows : rollback_row(d)

Next == Administration \/ Employees \/ process_batch \/ Failures \/ Tick

Spec == Init /\ [][Next]_vars

\* The scheduler keeps calling process_batch and a call runs to its end; a
\* resend request that has begun is committed.
Fairness ==
  /\ WF_vars(process_batch)
  /\ \A n \in Notif : WF_vars(resend_commit(n))

FairSpec == Spec /\ Fairness

-----------------------------------------------------------------------------
(* Properties *)

\* Every variable has its type.
TypeOK ==
  /\ now \in Nat
  /\ notif \in [Notif -> [status : {"DRAFT", "PUBLISHED", "ARCHIVED"}, datum_isteka : Times]]
  /\ primaoci \in [Notif -> SUBSET User]
  /\ procitano \in [Notif -> SUBSET User]
  /\ nalog \in [User -> Accounts]
  /\ sesije \in [User -> SUBSET Device]
  /\ token \in [User -> Device \cup {NoDevice}]
  /\ isporuke \in [Rows -> Row]
  /\ resend \in [Notif -> [active : BOOLEAN, at : Nat, unread : SUBSET User,
                           copy : [User -> Row]]]
  /\ worker \in Worker
  /\ accepted \in [Rows -> Nat] /\ confirmed \in [Rows -> Nat]
  /\ unconfirmed \subseteq Rows
  /\ lost \in [Rows -> Nat]
  /\ late \in [Notif -> Nat]
  /\ faults \in Nat

\* At-least-once delivery is bounded: a row is opened by its publication and by every
\* committed resend.  The worker is told of one acceptance per opening, and FCM accepts no
\* more messages per opening than there are attempts, those included that were answered with
\* an error; either bound grows by one for an acceptance whose commit was lost.  No
\* interleaving of the worker's stale copies with resends sends a message more often.
openings(d) == (IF isporuke[d].status = "NONE" THEN 0 ELSE 1) + isporuke[d].ponovnih
AcceptancesAccountedFor == \A d \in Rows :
  /\ confirmed[d] <= openings(d) + lost[d]
  /\ accepted[d] <= MaxAttempts * openings(d) + lost[d]

\* A PENDING row can always be claimed again and still has an attempt left, so
\* no row is stranded PENDING, whatever the worker and a resend overwrite.
PendingIsClaimable == \A d \in Rows :
  isporuke[d].status = "PENDING" =>
    isporuke[d].broj_pokusaja < MaxAttempts /\ isporuke[d].sledeci_pokusaj # NoTime

\* Archiving stops the push even of rows that were claimed before it: at most
\* the one message already past its checks still goes out.
ArchiveStopsPushing == \A n \in Notif : late[n] <= 1

\* The outbox has a row for exactly the recipients of the notification.
OutboxMatchesRecipients == \A d \in Rows :
  isporuke[d].status # "NONE" <=> d[2] \in primaoci[d[1]]

\* A row leaves SENT, FAILED or SKIPPED only because a resend requeues it, and
\* then nothing of the previous round is left in it.
TerminalUntilResend == [][\A d \in Rows :
  isporuke[d].status \in {"SENT", "FAILED", "SKIPPED"}
    /\ isporuke'[d].status # isporuke[d].status =>
      /\ isporuke'[d].status = "PENDING"
      /\ isporuke'[d].broj_pokusaja = 0
      /\ isporuke'[d].datum_slanja = NoTime
      /\ isporuke'[d].ponovnih = isporuke[d].ponovnih + 1]_vars

\* The worker never leaves a due row behind: it is handled, or overtaken by a
\* commit that makes it wait or closes it.
DueRowsAreHandled == \A d \in Rows : due(d) ~> ~due(d)

\* The promise kept: the outbox implements DeliveryLedger.  A row is open while
\* PENDING; its acceptance, confirmed or not, is in flight until the worker's commit.
message_state(status) ==
  CASE status = "NONE" -> "none" [] status = "PENDING" -> "open"
    [] status = "SENT" -> "delivered" [] OTHER -> "abandoned"

flight(d) == IF unrecorded(d) = 1 THEN "confirmed"
             ELSE IF d \in unconfirmed THEN "unconfirmed" ELSE "no"

Ledger == INSTANCE DeliveryLedger WITH
  Message  <- Rows,
  stanje   <- [d \in Rows |-> message_state(isporuke[d].status)],
  inflight <- [d \in Rows |-> flight(d)]

\* Every step of the outbox is a step of the ledger or leaves it unchanged.
ImplementsLedger == Ledger!Spec

Register == INSTANCE NotificationRegister WITH
  Obavestenje <- Notif, Korisnik <- User, Sadrzaj <- Instants, None <- NoTime,
  stanje    <- [n \in Notif |-> notif[n].status],
  sadrzaj   <- [n \in Notif |-> notif[n].datum_isteka],
  primalac  <- primaoci,
  procitali <- procitano

\* What delivery takes a notification to be is what Notifications shows of one: publishing,
\* archiving and marking, single steps here, implement the same NotificationRegister.
ImplementsRegister == Register!Spec

-----------------------------------------------------------------------------
(* Why it works: the inductive invariant behind the properties above *)

\* The worker has a row in hand exactly between taking it and its commit.
WorkerShape ==
  /\ worker.pc \in {"idle", "pick"} <=> worker.cur = {}
  /\ \A d, e \in worker.cur : d = e
  /\ worker.cur \cap worker.todo = {}
  /\ worker.pc # "commit" => \A d \in worker.cur : worker.new = worker.copy[d]

\* Only the worker takes a row out of PENDING, so a claimed row still is; and it
\* never writes the absence of a row.
ClaimedStaysPending ==
  /\ \A d \in worker.todo \cup worker.cur :
       isporuke[d].status = "PENDING" /\ worker.copy[d].status = "PENDING"
  /\ \A d \in worker.cur : worker.new.status # "NONE"

\* A recipient without a row carries no trace of one.
AbsentRowsAreBlank == \A d \in Rows : isporuke[d].status = "NONE" => isporuke[d] = NoRow

\* Nobody but the resend itself, which the notification's lock makes exclusive,
\* counts resends; a row it has loaded still exists.
ResendCountCurrent ==
  /\ \A d \in worker.cur : worker.new.ponovnih = worker.copy[d].ponovnih
  /\ \A n \in Notif : resend[n].active =>
       /\ notif[n].status = "PUBLISHED"
       /\ \A u \in resend[n].unread :
            /\ resend[n].copy[u].ponovnih = isporuke[<<n, u>>].ponovnih
            /\ resend[n].copy[u].status # "NONE" => isporuke[<<n, u>>].status # "NONE"

\* An acceptance the worker has not been told of is that of the row in hand, whose attempt
\* the commit will count.
UnconfirmedInHand == \A d \in unconfirmed :
  /\ worker.pc = "commit" /\ d \in worker.cur
  /\ worker.new.status \in {"PENDING", "FAILED"}
  /\ worker.new.broj_pokusaja = worker.copy[d].broj_pokusaja + 1

\* A row with an attempt left and a time for it.
Retriable(row) == row.broj_pokusaja < MaxAttempts /\ row.sledeci_pokusaj # NoTime

\* What the worker holds of open rows, and what it is about to leave open, can
\* be claimed again.
HeldRowsRetriable ==
  /\ \A d \in worker.todo \cup worker.cur : Retriable(worker.copy[d])
  /\ worker.pc = "commit" /\ worker.new.status = "PENDING" => Retriable(worker.new)

\* A closed row that a resend has loaded has not changed since: only the resend
\* itself, alone under the notification's lock, may open it.
ClosedCopyIsCurrent == \A n \in Notif : resend[n].active =>
  \A u \in resend[n].unread : resend[n].copy[u].status # "PENDING" =>
    isporuke[<<n, u>>] = resend[n].copy[u]

Openness == PendingIsClaimable /\ HeldRowsRetriable /\ ClosedCopyIsCurrent

\* A row never counts more attempts than the worker's copy of it (a resend may have reset
\* it), nor the copy more than what will be written: an attempt, once made, is counted.
AttemptsCounted ==
  /\ \A d \in worker.todo \cup worker.cur :
       isporuke[d].broj_pokusaja <= worker.copy[d].broj_pokusaja
  /\ \A d \in worker.cur : worker.new.broj_pokusaja >= worker.copy[d].broj_pokusaja

\* An open row that is not in flight has one confirmed acceptance to its credit ...
credit(d) == IF isporuke[d].status = "PENDING" /\ unrecorded(d) = 0 THEN 1 ELSE 0
ConfirmedCredit == \A d \in Rows : confirmed[d] + credit(d) <= openings(d) + lost[d]

\* ... and as many acceptances of either kind as it has attempts left.
attempts(d) == IF isporuke[d].status = "PENDING"
                 THEN MaxAttempts - isporuke[d].broj_pokusaja - outstanding(d) ELSE 0
AttemptCredit == \A d \in Rows :
  accepted[d] + attempts(d) <= MaxAttempts * openings(d) + lost[d]

\* Recipients and rows agree, also for the recipients a resend has loaded.
RecipientsHaveRows ==
  /\ OutboxMatchesRecipients
  /\ \A n \in Notif : resend[n].active =>
       \A u \in resend[n].unread : u \in primaoci[n] /\ resend[n].copy[u].status # "NONE"

IInv == TypeOK /\ WorkerShape /\ ClaimedStaysPending /\ AbsentRowsAreBlank
          /\ ResendCountCurrent /\ RecipientsHaveRows /\ Openness /\ UnconfirmedInHand
          /\ AttemptsCounted /\ ConfirmedCredit /\ AttemptCredit
=============================================================================
