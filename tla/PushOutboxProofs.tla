-------------------------- MODULE PushOutboxProofs --------------------------
(***************************************************************************)
(* Proofs about PushOutbox, for every set of notifications, users and      *)
(* phones and every value of the limits: the types; the inductive          *)
(* invariants IInv and LateOnce with the safety and action properties      *)
(* they imply; and that the outbox implements DeliveryLedger               *)
(* and, for what delivery knows of a notification, NotificationRegister.   *)
(***************************************************************************)
EXTENDS PushOutbox, TLAPS

-----------------------------------------------------------------------------
(* Types *)

\* The records the operators below build have the type of a row.
LEMMA RowTypes ==
  /\ NoRow \in Row
  /\ \A t \in Nat : add_pending(t) \in Row
  /\ \A r \in Row, t \in Nat : requeued(r, t) \in Row
  /\ \A s, l, n \in Row : flush(s, l, n) \in Row
<1>1. NoRow \in Row
  BY DEF Row, NoRow, Times, NoTime
<1>2. \A t \in Nat : add_pending(t) \in Row
  BY DEF Row, NoRow, add_pending, Statuses, Times, NoTime
<1>3. \A r \in Row, t \in Nat : requeued(r, t) \in Row
  BY DEF Row, requeued, Statuses, Times, NoTime
<1>4. ASSUME NEW s \in Row, NEW l \in Row, NEW n \in Row
      PROVE  flush(s, l, n) \in Row
  BY DEF Row, flush, column
<1> QED BY <1>1, <1>2, <1>3, <1>4

\* Every retry is at least a minute away.
LEMMA BackoffType == \A k \in Nat : retry_backoff(k) \in Nat \ {0}
BY DEF retry_backoff, MAX_BACKOFF_MIN

\* A worker between two rows has the type of a worker.
LEMMA RestingType ==
  ASSUME NEW pc \in PCs, NEW todo \in SUBSET Rows, NEW copy \in [Rows -> Row],
         NEW expired \in BOOLEAN
  PROVE  Resting(pc, todo, copy, expired) \in Worker
BY RowTypes DEF Resting, Worker

LEMMA IdleType == Idle \in Worker /\ NoCopies \in [Rows -> Row]
BY RestingType, RowTypes DEF Idle, NoCopies, PCs

LEMMA AdvanceType ==
  ASSUME worker \in Worker, NEW expired \in BOOLEAN
  PROVE  Advance(expired) \in Worker
<1>1. CASE worker.todo = {}
  BY <1>1, IdleType DEF Advance
<1>2. CASE worker.todo # {}
  <2> DEFINE kept == [d \in Rows |-> IF d \in worker.todo THEN worker.copy[d] ELSE NoRow]
  <2>1. kept \in [Rows -> Row]
    BY RowTypes DEF Worker
  <2>2. worker.todo \in SUBSET Rows /\ "pick" \in PCs
    BY DEF Worker, PCs
  <2>3. Resting("pick", worker.todo, kept, expired) \in Worker
    BY <2>1, <2>2, RestingType
  <2> QED BY <1>2, <2>3 DEF Advance
<1> QED BY <1>1, <1>2

-----------------------------------------------------------------------------
(* Type correctness *)

LEMMA InitTypeOK == Init => TypeOK
<1> SUFFICES ASSUME Init PROVE TypeOK
  OBVIOUS
<1>1. isporuke \in [Rows -> Row] /\ worker \in Worker
  BY IdleType DEF Init
<1>2. resend \in [Notif -> [active : BOOLEAN, at : Nat, unread : SUBSET User,
                           copy : [User -> Row]]]
  BY RowTypes DEF Init, NoResend
<1> QED BY <1>1, <1>2, ConstantsAssumption DEF Init, TypeOK, Times, NoTime

\* Administration keeps the types.
LEMMA AdministrationTypeOK ==
  ASSUME TypeOK, Administration PROVE TypeOK'
<1> USE DEF TypeOK
<1>1. PICK n \in Notif : apply_publish(n) \/ apply_archive(n) \/ resend_load(n) \/ resend_commit(n)
  BY DEF Administration
<1>2. CASE apply_publish(n)
  <2>1. PICK ciljani \in SUBSET User, istek \in Instants :
          LET user_ids == {u \in ciljani : nalog[u] # "off"} IN
          /\ primaoci' = [primaoci EXCEPT ![n] = @ \cup user_ids]
          /\ isporuke' = [d \in Rows |->
               IF d[1] = n /\ d[2] \in user_ids /\ isporuke[d].status = "NONE"
                 THEN add_pending(now) ELSE isporuke[d]]
          /\ notif' = [notif EXCEPT ![n] = [status |-> "PUBLISHED", datum_isteka |-> istek]]
    BY <1>2 DEF apply_publish
  <2>2. isporuke' \in [Rows -> Row]
    BY <2>1, RowTypes
  <2>3. notif' \in [Notif -> [status : {"DRAFT", "PUBLISHED", "ARCHIVED"}, datum_isteka : Times]]
    BY <2>1, ConstantsAssumption DEF Times
  <2>4. primaoci' \in [Notif -> SUBSET User]
    BY <2>1
  <2> QED BY <1>2, <2>2, <2>3, <2>4 DEF apply_publish, users, hist, counts
<1>3. CASE apply_archive(n)
  BY <1>3 DEF apply_archive, users, hist, counts
<1>4. CASE resend_load(n)
  <2> DEFINE unread == primaoci[n] \ procitano[n]
             copy == [u \in User |-> IF u \in unread THEN isporuke[<<n, u>>] ELSE NoRow]
  <2>1. copy \in [User -> Row] /\ unread \in SUBSET User
    BY RowTypes DEF Rows
  <2>2. resend' = [resend EXCEPT ![n] =
                     [active |-> TRUE, at |-> now, unread |-> unread, copy |-> copy]]
    BY <1>4 DEF resend_load
  <2>3. resend' \in [Notif -> [active : BOOLEAN, at : Nat, unread : SUBSET User,
                               copy : [User -> Row]]]
    BY <2>1, <2>2
  <2> QED BY <1>4, <2>3 DEF resend_load, inbox, users, hist, counts
<1>5. CASE resend_commit(n)
  <2>1. \A d \in Rows : d[1] = n /\ d[2] \in resend[n].unread =>
          flush(isporuke[d], resend[n].copy[d[2]],
                requeued(resend[n].copy[d[2]], resend[n].at)) \in Row
    BY RowTypes DEF Rows
  <2>2. isporuke' \in [Rows -> Row]
    BY <1>5, <2>1 DEF resend_commit
  <2>3. NoResend \in [active : BOOLEAN, at : Nat, unread : SUBSET User, copy : [User -> Row]]
    BY RowTypes DEF NoResend
  <2>4. resend' \in [Notif -> [active : BOOLEAN, at : Nat, unread : SUBSET User,
                               copy : [User -> Row]]]
    BY <1>5, <2>3 DEF resend_commit
  <2> QED BY <1>5, <2>2, <2>4 DEF resend_commit, inbox, users, hist, counts
<1> QED BY <1>1, <1>2, <1>3, <1>4, <1>5

\* What employees and the clock do keeps the types.
LEMMA EmployeesTypeOK ==
  ASSUME TypeOK, Employees \/ Tick PROVE TypeOK'
<1> USE DEF TypeOK, inbox, users, hist, counts
<1>1. ASSUME NEW n \in Notif, NEW u \in User, mark_read(n, u) \/ mark_unread(n, u)
      PROVE  TypeOK'
  <2>1. CASE mark_read(n, u)
    BY <2>1 DEF mark_read
  <2>2. CASE mark_unread(n, u)
    BY <2>2 DEF mark_unread
  <2> QED BY <1>1, <2>1, <2>2
<1>2. ASSUME NEW u \in User, NEW dev \in Device,
             login(u, dev) \/ logout(u, dev) \/ upsert(u, dev) \/ session_expires(u, dev)
      PROVE  TypeOK'
  <2>1. CASE login(u, dev)
    BY <2>1 DEF login
  <2>2. CASE logout(u, dev)
    BY <2>2 DEF logout
  <2>3. CASE upsert(u, dev)
    BY <2>3 DEF upsert
  <2>4. CASE session_expires(u, dev)
    BY <2>4 DEF session_expires
  <2> QED BY <1>2, <2>1, <2>2, <2>3, <2>4
<1>3. ASSUME NEW u \in User, account_changes(u) PROVE TypeOK'
  BY <1>3 DEF account_changes
<1>4. CASE Tick
  BY <1>4, ConstantsAssumption DEF Tick
<1> QED BY <1>1, <1>2, <1>3, <1>4 DEF Employees

\* The worker's steps keep the types.
LEMMA WorkerTypeOK ==
  ASSUME TypeOK, process_batch \/ Failures PROVE TypeOK'
<1> USE DEF TypeOK, inbox, users, hist, counts
<1>1. CASE claim_ready_batch
  <2>1. PICK batch \in SUBSET {d \in Rows : due(d)} : worker' = Resting("pick", batch,
            [d \in Rows |-> IF d \in batch THEN isporuke[d] ELSE NoRow], FALSE)
    BY <1>1 DEF claim_ready_batch
  <2>2. [d \in Rows |-> IF d \in batch THEN isporuke[d] ELSE NoRow] \in [Rows -> Row]
    BY RowTypes
  <2>3. worker' \in Worker
    BY <2>1, <2>2, RestingType DEF PCs
  <2> QED BY <1>1, <2>3 DEF claim_ready_batch
<1>2. CASE process_next
  <2>1. worker' \in Worker
    <3>1. PICK d \in worker.todo :
            LET red == IF worker.expired THEN isporuke[d] ELSE worker.copy[d] IN
            worker' = [worker EXCEPT !.pc = "notif", !.todo = @ \ {d}, !.cur = {d},
                                     !.copy = [@ EXCEPT ![d] = red], !.new = red,
                                     !.at = now]
      BY <1>2 DEF process_next
    <3> DEFINE red == IF worker.expired THEN isporuke[d] ELSE worker.copy[d]
    <3>2. d \in Rows /\ red \in Row
      BY DEF Worker
    <3> HIDE DEF red
    <3>3. worker' = [worker EXCEPT !.pc = "notif", !.todo = @ \ {d}, !.cur = {d},
                                   !.copy = [@ EXCEPT ![d] = red], !.new = red,
                                   !.at = now]
      BY <3>1 DEF red
    <3> QED BY <3>2, <3>3 DEF Worker, PCs
  <2> QED BY <1>2, <2>1 DEF process_next
<1>3. ASSUME NEW d \in Rows, process_one(d) PROVE TypeOK'
  <2>1. ASSUME worker' = [worker EXCEPT !.pc = "commit",
                 !.new = [@ EXCEPT !.status = "SKIPPED", !.sledeci_pokusaj = NoTime]]
        PROVE  worker' \in Worker
    BY <2>1 DEF Worker, PCs, Row, Statuses, Times, NoTime
  <2>2. ASSUME NEW dropped \in {"none", "user", "hash"}, postpone(d, dropped)
        PROVE  worker' \in Worker
    <3> DEFINE new == [worker.new EXCEPT !.status = "PENDING",
                         !.sledeci_pokusaj = worker.at + NO_TOKEN_BACKOFF_MIN]
    <3>1. new \in Row
      <4>1. worker.new \in Row /\ worker.at + NO_TOKEN_BACKOFF_MIN \in Times
        BY DEF Worker, Times, NO_TOKEN_BACKOFF_MIN
      <4> QED BY <4>1 DEF Row, Statuses
    <3> HIDE DEF new
    <3>2. worker' = [worker EXCEPT !.pc = "commit", !.drop = dropped, !.new = new]
      BY <2>2 DEF postpone, new
    <3> QED BY <3>1, <3>2 DEF Worker, PCs
  <2>3. ASSUME NEW step \in PCs, goto(step) PROVE worker' \in Worker
    BY <2>3 DEF goto, Worker
  <2>4. CASE check_notification(d)
    BY <2>1, <2>3, <2>4 DEF check_notification, skip, PCs
  <2>5. CASE check_user(d)
    BY <2>1, <2>3, <2>5 DEF check_user, skip, PCs
  <2>6. CASE get_active_token(d)
    <3>1. worker' \in Worker
      <4>1. CASE token[d[2]] = NoDevice
        BY <2>2, <2>6, <4>1 DEF get_active_token
      <4>2. CASE token[d[2]] # NoDevice
        <5>1. worker' = [worker EXCEPT !.pc = "session", !.dev = token[d[2]]]
          BY <2>6, <4>2 DEF get_active_token
        <5>2. token[d[2]] \in Device \cup {NoDevice}
          BY DEF Rows
        <5> QED BY <5>1, <5>2 DEF Worker, PCs
      <4> QED BY <4>1, <4>2
    <3> QED BY <2>6, <3>1 DEF get_active_token
  <2>7. CASE check_session(d)
    BY <2>2, <2>3, <2>7 DEF check_session, PCs
  <2>8. CASE send_ok(d)
    <3>1. worker' \in Worker
      <4> DEFINE new == [worker.new EXCEPT !.status = "SENT", !.datum_slanja = worker.at,
                           !.broj_pokusaja = worker.copy[d].broj_pokusaja + 1]
      <4>1. new \in Row
        <5>1. worker.new \in Row /\ worker.at \in Times
                /\ worker.copy[d].broj_pokusaja + 1 \in Nat
          BY DEF Worker, Times, Row
        <5> QED BY <5>1 DEF Row, Statuses
      <4> HIDE DEF new
      <4>2. worker' = [worker EXCEPT !.pc = "commit", !.new = new]
        BY <2>8 DEF send_ok, new
      <4> QED BY <4>1, <4>2 DEF Worker, PCs
    <3> QED BY <2>8, <3>1 DEF send_ok, accepts, Rows
  <2>9. CASE send_invalid_token(d)
    BY <2>2, <2>9 DEF send_invalid_token
  <2>10. CASE send_error(d)
    <3> DEFINE pokusaji == worker.copy[d].broj_pokusaja + 1
    <3>1. pokusaji \in Nat /\ worker.at + retry_backoff(pokusaji) \in Times
      BY BackoffType DEF Worker, Row, Times
    <3> HIDE DEF pokusaji
    <3>2. worker' = [worker EXCEPT !.pc = "commit", !.new =
             IF last_attempt(pokusaji)
               THEN [@ EXCEPT !.status = "FAILED", !.broj_pokusaja = pokusaji,
                              !.sledeci_pokusaj = NoTime]
               ELSE [@ EXCEPT !.status = "PENDING", !.broj_pokusaja = pokusaji,
                              !.sledeci_pokusaj = worker.at + retry_backoff(pokusaji)]]
      BY <2>10 DEF send_error, pokusaji
    <3>3. worker'.new \in Row /\ worker' = [worker EXCEPT !.pc = "commit", !.new = worker'.new]
      <4>1. worker.new \in Row BY DEF Worker
      <4>2. [worker.new EXCEPT !.status = "FAILED", !.broj_pokusaja = pokusaji, !.sledeci_pokusaj = NoTime] \in Row
        BY <3>1, <4>1 DEF Row, Statuses, Times
      <4>3. [worker.new EXCEPT !.status = "PENDING", !.broj_pokusaja = pokusaji,
                               !.sledeci_pokusaj = worker.at + retry_backoff(pokusaji)] \in Row
        BY <3>1, <4>1 DEF Row, Statuses
      <4> PICK row : row = IF last_attempt(pokusaji)
             THEN [worker.new EXCEPT !.status = "FAILED", !.broj_pokusaja = pokusaji, !.sledeci_pokusaj = NoTime]
             ELSE [worker.new EXCEPT !.status = "PENDING", !.broj_pokusaja = pokusaji,
                                     !.sledeci_pokusaj = worker.at + retry_backoff(pokusaji)]
        OBVIOUS
      <4>4. row \in Row BY <4>2, <4>3
      <4>5. worker' = [worker EXCEPT !.pc = "commit", !.new = row] BY <3>2
      <4>6. worker'.new = row BY <4>5 DEF Worker
      <4> QED BY <4>4, <4>5, <4>6
    <3>4. worker' \in Worker
      BY <3>3 DEF Worker, PCs
    <3>5. accepted' \in [Rows -> Nat] /\ late' \in [Notif -> Nat] /\ unconfirmed' \subseteq Rows
      <4>1. CASE UNCHANGED <<accepted, late, unconfirmed>>
        BY <4>1
      <4>2. CASE accepts(d) /\ unconfirmed' = {d}
        BY <4>2 DEF accepts, Rows
      <4> QED BY <2>10, <4>1, <4>2 DEF send_error
    <3> QED BY <2>10, <3>4, <3>5 DEF send_error
  <2>11. CASE commit_row(d)
    <3>1. flush(isporuke[d], worker.copy[d], worker.new) \in Row
      BY RowTypes DEF Worker
    <3>2. isporuke' \in [Rows -> Row]
      BY <2>11, <3>1 DEF commit_row
    <3>3. worker' \in Worker
      BY <2>11, AdvanceType DEF commit_row, Worker
    <3>4. token' \in [User -> Device \cup {NoDevice}]
      BY <2>11 DEF commit_row, deactivated
    <3> QED BY <2>11, <3>2, <3>3, <3>4 DEF commit_row
  <2> QED BY <1>3, <2>4, <2>5, <2>6, <2>7, <2>8, <2>9, <2>10, <2>11 DEF process_one
<1>4. ASSUME NEW d \in Rows, rollback_row(d) PROVE TypeOK'
  <2>1. worker' \in Worker
    BY <1>4, AdvanceType DEF rollback_row
  <2>2. lost' \in [Rows -> Nat] /\ faults' \in Nat
    BY <1>4 DEF rollback_row, unrecorded, outstanding
  <2> QED BY <1>4, <2>1, <2>2 DEF rollback_row
<1>5. CASE crash
  <2>1. worker' \in Worker
    BY <1>5, IdleType DEF crash
  <2>2. lost' \in [Rows -> Nat] /\ faults' \in Nat
    BY <1>5 DEF crash, unrecorded, outstanding
  <2> QED BY <1>5, <2>1, <2>2 DEF crash
<1> QED BY <1>1, <1>2, <1>3, <1>4, <1>5 DEF process_batch, Failures

LEMMA StepTypeOK == TypeOK /\ [Next]_vars => TypeOK'
<1> SUFFICES ASSUME TypeOK, [Next]_vars PROVE TypeOK'
  OBVIOUS
<1>1. CASE UNCHANGED vars
  BY <1>1 DEF vars, inbox, users, hist, counts, TypeOK
<1>2. CASE Next
  BY <1>2, AdministrationTypeOK, EmployeesTypeOK, WorkerTypeOK DEF Next
<1> QED BY <1>1, <1>2

\* Every variable of the outbox keeps its type in every reachable state.
THEOREM TypeCorrect == Spec => []TypeOK
BY InitTypeOK, StepTypeOK, PTL DEF Spec

-----------------------------------------------------------------------------
(* FCM accepts no message more often than its publication, its resends and *)
(* the acceptances whose commit was lost allow: IInv is inductive and      *)
(* implies AcceptancesAccountedFor.  On top of IInv, two more inductive    *)
(* invariants: LateOnce, why archiving stops the push, and Openness, why   *)
(* no row is stranded and none leaves a closed status but by a resend.     *)

\* The parts of IInv beside the types.
Bookkeeping == /\ WorkerShape /\ ClaimedStaysPending /\ AbsentRowsAreBlank
               /\ ResendCountCurrent /\ ConfirmedCredit

\* What a flush of a requeued copy leaves in the row.
LEMMA FlushRequeued ==
  ASSUME NEW s \in Row, NEW l \in Row, NEW t \in Nat
  PROVE  LET f == flush(s, l, requeued(l, t)) IN
         /\ f.status = (IF l.status = "PENDING" THEN s.status ELSE "PENDING")
         /\ f.ponovnih = l.ponovnih + 1
BY DEF flush, requeued, column, Row

\* What a flush that does not count a resend leaves in the row.
LEMMA FlushUncounted ==
  ASSUME NEW s \in Row, NEW l \in Row, NEW n \in Row, n.ponovnih = l.ponovnih
  PROVE  /\ flush(s, l, n).status = (IF n.status # l.status THEN n.status ELSE s.status)
         /\ flush(s, l, n).ponovnih = s.ponovnih
BY DEF flush, column

\* A step that leaves the rows, the worker, the resends and the counts alone
\* keeps the books, as long as the notifications of active resends stay.
LEMMA Untouched ==
  ASSUME Bookkeeping, UNCHANGED <<isporuke, worker, resend, confirmed, lost>>,
         \A n \in Notif : resend[n].active => notif'[n] = notif[n]
  PROVE  Bookkeeping'
<1>1. WorkerShape'
  BY DEF Bookkeeping, WorkerShape
<1>2. ClaimedStaysPending' /\ AbsentRowsAreBlank'
  BY DEF Bookkeeping, ClaimedStaysPending, AbsentRowsAreBlank
<1>3. ResendCountCurrent'
  BY DEF Bookkeeping, ResendCountCurrent
<1>4. ConfirmedCredit'
  BY DEF Bookkeeping, ConfirmedCredit, openings, credit, unrecorded
<1> QED BY <1>1, <1>2, <1>3, <1>4 DEF Bookkeeping

LEMMA InitBookkeeping == Init => Bookkeeping
<1> SUFFICES ASSUME Init PROVE Bookkeeping
  OBVIOUS
<1> USE DEF Init, Idle, Resting, NoCopies, NoRow, NoResend
<1>1. WorkerShape /\ ClaimedStaysPending /\ AbsentRowsAreBlank /\ ResendCountCurrent
  BY DEF WorkerShape, ClaimedStaysPending, AbsentRowsAreBlank, ResendCountCurrent
<1>2. ConfirmedCredit
  BY DEF ConfirmedCredit, openings, credit, unrecorded
<1> QED BY <1>1, <1>2 DEF Bookkeeping

-----------------------------------------------------------------------------
(* Administration *)

LEMMA PublishBookkeeping ==
  ASSUME TypeOK, Bookkeeping, NEW n \in Notif, apply_publish(n) PROVE Bookkeeping'
<1> PICK ciljani \in SUBSET User :
      isporuke' = [d \in Rows |->
        IF d[1] = n /\ d[2] \in {u \in ciljani : nalog[u] # "off"}
             /\ isporuke[d].status = "NONE"
          THEN add_pending(now) ELSE isporuke[d]]
  BY DEF apply_publish
<1>1. \A d \in Rows : isporuke'[d] # isporuke[d] =>
        d[1] = n /\ isporuke[d].status = "NONE" /\ isporuke'[d] = add_pending(now)
  OBVIOUS
<1>2. /\ UNCHANGED <<worker, resend, confirmed, lost>>
      /\ notif[n].status = "DRAFT"
      /\ \A m \in Notif \ {n} : notif'[m] = notif[m]
  BY DEF apply_publish, TypeOK, hist, counts
<1>3. \A d \in Rows : isporuke'[d] # isporuke[d] =>
        /\ isporuke[d] = NoRow
        /\ isporuke[d].status = "NONE" /\ isporuke[d].ponovnih = 0
        /\ isporuke'[d].status = "PENDING" /\ isporuke'[d].ponovnih = 0
  BY <1>1 DEF Bookkeeping, AbsentRowsAreBlank, add_pending, NoRow
<1>4. WorkerShape'
  BY <1>2 DEF Bookkeeping, WorkerShape
<1>5. ClaimedStaysPending'
  <2>1. \A d \in worker.todo \cup worker.cur : d \in Rows
    BY DEF TypeOK, Worker
  <2> QED BY <1>2, <1>3, <2>1 DEF Bookkeeping, ClaimedStaysPending, NoRow
<1>6. AbsentRowsAreBlank'
  BY <1>3 DEF Bookkeeping, AbsentRowsAreBlank
<1>7. ResendCountCurrent'
  <2>1. ~resend[n].active
    BY <1>2 DEF Bookkeeping, ResendCountCurrent
  <2>2. \A d \in Rows : d[1] # n => isporuke'[d] = isporuke[d]
    BY <1>1
  <2>3. \A m \in Notif, u \in User : m # n => isporuke'[<<m, u>>] = isporuke[<<m, u>>]
    BY <2>2 DEF Rows
  <2>4. \A m \in Notif : resend[m].unread \in SUBSET User
    BY DEF TypeOK
  <2> QED BY <1>2, <2>1, <2>3, <2>4 DEF Bookkeeping, ResendCountCurrent
<1>8. ConfirmedCredit'
  <2> SUFFICES ASSUME NEW d \in Rows
               PROVE  confirmed[d] + credit(d)' <=
                        (IF isporuke'[d].status = "NONE" THEN 0 ELSE 1)
                          + isporuke'[d].ponovnih + lost[d]
    BY <1>2 DEF ConfirmedCredit, openings
  <2>1. unrecorded(d)' = unrecorded(d)
    BY <1>2 DEF unrecorded
  <2>2. confirmed[d] \in Nat /\ lost[d] \in Nat /\ isporuke[d].ponovnih \in Nat
          /\ unrecorded(d) \in {0, 1}
    BY DEF TypeOK, Row, unrecorded
  <2>3. confirmed[d] + credit(d) <= (IF isporuke[d].status = "NONE" THEN 0 ELSE 1)
                                      + isporuke[d].ponovnih + lost[d]
    BY DEF Bookkeeping, ConfirmedCredit, openings
  <2>4. CASE isporuke'[d] = isporuke[d]
    BY <2>1, <2>3, <2>4 DEF credit
  <2>5. CASE isporuke'[d] # isporuke[d]
    <3>1. credit(d) = 0 /\ credit(d)' \in {0, 1}
      BY <1>3, <2>5 DEF credit
    <3>2. confirmed[d] <= lost[d]
      BY <1>3, <2>2, <2>3, <2>5, <3>1
    <3> QED BY <1>3, <2>2, <2>5, <3>1, <3>2
  <2> QED BY <2>4, <2>5
<1> QED BY <1>4, <1>5, <1>6, <1>7, <1>8 DEF Bookkeeping

LEMMA ResendLoadBookkeeping ==
  ASSUME TypeOK, Bookkeeping, NEW n \in Notif, resend_load(n) PROVE Bookkeeping'
<1>1. UNCHANGED <<notif, isporuke, worker, confirmed, lost>>
  BY DEF resend_load, inbox, hist, counts
<1>2. WorkerShape' /\ ClaimedStaysPending' /\ AbsentRowsAreBlank'
  BY <1>1 DEF Bookkeeping, WorkerShape, ClaimedStaysPending, AbsentRowsAreBlank
<1>3. ResendCountCurrent'
  <2> DEFINE unread == primaoci[n] \ procitano[n]
             copy == [u \in User |-> IF u \in unread THEN isporuke[<<n, u>>] ELSE NoRow]
  <2>1. resend' = [resend EXCEPT ![n] =
                     [active |-> TRUE, at |-> now, unread |-> unread, copy |-> copy]]
    BY DEF resend_load
  <2>2. notif[n].status = "PUBLISHED" /\ unread \in SUBSET User
    BY DEF resend_load, available, TypeOK
  <2>3. \A u \in unread : copy[u] = isporuke[<<n, u>>]
    BY <2>2
  <2> HIDE DEF unread, copy
  <2>4. resend'[n].unread = unread /\ resend'[n].copy = copy
    BY <2>1 DEF TypeOK
  <2>5. \A m \in Notif \ {n} : resend'[m] = resend[m]
    BY <2>1 DEF TypeOK
  <2> QED BY <1>1, <2>2, <2>3, <2>4, <2>5 DEF Bookkeeping, ResendCountCurrent
<1>4. ConfirmedCredit'
  BY <1>1 DEF Bookkeeping, ConfirmedCredit, openings, credit, unrecorded
<1> QED BY <1>2, <1>3, <1>4 DEF Bookkeeping

\* What the second half of a resend does to the row of an unread recipient.
LEMMA ResendEffect ==
  ASSUME TypeOK, Bookkeeping, NEW n \in Notif, resend_commit(n),
         NEW d \in Rows, d[1] = n, d[2] \in resend[n].unread
  PROVE  /\ isporuke'[d].status =
              (IF resend[n].copy[d[2]].status = "PENDING" THEN isporuke[d].status
                                                          ELSE "PENDING")
         /\ resend[n].copy[d[2]].status # "NONE" => isporuke[d].status # "NONE"
         /\ isporuke'[d].ponovnih = isporuke[d].ponovnih + 1
<1> DEFINE l == resend[n].copy[d[2]]
<1>1. l \in Row /\ isporuke[d] \in Row /\ resend[n].at \in Nat
  BY DEF TypeOK
<1>2. isporuke'[d] = flush(isporuke[d], l, requeued(l, resend[n].at))
  BY DEF resend_commit
<1>3. d = <<n, d[2]>>
  BY DEF Rows
<1>4. l.ponovnih = isporuke[d].ponovnih /\ (l.status # "NONE" => isporuke[d].status # "NONE")
  BY <1>3 DEF Bookkeeping, ResendCountCurrent, resend_commit
<1> HIDE DEF l
<1>5. /\ isporuke'[d].status = (IF l.status = "PENDING" THEN isporuke[d].status ELSE "PENDING")
      /\ isporuke'[d].ponovnih = l.ponovnih + 1
  BY <1>1, <1>2, FlushRequeued
<1> QED BY <1>4, <1>5 DEF l

\* A resend only opens rows: an open row stays open, and none appears.
LEMMA ResendReopens ==
  ASSUME TypeOK, Bookkeeping, RecipientsHaveRows, NEW n \in Notif, resend_commit(n),
         NEW d \in Rows
  PROVE  /\ isporuke'[d].status \in {isporuke[d].status, "PENDING"}
         /\ isporuke'[d].status = "NONE" <=> isporuke[d].status = "NONE"
<1>1. CASE d[1] = n /\ d[2] \in resend[n].unread
  <2>1. resend[n].copy[d[2]].status # "NONE"
    BY <1>1 DEF RecipientsHaveRows, resend_commit
  <2> QED BY <1>1, <2>1, ResendEffect
<1>2. CASE ~(d[1] = n /\ d[2] \in resend[n].unread)
  BY <1>2 DEF resend_commit
<1> QED BY <1>1, <1>2

LEMMA ResendCommitBookkeeping ==
  ASSUME TypeOK, Bookkeeping, NEW n \in Notif, resend_commit(n) PROVE Bookkeeping'
<1>1. /\ UNCHANGED <<notif, worker, confirmed, lost>>
      /\ resend[n].active /\ ~resend'[n].active
      /\ \A m \in Notif \ {n} : resend'[m] = resend[m]
  BY DEF resend_commit, inbox, hist, counts, TypeOK, NoResend
<1>2. \A d \in Rows : ~(d[1] = n /\ d[2] \in resend[n].unread) => isporuke'[d] = isporuke[d]
  BY DEF resend_commit
<1>3. ASSUME NEW d \in Rows, d[1] = n, d[2] \in resend[n].unread
      PROVE  /\ isporuke'[d].status =
                  (IF resend[n].copy[d[2]].status = "PENDING" THEN isporuke[d].status
                                                              ELSE "PENDING")
             /\ resend[n].copy[d[2]].status # "NONE" => isporuke[d].status # "NONE"
             /\ isporuke'[d].ponovnih = isporuke[d].ponovnih + 1
  BY <1>3, ResendEffect
<1>4. \A d \in Rows : isporuke[d].status = "PENDING" => isporuke'[d].status = "PENDING"
  BY <1>2, <1>3
<1>5. \A d \in Rows : isporuke[d].status # "NONE" => isporuke'[d].status # "NONE"
  BY <1>2, <1>3
<1>6. WorkerShape'
  BY <1>1 DEF Bookkeeping, WorkerShape
<1>7. ClaimedStaysPending'
  <2>1. \A d \in worker.todo \cup worker.cur : d \in Rows
    BY DEF TypeOK, Worker
  <2> QED BY <1>1, <1>4, <2>1 DEF Bookkeeping, ClaimedStaysPending
<1>8. AbsentRowsAreBlank'
  BY <1>2, <1>3 DEF Bookkeeping, AbsentRowsAreBlank
<1>9. ResendCountCurrent'
  <2>1. \A m \in Notif, u \in User : m # n => isporuke'[<<m, u>>] = isporuke[<<m, u>>]
    BY <1>2 DEF Rows
  <2>2. \A m \in Notif : resend[m].unread \in SUBSET User
    BY DEF TypeOK
  <2> QED BY <1>1, <2>1, <2>2 DEF Bookkeeping, ResendCountCurrent
<1>10. ConfirmedCredit'
  <2> SUFFICES ASSUME NEW d \in Rows
               PROVE  confirmed[d] + credit(d)' <=
                        (IF isporuke'[d].status = "NONE" THEN 0 ELSE 1)
                          + isporuke'[d].ponovnih + lost[d]
    BY <1>1 DEF ConfirmedCredit, openings
  <2>1. unrecorded(d)' = unrecorded(d)
    BY <1>1 DEF unrecorded
  <2>2. confirmed[d] \in Nat /\ lost[d] \in Nat /\ isporuke[d].ponovnih \in Nat
          /\ unrecorded(d) \in {0, 1}
    BY DEF TypeOK, Row, unrecorded
  <2>3. confirmed[d] + credit(d) <= (IF isporuke[d].status = "NONE" THEN 0 ELSE 1)
                                      + isporuke[d].ponovnih + lost[d]
    BY DEF Bookkeeping, ConfirmedCredit, openings
  <2>4. CASE isporuke'[d] = isporuke[d]
    BY <2>1, <2>3, <2>4 DEF credit
  <2>5. CASE isporuke'[d] # isporuke[d]
    BY <1>2, <1>3, <2>1, <2>2, <2>3, <2>5 DEF credit
  <2> QED BY <2>4, <2>5
<1> QED BY <1>6, <1>7, <1>8, <1>9, <1>10 DEF Bookkeeping

-----------------------------------------------------------------------------
(* The worker *)

\* The worker between two rows has none in hand and keeps the copies it needs.
LEMMA AdvanceShape ==
  ASSUME worker \in Worker, NEW expired
  PROVE  /\ Advance(expired).pc \in {"idle", "pick"}
         /\ Advance(expired).cur = {}
         /\ Advance(expired).todo = worker.todo
         /\ \A d \in worker.todo : Advance(expired).copy[d] = worker.copy[d]
<1>1. CASE worker.todo = {}
  BY <1>1 DEF Advance, Idle, Resting
<1>2. CASE worker.todo # {}
  BY <1>2 DEF Advance, Resting, Worker
<1> QED BY <1>1, <1>2

LEMMA ClaimBookkeeping ==
  ASSUME TypeOK, Bookkeeping, claim_ready_batch PROVE Bookkeeping'
<1>1. PICK batch \in SUBSET {d \in Rows : due(d)} : worker' = Resting("pick", batch,
        [d \in Rows |-> IF d \in batch THEN isporuke[d] ELSE NoRow], FALSE)
  BY DEF claim_ready_batch
<1>2. UNCHANGED <<notif, isporuke, resend, confirmed, lost>> /\ worker.pc = "idle"
  BY DEF claim_ready_batch, inbox, hist, counts
<1>3. /\ worker'.pc = "pick" /\ worker'.cur = {} /\ worker'.todo = batch
      /\ \A d \in batch : worker'.copy[d] = isporuke[d] /\ isporuke[d].status = "PENDING"
  BY <1>1 DEF Resting, due
<1>4. WorkerShape'
  BY <1>3 DEF WorkerShape
<1>5. ClaimedStaysPending' /\ AbsentRowsAreBlank' /\ ResendCountCurrent'
  BY <1>2, <1>3 DEF Bookkeeping, ClaimedStaysPending, AbsentRowsAreBlank, ResendCountCurrent
<1>6. ConfirmedCredit'
  <2>1. \A d \in Rows : unrecorded(d) = 0 /\ unrecorded(d)' = 0
    BY <1>2, <1>3 DEF unrecorded
  <2> QED BY <1>2, <2>1 DEF Bookkeeping, ConfirmedCredit, openings, credit
<1> QED BY <1>4, <1>5, <1>6 DEF Bookkeeping

LEMMA NextRowBookkeeping ==
  ASSUME TypeOK, Bookkeeping, process_next PROVE Bookkeeping'
<1>1. PICK d \in worker.todo :
        LET red == IF worker.expired THEN isporuke[d] ELSE worker.copy[d] IN
        worker' = [worker EXCEPT !.pc = "notif", !.todo = @ \ {d}, !.cur = {d},
                                 !.copy = [@ EXCEPT ![d] = red], !.new = red,
                                 !.at = now]
  BY DEF process_next
<1>2. UNCHANGED <<notif, isporuke, resend, confirmed, lost>> /\ worker.pc = "pick"
  BY DEF process_next, inbox, hist, counts
<1> DEFINE red == IF worker.expired THEN isporuke[d] ELSE worker.copy[d]
<1>3. isporuke[d].status = "PENDING" /\ red.status = "PENDING"
  BY DEF Bookkeeping, ClaimedStaysPending
<1>4. d \in Rows /\ worker \in Worker
  BY DEF TypeOK, Worker
<1> HIDE DEF red
<1>5. worker' = [worker EXCEPT !.pc = "notif", !.todo = @ \ {d}, !.cur = {d},
                               !.copy = [@ EXCEPT ![d] = red], !.new = red, !.at = now]
  BY <1>1 DEF red
<1>6. /\ worker'.pc = "notif" /\ worker'.cur = {d} /\ worker'.todo = worker.todo \ {d}
      /\ worker'.new = red /\ worker'.copy[d] = red
      /\ \A e \in worker'.todo : worker'.copy[e] = worker.copy[e]
  BY <1>4, <1>5 DEF Worker
<1>7. WorkerShape'
  BY <1>6 DEF WorkerShape
<1>8. ClaimedStaysPending'
  BY <1>2, <1>3, <1>6 DEF Bookkeeping, ClaimedStaysPending
<1>9. AbsentRowsAreBlank' /\ ResendCountCurrent'
  BY <1>2, <1>6 DEF Bookkeeping, AbsentRowsAreBlank, ResendCountCurrent
<1>10. ConfirmedCredit'
  <2>1. \A e \in Rows : unrecorded(e) = 0 /\ unrecorded(e)' = 0
    BY <1>2, <1>6 DEF unrecorded
  <2> QED BY <1>2, <2>1 DEF Bookkeeping, ConfirmedCredit, openings, credit
<1> QED BY <1>7, <1>8, <1>9, <1>10 DEF Bookkeeping

\* A step on the row in hand that only prepares its new values keeps the books
\* when every acceptance it makes is still unrecorded.
LEMMA PreparedBookkeeping ==
  ASSUME TypeOK, Bookkeeping, NEW d \in worker.cur, worker.pc # "commit",
         UNCHANGED <<notif, isporuke, resend, lost>>,
         worker'.cur = worker.cur, worker'.todo = worker.todo, worker'.copy = worker.copy,
         worker'.pc \notin {"idle", "pick"},
         worker'.pc # "commit" => worker'.new = worker.new,
         worker'.new.status # "NONE", worker'.new.ponovnih = worker.new.ponovnih,
         \A e \in Rows : confirmed'[e] = confirmed[e] + unrecorded(e)'
  PROVE  Bookkeeping'
<1>1. WorkerShape' /\ ClaimedStaysPending' /\ AbsentRowsAreBlank' /\ ResendCountCurrent'
  BY DEF Bookkeeping, WorkerShape, ClaimedStaysPending, AbsentRowsAreBlank, ResendCountCurrent
<1>2. ConfirmedCredit'
  <2> SUFFICES ASSUME NEW e \in Rows
               PROVE  confirmed'[e] + credit(e)' <=
                        (IF isporuke[e].status = "NONE" THEN 0 ELSE 1)
                          + isporuke[e].ponovnih + lost[e]
    BY DEF ConfirmedCredit, openings
  <2>1. /\ confirmed[e] \in Nat /\ lost[e] \in Nat /\ isporuke[e].ponovnih \in Nat
        /\ confirmed'[e] = confirmed[e] + unrecorded(e)'
    BY DEF TypeOK, Row
  <2>2. confirmed[e] + credit(e) <= (IF isporuke[e].status = "NONE" THEN 0 ELSE 1)
                                      + isporuke[e].ponovnih + lost[e]
    BY DEF Bookkeeping, ConfirmedCredit, openings
  <2>3. CASE e \in worker.cur
    <3>1. isporuke[e].status = "PENDING" /\ unrecorded(e) = 0 /\ unrecorded(e)' \in {0, 1}
      BY <2>3 DEF Bookkeeping, ClaimedStaysPending, unrecorded
    <3>2. credit(e) = 1 /\ credit(e)' = 1 - unrecorded(e)'
      BY <3>1 DEF credit
    <3> QED BY <2>1, <2>2, <3>1, <3>2
  <2>4. CASE e \notin worker.cur
    <3>1. unrecorded(e) = 0 /\ unrecorded(e)' = 0
      BY <2>4 DEF unrecorded
    <3>2. credit(e)' = credit(e)
      BY <3>1 DEF credit
    <3> QED BY <2>1, <2>2, <3>1, <3>2
  <2> QED BY <2>3, <2>4
<1> QED BY <1>1, <1>2 DEF Bookkeeping

LEMMA ProcessOneBookkeeping ==
  ASSUME TypeOK, Bookkeeping, NEW d \in Rows,
         \/ check_notification(d) \/ check_user(d) \/ get_active_token(d) \/ check_session(d)
         \/ send_ok(d) \/ send_invalid_token(d) \/ send_error(d)
  PROVE  Bookkeeping'
<1> DEFINE Steps == {"notif", "user", "token", "session", "send"}
           Prepared == /\ worker'.cur = worker.cur /\ worker'.todo = worker.todo
                       /\ worker'.copy = worker.copy
                       /\ worker'.pc \notin {"idle", "pick"}
                       /\ worker'.pc # "commit" => worker'.new = worker.new
                       /\ worker'.new.status # "NONE"
                       /\ worker'.new.ponovnih = worker.new.ponovnih
<1>1. d \in worker.cur /\ worker.pc \in Steps
  BY DEF check_notification, check_user, get_active_token, check_session, send_ok,
         send_invalid_token, send_error
<1>2. UNCHANGED <<notif, isporuke, resend, lost>>
  BY DEF check_notification, check_user, get_active_token, check_session, send_ok,
         send_invalid_token, send_error, inbox, hist, counts
<1>3. worker \in Worker /\ worker.new \in Row /\ worker.new.status # "NONE"
        /\ \A e \in worker.cur : e = d
  BY <1>1 DEF TypeOK, Worker, Bookkeeping, WorkerShape, ClaimedStaysPending
<1>4. ASSUME NEW step \in Steps, goto(step) PROVE Prepared
  BY <1>3, <1>4 DEF goto, Worker
<1>5. ASSUME skip(d) PROVE Prepared /\ worker'.new.status = "SKIPPED"
  BY <1>3, <1>5 DEF skip, Worker, Row
<1>6. ASSUME NEW dropped, postpone(d, dropped) PROVE Prepared /\ worker'.new.status = "PENDING"
  BY <1>3, <1>6 DEF postpone, Worker, Row
<1>7. ASSUME Prepared, UNCHANGED confirmed,
             worker'.pc # "commit" \/ worker'.new.status # "SENT"
      PROVE  Bookkeeping'
  <2>1. \A e \in Rows : unrecorded(e)' = 0
    BY <1>7 DEF unrecorded
  <2>2. \A e \in Rows : confirmed'[e] = confirmed[e] + unrecorded(e)'
    BY <1>7, <2>1 DEF TypeOK
  <2> HIDE DEF Steps
  <2>3. worker.pc # "commit"
    BY <1>1 DEF Steps
  <2> QED BY <1>1, <1>2, <1>7, <2>2, <2>3, PreparedBookkeeping
<1>8. CASE check_notification(d)
  BY <1>4, <1>5, <1>7, <1>8 DEF check_notification, goto, hist, counts, Worker, TypeOK
<1>9. CASE check_user(d)
  BY <1>4, <1>5, <1>7, <1>9 DEF check_user, goto, hist, counts, Worker, TypeOK
<1>10. CASE get_active_token(d)
  <2>1. UNCHANGED confirmed
    BY <1>10 DEF get_active_token, hist, counts
  <2>2. CASE token[d[2]] = NoDevice
    BY <1>6, <1>7, <1>10, <2>1, <2>2 DEF get_active_token
  <2>3. CASE token[d[2]] # NoDevice
    <3>1. worker' = [worker EXCEPT !.pc = "session", !.dev = token[d[2]]]
      BY <1>10, <2>3 DEF get_active_token
    <3>2. Prepared /\ worker'.pc # "commit"
      BY <1>3, <3>1 DEF Worker
    <3> QED BY <1>7, <2>1, <3>2
  <2> QED BY <2>2, <2>3
<1>11. CASE check_session(d)
  BY <1>4, <1>6, <1>7, <1>11 DEF check_session, goto, hist, counts, Worker, TypeOK
<1>12. CASE send_ok(d)
  <2>1. worker' = [worker EXCEPT !.pc = "commit", !.new =
          [@ EXCEPT !.status = "SENT", !.datum_slanja = worker.at,
                    !.broj_pokusaja = worker.copy[d].broj_pokusaja + 1]]
    BY <1>12 DEF send_ok
  <2>2. Prepared /\ worker'.pc = "commit" /\ worker'.new.status = "SENT"
    BY <1>3, <2>1 DEF Worker, Row
  <2>3. \A e \in Rows : unrecorded(e)' = IF e = d THEN 1 ELSE 0
    BY <1>1, <1>3, <2>2 DEF unrecorded
  <2>4. \A e \in Rows : confirmed'[e] = confirmed[e] + unrecorded(e)'
    BY <1>12, <2>3 DEF send_ok, TypeOK
  <2>5. worker.pc # "commit"
    BY <1>1
  <2> HIDE DEF Steps
  <2> QED BY <1>1, <1>2, <2>2, <2>4, <2>5, PreparedBookkeeping
<1>13. CASE send_invalid_token(d)
  BY <1>6, <1>7, <1>13 DEF send_invalid_token, hist, counts
<1>14. CASE send_error(d)
  <2> DEFINE pokusaji == worker.copy[d].broj_pokusaja + 1
  <2> HIDE DEF pokusaji
  <2>1. worker' = [worker EXCEPT !.pc = "commit", !.new =
          IF last_attempt(pokusaji)
            THEN [@ EXCEPT !.status = "FAILED", !.broj_pokusaja = pokusaji,
                           !.sledeci_pokusaj = NoTime]
            ELSE [@ EXCEPT !.status = "PENDING", !.broj_pokusaja = pokusaji,
                           !.sledeci_pokusaj = worker.at + retry_backoff(pokusaji)]]
    BY <1>14 DEF send_error, pokusaji
  <2>2. Prepared /\ worker'.new.status # "SENT"
    BY <1>3, <2>1 DEF Worker, Row
  <2> QED BY <1>7, <1>14, <2>2 DEF send_error, hist, counts
<1> QED BY <1>8, <1>9, <1>10, <1>11, <1>12, <1>13, <1>14

\* What the worker's commit does to the row in hand, which it found open.
LEMMA CommitRecords ==
  ASSUME TypeOK, Bookkeeping, NEW d \in Rows, commit_row(d)
  PROVE  /\ isporuke[d].status = "PENDING" /\ worker.copy[d].status = "PENDING"
         /\ worker.new.status \in Statuses /\ d \notin worker.todo
         /\ \A e \in worker.cur : e = d
         /\ isporuke'[d].status = worker.new.status
         /\ isporuke'[d].ponovnih = isporuke[d].ponovnih
         /\ \A e \in Rows \ {d} : isporuke'[e] = isporuke[e]
         /\ \A e \in Rows : isporuke'[e].status = "NONE" <=> isporuke[e].status = "NONE"
<1>1. d \in worker.cur
  BY DEF commit_row
<1>2. /\ isporuke[d].status = "PENDING" /\ worker.copy[d].status = "PENDING"
      /\ worker.new.status # "NONE" /\ worker.new.ponovnih = worker.copy[d].ponovnih
      /\ d \notin worker.todo /\ \A e \in worker.cur : e = d
  BY <1>1 DEF Bookkeeping, WorkerShape, ClaimedStaysPending, ResendCountCurrent
<1>3. isporuke' = [isporuke EXCEPT ![d] = flush(@, worker.copy[d], worker.new)]
  BY DEF commit_row
<1>4. isporuke[d] \in Row /\ worker.copy[d] \in Row /\ worker.new \in Row
  BY DEF TypeOK, Worker
<1>5. isporuke'[d] = flush(isporuke[d], worker.copy[d], worker.new)
  BY <1>3 DEF TypeOK
<1>6. \A e \in Rows \ {d} : isporuke'[e] = isporuke[e]
  BY <1>3 DEF TypeOK
<1>7. worker.new.status \in Statuses
  BY <1>2, <1>4 DEF Row
<1>8. isporuke'[d].status = worker.new.status /\ isporuke'[d].ponovnih = isporuke[d].ponovnih
  BY <1>2, <1>4, <1>5, FlushUncounted
<1> QED BY <1>2, <1>6, <1>7, <1>8 DEF Statuses

LEMMA CommitBookkeeping ==
  ASSUME TypeOK, Bookkeeping, NEW d \in Rows, commit_row(d) PROVE Bookkeeping'
<1>1. /\ d \in worker.cur /\ worker.pc = "commit"
      /\ UNCHANGED <<notif, resend, confirmed, lost>>
      /\ worker' = Advance(worker.expired)
  BY DEF commit_row, inbox, hist, counts
<1>2. /\ worker'.pc \in {"idle", "pick"} /\ worker'.cur = {} /\ worker'.todo = worker.todo
      /\ \A e \in worker.todo : worker'.copy[e] = worker.copy[e]
  BY <1>1, AdvanceShape DEF TypeOK
<1>3. /\ isporuke[d].status = "PENDING" /\ worker.copy[d].status = "PENDING"
      /\ worker.new.status # "NONE" /\ d \notin worker.todo /\ \A e \in worker.cur : e = d
  BY CommitRecords DEF Statuses
<1>4. /\ isporuke'[d].status = worker.new.status
      /\ isporuke'[d].ponovnih = isporuke[d].ponovnih
      /\ \A e \in Rows \ {d} : isporuke'[e] = isporuke[e]
  BY CommitRecords
<1>5. WorkerShape'
  BY <1>2 DEF WorkerShape
<1>6. ClaimedStaysPending'
  <2>1. worker.todo \subseteq Rows
    BY DEF TypeOK, Worker
  <2> QED BY <1>2, <1>3, <1>4, <2>1 DEF Bookkeeping, ClaimedStaysPending
<1>7. AbsentRowsAreBlank'
  BY <1>3, <1>4 DEF Bookkeeping, AbsentRowsAreBlank
<1>8. ResendCountCurrent'
  <2>1. \A e \in Rows : /\ isporuke'[e].ponovnih = isporuke[e].ponovnih
                        /\ isporuke[e].status # "NONE" => isporuke'[e].status # "NONE"
    BY <1>3, <1>4
  <2>2. \A n \in Notif : \A u \in resend[n].unread : <<n, u>> \in Rows
    BY DEF TypeOK, Rows
  <2> QED BY <1>1, <1>2, <2>1, <2>2 DEF Bookkeeping, ResendCountCurrent
<1>9. ConfirmedCredit'
  <2> SUFFICES ASSUME NEW e \in Rows
               PROVE  confirmed[e] + credit(e)' <=
                        (IF isporuke'[e].status = "NONE" THEN 0 ELSE 1)
                          + isporuke'[e].ponovnih + lost[e]
    BY <1>1 DEF ConfirmedCredit, openings
  <2>1. confirmed[e] + credit(e) <= (IF isporuke[e].status = "NONE" THEN 0 ELSE 1)
                                      + isporuke[e].ponovnih + lost[e]
    BY DEF Bookkeeping, ConfirmedCredit, openings
  <2>2. unrecorded(e)' = 0
    BY <1>2 DEF unrecorded
  <2>3. CASE e = d
    <3>1. credit(d)' <= credit(d) /\ credit(d) \in {0, 1} /\ credit(d)' \in {0, 1}
      BY <1>1, <1>3, <1>4, <2>2, <2>3 DEF credit, unrecorded
    <3>2. confirmed[d] \in Nat /\ lost[d] \in Nat /\ isporuke[d].ponovnih \in Nat
      BY DEF TypeOK, Row
    <3> QED BY <1>3, <1>4, <2>1, <2>3, <3>1, <3>2
  <2>4. CASE e # d
    <3>1. unrecorded(e) = 0
      BY <1>3, <2>4 DEF unrecorded
    <3>2. isporuke'[e] = isporuke[e]
      BY <1>4, <2>4
    <3>3. credit(e)' = credit(e)
      BY <2>2, <3>1, <3>2 DEF credit
    <3> QED BY <2>1, <3>2, <3>3
  <2> QED BY <2>3, <2>4
<1> QED BY <1>5, <1>6, <1>7, <1>8, <1>9 DEF Bookkeeping

\* A rollback or a crash turns what was unrecorded into what is lost.
LEMMA FailureBookkeeping ==
  ASSUME TypeOK, Bookkeeping, Failures PROVE Bookkeeping'
<1>1. UNCHANGED <<notif, isporuke, resend, confirmed>>
  BY DEF Failures, crash, rollback_row, inbox
<1> DEFINE Rested == /\ worker'.pc \in {"idle", "pick"} /\ worker'.cur = {}
                     /\ worker'.todo \subseteq worker.todo
                     /\ \A e \in worker'.todo : worker'.copy[e] = worker.copy[e]
<1>2. Rested
  <2>1. CASE crash
    BY <2>1 DEF crash, Idle, Resting
  <2>2. ASSUME NEW d \in Rows, rollback_row(d) PROVE Rested
    BY <2>2, AdvanceShape DEF rollback_row, TypeOK
  <2> QED BY <2>1, <2>2 DEF Failures
<1>3. \A e \in Rows : lost'[e] \in Nat /\ lost'[e] >= lost[e] + unrecorded(e)
  <2>1. \A e \in Rows : lost[e] \in Nat /\ outstanding(e) \in {0, 1}
                          /\ unrecorded(e) \in {0, 1} /\ (unrecorded(e) = 1 => outstanding(e) = 1)
    BY DEF TypeOK, outstanding, unrecorded
  <2>2. CASE crash
    <3>1. \A e \in Rows : lost'[e] = lost[e] + outstanding(e)
      BY <2>2 DEF crash
    <3> QED BY <2>1, <3>1
  <2>3. ASSUME NEW d \in Rows, rollback_row(d)
        PROVE  \A e \in Rows : lost'[e] \in Nat /\ lost'[e] >= lost[e] + unrecorded(e)
    <3>1. d \in worker.cur /\ lost' = [lost EXCEPT ![d] = @ + outstanding(d)]
      BY <2>3 DEF rollback_row
    <3>2. \A e \in Rows \ {d} : unrecorded(e) = 0 /\ lost'[e] = lost[e]
      BY <3>1 DEF unrecorded, Bookkeeping, WorkerShape, TypeOK
    <3>3. lost'[d] = lost[d] + outstanding(d)
      BY <3>1 DEF TypeOK
    <3> QED BY <2>1, <3>2, <3>3
  <2> QED BY <2>2, <2>3 DEF Failures
<1>4. WorkerShape' /\ ClaimedStaysPending' /\ AbsentRowsAreBlank' /\ ResendCountCurrent'
  BY <1>1, <1>2 DEF Bookkeeping, WorkerShape, ClaimedStaysPending, AbsentRowsAreBlank,
                    ResendCountCurrent
<1>5. ConfirmedCredit'
  <2> SUFFICES ASSUME NEW e \in Rows
               PROVE  confirmed[e] + credit(e)' <=
                        (IF isporuke[e].status = "NONE" THEN 0 ELSE 1)
                          + isporuke[e].ponovnih + lost'[e]
    BY <1>1 DEF ConfirmedCredit, openings
  <2>1. confirmed[e] + credit(e) <= (IF isporuke[e].status = "NONE" THEN 0 ELSE 1)
                                      + isporuke[e].ponovnih + lost[e]
    BY DEF Bookkeeping, ConfirmedCredit, openings
  <2>2. /\ unrecorded(e) \in {0, 1} /\ unrecorded(e)' = 0
        /\ confirmed[e] \in Nat /\ lost[e] \in Nat /\ isporuke[e].ponovnih \in Nat
    BY <1>2 DEF unrecorded, TypeOK, Row
  <2>3. /\ credit(e) \in {0, 1} /\ credit(e)' \in {0, 1}
        /\ credit(e)' <= credit(e) + unrecorded(e)
    BY <1>1, <2>2 DEF credit
  <2> QED BY <1>3, <2>1, <2>2, <2>3
<1> QED BY <1>4, <1>5 DEF Bookkeeping

-----------------------------------------------------------------------------
(* The invariant and its consequence *)

LEMMA StepBookkeeping == TypeOK /\ Bookkeeping /\ [Next]_vars => Bookkeeping'
<1> SUFFICES ASSUME TypeOK, Bookkeeping, [Next]_vars PROVE Bookkeeping'
  OBVIOUS
<1>1. CASE UNCHANGED vars
  BY <1>1, Untouched DEF vars, inbox, hist, counts
<1>2. CASE Administration
  <2>1. ASSUME NEW n \in Notif, apply_archive(n) PROVE Bookkeeping'
    <3>1. /\ UNCHANGED <<isporuke, worker, resend, confirmed, lost>>
          /\ \A m \in Notif : resend[m].active => notif'[m] = notif[m]
      BY <2>1 DEF apply_archive, hist, counts, TypeOK
    <3> QED BY <3>1, Untouched
  <2> QED BY <1>2, <2>1, PublishBookkeeping, ResendLoadBookkeeping, ResendCommitBookkeeping
          DEF Administration
<1>3. CASE Employees \/ Tick
  <2>1. UNCHANGED <<notif, isporuke, worker, resend, confirmed, lost>>
    BY <1>3 DEF Employees, Tick, mark_read, mark_unread, login, logout, upsert,
                session_expires, account_changes, inbox, hist, counts
  <2> QED BY <2>1, Untouched
<1>4. CASE process_batch
  BY <1>4, ClaimBookkeeping, NextRowBookkeeping, ProcessOneBookkeeping, CommitBookkeeping
     DEF process_batch, process_one
<1>5. CASE Failures
  BY <1>5, FailureBookkeeping
<1> QED BY <1>1, <1>2, <1>3, <1>4, <1>5 DEF Next

-----------------------------------------------------------------------------
(* Recipients and rows *)

LEMMA StepRecipients ==
  TypeOK /\ Bookkeeping /\ RecipientsHaveRows /\ [Next]_vars => RecipientsHaveRows'
<1> SUFFICES ASSUME TypeOK, Bookkeeping, RecipientsHaveRows, [Next]_vars
             PROVE  RecipientsHaveRows'
  OBVIOUS
<1>1. ASSUME UNCHANGED <<primaoci, resend>>,
             \A d \in Rows : isporuke'[d].status = "NONE" <=> isporuke[d].status = "NONE"
      PROVE  RecipientsHaveRows'
  BY <1>1 DEF RecipientsHaveRows, OutboxMatchesRecipients
<1>2. CASE UNCHANGED vars
  BY <1>1, <1>2 DEF vars, inbox
<1>3. ASSUME NEW n \in Notif, apply_publish(n) PROVE RecipientsHaveRows'
  <2>1. PICK ciljani \in SUBSET User :
          /\ primaoci' = [primaoci EXCEPT ![n] = @ \cup {u \in ciljani : nalog[u] # "off"}]
          /\ isporuke' = [d \in Rows |->
               IF d[1] = n /\ d[2] \in {u \in ciljani : nalog[u] # "off"}
                    /\ isporuke[d].status = "NONE"
                 THEN add_pending(now) ELSE isporuke[d]]
    BY <1>3 DEF apply_publish
  <2> DEFINE user_ids == {u \in ciljani : nalog[u] # "off"}
  <2>2. \A m \in Notif : primaoci'[m] = IF m = n THEN primaoci[m] \cup user_ids ELSE primaoci[m]
    BY <2>1 DEF TypeOK
  <2>3. \A d \in Rows : isporuke'[d].status = "NONE" <=>
          isporuke[d].status = "NONE" /\ ~(d[1] = n /\ d[2] \in user_ids)
    BY <2>1 DEF add_pending, NoRow
  <2>4. UNCHANGED resend
    BY <1>3 DEF apply_publish
  <2> HIDE DEF user_ids
  <2>5. OutboxMatchesRecipients'
    <3> SUFFICES ASSUME NEW d \in Rows
                 PROVE  isporuke'[d].status # "NONE" <=> d[2] \in primaoci'[d[1]]
      BY DEF OutboxMatchesRecipients
    <3>1. d[1] \in Notif
      BY DEF Rows
    <3>2. isporuke[d].status # "NONE" <=> d[2] \in primaoci[d[1]]
      BY DEF RecipientsHaveRows, OutboxMatchesRecipients
    <3>3. d[2] \in primaoci'[d[1]] <=> d[2] \in primaoci[d[1]] \/ (d[1] = n /\ d[2] \in user_ids)
      BY <2>2, <3>1
    <3> QED BY <2>3, <3>2, <3>3
  <2> QED BY <2>2, <2>4, <2>5 DEF RecipientsHaveRows
<1>4. ASSUME NEW n \in Notif, apply_archive(n) PROVE RecipientsHaveRows'
  BY <1>1, <1>4 DEF apply_archive
<1>5. ASSUME NEW n \in Notif, resend_load(n) PROVE RecipientsHaveRows'
  <2> DEFINE unread == primaoci[n] \ procitano[n]
             copy == [u \in User |-> IF u \in unread THEN isporuke[<<n, u>>] ELSE NoRow]
  <2>1. resend' = [resend EXCEPT ![n] =
                     [active |-> TRUE, at |-> now, unread |-> unread, copy |-> copy]]
    BY <1>5 DEF resend_load
  <2>2. UNCHANGED <<primaoci, isporuke>>
    BY <1>5 DEF resend_load, inbox
  <2>3. \A u \in unread : u \in primaoci[n] /\ copy[u].status # "NONE"
    BY DEF RecipientsHaveRows, OutboxMatchesRecipients, TypeOK, Rows
  <2> HIDE DEF unread, copy
  <2>4. resend'[n].unread = unread /\ resend'[n].copy = copy
    BY <2>1 DEF TypeOK
  <2>5. \A m \in Notif \ {n} : resend'[m] = resend[m]
    BY <2>1 DEF TypeOK
  <2> QED BY <2>2, <2>3, <2>4, <2>5 DEF RecipientsHaveRows, OutboxMatchesRecipients
<1>6. ASSUME NEW n \in Notif, resend_commit(n) PROVE RecipientsHaveRows'
  <2>1. /\ UNCHANGED primaoci /\ ~resend'[n].active
        /\ \A m \in Notif \ {n} : resend'[m] = resend[m]
    BY <1>6 DEF resend_commit, inbox, TypeOK, NoResend
  <2>2. \A d \in Rows : isporuke'[d].status = "NONE" <=> isporuke[d].status = "NONE"
    BY <1>6, ResendReopens
  <2> QED BY <2>1, <2>2 DEF RecipientsHaveRows, OutboxMatchesRecipients
<1>7. CASE Employees \/ Tick
  <2>1. UNCHANGED <<primaoci, resend, isporuke>>
    BY <1>7 DEF Employees, Tick, mark_read, mark_unread, login, logout, upsert,
                session_expires, account_changes, inbox
  <2> QED BY <1>1, <2>1
<1>8. CASE claim_ready_batch \/ process_next \/ Failures
  BY <1>1, <1>8 DEF claim_ready_batch, process_next, Failures, crash, rollback_row, inbox
<1>9. ASSUME NEW d \in Rows, process_one(d) PROVE RecipientsHaveRows'
  <2>1. CASE commit_row(d)
    <3>1. UNCHANGED <<primaoci, resend>>
      BY <2>1 DEF commit_row, inbox
    <3>2. \A e \in Rows : isporuke'[e].status = "NONE" <=> isporuke[e].status = "NONE"
      BY <2>1, CommitRecords
    <3> QED BY <1>1, <3>1, <3>2
  <2>2. CASE ~commit_row(d)
    <3>1. UNCHANGED <<primaoci, resend, isporuke>>
      BY <1>9, <2>2 DEF process_one, check_notification, check_user, get_active_token,
             check_session, send_ok, send_invalid_token, send_error, inbox
    <3> QED BY <1>1, <3>1
  <2> QED BY <2>1, <2>2
<1> QED BY <1>2, <1>3, <1>4, <1>5, <1>6, <1>7, <1>8, <1>9
        DEF Next, Administration, process_batch

\* What the rest builds on.
Books == TypeOK /\ Bookkeeping /\ RecipientsHaveRows

LEMMA InitBooks == Init => Books
<1> SUFFICES ASSUME Init PROVE RecipientsHaveRows
  BY InitTypeOK, InitBookkeeping DEF Books
<1> QED BY DEF Init, RecipientsHaveRows, OutboxMatchesRecipients, NoCopies, NoRow, NoResend, Rows

LEMMA StepBooks == Books /\ [Next]_vars => Books'
BY StepTypeOK, StepBookkeeping, StepRecipients DEF Books

-----------------------------------------------------------------------------
(* Open rows can be claimed, closed rows stay closed until a resend *)

\* A resend overwrites the whole of a row it loaded closed.
LEMMA ClosedRowRequeued ==
  ASSUME Books, ClosedCopyIsCurrent, NEW n \in Notif, resend_commit(n),
         NEW d \in Rows, d[1] = n, d[2] \in resend[n].unread,
         resend[n].copy[d[2]].status # "PENDING"
  PROVE  isporuke'[d] = requeued(isporuke[d], resend[n].at)
<1>1. d = <<n, d[2]>>
  BY DEF Rows
<1>2. resend[n].copy[d[2]] = isporuke[d]
  BY <1>1 DEF ClosedCopyIsCurrent, resend_commit
<1>3. isporuke'[d] = flush(isporuke[d], isporuke[d], requeued(isporuke[d], resend[n].at))
  BY <1>2 DEF resend_commit
<1> QED BY <1>3 DEF flush, column, requeued

\* A resend of a row that is open, before and after, leaves it retriable.
LEMMA OpenRowRequeued ==
  ASSUME NEW s \in Row, NEW l \in Row, NEW t \in Nat, Retriable(s)
  PROVE  Retriable(flush(s, l, requeued(l, t)))
BY ConstantsAssumption DEF flush, column, requeued, Retriable, Row, NoTime

LEMMA OpenRowFlushed ==
  ASSUME NEW s \in Row, NEW l \in Row, NEW r \in Row, Retriable(s), Retriable(r)
  PROVE  Retriable(flush(s, l, r))
BY DEF flush, column, Retriable

LEMMA ResendCommitOpenness ==
  ASSUME Books, Openness, NEW n \in Notif, resend_commit(n) PROVE Openness'
<1>1. /\ UNCHANGED worker /\ resend[n].active /\ ~resend'[n].active
      /\ \A m \in Notif \ {n} : resend'[m] = resend[m]
  BY DEF resend_commit, Books, TypeOK, NoResend
<1>2. \A d \in Rows : ~(d[1] = n /\ d[2] \in resend[n].unread) => isporuke'[d] = isporuke[d]
  BY DEF resend_commit
<1>3. HeldRowsRetriable'
  BY <1>1 DEF Openness, HeldRowsRetriable, Retriable
<1>4. ClosedCopyIsCurrent'
  <2>1. \A m \in Notif, u \in User : m # n => isporuke'[<<m, u>>] = isporuke[<<m, u>>]
    BY <1>2 DEF Rows
  <2>2. \A m \in Notif : resend[m].unread \in SUBSET User
    BY DEF Books, TypeOK
  <2> QED BY <1>1, <2>1, <2>2 DEF Openness, ClosedCopyIsCurrent
<1>5. ASSUME NEW d \in Rows, isporuke'[d].status = "PENDING" PROVE Retriable(isporuke'[d])
  <2>1. CASE ~(d[1] = n /\ d[2] \in resend[n].unread)
    BY <1>2, <1>5, <2>1 DEF Openness, PendingIsClaimable, Retriable
  <2>2. CASE d[1] = n /\ d[2] \in resend[n].unread
    <3> DEFINE l == resend[n].copy[d[2]]
    <3>1. /\ isporuke'[d] = flush(isporuke[d], l, requeued(l, resend[n].at))
          /\ l \in Row /\ isporuke[d] \in Row /\ resend[n].at \in Nat
      BY <2>2 DEF resend_commit, Books, TypeOK
    <3>2. CASE l.status = "PENDING"
      <4> HIDE DEF l
      <4>1. isporuke[d].status = "PENDING"
        BY <1>5, <3>1, <3>2, FlushRequeued
      <4>2. Retriable(isporuke[d])
        BY <4>1 DEF Openness, PendingIsClaimable, Retriable
      <4> QED BY <3>1, <4>2, OpenRowRequeued
    <3>3. CASE l.status # "PENDING"
      <4>1. isporuke'[d] = requeued(isporuke[d], resend[n].at)
        BY <2>2, <3>3, ClosedRowRequeued DEF Openness
      <4> QED BY <3>1, <4>1, ConstantsAssumption DEF requeued, Retriable, NoTime
    <3> QED BY <3>2, <3>3
  <2> QED BY <2>1, <2>2
<1>6. PendingIsClaimable'
  BY <1>5 DEF PendingIsClaimable, Retriable
<1> QED BY <1>3, <1>4, <1>6 DEF Openness

LEMMA InitOpenness == Init => Openness
BY DEF Init, Openness, PendingIsClaimable, HeldRowsRetriable, ClosedCopyIsCurrent, Idle,
       Resting, NoCopies, NoRow, NoResend

\* A step that leaves the rows and the resends alone.
LEMMA HeldOpenness ==
  ASSUME Openness, UNCHANGED <<isporuke, resend>>, HeldRowsRetriable' PROVE Openness'
BY DEF Openness, PendingIsClaimable, ClosedCopyIsCurrent

LEMMA PublishOpenness ==
  ASSUME Books, Openness, NEW n \in Notif, apply_publish(n) PROVE Openness'
<1>1. UNCHANGED <<worker, resend>> /\ notif[n].status = "DRAFT" /\ now \in Nat
  BY DEF apply_publish, Books, TypeOK
<1>2. \A d \in Rows : isporuke'[d] # isporuke[d] => d[1] = n /\ isporuke'[d] = add_pending(now)
  BY DEF apply_publish
<1>3. PendingIsClaimable'
  <2>1. add_pending(now).broj_pokusaja = 0 /\ add_pending(now).sledeci_pokusaj = now
    BY DEF add_pending, NoRow
  <2>2. Retriable(add_pending(now))
    BY <1>1, <2>1, ConstantsAssumption DEF Retriable, NoTime
  <2> QED BY <1>2, <2>2 DEF Openness, PendingIsClaimable, Retriable
<1>4. HeldRowsRetriable'
  BY <1>1 DEF Openness, HeldRowsRetriable
<1>5. ClosedCopyIsCurrent'
  <2>1. ~resend[n].active
    BY <1>1 DEF Books, Bookkeeping, ResendCountCurrent
  <2>2. \A m \in Notif, u \in User : m # n => isporuke'[<<m, u>>] = isporuke[<<m, u>>]
    BY <1>2 DEF Rows
  <2>3. \A m \in Notif : resend[m].unread \in SUBSET User
    BY DEF Books, TypeOK
  <2> QED BY <1>1, <2>1, <2>2, <2>3 DEF Openness, ClosedCopyIsCurrent
<1> QED BY <1>3, <1>4, <1>5 DEF Openness

LEMMA ResendLoadOpenness ==
  ASSUME Books, Openness, NEW n \in Notif, resend_load(n) PROVE Openness'
<1> DEFINE unread == primaoci[n] \ procitano[n]
           copy == [u \in User |-> IF u \in unread THEN isporuke[<<n, u>>] ELSE NoRow]
<1>1. resend' = [resend EXCEPT ![n] =
                   [active |-> TRUE, at |-> now, unread |-> unread, copy |-> copy]]
  BY DEF resend_load
<1>2. UNCHANGED <<isporuke, worker>>
  BY DEF resend_load
<1>3. \A u \in unread : copy[u] = isporuke[<<n, u>>]
  BY DEF Books, TypeOK
<1> HIDE DEF unread, copy
<1>4. resend'[n].unread = unread /\ resend'[n].copy = copy
  BY <1>1 DEF Books, TypeOK
<1>5. \A m \in Notif \ {n} : resend'[m] = resend[m]
  BY <1>1 DEF Books, TypeOK
<1>6. ClosedCopyIsCurrent'
  BY <1>2, <1>3, <1>4, <1>5 DEF Openness, ClosedCopyIsCurrent
<1>7. PendingIsClaimable' /\ HeldRowsRetriable'
  BY <1>2 DEF Openness, PendingIsClaimable, HeldRowsRetriable
<1> QED BY <1>6, <1>7 DEF Openness

LEMMA TakeOpenness ==
  ASSUME Books, Openness, claim_ready_batch \/ process_next PROVE Openness'
<1>1. CASE claim_ready_batch
  <2>1. PICK batch \in SUBSET {d \in Rows : due(d)} : worker' = Resting("pick", batch,
          [d \in Rows |-> IF d \in batch THEN isporuke[d] ELSE NoRow], FALSE)
    BY <1>1 DEF claim_ready_batch
  <2>2. /\ worker'.pc = "pick" /\ worker'.cur = {} /\ worker'.todo = batch
        /\ \A d \in batch : worker'.copy[d] = isporuke[d] /\ isporuke[d].status = "PENDING"
    BY <2>1 DEF Resting, due
  <2>3. HeldRowsRetriable'
    BY <2>2 DEF Openness, PendingIsClaimable, HeldRowsRetriable, Retriable
  <2> QED BY <1>1, <2>3, HeldOpenness DEF claim_ready_batch
<1>2. CASE process_next
  <2>1. PICK d \in worker.todo :
          LET red == IF worker.expired THEN isporuke[d] ELSE worker.copy[d] IN
          worker' = [worker EXCEPT !.pc = "notif", !.todo = @ \ {d}, !.cur = {d},
                                   !.copy = [@ EXCEPT ![d] = red], !.new = red,
                                   !.at = now]
    BY <1>2 DEF process_next
  <2> DEFINE red == IF worker.expired THEN isporuke[d] ELSE worker.copy[d]
  <2>2. d \in Rows /\ worker \in Worker /\ isporuke[d].status = "PENDING"
    BY DEF Books, Bookkeeping, TypeOK, Worker, ClaimedStaysPending
  <2>3. Retriable(red)
    BY <2>2 DEF Openness, PendingIsClaimable, HeldRowsRetriable, Retriable
  <2> HIDE DEF red
  <2>4. worker' = [worker EXCEPT !.pc = "notif", !.todo = @ \ {d}, !.cur = {d},
                                 !.copy = [@ EXCEPT ![d] = red], !.new = red, !.at = now]
    BY <2>1 DEF red
  <2>5. /\ worker'.pc = "notif" /\ worker'.cur = {d} /\ worker'.todo = worker.todo \ {d}
        /\ worker'.copy[d] = red
        /\ \A e \in worker'.todo : worker'.copy[e] = worker.copy[e]
    BY <2>2, <2>4 DEF Worker
  <2>6. HeldRowsRetriable'
    BY <2>3, <2>5 DEF Openness, HeldRowsRetriable
  <2> QED BY <1>2, <2>6, HeldOpenness DEF process_next
<1> QED BY <1>1, <1>2

LEMMA PrepareOpenness ==
  ASSUME Books, Openness, NEW d \in Rows,
         \/ check_notification(d) \/ check_user(d) \/ get_active_token(d) \/ check_session(d)
         \/ send_ok(d) \/ send_invalid_token(d) \/ send_error(d)
  PROVE  Openness'
<1>1. d \in worker.cur /\ worker.pc # "commit" /\ UNCHANGED <<isporuke, resend>>
  BY DEF check_notification, check_user, get_active_token, check_session, send_ok,
         send_invalid_token, send_error
<1>2. /\ worker \in Worker /\ worker.new \in Row /\ worker.new = worker.copy[d]
      /\ Retriable(worker.new)
  BY <1>1 DEF Books, Bookkeeping, TypeOK, Worker, WorkerShape, Openness, HeldRowsRetriable
<1> DEFINE Kept == /\ worker'.cur = worker.cur /\ worker'.todo = worker.todo
                   /\ worker'.copy = worker.copy
<1>3. ASSUME Kept, worker'.pc # "commit" \/ worker'.new.status # "PENDING"
                     \/ Retriable(worker'.new)
      PROVE  Openness'
  <2>1. HeldRowsRetriable'
    BY <1>3 DEF Openness, HeldRowsRetriable, Retriable
  <2> QED BY <1>1, <2>1, HeldOpenness
<1>4. ASSUME NEW step, goto(step), step # "commit" PROVE Openness'
  BY <1>2, <1>3, <1>4 DEF goto, Worker
<1>5. ASSUME skip(d) PROVE Openness'
  <2>1. Kept /\ worker'.new.status = "SKIPPED"
    BY <1>2, <1>5 DEF skip, Worker, Row
  <2> QED BY <1>3, <2>1
<1>6. ASSUME NEW dropped, postpone(d, dropped) PROVE Openness'
  <2>1. Kept /\ worker'.new = [worker.new EXCEPT !.status = "PENDING",
                                 !.sledeci_pokusaj = worker.at + NO_TOKEN_BACKOFF_MIN]
    BY <1>2, <1>6 DEF postpone, Worker
  <2>2. worker.at \in Nat
    BY <1>2 DEF Worker
  <2>3. Retriable(worker'.new)
    BY <1>2, <2>1, <2>2 DEF Retriable, Row, NoTime, NO_TOKEN_BACKOFF_MIN
  <2> QED BY <1>3, <2>1, <2>3
<1>7. CASE check_notification(d) \/ check_user(d)
  BY <1>4, <1>5, <1>7 DEF check_notification, check_user
<1>8. CASE get_active_token(d)
  <2>1. CASE token[d[2]] = NoDevice
    BY <1>6, <1>8, <2>1 DEF get_active_token
  <2>2. CASE token[d[2]] # NoDevice
    <3>1. Kept /\ worker'.pc = "session"
      BY <1>2, <1>8, <2>2 DEF get_active_token, Worker
    <3> QED BY <1>3, <3>1
  <2> QED BY <2>1, <2>2
<1>9. CASE check_session(d)
  BY <1>4, <1>6, <1>9 DEF check_session
<1>10. CASE send_ok(d)
  <2>1. Kept /\ worker'.new.status = "SENT"
    BY <1>2, <1>10 DEF send_ok, Worker, Row
  <2> QED BY <1>3, <2>1
<1>11. CASE send_invalid_token(d)
  BY <1>6, <1>11 DEF send_invalid_token
<1>12. CASE send_error(d)
  <2> DEFINE pokusaji == worker.copy[d].broj_pokusaja + 1
  <2>1. pokusaji \in Nat \ {0} /\ worker.at \in Nat
    BY <1>2 DEF Row, Worker
  <2>2. retry_backoff(pokusaji) \in Nat
    BY <2>1, BackoffType
  <2> DEFINE wait == retry_backoff(pokusaji)
  <2>3. worker' = [worker EXCEPT !.pc = "commit", !.new =
          IF last_attempt(pokusaji)
            THEN [@ EXCEPT !.status = "FAILED", !.broj_pokusaja = pokusaji,
                           !.sledeci_pokusaj = NoTime]
            ELSE [@ EXCEPT !.status = "PENDING", !.broj_pokusaja = pokusaji,
                           !.sledeci_pokusaj = worker.at + wait]]
    BY <1>12 DEF send_error
  <2>4. wait \in Nat
    BY <2>2
  <2> HIDE DEF pokusaji, wait
  <2>5. CASE last_attempt(pokusaji)
    <3>1. Kept /\ worker'.new.status = "FAILED"
      BY <1>2, <2>3, <2>5 DEF Worker, Row
    <3> QED BY <1>3, <3>1
  <2>6. CASE ~last_attempt(pokusaji)
    <3>1. Kept /\ worker'.new.broj_pokusaja = pokusaji
            /\ worker'.new.sledeci_pokusaj = worker.at + wait
      BY <1>2, <2>3, <2>6 DEF Worker, Row
    <3>2. Retriable(worker'.new)
      BY <2>1, <2>4, <2>6, <3>1, ConstantsAssumption DEF last_attempt, Retriable, NoTime
    <3> QED BY <1>3, <3>1, <3>2
  <2> QED BY <2>5, <2>6
<1> QED BY <1>7, <1>8, <1>9, <1>10, <1>11, <1>12

LEMMA CommitOpenness ==
  ASSUME Books, Openness, NEW d \in Rows, commit_row(d) PROVE Openness'
<1>1. TypeOK /\ Bookkeeping
  BY DEF Books
<1>2. /\ isporuke[d].status = "PENDING" /\ isporuke'[d].status = worker.new.status
      /\ \A e \in Rows \ {d} : isporuke'[e] = isporuke[e]
  BY <1>1, CommitRecords
<1>3. /\ d \in worker.cur /\ worker.pc = "commit" /\ UNCHANGED resend
      /\ worker' = Advance(worker.expired)
      /\ isporuke'[d] = flush(isporuke[d], worker.copy[d], worker.new)
  BY <1>1 DEF commit_row, TypeOK
<1>4. HeldRowsRetriable'
  <2>1. /\ worker'.pc \in {"idle", "pick"} /\ worker'.cur = {} /\ worker'.todo = worker.todo
        /\ \A e \in worker.todo : worker'.copy[e] = worker.copy[e]
    BY <1>1, <1>3, AdvanceShape DEF TypeOK
  <2> QED BY <2>1 DEF Openness, HeldRowsRetriable
<1>5. PendingIsClaimable'
  <2> SUFFICES ASSUME isporuke'[d].status = "PENDING" PROVE Retriable(isporuke'[d])
    BY <1>2 DEF Openness, PendingIsClaimable, Retriable
  <2>1. Retriable(isporuke[d]) /\ Retriable(worker.new)
    BY <1>2, <1>3 DEF Openness, PendingIsClaimable, HeldRowsRetriable, Retriable
  <2>2. isporuke[d] \in Row /\ worker.copy[d] \in Row /\ worker.new \in Row
    BY <1>1 DEF TypeOK, Worker
  <2> QED BY <1>3, <2>1, <2>2, OpenRowFlushed
<1>6. ClosedCopyIsCurrent'
  <2> SUFFICES ASSUME NEW n \in Notif, resend[n].active, NEW u \in resend[n].unread,
                      resend[n].copy[u].status # "PENDING"
               PROVE  isporuke'[<<n, u>>] = resend[n].copy[u]
    BY <1>3 DEF ClosedCopyIsCurrent
  <2>1. <<n, u>> \in Rows
    BY <1>1 DEF TypeOK, Rows
  <2>2. isporuke[<<n, u>>] = resend[n].copy[u]
    BY DEF Openness, ClosedCopyIsCurrent
  <2> QED BY <1>2, <2>1, <2>2
<1> QED BY <1>4, <1>5, <1>6 DEF Openness

LEMMA FailureOpenness ==
  ASSUME Books, Openness, Failures PROVE Openness'
<1>1. UNCHANGED <<isporuke, resend>>
  BY DEF Failures, crash, rollback_row
<1>2. worker' = Idle \/ worker' = Advance(TRUE)
  BY DEF Failures, crash, rollback_row
<1>3. /\ Idle.pc = "idle" /\ Idle.cur = {} /\ Idle.todo = {}
      /\ Advance(TRUE).pc \in {"idle", "pick"} /\ Advance(TRUE).cur = {}
      /\ Advance(TRUE).todo = worker.todo
      /\ \A e \in worker.todo : Advance(TRUE).copy[e] = worker.copy[e]
  BY AdvanceShape DEF Books, TypeOK, Idle, Resting
<1>4. CASE worker' = Idle
  <2>1. HeldRowsRetriable'
    BY <1>3, <1>4 DEF HeldRowsRetriable
  <2> QED BY <1>1, <2>1, HeldOpenness
<1>5. CASE worker' = Advance(TRUE)
  <2>1. HeldRowsRetriable'
    BY <1>3, <1>5 DEF Openness, HeldRowsRetriable
  <2> QED BY <1>1, <2>1, HeldOpenness
<1> QED BY <1>2, <1>4, <1>5

LEMMA StepOpenness == Books /\ Openness /\ [Next]_vars => Openness'
<1> SUFFICES ASSUME Books, Openness, [Next]_vars PROVE Openness'
  OBVIOUS
<1>1. ASSUME UNCHANGED <<isporuke, resend, worker>> PROVE Openness'
  BY <1>1, HeldOpenness DEF Openness, HeldRowsRetriable
<1>2. CASE UNCHANGED vars
  BY <1>1, <1>2 DEF vars
<1>3. CASE Administration
  BY <1>1, <1>3, PublishOpenness, ResendLoadOpenness, ResendCommitOpenness
     DEF Administration, apply_archive
<1>4. CASE Employees \/ Tick
  BY <1>1, <1>4 DEF Employees, Tick, mark_read, mark_unread, login, logout, upsert,
              session_expires, account_changes
<1>5. CASE process_batch
  BY <1>5, TakeOpenness, PrepareOpenness, CommitOpenness DEF process_batch, process_one
<1>6. CASE Failures
  BY <1>6, FailureOpenness
<1> QED BY <1>2, <1>3, <1>4, <1>5, <1>6 DEF Next

-----------------------------------------------------------------------------
(* Attempts: an acceptance, answered or not, uses up one *)

Attempting == UnconfirmedInHand /\ AttemptsCounted /\ AttemptCredit

\* What is outstanding is one acceptance at most, of the row in hand, and an open row has an
\* attempt for it.
LEMMA Outstanding ==
  ASSUME Books, Openness, Attempting, NEW d \in Rows
  PROVE  /\ outstanding(d) \in {0, 1} /\ attempts(d) \in 0..MaxAttempts
         /\ outstanding(d) = 1 => worker.pc = "commit" /\ d \in worker.cur
         /\ isporuke[d].status = "PENDING" =>
              attempts(d) = MaxAttempts - isporuke[d].broj_pokusaja - outstanding(d)
         /\ isporuke[d].status # "PENDING" => attempts(d) = 0
         /\ accepted[d] + attempts(d) <= MaxAttempts * openings(d) + lost[d]
<1>1. outstanding(d) \in {0, 1}
  BY DEF outstanding
<1>2. outstanding(d) = 1 => worker.pc = "commit" /\ d \in worker.cur
  BY DEF outstanding, unrecorded, Attempting, UnconfirmedInHand
<1>3. isporuke[d].broj_pokusaja \in Nat /\ MaxAttempts \in Nat \ {0}
  BY ConstantsAssumption DEF Books, TypeOK, Row
<1>4. isporuke[d].status = "PENDING" => isporuke[d].broj_pokusaja < MaxAttempts
  BY DEF Openness, PendingIsClaimable
<1>5. attempts(d) = IF isporuke[d].status = "PENDING"
                      THEN MaxAttempts - isporuke[d].broj_pokusaja - outstanding(d) ELSE 0
  BY DEF attempts
<1>6. attempts(d) \in 0..MaxAttempts
  BY <1>1, <1>3, <1>4, <1>5
<1>7. accepted[d] + attempts(d) <= MaxAttempts * openings(d) + lost[d]
  BY DEF Attempting, AttemptCredit
<1> QED BY <1>1, <1>2, <1>5, <1>6, <1>7

\* The types of the numbers that the credit is made of.
LEMMA CreditTypes ==
  ASSUME TypeOK, NEW d \in Rows
  PROVE  /\ accepted[d] \in Nat /\ lost[d] \in Nat /\ openings(d) \in Nat
         /\ isporuke[d].broj_pokusaja \in Nat /\ MaxAttempts \in Nat \ {0}
         /\ MaxAttempts * openings(d) \in Nat
<1>1. /\ accepted[d] \in Nat /\ lost[d] \in Nat
      /\ isporuke[d].broj_pokusaja \in Nat /\ isporuke[d].ponovnih \in Nat
  BY DEF TypeOK, Row
<1>2. openings(d) \in Nat /\ MaxAttempts \in Nat \ {0}
  BY <1>1, ConstantsAssumption DEF openings
<1> QED BY <1>1, <1>2

LEMMA SameAttempts ==
  ASSUME Attempting, UNCHANGED <<isporuke, worker, unconfirmed, accepted, lost>>
  PROVE  Attempting'
<1>1. UnconfirmedInHand' /\ AttemptsCounted'
  BY DEF Attempting, UnconfirmedInHand, AttemptsCounted
<1>2. AttemptCredit'
  BY DEF Attempting, AttemptCredit, attempts, openings, outstanding, unrecorded
<1> QED BY <1>1, <1>2 DEF Attempting

\* When the worker and the acceptances stay, only the rows' own part has to be shown.
LEMMA RowsAttempts ==
  ASSUME Books, Attempting, UNCHANGED <<worker, unconfirmed, accepted, lost>>,
         \A d \in worker.todo \cup worker.cur :
           isporuke'[d].broj_pokusaja <= worker.copy[d].broj_pokusaja,
         \A d \in Rows : accepted[d] + attempts(d)' <= MaxAttempts * openings(d)' + lost[d]
  PROVE  Attempting'
<1>1. UnconfirmedInHand'
  BY DEF Attempting, UnconfirmedInHand
<1>2. AttemptsCounted'
  BY DEF Attempting, AttemptsCounted
<1>3. AttemptCredit'
  BY DEF AttemptCredit
<1> QED BY <1>1, <1>2, <1>3 DEF Attempting

LEMMA PublishAttempts ==
  ASSUME Books, Openness, Attempting, NEW n \in Notif, apply_publish(n) PROVE Attempting'
<1>1. UNCHANGED <<worker, unconfirmed, accepted, lost>>
  BY DEF apply_publish, hist, counts
<1>2. \A d \in Rows : isporuke'[d] # isporuke[d] =>
        isporuke[d].status = "NONE" /\ isporuke'[d] = add_pending(now)
  BY DEF apply_publish
<1>3. ASSUME NEW d \in worker.todo \cup worker.cur
      PROVE  isporuke'[d].broj_pokusaja <= worker.copy[d].broj_pokusaja
  <2>1. d \in Rows /\ isporuke[d].status = "PENDING"
    BY DEF Books, TypeOK, Worker, Bookkeeping, ClaimedStaysPending
  <2>2. isporuke'[d] = isporuke[d]
    BY <1>2, <2>1
  <2> QED BY <2>2 DEF Attempting, AttemptsCounted
<1>4. ASSUME NEW d \in Rows
      PROVE  accepted[d] + attempts(d)' <= MaxAttempts * openings(d)' + lost[d]
  <2>1. outstanding(d)' = outstanding(d)
    BY <1>1 DEF outstanding, unrecorded
  <2>2. CASE isporuke'[d] = isporuke[d]
    <3>1. attempts(d)' = attempts(d) /\ openings(d)' = openings(d)
      BY <2>1, <2>2 DEF attempts, openings
    <3> QED BY <3>1, Outstanding
  <2>3. CASE isporuke'[d] # isporuke[d]
    <3>1. isporuke[d] = NoRow /\ isporuke'[d] = add_pending(now)
      BY <1>2, <2>3 DEF Books, Bookkeeping, AbsentRowsAreBlank
    <3>2. openings(d) = 0 /\ openings(d)' = 1
      BY <3>1 DEF openings, NoRow, add_pending
    <3>3. attempts(d) = 0 /\ attempts(d)' = MaxAttempts - 0 - outstanding(d)
      BY <2>1, <3>1 DEF attempts, NoRow, add_pending
    <3>4. outstanding(d) \in {0, 1} /\ accepted[d] + attempts(d) <= MaxAttempts * openings(d) + lost[d]
      BY Outstanding
    <3>5. accepted[d] \in Nat /\ lost[d] \in Nat /\ MaxAttempts \in Nat
      BY CreditTypes DEF Books
    <3>6. MaxAttempts * 0 = 0 /\ MaxAttempts * 1 = MaxAttempts
      BY <3>5
    <3> QED BY <3>2, <3>3, <3>4, <3>5, <3>6
  <2> QED BY <2>2, <2>3
<1> QED BY <1>1, <1>3, <1>4, RowsAttempts

\* A flush of a requeued copy resets the attempts or leaves them.
LEMMA FlushResets ==
  ASSUME NEW s \in Row, NEW l \in Row, NEW t \in Nat
  PROVE  flush(s, l, requeued(l, t)).broj_pokusaja <= s.broj_pokusaja
BY DEF flush, requeued, column, Row

LEMMA ResendAttempts ==
  ASSUME Books, Openness, Attempting, NEW n \in Notif, resend_commit(n), Openness'
  PROVE  Attempting'
<1>1. UNCHANGED <<worker, unconfirmed, accepted, lost>>
  BY DEF resend_commit, hist, counts
<1> DEFINE Loaded(d) == d[1] = n /\ d[2] \in resend[n].unread
<1>2. \A d \in Rows : ~Loaded(d) => isporuke'[d] = isporuke[d]
  BY DEF resend_commit
<1>3. ASSUME NEW d \in Rows, Loaded(d)
      PROVE  isporuke'[d].broj_pokusaja <= isporuke[d].broj_pokusaja
  <2>1. /\ isporuke'[d] = flush(isporuke[d], resend[n].copy[d[2]],
                                requeued(resend[n].copy[d[2]], resend[n].at))
        /\ resend[n].copy[d[2]] \in Row /\ isporuke[d] \in Row /\ resend[n].at \in Nat
    BY <1>3 DEF resend_commit, Books, TypeOK
  <2> QED BY <2>1, FlushResets
<1>4. ASSUME NEW d \in worker.todo \cup worker.cur
      PROVE  isporuke'[d].broj_pokusaja <= worker.copy[d].broj_pokusaja
  <2>1. d \in Rows /\ worker.copy[d].broj_pokusaja \in Nat
    BY DEF Books, TypeOK, Worker, Row
  <2>2. isporuke[d].broj_pokusaja <= worker.copy[d].broj_pokusaja
    BY DEF Attempting, AttemptsCounted
  <2>3. CASE Loaded(d)
    <3>1. isporuke'[d].broj_pokusaja <= isporuke[d].broj_pokusaja
      BY <1>3, <2>1, <2>3
    <3>2. isporuke[d].broj_pokusaja \in Nat /\ isporuke'[d].broj_pokusaja \in Nat
      BY <2>1, StepTypeOK DEF Books, TypeOK, Row, Next, Administration
    <3> QED BY <2>1, <2>2, <3>1, <3>2
  <2>4. CASE ~Loaded(d)
    BY <1>2, <2>1, <2>2, <2>4
  <2> QED BY <2>3, <2>4
<1>5. ASSUME NEW d \in Rows
      PROVE  accepted[d] + attempts(d)' <= MaxAttempts * openings(d)' + lost[d]
  <2>1. outstanding(d)' = outstanding(d)
    BY <1>1 DEF outstanding, unrecorded
  <2>2. CASE ~Loaded(d)
    <3>1. attempts(d)' = attempts(d) /\ openings(d)' = openings(d)
      BY <1>2, <2>1, <2>2 DEF attempts, openings
    <3> QED BY <3>1, Outstanding
  <2>3. CASE Loaded(d)
    <3>1. openings(d)' = openings(d) + 1
      <4>1. /\ isporuke'[d].ponovnih = isporuke[d].ponovnih + 1
            /\ resend[n].copy[d[2]].status # "NONE" => isporuke[d].status # "NONE"
        BY <2>3, ResendEffect DEF Books
      <4>2. resend[n].copy[d[2]].status # "NONE"
        BY <2>3 DEF Books, RecipientsHaveRows, resend_commit
      <4>3. isporuke'[d].status # "NONE"
        BY <4>1, <4>2, ResendReopens DEF Books
      <4>4. isporuke[d].ponovnih \in Nat
        BY DEF Books, TypeOK, Row
      <4> QED BY <4>1, <4>2, <4>3, <4>4 DEF openings
    <3>2. isporuke'[d].broj_pokusaja \in Nat
      BY StepTypeOK DEF Books, TypeOK, Row, Next, Administration
    <3>3. outstanding(d) \in {0, 1} /\ attempts(d) \in 0..MaxAttempts
            /\ accepted[d] + attempts(d) <= MaxAttempts * openings(d) + lost[d]
      BY Outstanding
    <3>4. /\ accepted[d] \in Nat /\ lost[d] \in Nat /\ MaxAttempts \in Nat
          /\ openings(d) \in Nat /\ MaxAttempts * openings(d) \in Nat
      BY CreditTypes DEF Books
    <3>5. attempts(d)' <= MaxAttempts /\ attempts(d)' \in Int
      BY <2>1, <3>2, <3>3, <3>4 DEF attempts
    <3>6. MaxAttempts * (openings(d) + 1) = MaxAttempts * openings(d) + MaxAttempts
      BY <3>4
    <3>7. accepted[d] + attempts(d)' <= (MaxAttempts * openings(d) + MaxAttempts) + lost[d]
      BY <3>3, <3>4, <3>5
    <3> QED BY <3>1, <3>6, <3>7
  <2> QED BY <2>2, <2>3
<1> QED BY <1>1, <1>4, <1>5, RowsAttempts

\* A step on rows in hand, or between two rows, that leaves the table alone: what becomes
\* outstanding was just accepted, and what no longer is was lost.
LEMMA HandAttempts ==
  ASSUME Books, Openness, Attempting, UNCHANGED isporuke, UnconfirmedInHand', AttemptsCounted',
         \A e \in worker'.cur : isporuke[e].status = "PENDING",
         \A e \in Rows : /\ accepted'[e] \in Nat /\ lost'[e] \in Nat
                         /\ accepted'[e] + lost[e] + outstanding(e)
                              = accepted[e] + lost'[e] + outstanding(e)'
  PROVE  Attempting'
<1> SUFFICES ASSUME NEW e \in Rows
             PROVE  accepted'[e] + attempts(e)' <= MaxAttempts * openings(e)' + lost'[e]
  BY DEF Attempting, AttemptCredit
<1>1. openings(e)' = openings(e)
  BY DEF openings
<1>2. /\ accepted[e] \in Nat /\ lost[e] \in Nat /\ MaxAttempts \in Nat
      /\ MaxAttempts * openings(e) \in Nat /\ isporuke[e].broj_pokusaja \in Nat
  BY CreditTypes DEF Books
<1>3. outstanding(e) \in {0, 1} /\ outstanding(e)' \in {0, 1}
  BY DEF outstanding
<1>4. accepted[e] + attempts(e) <= MaxAttempts * openings(e) + lost[e]
  BY Outstanding
<1>5. CASE isporuke[e].status = "PENDING"
  <2>1. /\ attempts(e) = MaxAttempts - isporuke[e].broj_pokusaja - outstanding(e)
        /\ attempts(e)' = MaxAttempts - isporuke[e].broj_pokusaja - outstanding(e)'
    BY <1>5 DEF attempts
  <2> QED BY <1>1, <1>2, <1>3, <1>4, <2>1
<1>6. CASE isporuke[e].status # "PENDING"
  <2>1. attempts(e) = 0 /\ attempts(e)' = 0
    BY <1>6 DEF attempts
  <2>2. outstanding(e)' = 0
    <3>1. e \notin worker'.cur
      BY <1>6
    <3> QED BY <3>1 DEF outstanding, unrecorded, UnconfirmedInHand
  <2> QED BY <1>1, <1>2, <1>3, <1>4, <2>1, <2>2
<1> QED BY <1>5, <1>6

LEMMA TakeAttempts ==
  ASSUME Books, Openness, Attempting, claim_ready_batch \/ process_next PROVE Attempting'
<1>1. worker.pc # "commit" /\ UNCHANGED <<isporuke, unconfirmed, accepted, lost>>
  BY DEF claim_ready_batch, process_next, hist, counts
<1>2. unconfirmed = {}
  BY <1>1 DEF Attempting, UnconfirmedInHand
<1>3. worker'.pc # "commit"
  <2>1. CASE claim_ready_batch
    BY <2>1 DEF claim_ready_batch, Resting
  <2>2. CASE process_next
    BY <2>2 DEF process_next, Books, TypeOK, Worker
  <2> QED BY <2>1, <2>2
<1>4. UnconfirmedInHand'
  BY <1>1, <1>2 DEF UnconfirmedInHand
<1>5. AttemptsCounted' /\ \A e \in worker'.cur : isporuke[e].status = "PENDING"
  <2>1. CASE claim_ready_batch
    <3>1. PICK batch \in SUBSET {d \in Rows : due(d)} : worker' = Resting("pick", batch,
            [d \in Rows |-> IF d \in batch THEN isporuke[d] ELSE NoRow], FALSE)
      BY <2>1 DEF claim_ready_batch
    <3>2. /\ worker'.cur = {} /\ worker'.todo = batch
          /\ \A d \in batch : worker'.copy[d] = isporuke[d] /\ d \in Rows
      BY <3>1 DEF Resting
    <3>3. \A d \in Rows : isporuke[d].broj_pokusaja \in Nat
      BY DEF Books, TypeOK, Row
    <3> QED BY <1>1, <3>2, <3>3 DEF AttemptsCounted
  <2>2. CASE process_next
    <3>1. PICK d \in worker.todo :
            LET red == IF worker.expired THEN isporuke[d] ELSE worker.copy[d] IN
            worker' = [worker EXCEPT !.pc = "notif", !.todo = @ \ {d}, !.cur = {d},
                                     !.copy = [@ EXCEPT ![d] = red], !.new = red,
                                     !.at = now]
      BY <2>2 DEF process_next
    <3> DEFINE red == IF worker.expired THEN isporuke[d] ELSE worker.copy[d]
    <3>2. d \in Rows /\ worker \in Worker /\ isporuke[d].status = "PENDING"
      BY DEF Books, Bookkeeping, TypeOK, Worker, ClaimedStaysPending
    <3>3. isporuke[d].broj_pokusaja <= red.broj_pokusaja /\ red.broj_pokusaja \in Nat
      <4>1. /\ isporuke[d].broj_pokusaja <= worker.copy[d].broj_pokusaja
            /\ isporuke[d].broj_pokusaja \in Nat /\ worker.copy[d].broj_pokusaja \in Nat
        BY <3>2 DEF Attempting, AttemptsCounted, Books, TypeOK, Worker, Row
      <4> QED BY <4>1
    <3> HIDE DEF red
    <3>4. worker' = [worker EXCEPT !.pc = "notif", !.todo = @ \ {d}, !.cur = {d},
                                   !.copy = [@ EXCEPT ![d] = red], !.new = red, !.at = now]
      BY <3>1 DEF red
    <3>5. /\ worker'.cur = {d} /\ worker'.todo = worker.todo \ {d}
          /\ worker'.copy[d] = red /\ worker'.new = red
          /\ \A e \in worker'.todo : worker'.copy[e] = worker.copy[e]
      BY <3>2, <3>4 DEF Worker
    <3>6. AttemptsCounted'
      BY <1>1, <3>3, <3>5 DEF Attempting, AttemptsCounted
    <3> QED BY <3>2, <3>5, <3>6
  <2> QED BY <2>1, <2>2
<1>6. ASSUME NEW e \in Rows
      PROVE  /\ accepted'[e] \in Nat /\ lost'[e] \in Nat
             /\ accepted'[e] + lost[e] + outstanding(e)
                  = accepted[e] + lost'[e] + outstanding(e)'
  <2>1. outstanding(e) = 0 /\ outstanding(e)' = 0
    BY <1>1, <1>2, <1>3 DEF outstanding, unrecorded
  <2>2. accepted[e] \in Nat /\ lost[e] \in Nat
    BY DEF Books, TypeOK
  <2> QED BY <1>1, <2>1, <2>2
<1> QED BY <1>1, <1>4, <1>5, <1>6, HandAttempts

\* A step on the row in hand that only prepares its new values keeps the attempts when every
\* acceptance it makes becomes outstanding.
LEMMA PreparedAttempts ==
  ASSUME Books, Openness, Attempting, NEW d \in Rows, d \in worker.cur, worker.pc # "commit",
         UNCHANGED <<isporuke, lost>>,
         worker'.cur = worker.cur, worker'.todo = worker.todo, worker'.copy = worker.copy,
         worker'.new.broj_pokusaja >= worker.copy[d].broj_pokusaja,
         UnconfirmedInHand',
         \A e \in Rows : accepted'[e] = accepted[e] + outstanding(e)'
  PROVE  Attempting'
<1>1. \A e \in worker.cur : e = d /\ isporuke[e].status = "PENDING"
  BY DEF Books, Bookkeeping, WorkerShape, ClaimedStaysPending
<1>2. AttemptsCounted'
  BY <1>1 DEF Attempting, AttemptsCounted
<1>3. \A e \in Rows : outstanding(e) = 0
  BY DEF outstanding, unrecorded, Attempting, UnconfirmedInHand
<1>4. ASSUME NEW e \in Rows
      PROVE  /\ accepted'[e] \in Nat /\ lost'[e] \in Nat
             /\ accepted'[e] + lost[e] + outstanding(e)
                  = accepted[e] + lost'[e] + outstanding(e)'
  <2>1. outstanding(e) = 0 /\ outstanding(e)' \in {0, 1}
    BY <1>3 DEF outstanding
  <2>2. accepted[e] \in Nat /\ lost[e] \in Nat /\ accepted'[e] = accepted[e] + outstanding(e)'
    BY DEF Books, TypeOK
  <2> QED BY <2>1, <2>2
<1> QED BY <1>1, <1>2, <1>4, HandAttempts

\* The checks and the answer that the token is unusable accept nothing and count nothing.
LEMMA CheckAttempts ==
  ASSUME Books, Openness, Attempting, NEW d \in Rows,
         \/ check_notification(d) \/ check_user(d) \/ get_active_token(d) \/ check_session(d)
         \/ send_invalid_token(d)
  PROVE  Attempting'
<1>1. /\ d \in worker.cur /\ worker.pc # "commit"
      /\ UNCHANGED <<isporuke, lost, accepted, unconfirmed>>
  BY DEF check_notification, check_user, get_active_token, check_session, send_invalid_token,
         hist, counts
<1>2. worker \in Worker /\ worker.new \in Row /\ worker.new = worker.copy[d]
  BY <1>1 DEF Books, Bookkeeping, TypeOK, Worker, WorkerShape
<1> DEFINE Quiet == /\ worker'.cur = worker.cur /\ worker'.todo = worker.todo
                    /\ worker'.copy = worker.copy
                    /\ worker'.new.broj_pokusaja = worker.new.broj_pokusaja
                    /\ worker'.pc # "commit" \/ worker'.new.status # "SENT"
<1>3. ASSUME NEW step, goto(step), step # "commit" PROVE Quiet
  BY <1>2, <1>3 DEF goto, Worker
<1>4. ASSUME skip(d) PROVE Quiet
  BY <1>2, <1>4 DEF skip, Worker, Row
<1>5. ASSUME NEW dropped, postpone(d, dropped) PROVE Quiet
  BY <1>2, <1>5 DEF postpone, Worker, Row
<1>6. Quiet
  <2>1. CASE check_notification(d) \/ check_user(d)
    BY <1>3, <1>4, <2>1 DEF check_notification, check_user
  <2>2. CASE get_active_token(d)
    <3>1. CASE token[d[2]] = NoDevice
      BY <1>5, <2>2, <3>1 DEF get_active_token
    <3>2. CASE token[d[2]] # NoDevice
      BY <1>2, <2>2, <3>2 DEF get_active_token, Worker
    <3> QED BY <3>1, <3>2
  <2>3. CASE check_session(d)
    BY <1>3, <1>5, <2>3 DEF check_session
  <2>4. CASE send_invalid_token(d)
    BY <1>5, <2>4 DEF send_invalid_token
  <2> QED BY <2>1, <2>2, <2>3, <2>4
<1>7. unconfirmed = {}
  BY <1>1 DEF Attempting, UnconfirmedInHand
<1>8. UnconfirmedInHand'
  BY <1>1, <1>7 DEF UnconfirmedInHand
<1>9. \A e \in Rows : accepted'[e] = accepted[e] + outstanding(e)'
  <2>1. \A e \in Rows : outstanding(e)' = 0
    BY <1>1, <1>6, <1>7 DEF outstanding, unrecorded
  <2> QED BY <1>1, <2>1 DEF Books, TypeOK
<1>10. worker'.new.broj_pokusaja >= worker.copy[d].broj_pokusaja
  BY <1>2, <1>6 DEF Row
<1> QED BY <1>1, <1>6, <1>8, <1>9, <1>10, PreparedAttempts

\* The row in hand before it is sent.
LEMMA SendingHand ==
  ASSUME Books, Attempting, NEW d \in Rows, d \in worker.cur, worker.pc = "send"
  PROVE  /\ worker \in Worker /\ worker.new \in Row /\ worker.copy[d].broj_pokusaja \in Nat
         /\ unconfirmed = {} /\ \A e \in worker.cur : e = d
         /\ \A e \in Rows : accepted[e] \in Nat
<1>1. worker \in Worker /\ worker.new \in Row /\ worker.copy[d].broj_pokusaja \in Nat
  BY DEF Books, TypeOK, Worker, Row
<1>2. unconfirmed = {}
  BY DEF Attempting, UnconfirmedInHand
<1>3. \A e \in worker.cur : e = d
  BY DEF Books, Bookkeeping, WorkerShape
<1>4. \A e \in Rows : accepted[e] \in Nat
  BY DEF Books, TypeOK
<1> QED BY <1>1, <1>2, <1>3, <1>4

LEMMA SendOkAttempts ==
  ASSUME Books, Openness, Attempting, NEW d \in Rows, send_ok(d) PROVE Attempting'
<1> DEFINE pokusaji == worker.copy[d].broj_pokusaja + 1
<1>1. /\ d \in worker.cur /\ worker.pc = "send" /\ UNCHANGED <<isporuke, lost, unconfirmed>>
      /\ worker' = [worker EXCEPT !.pc = "commit", !.new =
           [@ EXCEPT !.status = "SENT", !.datum_slanja = worker.at, !.broj_pokusaja = pokusaji]]
  BY DEF send_ok
<1>2. /\ worker \in Worker /\ worker.new \in Row /\ worker.copy[d].broj_pokusaja \in Nat
      /\ unconfirmed = {} /\ \A e \in worker.cur : e = d
      /\ \A e \in Rows : accepted[e] \in Nat
  BY <1>1, SendingHand
<1>3. pokusaji >= worker.copy[d].broj_pokusaja
  BY <1>2
<1> HIDE DEF pokusaji
<1>4. /\ worker'.cur = worker.cur /\ worker'.todo = worker.todo /\ worker'.copy = worker.copy
      /\ worker'.pc = "commit" /\ worker'.new.broj_pokusaja = pokusaji
      /\ worker'.new.status = "SENT"
  BY <1>1, <1>2 DEF Worker, Row
<1>5. UnconfirmedInHand'
  BY <1>1, <1>2 DEF UnconfirmedInHand
<1>6. \A e \in Rows : outstanding(e)' = IF e = d THEN 1 ELSE 0
  BY <1>1, <1>2, <1>4 DEF outstanding, unrecorded
<1>7. accepted' = [accepted EXCEPT ![d] = @ + 1]
  BY DEF send_ok, accepts
<1>8. \A e \in Rows : accepted'[e] = accepted[e] + outstanding(e)'
  BY <1>2, <1>6, <1>7 DEF Books, TypeOK
<1> QED BY <1>1, <1>3, <1>4, <1>5, <1>8, PreparedAttempts

LEMMA SendErrorAttempts ==
  ASSUME Books, Openness, Attempting, NEW d \in Rows, send_error(d) PROVE Attempting'
<1> DEFINE pokusaji == worker.copy[d].broj_pokusaja + 1
<1>1. /\ d \in worker.cur /\ worker.pc = "send" /\ UNCHANGED <<isporuke, lost>>
      /\ \/ accepted' = [accepted EXCEPT ![d] = @ + 1] /\ unconfirmed' = {d}
         \/ UNCHANGED <<accepted, unconfirmed>>
      /\ worker' = [worker EXCEPT !.pc = "commit", !.new =
           IF last_attempt(pokusaji)
             THEN [@ EXCEPT !.status = "FAILED", !.broj_pokusaja = pokusaji,
                            !.sledeci_pokusaj = NoTime]
             ELSE [@ EXCEPT !.status = "PENDING", !.broj_pokusaja = pokusaji,
                            !.sledeci_pokusaj = worker.at + retry_backoff(pokusaji)]]
  BY DEF send_error, accepts
<1>2. /\ worker \in Worker /\ worker.new \in Row /\ worker.copy[d].broj_pokusaja \in Nat
      /\ unconfirmed = {} /\ \A e \in worker.cur : e = d
      /\ \A e \in Rows : accepted[e] \in Nat
  BY <1>1, SendingHand
<1>3. pokusaji >= worker.copy[d].broj_pokusaja /\ pokusaji = worker.copy[d].broj_pokusaja + 1
  BY <1>2
<1> HIDE DEF pokusaji
<1>4. /\ worker'.cur = worker.cur /\ worker'.todo = worker.todo /\ worker'.copy = worker.copy
      /\ worker'.pc = "commit" /\ worker'.new.broj_pokusaja = pokusaji
      /\ worker'.new.status \in {"PENDING", "FAILED"}
  BY <1>1, <1>2 DEF Worker, Row
<1>5. UnconfirmedInHand'
  BY <1>1, <1>2, <1>3, <1>4 DEF UnconfirmedInHand
<1>6. \A e \in Rows : outstanding(e)' = IF e \in unconfirmed' THEN 1 ELSE 0
  BY <1>4 DEF outstanding, unrecorded
<1>7. \A e \in Rows : accepted'[e] = accepted[e] + outstanding(e)'
  BY <1>1, <1>2, <1>6 DEF Books, TypeOK
<1> QED BY <1>1, <1>3, <1>4, <1>5, <1>7, PreparedAttempts

\* The commit of an attempt counts it, whatever a resend has put into the row meanwhile.
LEMMA FlushCounts ==
  ASSUME NEW s \in Row, NEW l \in Row, NEW n \in Row, s.broj_pokusaja <= l.broj_pokusaja,
         NEW k \in {0, 1}, n.broj_pokusaja >= l.broj_pokusaja,
         k = 1 => n.broj_pokusaja = l.broj_pokusaja + 1
  PROVE  flush(s, l, n).broj_pokusaja >= s.broj_pokusaja + k
BY DEF flush, column, Row

LEMMA CommitAttempts ==
  ASSUME Books, Openness, Attempting, NEW d \in Rows, commit_row(d) PROVE Attempting'
<1>1. /\ d \in worker.cur /\ worker.pc = "commit" /\ unconfirmed' = {}
      /\ UNCHANGED <<accepted, lost>> /\ worker' = Advance(worker.expired)
      /\ isporuke'[d] = flush(isporuke[d], worker.copy[d], worker.new)
  BY DEF commit_row, counts, Books, TypeOK
<1>2. /\ worker'.pc \in {"idle", "pick"} /\ worker'.cur = {} /\ worker'.todo = worker.todo
      /\ \A e \in worker.todo : worker'.copy[e] = worker.copy[e]
  BY <1>1, AdvanceShape DEF Books, TypeOK
<1>3. /\ isporuke[d].status = "PENDING" /\ isporuke'[d].status = worker.new.status
      /\ isporuke'[d].ponovnih = isporuke[d].ponovnih
      /\ d \notin worker.todo /\ worker.new.status \in Statuses
      /\ \A e \in worker.cur : e = d /\ \A r \in Rows \ {d} : isporuke'[r] = isporuke[r]
  BY CommitRecords DEF Books
<1>4. UnconfirmedInHand'
  BY <1>1 DEF UnconfirmedInHand
<1>5. AttemptsCounted'
  <2>1. \A e \in worker.todo : e \in Rows \ {d}
    BY <1>3 DEF Books, TypeOK, Worker
  <2>2. \A e \in worker.todo : isporuke'[e] = isporuke[e]
    BY <1>1, <1>3, <2>1
  <2> QED BY <1>2, <2>2 DEF Attempting, AttemptsCounted
<1>6. \A e \in Rows : outstanding(e)' = 0
  BY <1>1, <1>2 DEF outstanding, unrecorded
<1>7. ASSUME NEW e \in Rows
      PROVE  accepted[e] + attempts(e)' <= MaxAttempts * openings(e)' + lost[e]
  <2>1. /\ accepted[e] \in Nat /\ lost[e] \in Nat /\ MaxAttempts \in Nat
        /\ MaxAttempts * openings(e) \in Nat /\ isporuke[e].broj_pokusaja \in Nat
    BY CreditTypes DEF Books
  <2>2. /\ outstanding(e) \in {0, 1} /\ attempts(e) \in 0..MaxAttempts
        /\ accepted[e] + attempts(e) <= MaxAttempts * openings(e) + lost[e]
        /\ isporuke[e].status = "PENDING" =>
             attempts(e) = MaxAttempts - isporuke[e].broj_pokusaja - outstanding(e)
    BY Outstanding
  <2>3. CASE e = d
    <3>1. openings(d)' = openings(d)
      BY <1>3 DEF openings, Statuses
    <3>2. CASE worker.new.status = "PENDING"
      <4>1. isporuke'[d].broj_pokusaja >= isporuke[d].broj_pokusaja + outstanding(d)
        <5>1. isporuke[d] \in Row /\ worker.copy[d] \in Row /\ worker.new \in Row
          BY DEF Books, TypeOK, Worker
        <5>2. /\ isporuke[d].broj_pokusaja <= worker.copy[d].broj_pokusaja
              /\ worker.new.broj_pokusaja >= worker.copy[d].broj_pokusaja
          BY <1>1 DEF Attempting, AttemptsCounted
        <5>3. outstanding(d) = 1 => worker.new.broj_pokusaja = worker.copy[d].broj_pokusaja + 1
          BY <3>2 DEF outstanding, unrecorded, Attempting, UnconfirmedInHand
        <5>4. outstanding(d) \in {0, 1}
          BY DEF outstanding
        <5> QED BY <1>1, <5>1, <5>2, <5>3, <5>4, FlushCounts
      <4>2. isporuke'[d].broj_pokusaja \in Nat
        <5>1. isporuke[d] \in Row /\ worker.copy[d] \in Row /\ worker.new \in Row
          BY DEF Books, TypeOK, Worker
        <5>2. isporuke'[d] \in Row
          BY <1>1, <5>1, RowTypes
        <5> QED BY <5>2 DEF Row
      <4>3. attempts(d)' = MaxAttempts - isporuke'[d].broj_pokusaja
        BY <1>3, <1>6, <2>1, <3>2, <4>2 DEF attempts
      <4> QED BY <1>3, <2>1, <2>2, <2>3, <3>1, <4>1, <4>2, <4>3
    <3>3. CASE worker.new.status # "PENDING"
      <4>1. attempts(d)' = 0
        BY <1>3, <3>3 DEF attempts
      <4> QED BY <2>1, <2>2, <2>3, <3>1, <4>1
    <3> QED BY <3>2, <3>3
  <2>4. CASE e # d
    <3>1. isporuke'[e] = isporuke[e]
      BY <1>1, <1>3, <2>4
    <3>2. outstanding(e) = 0
      BY <1>3, <2>4 DEF outstanding, unrecorded, Attempting, UnconfirmedInHand
    <3>3. attempts(e)' = attempts(e) /\ openings(e)' = openings(e)
      BY <1>6, <3>1, <3>2 DEF attempts, openings
    <3> QED BY <2>2, <3>3
  <2> QED BY <2>3, <2>4
<1>8. AttemptCredit'
  BY <1>1, <1>7 DEF AttemptCredit
<1> QED BY <1>4, <1>5, <1>8 DEF Attempting

\* What a rollback or a crash loses: the acceptance that was outstanding.
LEMMA LostOutstanding ==
  ASSUME TypeOK, WorkerShape, UnconfirmedInHand, Failures
  PROVE  \A e \in Rows : lost'[e] = lost[e] + outstanding(e)
<1>1. CASE crash
  BY <1>1 DEF crash
<1>2. ASSUME NEW d \in Rows, rollback_row(d)
      PROVE  \A e \in Rows : lost'[e] = lost[e] + outstanding(e)
  <2>1. d \in worker.cur /\ lost' = [lost EXCEPT ![d] = @ + outstanding(d)]
    BY <1>2 DEF rollback_row
  <2>2. \A e \in Rows \ {d} : outstanding(e) = 0 /\ lost[e] \in Nat
    BY <2>1 DEF outstanding, unrecorded, WorkerShape, UnconfirmedInHand, TypeOK
  <2>3. \A e \in Rows \ {d} : lost'[e] = lost[e] + outstanding(e)
    BY <2>1, <2>2 DEF TypeOK
  <2> QED BY <2>1, <2>3 DEF TypeOK
<1> QED BY <1>1, <1>2 DEF Failures

LEMMA FailureAttempts ==
  ASSUME Books, Openness, Attempting, Failures PROVE Attempting'
<1>1. /\ UNCHANGED <<isporuke, accepted>> /\ unconfirmed' = {}
      /\ worker'.cur = {} /\ worker'.todo \subseteq worker.todo
      /\ \A e \in worker'.todo : worker'.copy[e] = worker.copy[e]
  <2>1. CASE crash
    BY <2>1 DEF crash, Idle, Resting
  <2>2. ASSUME NEW d \in Rows, rollback_row(d)
        PROVE  /\ UNCHANGED <<isporuke, accepted>> /\ unconfirmed' = {}
               /\ worker'.cur = {} /\ worker'.todo \subseteq worker.todo
               /\ \A e \in worker'.todo : worker'.copy[e] = worker.copy[e]
    BY <2>2, AdvanceShape DEF rollback_row, Books, TypeOK
  <2> QED BY <2>1, <2>2 DEF Failures
<1>2. UnconfirmedInHand'
  BY <1>1 DEF UnconfirmedInHand
<1>3. AttemptsCounted'
  BY <1>1 DEF Attempting, AttemptsCounted
<1>4. ASSUME NEW e \in Rows
      PROVE  /\ accepted'[e] \in Nat /\ lost'[e] \in Nat
             /\ accepted'[e] + lost[e] + outstanding(e)
                  = accepted[e] + lost'[e] + outstanding(e)'
  <2>1. accepted[e] \in Nat /\ lost[e] \in Nat /\ outstanding(e) \in {0, 1}
    BY DEF Books, TypeOK, outstanding
  <2>2. outstanding(e)' = 0
    BY <1>1 DEF outstanding, unrecorded
  <2>3. lost'[e] = lost[e] + outstanding(e)
    BY LostOutstanding DEF Attempting, Books, Bookkeeping
  <2> QED BY <1>1, <2>1, <2>2, <2>3
<1> QED BY <1>1, <1>2, <1>3, <1>4, HandAttempts

LEMMA StepAttempting ==
  ASSUME Books, Openness, Attempting, [Next]_vars, Openness' PROVE Attempting'
<1>1. CASE UNCHANGED vars
  BY <1>1, SameAttempts DEF vars, hist, counts
<1>2. ASSUME NEW n \in Notif, apply_archive(n) \/ resend_load(n) PROVE Attempting'
  BY <1>2, SameAttempts DEF apply_archive, resend_load, hist, counts
<1>3. CASE Employees \/ Tick
  <2>1. UNCHANGED <<isporuke, worker, unconfirmed, accepted, lost>>
    BY <1>3 DEF Employees, Tick, mark_read, mark_unread, login, logout, upsert,
                session_expires, account_changes, hist, counts
  <2> QED BY <2>1, SameAttempts
<1>4. CASE process_batch
  BY <1>4, TakeAttempts, CheckAttempts, SendOkAttempts, SendErrorAttempts, CommitAttempts
     DEF process_batch, process_one
<1>5. CASE Failures
  BY <1>5, FailureAttempts
<1> QED BY <1>1, <1>2, <1>3, <1>4, <1>5, PublishAttempts, ResendAttempts
        DEF Next, Administration

LEMMA InitAttempting == Init => Attempting
<1> SUFFICES ASSUME Init PROVE Attempting
  OBVIOUS
<1>1. UnconfirmedInHand /\ AttemptsCounted
  BY DEF Init, Idle, Resting, UnconfirmedInHand, AttemptsCounted
<1>2. AttemptCredit
  <2>1. \A d \in Rows : openings(d) = 0 /\ attempts(d) = 0
    BY DEF Init, NoCopies, NoRow, openings, attempts
  <2>2. MaxAttempts * 0 = 0
    BY ConstantsAssumption
  <2> QED BY <2>1, <2>2 DEF Init, AttemptCredit
<1> QED BY <1>1, <1>2 DEF Attempting

-----------------------------------------------------------------------------
(* The invariant and its consequences *)

LEMMA IInvIsBooks == IInv <=> Books /\ Openness /\ Attempting
BY DEF IInv, Books, Bookkeeping, Attempting

LEMMA InitIInv == Init => IInv
BY InitBooks, InitOpenness, InitAttempting, IInvIsBooks

LEMMA StepIInv == IInv /\ [Next]_vars => IInv'
<1> SUFFICES ASSUME IInv, [Next]_vars PROVE IInv'
  OBVIOUS
<1>1. Books /\ Openness /\ Attempting
  BY IInvIsBooks
<1>2. Books' /\ Openness'
  BY <1>1, StepBooks, StepOpenness
<1>3. Attempting'
  BY <1>1, <1>2, StepAttempting
<1> QED BY <1>2, <1>3 DEF IInv, Books, Bookkeeping, Attempting

\* The invariant behind the outbox holds in every reachable state.
THEOREM Invariance == Spec => []IInv
BY InitIInv, StepIInv, PTL DEF Spec

LEMMA IInvBoundsAcceptances == IInv => AcceptancesAccountedFor
<1> SUFFICES ASSUME IInv, NEW d \in Rows
             PROVE  /\ confirmed[d] <= openings(d) + lost[d]
                    /\ accepted[d] <= MaxAttempts * openings(d) + lost[d]
  BY DEF AcceptancesAccountedFor
<1>1. confirmed[d] <= openings(d) + lost[d]
  <2>1. confirmed[d] + credit(d) <= openings(d) + lost[d]
    BY DEF IInv, ConfirmedCredit
  <2>2. confirmed[d] \in Nat /\ credit(d) \in {0, 1}
    BY DEF IInv, TypeOK, credit
  <2>3. lost[d] \in Nat /\ openings(d) \in Nat
    BY CreditTypes DEF IInv
  <2> QED BY <2>1, <2>2, <2>3
<1>2. accepted[d] <= MaxAttempts * openings(d) + lost[d]
  <2>1. attempts(d) \in 0..MaxAttempts
          /\ accepted[d] + attempts(d) <= MaxAttempts * openings(d) + lost[d]
    BY Outstanding, IInvIsBooks
  <2>2. accepted[d] \in Nat /\ lost[d] \in Nat /\ MaxAttempts * openings(d) \in Nat
          /\ MaxAttempts \in Nat
    BY CreditTypes DEF IInv
  <2> QED BY <2>1, <2>2
<1> QED BY <1>1, <1>2

\* At-least-once delivery is bounded: however the worker, the resends, the failures and
\* FCM's lost answers interleave, the worker is told of at most one acceptance of a row's
\* message for its publication, one per committed resend and one per lost commit, and FCM
\* accepts it at most as often as those leave attempts for it.
THEOREM AcceptancesBounded == Spec => []AcceptancesAccountedFor
BY Invariance, IInvBoundsAcceptances, PTL

\* The outbox has a row for exactly the recipients of each notification.
THEOREM RecipientsMatch == Spec => []OutboxMatchesRecipients
<1>1. IInv => OutboxMatchesRecipients
  BY DEF IInv, RecipientsHaveRows
<1> QED BY <1>1, Invariance, PTL

\* No row is stranded: whatever the worker and a resend overwrite in each other's
\* back, a PENDING row has an attempt left and a time at which it is due.
THEOREM PendingRowsClaimable == Spec => []PendingIsClaimable
<1>1. IInv => PendingIsClaimable
  BY DEF IInv, Openness
<1> QED BY <1>1, Invariance, PTL

LEMMA ClosedRowStep ==
  ASSUME Books, Openness, [Next]_vars, NEW d \in Rows,
         isporuke[d].status \in {"SENT", "FAILED", "SKIPPED"},
         isporuke'[d].status # isporuke[d].status
  PROVE  /\ isporuke'[d].status = "PENDING"
         /\ isporuke'[d].broj_pokusaja = 0
         /\ isporuke'[d].datum_slanja = NoTime
         /\ isporuke'[d].ponovnih = isporuke[d].ponovnih + 1
<1>1. ~UNCHANGED isporuke
  OBVIOUS
<1>2. ~UNCHANGED vars
  BY <1>1 DEF vars
<1>3. ~(Employees \/ Tick)
  BY <1>1 DEF Employees, Tick, mark_read, mark_unread, login, logout, upsert,
              session_expires, account_changes
<1>4. ~(claim_ready_batch \/ process_next \/ Failures)
  BY <1>1 DEF claim_ready_batch, process_next, Failures, crash, rollback_row
<1>5. \A e \in Rows : ~process_one(e)
  <2> SUFFICES ASSUME NEW e \in Rows, process_one(e) PROVE FALSE
    OBVIOUS
  <2>1. commit_row(e)
    BY <1>1 DEF process_one, check_notification, check_user, get_active_token,
           check_session, send_ok, send_invalid_token, send_error
  <2>2. isporuke[e].status = "PENDING" /\ \A r \in Rows \ {e} : isporuke'[r] = isporuke[r]
    BY <2>1, CommitRecords DEF Books
  <2> QED BY <2>2
<1>6. \A n \in Notif : ~(apply_publish(n) \/ apply_archive(n) \/ resend_load(n))
  BY <1>1 DEF apply_publish, apply_archive, resend_load
<1>7. PICK n \in Notif : resend_commit(n)
  BY <1>2, <1>3, <1>4, <1>5, <1>6 DEF Next, Administration, process_batch
<1>8. d[1] = n /\ d[2] \in resend[n].unread
  BY <1>7 DEF resend_commit
<1>9. resend[n].copy[d[2]].status # "PENDING"
  BY <1>7, <1>8, ResendEffect DEF Books
<1>10. isporuke'[d] = requeued(isporuke[d], resend[n].at)
  BY <1>7, <1>8, <1>9, ClosedRowRequeued DEF Openness
<1> QED BY <1>10 DEF requeued

\* A delivered, failed or skipped row is opened again only by a resend, and then
\* as a whole: attempts and time of sending are reset and the resend is counted.
THEOREM TerminalRowsWait == Spec => TerminalUntilResend
<1>1. IInv /\ [Next]_vars =>
        [\A d \in Rows :
          isporuke[d].status \in {"SENT", "FAILED", "SKIPPED"}
            /\ isporuke'[d].status # isporuke[d].status =>
              /\ isporuke'[d].status = "PENDING"
              /\ isporuke'[d].broj_pokusaja = 0
              /\ isporuke'[d].datum_slanja = NoTime
              /\ isporuke'[d].ponovnih = isporuke[d].ponovnih + 1]_vars
  BY ClosedRowStep, IInvIsBooks
<1> QED BY <1>1, Invariance, PTL DEF Spec, TerminalUntilResend

-----------------------------------------------------------------------------
(* Archiving *)

\* Once a message has gone out late, the notification is archived for good and
\* the worker is not, or no longer, past the check that would let another one go.
LateOnce == \A n \in Notif :
  /\ late[n] <= 1
  /\ late[n] # 0 =>
       /\ notif[n].status = "ARCHIVED"
       /\ \A d \in worker.cur : d[1] = n => worker.pc \in {"notif", "commit"}

LEMMA StepLateOnce == TypeOK /\ WorkerShape /\ LateOnce /\ [Next]_vars => LateOnce'
<1> SUFFICES ASSUME TypeOK, WorkerShape, LateOnce, [Next]_vars PROVE LateOnce'
  OBVIOUS
<1>1. ASSUME UNCHANGED late,
             \A n \in Notif : notif[n].status = "ARCHIVED" => notif'[n].status = "ARCHIVED",
             worker'.pc \in {"notif", "commit"} \/ worker'.cur = {} \/ UNCHANGED worker
      PROVE  LateOnce'
  BY <1>1 DEF LateOnce
<1>2. CASE UNCHANGED vars
  BY <1>1, <1>2 DEF vars, inbox, hist, counts
<1>3. ASSUME NEW n \in Notif, apply_publish(n) PROVE LateOnce'
  BY <1>1, <1>3 DEF apply_publish, hist, counts, TypeOK
<1>4. ASSUME NEW n \in Notif, apply_archive(n) PROVE LateOnce'
  BY <1>1, <1>4 DEF apply_archive, hist, counts, TypeOK
<1>5. ASSUME NEW n \in Notif, resend_load(n) \/ resend_commit(n) PROVE LateOnce'
  BY <1>1, <1>5 DEF resend_load, resend_commit, inbox, hist, counts
<1>6. CASE Employees \/ Tick
  <2>1. UNCHANGED <<notif, late, worker>>
    BY <1>6 DEF Employees, Tick, mark_read, mark_unread, login, logout, upsert,
                session_expires, account_changes, inbox, hist, counts
  <2> QED BY <1>1, <2>1
<1>7. CASE claim_ready_batch
  BY <1>1, <1>7 DEF claim_ready_batch, Resting, inbox, hist, counts
<1>8. CASE process_next
  <2>1. worker'.pc = "notif"
    <3>1. PICK d, red :
            worker' = [worker EXCEPT !.pc = "notif", !.todo = @ \ {d}, !.cur = {d},
                                     !.copy = [@ EXCEPT ![d] = red], !.new = red,
                                     !.at = now]
      BY <1>8 DEF process_next
    <3> QED BY <3>1 DEF TypeOK, Worker
  <2>2. UNCHANGED <<notif, late>>
    BY <1>8 DEF process_next, inbox, hist, counts
  <2> QED BY <1>1, <2>1, <2>2
<1>9. CASE Failures
  <2>1. UNCHANGED <<notif, late>>
    BY <1>9 DEF Failures, crash, rollback_row, inbox
  <2>2. worker'.cur = {}
    <3>1. worker' = Idle \/ worker' = Advance(TRUE)
      BY <1>9 DEF Failures, crash, rollback_row
    <3>2. Advance(TRUE).cur = {} /\ Idle.cur = {}
      BY AdvanceShape DEF TypeOK, Idle, Resting
    <3> QED BY <3>1, <3>2
  <2> QED BY <1>1, <2>1, <2>2
<1>10. ASSUME NEW d \in Rows, process_one(d) PROVE LateOnce'
  <2>1. d \in worker.cur /\ UNCHANGED notif /\ d[1] \in Notif
    BY <1>10 DEF process_one, check_notification, check_user, get_active_token,
           check_session, send_ok, send_invalid_token, send_error, commit_row, inbox, Rows
  <2>2. /\ \A e \in worker.cur : e = d
        /\ worker \in Worker
    BY <2>1 DEF WorkerShape, TypeOK
  <2>3. ASSUME skip(d) \/ (\E drop : postpone(d, drop)) PROVE worker'.pc = "commit"
    BY <2>2, <2>3 DEF skip, postpone, Worker
  <2>4. ASSUME UNCHANGED late, late[d[1]] = 0, worker'.cur = worker.cur PROVE LateOnce'
    BY <2>1, <2>2, <2>4 DEF LateOnce
  <2>5. CASE check_notification(d)
    <3>1. CASE available(d[1], worker.at)
      <4>1. late[d[1]] = 0
        BY <2>1, <3>1 DEF available, LateOnce
      <4>2. worker'.cur = worker.cur
        BY <2>2, <2>5, <3>1 DEF check_notification, goto, Worker
      <4> QED BY <2>4, <2>5, <4>1, <4>2 DEF check_notification, hist, counts
    <3>2. CASE ~available(d[1], worker.at)
      BY <1>1, <2>1, <2>3, <2>5, <3>2 DEF check_notification, hist, counts
    <3> QED BY <3>1, <3>2
  <2>6. CASE check_user(d) \/ get_active_token(d) \/ check_session(d)
    <3>1. late[d[1]] = 0
      BY <2>1, <2>6 DEF LateOnce, check_user, get_active_token, check_session
    <3>2. UNCHANGED late
      BY <2>6 DEF check_user, get_active_token, check_session, hist, counts
    <3>3. worker'.cur = worker.cur
      BY <2>2, <2>6 DEF check_user, get_active_token, check_session, skip, postpone, goto, Worker
    <3> QED BY <2>4, <3>1, <3>2, <3>3
  <2>7. CASE send_ok(d)
    <3>1. late[d[1]] = 0
      BY <2>1, <2>7 DEF LateOnce, send_ok
    <3>2. worker'.pc = "commit"
      BY <2>2, <2>7 DEF send_ok, Worker
    <3>3. \A n \in Notif : late'[n] = IF n = d[1] /\ notif[n].status = "ARCHIVED"
                                        THEN 1 ELSE late[n]
      BY <2>1, <2>7, <3>1 DEF send_ok, accepts, TypeOK
    <3> QED BY <2>1, <3>2, <3>3 DEF LateOnce
  <2>8. CASE send_invalid_token(d)
    BY <1>1, <2>1, <2>3, <2>8 DEF send_invalid_token, hist, counts
  <2>9. CASE send_error(d)
    <3>1. late[d[1]] = 0
      BY <2>1, <2>9 DEF LateOnce, send_error
    <3>2. worker'.pc = "commit"
      BY <2>2, <2>9 DEF send_error, Worker
    <3>3. \A n \in Notif : late'[n] = late[n] \/ (late'[n] = 1 /\ notif[n].status = "ARCHIVED")
      BY <2>1, <2>9, <3>1 DEF send_error, accepts, TypeOK
    <3> QED BY <2>1, <3>2, <3>3 DEF LateOnce
  <2>10. CASE commit_row(d)
    BY <1>1, <2>1, <2>10, AdvanceShape DEF commit_row, hist, counts, TypeOK
  <2> QED BY <1>10, <2>5, <2>6, <2>7, <2>8, <2>9, <2>10 DEF process_one
<1> QED BY <1>2, <1>3, <1>4, <1>5, <1>6, <1>7, <1>8, <1>9, <1>10
        DEF Next, Administration, process_batch

\* Archiving stops the push: of all the rows claimed before the archiving, and
\* however many there are, at most one message still goes out.
THEOREM ArchiveStops == Spec => []ArchiveStopsPushing
<1>1. Init => LateOnce
  BY DEF Init, LateOnce
<1>2. LateOnce => ArchiveStopsPushing
  BY DEF LateOnce, ArchiveStopsPushing
<1>3. IInv /\ LateOnce /\ [Next]_vars => LateOnce'
  BY StepLateOnce DEF IInv
<1> QED BY <1>1, <1>2, <1>3, Invariance, PTL DEF Spec

-----------------------------------------------------------------------------
(* The outbox implements DeliveryLedger: whatever the worker, the resends  *)
(* and the failures do, a message is accepted only while it is open, it is *)
(* closed as delivered only by an acceptance and it is opened again only   *)
(* by a resend.                                                            *)

\* A step that shows the same statuses and acceptances is a stutter.
LEMMA LedgerStutter ==
  ASSUME \A d \in Rows : isporuke'[d].status = isporuke[d].status /\ flight(d)' = flight(d)
  PROVE  UNCHANGED Ledger!ledger
<1>1. [d \in Rows |-> message_state(isporuke[d].status)]
        = [d \in Rows |-> message_state(isporuke'[d].status)]
  BY DEF message_state
<1>2. [d \in Rows |-> flight(d)] = [d \in Rows |-> flight(d)']
  OBVIOUS
<1> QED BY <1>1, <1>2, Zenon DEF Ledger!ledger

\* One row's acceptance comes or goes, no row's status is touched by that.
LEMMA FlyingExcept ==
  ASSUME NEW d \in Rows, NEW b, flight(d)' = b,
         \A e \in Rows \ {d} : flight(e)' = flight(e)
  PROVE  [e \in Rows |-> flight(e)'] = [[e \in Rows |-> flight(e)] EXCEPT ![d] = b]
OBVIOUS

\* What is in flight is the acceptance of the row in hand.
LEMMA FlightOfHand ==
  ASSUME IInv, NEW d \in Rows
  PROVE  /\ flight(d) = IF unrecorded(d) = 1 THEN "confirmed"
                        ELSE IF d \in unconfirmed THEN "unconfirmed" ELSE "no"
         /\ flight(d) # "no" => worker.pc = "commit" /\ d \in worker.cur
BY DEF flight, unrecorded, IInv, UnconfirmedInHand

\* A status changes in one row only.
LEMMA ShownExcept ==
  ASSUME NEW d \in Rows, NEW s, message_state(isporuke'[d].status) = s,
         \A e \in Rows \ {d} : isporuke'[e].status = isporuke[e].status
  PROVE  [e \in Rows |-> message_state(isporuke'[e].status)]
           = [[e \in Rows |-> message_state(isporuke[e].status)] EXCEPT ![d] = s]
BY DEF message_state

LEMMA ShownSame ==
  ASSUME \A d \in Rows : isporuke'[d].status = isporuke[d].status
  PROVE  [d \in Rows |-> message_state(isporuke'[d].status)]
           = [d \in Rows |-> message_state(isporuke[d].status)]
BY DEF message_state

-----------------------------------------------------------------------------
(* The steps that show *)

LEMMA PublishOpens ==
  ASSUME IInv, NEW n \in Notif, apply_publish(n) PROVE Ledger!Next
<1> DEFINE S == {d \in Rows : isporuke'[d].status # isporuke[d].status}
<1>1. \A d \in S : isporuke[d].status = "NONE" /\ isporuke'[d].status = "PENDING"
  BY DEF apply_publish, add_pending
<1>2. \A d \in Rows \ S : isporuke'[d].status = isporuke[d].status
  OBVIOUS
<1>3. \A d \in Rows : flight(d)' = flight(d)
  BY DEF apply_publish, flight, unrecorded, hist
<1> HIDE DEF S
<1>4. \A m \in S : [d \in Rows |-> message_state(isporuke[d].status)][m] = "none"
  BY <1>1 DEF message_state, S
<1>5. [d \in Rows |-> message_state(isporuke'[d].status)]
        = [d \in Rows |-> IF d \in S THEN "open"
                          ELSE [e \in Rows |-> message_state(isporuke[e].status)][d]]
  BY <1>1, <1>2 DEF message_state
<1>6. [d \in Rows |-> flight(d)'] = [d \in Rows |-> flight(d)]
  BY <1>3
<1>7. Ledger!Open(S)
  BY <1>4, <1>5, <1>6, Zenon DEF Ledger!Open
<1>8. S \in SUBSET Rows
  BY DEF S
<1> QED BY <1>7, <1>8, Zenon DEF Ledger!Next

LEMMA ResendShown ==
  ASSUME IInv, NEW n \in Notif, resend_commit(n) PROVE Ledger!Next
<1> DEFINE S == {d \in Rows : isporuke'[d].status # isporuke[d].status}
<1>1. \A d \in S : isporuke[d].status \in {"SENT", "FAILED", "SKIPPED"}
                     /\ isporuke'[d].status = "PENDING"
  <2> SUFFICES ASSUME NEW d \in S
               PROVE  isporuke[d].status \in {"SENT", "FAILED", "SKIPPED"}
                        /\ isporuke'[d].status = "PENDING"
    OBVIOUS
  <2>1. isporuke'[d].status = "PENDING" /\ isporuke[d].status # "NONE"
    BY ResendReopens, IInvIsBooks DEF Books
  <2>2. isporuke[d].status \in Statuses \cup {"NONE"}
    BY DEF IInv, TypeOK, Row
  <2> QED BY <2>1, <2>2 DEF Statuses
<1>2. \A d \in Rows \ S : isporuke'[d].status = isporuke[d].status
  OBVIOUS
<1>3. \A d \in Rows : flight(d)' = flight(d)
  BY DEF resend_commit, flight, unrecorded, hist
<1> HIDE DEF S
<1>4. \A m \in S : [d \in Rows |-> message_state(isporuke[d].status)][m]
                     \in {"delivered", "abandoned"}
  BY <1>1 DEF message_state, S
<1>5. [d \in Rows |-> message_state(isporuke'[d].status)]
        = [d \in Rows |-> IF d \in S THEN "open"
                          ELSE [e \in Rows |-> message_state(isporuke[e].status)][d]]
  BY <1>1, <1>2 DEF message_state
<1>6. [d \in Rows |-> flight(d)'] = [d \in Rows |-> flight(d)]
  BY <1>3
<1>7. Ledger!Reopen(S)
  BY <1>4, <1>5, <1>6, Zenon DEF Ledger!Reopen
<1>8. S \in SUBSET Rows
  BY DEF S
<1> QED BY <1>7, <1>8, Zenon DEF Ledger!Next

\* An open row's acceptance, whether the worker is told of it or not.
LEMMA AcceptShown ==
  ASSUME NEW d \in Rows, isporuke[d].status = "PENDING", UNCHANGED isporuke,
         flight(d) = "no", flight(d)' \in {"confirmed", "unconfirmed"},
         \A e \in Rows \ {d} : flight(e)' = flight(e)
  PROVE  Ledger!Accept(d)
<1> PICK answer \in {"confirmed", "unconfirmed"} : answer = flight(d)'
  OBVIOUS
<1>1. [e \in Rows |-> flight(e)'] = [[e \in Rows |-> flight(e)] EXCEPT ![d] = answer]
  BY FlyingExcept
<1>2. [e \in Rows |-> message_state(isporuke'[e].status)]
        = [e \in Rows |-> message_state(isporuke[e].status)]
  BY ShownSame
<1>3. [e \in Rows |-> message_state(isporuke[e].status)][d] = "open"
  BY DEF message_state
<1>4. [e \in Rows |-> flight(e)][d] = "no"
  OBVIOUS
<1> QED BY <1>1, <1>2, <1>3, <1>4, Zenon DEF Ledger!Accept

\* Before the call nothing is in flight, and the row in hand is open.
LEMMA NothingInFlight ==
  ASSUME IInv, NEW d \in Rows, d \in worker.cur, worker.pc = "send"
  PROVE  /\ isporuke[d].status = "PENDING" /\ \A e \in worker.cur : e = d
         /\ unconfirmed = {} /\ \A e \in Rows : flight(e) = "no"
         /\ worker \in Worker /\ worker.new \in Row
<1>1. isporuke[d].status = "PENDING" /\ \A e \in worker.cur : e = d
  BY DEF IInv, ClaimedStaysPending, WorkerShape
<1>2. unconfirmed = {}
  BY DEF IInv, UnconfirmedInHand
<1>3. \A e \in Rows : flight(e) = "no"
  BY <1>2 DEF flight, unrecorded
<1>4. worker \in Worker /\ worker.new \in Row
  BY DEF IInv, TypeOK, Worker
<1> QED BY <1>1, <1>2, <1>3, <1>4

LEMMA SendAccepts ==
  ASSUME IInv, NEW d \in Rows, send_ok(d) PROVE Ledger!Accept(d)
<1>1. d \in worker.cur /\ worker.pc = "send" /\ UNCHANGED <<isporuke, unconfirmed>>
  BY DEF send_ok
<1>2. /\ isporuke[d].status = "PENDING" /\ \A e \in worker.cur : e = d
      /\ unconfirmed = {} /\ \A e \in Rows : flight(e) = "no"
      /\ worker \in Worker /\ worker.new \in Row
  BY <1>1, NothingInFlight
<1>3. worker'.pc = "commit" /\ worker'.cur = worker.cur /\ worker'.new.status = "SENT"
  BY <1>2 DEF send_ok, Worker, Row
<1>4. flight(d)' = "confirmed"
  BY <1>1, <1>3 DEF flight, unrecorded
<1>5. \A e \in Rows \ {d} : flight(e)' = "no"
  BY <1>1, <1>2, <1>3 DEF flight, unrecorded
<1> QED BY <1>1, <1>2, <1>4, <1>5, AcceptShown

\* An error answer shows only when FCM accepted the message all the same.
LEMMA ErrorShown ==
  ASSUME IInv, NEW d \in Rows, send_error(d)
  PROVE  Ledger!Accept(d) \/ UNCHANGED Ledger!ledger
<1> DEFINE pokusaji == worker.copy[d].broj_pokusaja + 1
<1>1. d \in worker.cur /\ worker.pc = "send" /\ UNCHANGED isporuke
  BY DEF send_error
<1>2. /\ isporuke[d].status = "PENDING" /\ unconfirmed = {}
      /\ \A e \in Rows : flight(e) = "no"
      /\ worker \in Worker /\ worker.new \in Row
  BY <1>1, NothingInFlight
<1> HIDE DEF pokusaji
<1>3. worker' = [worker EXCEPT !.pc = "commit", !.new =
        IF last_attempt(pokusaji)
          THEN [@ EXCEPT !.status = "FAILED", !.broj_pokusaja = pokusaji,
                         !.sledeci_pokusaj = NoTime]
          ELSE [@ EXCEPT !.status = "PENDING", !.broj_pokusaja = pokusaji,
                         !.sledeci_pokusaj = worker.at + retry_backoff(pokusaji)]]
  BY DEF send_error, pokusaji
<1>4. worker'.new.status # "SENT"
  BY <1>2, <1>3 DEF Worker, Row
<1>5. \A e \in Rows : flight(e)' = IF e \in unconfirmed' THEN "unconfirmed" ELSE "no"
  BY <1>4 DEF flight, unrecorded
<1>6. unconfirmed' = {d} \/ unconfirmed' = {}
  BY <1>2 DEF send_error
<1>7. CASE unconfirmed' = {d}
  <2>1. flight(d)' = "unconfirmed" /\ \A e \in Rows \ {d} : flight(e)' = "no"
    BY <1>5, <1>7
  <2> QED BY <1>1, <1>2, <2>1, AcceptShown
<1>8. CASE unconfirmed' = {}
  <2>1. \A e \in Rows : flight(e)' = "no"
    BY <1>5, <1>8
  <2> QED BY <1>1, <1>2, <2>1, LedgerStutter
<1> QED BY <1>6, <1>7, <1>8

LEMMA CommitShown ==
  ASSUME IInv, NEW d \in Rows, commit_row(d)
  PROVE  Ledger!Record(d) \/ Ledger!Abandon(d) \/ Ledger!Forget(d) \/ UNCHANGED Ledger!ledger
<1>1. /\ isporuke[d].status = "PENDING" /\ worker.new.status \in Statuses
      /\ isporuke'[d].status = worker.new.status /\ \A e \in worker.cur : e = d
      /\ \A e \in Rows \ {d} : isporuke'[e].status = isporuke[e].status
  BY CommitRecords, IInvIsBooks DEF Books
<1>2. d \in worker.cur /\ worker.pc = "commit" /\ worker'.cur = {} /\ unconfirmed' = {}
  BY AdvanceShape DEF commit_row, IInv, TypeOK
<1>3. \A e \in Rows : flight(e)' = "no"
  BY <1>2 DEF flight, unrecorded
<1>4. \A e \in Rows \ {d} : flight(e) = "no"
  BY <1>1, FlightOfHand
<1>5. flight(d) = "confirmed" <=> worker.new.status = "SENT"
  BY <1>2 DEF flight, unrecorded
<1>6. [e \in Rows |-> flight(e)'] = [[e \in Rows |-> flight(e)] EXCEPT ![d] = "no"]
  BY <1>3, <1>4, FlyingExcept
<1>7. /\ [e \in Rows |-> message_state(isporuke[e].status)][d] = "open"
      /\ [e \in Rows |-> flight(e)][d] = flight(d)
  BY <1>1 DEF message_state
<1>8. CASE worker.new.status = "SENT"
  <2>1. [e \in Rows |-> message_state(isporuke'[e].status)]
          = [[e \in Rows |-> message_state(isporuke[e].status)] EXCEPT ![d] = "delivered"]
    <3>1. message_state(isporuke'[d].status) = "delivered"
      BY <1>1, <1>8 DEF message_state
    <3> QED BY <1>1, <3>1, ShownExcept
  <2>2. [e \in Rows |-> flight(e)][d] = "confirmed"
    BY <1>5, <1>7, <1>8
  <2> QED BY <1>6, <2>1, <2>2, Zenon DEF Ledger!Record
<1>9. CASE worker.new.status \in {"FAILED", "SKIPPED"}
  <2>1. [e \in Rows |-> message_state(isporuke'[e].status)]
          = [[e \in Rows |-> message_state(isporuke[e].status)] EXCEPT ![d] = "abandoned"]
    <3>1. message_state(isporuke'[d].status) = "abandoned"
      BY <1>1, <1>9 DEF message_state
    <3> QED BY <1>1, <3>1, ShownExcept
  <2>2. [e \in Rows |-> flight(e)][d] # "confirmed"
    BY <1>5, <1>7, <1>9
  <2> QED BY <1>6, <1>7, <2>1, <2>2, Zenon DEF Ledger!Abandon
<1>10. CASE worker.new.status = "PENDING"
  <2>1. \A e \in Rows : isporuke'[e].status = isporuke[e].status
    BY <1>1, <1>10
  <2>2. CASE flight(d) = "no"
    <3>1. \A e \in Rows : flight(e)' = flight(e)
      BY <1>3, <1>4, <2>2
    <3> QED BY <2>1, <3>1, LedgerStutter
  <2>3. CASE flight(d) # "no"
    <3>1. [e \in Rows |-> message_state(isporuke'[e].status)]
            = [e \in Rows |-> message_state(isporuke[e].status)]
      BY <2>1, ShownSame
    <3>2. [e \in Rows |-> flight(e)][d] # "no"
      BY <1>7, <2>3
    <3> QED BY <1>6, <3>1, <3>2, Zenon DEF Ledger!Forget
  <2> QED BY <2>2, <2>3
<1> QED BY <1>1, <1>8, <1>9, <1>10 DEF Statuses

LEMMA FailureForgets ==
  ASSUME IInv, Failures
  PROVE  (\E d \in Rows : Ledger!Forget(d)) \/ UNCHANGED Ledger!ledger
<1>1. UNCHANGED isporuke /\ worker'.cur = {} /\ unconfirmed' = {}
  <2>1. CASE crash
    BY <2>1 DEF crash, Idle, Resting
  <2>2. ASSUME NEW d \in Rows, rollback_row(d)
        PROVE  UNCHANGED isporuke /\ worker'.cur = {} /\ unconfirmed' = {}
    BY <2>2, AdvanceShape DEF rollback_row, IInv, TypeOK
  <2> QED BY <2>1, <2>2 DEF Failures
<1>2. \A e \in Rows : flight(e)' = "no"
  BY <1>1 DEF flight, unrecorded
<1>3. CASE \A e \in Rows : flight(e) = "no"
  BY <1>1, <1>2, <1>3, LedgerStutter
<1>4. CASE \E e \in Rows : flight(e) # "no"
  <2>1. PICK d \in Rows : flight(d) # "no"
    BY <1>4
  <2>2. \A e \in Rows \ {d} : flight(e) = "no"
    BY <2>1, FlightOfHand DEF IInv, WorkerShape
  <2>3. [e \in Rows |-> flight(e)'] = [[e \in Rows |-> flight(e)] EXCEPT ![d] = "no"]
    BY <1>2, <2>2, FlyingExcept
  <2>4. [e \in Rows |-> flight(e)][d] # "no"
    BY <2>1
  <2>5. [e \in Rows |-> message_state(isporuke'[e].status)]
          = [e \in Rows |-> message_state(isporuke[e].status)]
    BY <1>1, ShownSame
  <2>6. Ledger!Forget(d)
    BY <2>3, <2>4, <2>5, Zenon DEF Ledger!Forget
  <2> QED BY <2>6
<1> QED BY <1>3, <1>4

-----------------------------------------------------------------------------
(* The steps that do not show, and the theorem *)

LEMMA QuietSteps ==
  ASSUME IInv,
         \/ UNCHANGED vars \/ Employees \/ Tick \/ claim_ready_batch \/ process_next
         \/ \E n \in Notif : apply_archive(n) \/ resend_load(n)
         \/ \E d \in Rows : check_notification(d) \/ check_user(d) \/ get_active_token(d)
                             \/ check_session(d) \/ send_invalid_token(d)
  PROVE  UNCHANGED Ledger!ledger
<1>1. ASSUME UNCHANGED <<isporuke, worker, unconfirmed>> PROVE UNCHANGED Ledger!ledger
  <2>1. \A d \in Rows : flight(d)' = flight(d)
    BY <1>1 DEF flight, unrecorded
  <2> QED BY <1>1, <2>1, LedgerStutter
<1>2. ASSUME UNCHANGED <<isporuke, unconfirmed>>, worker.pc # "commit" \/ worker.cur = {},
             \/ worker'.pc # "commit" \/ worker'.new.status # "SENT"
      PROVE  UNCHANGED Ledger!ledger
  <2>1. \A d \in Rows : unrecorded(d) = 0 /\ unrecorded(d)' = 0
    BY <1>2 DEF unrecorded
  <2>2. \A d \in Rows : flight(d)' = flight(d)
    BY <1>2, <2>1 DEF flight
  <2> QED BY <1>2, <2>2, LedgerStutter
<1>3. worker \in Worker /\ worker.new \in Row
  BY DEF IInv, TypeOK, Worker
<1>4. CASE UNCHANGED vars \/ Employees \/ Tick
  BY <1>1, <1>4 DEF vars, Employees, Tick, mark_read, mark_unread, login, logout, upsert,
                    session_expires, account_changes, hist
<1>5. CASE \E n \in Notif : apply_archive(n) \/ resend_load(n)
  BY <1>1, <1>5 DEF apply_archive, resend_load, hist
<1>6. CASE claim_ready_batch
  <2>1. UNCHANGED <<isporuke, unconfirmed>> /\ worker.pc = "idle" /\ worker'.pc = "pick"
    BY <1>6 DEF claim_ready_batch, Resting, hist
  <2> QED BY <1>2, <2>1
<1>7. CASE process_next
  <2>1. UNCHANGED <<isporuke, unconfirmed>> /\ worker.pc = "pick" /\ worker'.pc = "notif"
    BY <1>3, <1>7 DEF process_next, Worker, hist
  <2> QED BY <1>2, <2>1
<1>8. ASSUME NEW d \in Rows,
             \/ check_notification(d) \/ check_user(d) \/ get_active_token(d)
             \/ check_session(d) \/ send_invalid_token(d)
      PROVE  UNCHANGED Ledger!ledger
  <2>1. UNCHANGED <<isporuke, unconfirmed>> /\ worker.pc \in {"notif", "user", "token", "session", "send"}
    BY <1>8 DEF check_notification, check_user, get_active_token, check_session,
                send_invalid_token, hist
  <2>2. ASSUME NEW step \in {"user", "token", "session", "send"}, goto(step)
        PROVE  worker'.pc # "commit"
    BY <1>3, <2>2 DEF goto, Worker
  <2>3. ASSUME skip(d) PROVE worker'.new.status = "SKIPPED"
    BY <1>3, <2>3 DEF skip, Worker, Row
  <2>4. ASSUME NEW dropped, postpone(d, dropped) PROVE worker'.new.status = "PENDING"
    BY <1>3, <2>4 DEF postpone, Worker, Row
  <2>5. worker'.pc # "commit" \/ worker'.new.status # "SENT"
    <3>1. CASE check_notification(d)
      BY <2>2, <2>3, <3>1 DEF check_notification
    <3>2. CASE check_user(d)
      BY <2>2, <2>3, <3>2 DEF check_user
    <3>3. CASE get_active_token(d)
      BY <1>3, <2>4, <3>3 DEF get_active_token, Worker
    <3>4. CASE check_session(d)
      BY <2>2, <2>4, <3>4 DEF check_session
    <3>5. CASE send_invalid_token(d)
      BY <2>4, <3>5 DEF send_invalid_token
    <3> QED BY <1>8, <3>1, <3>2, <3>3, <3>4, <3>5
  <2> QED BY <1>2, <2>1, <2>5
<1> QED BY <1>4, <1>5, <1>6, <1>7, <1>8

LEMMA StepLedger == IInv /\ [Next]_vars => [Ledger!Next]_Ledger!ledger
<1> SUFFICES ASSUME IInv, [Next]_vars PROVE Ledger!Next \/ UNCHANGED Ledger!ledger
  OBVIOUS
<1>1. ASSUME NEW n \in Notif, apply_publish(n) PROVE Ledger!Next
  BY <1>1, PublishOpens
<1>2. ASSUME NEW n \in Notif, resend_commit(n) PROVE Ledger!Next
  BY <1>2, ResendShown
<1>3. ASSUME NEW d \in Rows, Ledger!Accept(d) \/ Ledger!Record(d) \/ Ledger!Forget(d)
                                \/ Ledger!Abandon(d)
      PROVE  Ledger!Next
  BY <1>3, Zenon DEF Ledger!Next
<1>4. ASSUME NEW d \in Rows, send_ok(d) PROVE Ledger!Next
  <2>1. Ledger!Accept(d)
    BY <1>4, SendAccepts
  <2> QED BY <1>3, <2>1
<1>5. ASSUME NEW d \in Rows, commit_row(d) PROVE Ledger!Next \/ UNCHANGED Ledger!ledger
  <2>1. \/ Ledger!Record(d) \/ Ledger!Abandon(d) \/ Ledger!Forget(d)
        \/ UNCHANGED Ledger!ledger
    BY <1>5, CommitShown
  <2> QED BY <1>3, <2>1
<1>6. CASE Failures
  <2>1. (\E d \in Rows : Ledger!Forget(d)) \/ UNCHANGED Ledger!ledger
    BY <1>6, FailureForgets
  <2> QED BY <1>3, <2>1
<1>7. CASE \/ UNCHANGED vars \/ Employees \/ Tick \/ claim_ready_batch \/ process_next
           \/ \E n \in Notif : apply_archive(n) \/ resend_load(n)
           \/ \E d \in Rows : check_notification(d) \/ check_user(d) \/ get_active_token(d)
                              \/ check_session(d) \/ send_invalid_token(d)
  BY <1>7, QuietSteps
<1>8. ASSUME NEW d \in Rows, send_error(d) PROVE Ledger!Next \/ UNCHANGED Ledger!ledger
  <2>1. Ledger!Accept(d) \/ UNCHANGED Ledger!ledger
    BY <1>8, ErrorShown
  <2> QED BY <1>3, <2>1
<1> QED BY <1>1, <1>2, <1>4, <1>5, <1>6, <1>7, <1>8
        DEF Next, Administration, process_batch, process_one

LEMMA InitLedger == Init => Ledger!Init
<1> SUFFICES ASSUME Init PROVE Ledger!Init
  OBVIOUS
<1>1. [d \in Rows |-> message_state(isporuke[d].status)] = [d \in Rows |-> "none"]
  BY DEF Init, NoCopies, NoRow, message_state
<1>2. \A d \in Rows : flight(d) = "no"
  BY DEF Init, Idle, Resting, flight, unrecorded
<1>3. [d \in Rows |-> flight(d)] = [d \in Rows |-> "no"]
  BY <1>2
<1> QED BY <1>1, <1>3, Zenon DEF Ledger!Init

\* Every behaviour of the outbox is one the ledger allows.
THEOREM OutboxImplementsLedger == Spec => ImplementsLedger
<1>1. Init => Ledger!Init
  BY InitLedger
<1>2. IInv /\ [Next]_vars => [Ledger!Next]_Ledger!ledger
  BY StepLedger
<1> QED BY <1>1, <1>2, Invariance, PTL DEF Spec, ImplementsLedger, Ledger!Spec

-----------------------------------------------------------------------------
(* Notifications, as far as delivery takes part in them, implement         *)
(* NotificationRegister, as Notifications does in full.                    *)

\* Whoever has read a notification has received it.
ReadersReceived == \A n \in Notif : procitano[n] \subseteq primaoci[n]

RegisterInv == TypeOK /\ ReadersReceived

status_of == [n \in Notif |-> notif[n].status]
expiry_of == [n \in Notif |-> notif[n].datum_isteka]

\* Only these steps touch the inbox.
LEMMA InboxKept ==
  ASSUME [Next]_vars, \A n \in Notif : ~apply_publish(n) /\ ~apply_archive(n),
         \A n \in Notif, u \in User : ~mark_read(n, u) /\ ~mark_unread(n, u)
  PROVE  UNCHANGED <<notif, primaoci, procitano>>
<1>1. CASE UNCHANGED vars BY <1>1 DEF vars, inbox
<1>2. ASSUME NEW n \in Notif, resend_load(n) \/ resend_commit(n) PROVE UNCHANGED inbox
  BY <1>2 DEF resend_load, resend_commit
<1>3. CASE Employees \/ Tick
  BY <1>3 DEF Employees, Tick, login, logout, upsert, session_expires, account_changes, inbox
<1>4. CASE claim_ready_batch \/ process_next \/ Failures
  <2>1. claim_ready_batch => UNCHANGED inbox BY DEF claim_ready_batch
  <2>2. process_next => UNCHANGED inbox BY DEF process_next
  <2>3. Failures => UNCHANGED inbox BY DEF Failures, crash, rollback_row
  <2> QED BY <1>4, <2>1, <2>2, <2>3 DEF inbox
<1>5. ASSUME NEW d \in Rows, process_one(d) PROVE UNCHANGED inbox
  BY <1>5 DEF process_one, check_notification, check_user, get_active_token, check_session, send_ok,
              send_invalid_token, send_error, commit_row
<1> QED BY <1>1, <1>2, <1>3, <1>4, <1>5 DEF Next, Administration, process_batch, inbox

LEMMA PublishRegistered ==
  ASSUME RegisterInv, NEW n \in Notif, apply_publish(n)
  PROVE  ReadersReceived' /\ Register!Next
<1>1. PICK ciljani \in SUBSET User, istek \in Instants :
        /\ {u \in ciljani : nalog[u] # "off"} # {}
        /\ primaoci' = [primaoci EXCEPT ![n] = @ \cup {u \in ciljani : nalog[u] # "off"}]
        /\ notif' = [notif EXCEPT ![n] = [status |-> "PUBLISHED", datum_isteka |-> istek]]
  BY DEF apply_publish
<1> DEFINE S == primaoci[n] \cup {u \in ciljani : nalog[u] # "off"}
<1>2. S \in (SUBSET User) \ {{}} BY <1>1 DEF RegisterInv, TypeOK
<1>3. primaoci' = [primaoci EXCEPT ![n] = S] BY <1>1
<1>4. notif[n].status = "DRAFT" /\ UNCHANGED procitano BY DEF apply_publish
<1> HIDE DEF S
<1>5. \A m \in Notif : /\ notif'[m].status = IF m = n THEN "PUBLISHED" ELSE notif[m].status
                       /\ notif'[m].datum_isteka = IF m = n THEN istek ELSE notif[m].datum_isteka
  BY <1>1 DEF RegisterInv, TypeOK
<1>6. status_of' = [status_of EXCEPT ![n] = "PUBLISHED"] BY <1>5 DEF status_of
<1>7. expiry_of' = [expiry_of EXCEPT ![n] = istek] BY <1>5 DEF expiry_of
<1>8. status_of[n] = "DRAFT" BY <1>4 DEF status_of
<1>9. Register!Publish(n)
  BY <1>2, <1>3, <1>4, <1>6, <1>7, <1>8 DEF Register!Publish, status_of, expiry_of
<1>10. ReadersReceived'
  <2>1. \A m \in Notif : primaoci[m] \subseteq primaoci'[m] BY <1>1 DEF RegisterInv, TypeOK
  <2> QED BY <1>4, <2>1 DEF RegisterInv, ReadersReceived
<1> QED BY <1>9, <1>10 DEF Register!Next

LEMMA ArchiveRegistered ==
  ASSUME RegisterInv, NEW n \in Notif, apply_archive(n)
  PROVE  ReadersReceived' /\ Register!Next
<1>1. notif[n].status = "PUBLISHED" /\ UNCHANGED <<primaoci, procitano>> BY DEF apply_archive
<1>2. notif' = [notif EXCEPT ![n].status = "ARCHIVED"] BY DEF apply_archive
<1>3. \A m \in Notif : /\ notif'[m].status = IF m = n THEN "ARCHIVED" ELSE notif[m].status
                       /\ notif'[m].datum_isteka = notif[m].datum_isteka
  BY <1>2 DEF RegisterInv, TypeOK
<1>4. status_of' = [status_of EXCEPT ![n] = "ARCHIVED"] BY <1>3 DEF status_of
<1>5. expiry_of' = expiry_of BY <1>3 DEF expiry_of
<1>6. status_of[n] = "PUBLISHED" BY <1>1 DEF status_of
<1>7. Register!Archive(n)
  BY <1>1, <1>4, <1>5, <1>6 DEF Register!Archive, status_of, expiry_of
<1>8. ReadersReceived' BY <1>1 DEF RegisterInv, ReadersReceived
<1> QED BY <1>7, <1>8 DEF Register!Next

LEMMA MarkRegistered ==
  ASSUME RegisterInv, NEW n \in Notif, NEW u \in User, mark_read(n, u) \/ mark_unread(n, u)
  PROVE  ReadersReceived' /\ Register!Next
<1>1. UNCHANGED <<notif, primaoci>> BY DEF mark_read, mark_unread
<1>2. u \in primaoci[n] BY DEF mark_read, mark_unread, RegisterInv, ReadersReceived
<1>3. procitano' = [procitano EXCEPT ![n] = IF u \in @ THEN @ \ {u} ELSE @ \cup {u}]
  BY DEF mark_read, mark_unread
<1>4. Register!Mark(n, u) BY <1>1, <1>2, <1>3 DEF Register!Mark
<1>5. ReadersReceived'
  <2>1. \A m \in Notif : procitano'[m] \subseteq procitano[m] \cup IF m = n THEN {u} ELSE {}
    BY <1>3 DEF RegisterInv, TypeOK
  <2> QED BY <1>1, <1>2, <2>1 DEF RegisterInv, ReadersReceived
<1> QED BY <1>4, <1>5 DEF Register!Next

LEMMA StepRegistered ==
  RegisterInv /\ [Next]_vars => ReadersReceived' /\ [Register!Next]_Register!register
<1> SUFFICES ASSUME RegisterInv, [Next]_vars
             PROVE  ReadersReceived' /\ (Register!Next \/ UNCHANGED Register!register)
  OBVIOUS
<1>1. CASE /\ \A n \in Notif : ~apply_publish(n) /\ ~apply_archive(n)
           /\ \A n \in Notif, u \in User : ~mark_read(n, u) /\ ~mark_unread(n, u)
  <2>1. UNCHANGED <<notif, primaoci, procitano>> BY <1>1, InboxKept
  <2> QED BY <2>1 DEF RegisterInv, ReadersReceived, Register!register
<1> QED BY <1>1, PublishRegistered, ArchiveRegistered, MarkRegistered

\* A notification of the outbox is one of the register: what delivery assumes of
\* publishing, archiving and marking is what Notifications gives.
THEOREM OutboxImplementsRegister == Spec => ImplementsRegister
<1>1. Init => RegisterInv /\ Register!Init
  <2>1. Init => RegisterInv BY InitTypeOK DEF Init, RegisterInv, ReadersReceived
  <2>2. Init => Register!Init BY DEF Init, Register!Init
  <2> QED BY <2>1, <2>2
<1>2. RegisterInv /\ [Next]_vars => RegisterInv'
  BY StepTypeOK, StepRegistered DEF RegisterInv
<1> QED BY <1>1, <1>2, StepRegistered, PTL DEF Spec, ImplementsRegister, Register!Spec
=============================================================================
