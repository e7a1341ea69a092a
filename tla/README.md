# PULS API — verification development

TLA+ modules, TLC configurations and TLAPS proofs kept beside the PULS API: a FastAPI service on
SQLAlchemy and Oracle, with workers that send push notifications (FCM), discover system events, assign
onboarding surveys and provision employees (SMS). The source is the reference: `PROJECT.json` maps every
definition to the lines of `src/` it stands for. The repository has no prose documentation besides Serbian
docstrings, comments, SQL headers and tests; where a model disagrees with one of them, a *violation* run
shows it.

## 1. Inventory

State is in Oracle tables. Every request and every worker uses one SQLAlchemy session: no autoflush,
**no expiry on commit**, READ COMMITTED, and an `UPDATE` writes only the columns changed since the
instance was loaded. Nearly everything hard in this system follows from that: a service that reads
without `FOR UPDATE` decides on a copy, and writes part of a row that may have changed.

| component | state | operations | interacts with | what makes it correct |
|---|---|---|---|---|
| Push delivery (`push_service`, `push_delivery_repository`, `push_worker`) | `PULS_PUSH_ISPORUKE` rows, worker's copies | claim a batch, check each row, send, commit per row, back off, give up | publishing and resend write the rows; tokens, sessions, accounts and notifications are read | the worker is told of at most one acceptance per opening of a row, and FCM accepts at most `fcm_max_attempts` messages per opening, unless the record of one was lost; a PENDING row can always be claimed; archived notifications are not pushed |
| Notification publishing and administration | `PULS_OBAVESTENJA`, targets, recipients, categories | draft, edit, publish, archive, resend | opens delivery rows in the same transaction | what was published stays as it was sent, to whom it was sent; recipients and delivery rows agree; a resend reopens what it counts |
| Notification inbox | recipients' read flag | list, mark read / unread | resend picks the unread | a mark is dated within the period of its notification; paging misses nothing |
| Authentication and sessions | accounts, sessions, reset codes | login, logout, authenticate, change, forgot / reset password, confirm phone | SMS; deactivates push tokens | a revoked session or used code never returns; nothing is stored that was not sent |
| Push tokens | token rows per device | upsert, deactivate | delivery picks the active token | a token has one owner |
| System events (`system_notification_service`, worker) | `PULS_SISTEMSKI_DOGADJAJI` | discover, enqueue once, claim, resolve, publish, retry | surveys, idea cycles and app versions enqueue; publishes notifications | an event yields at most one notification and is not lost |
| Surveys: lifecycle | `PULS_ANKETE`, structure, targets, participations | create, edit, activate, close, extend, archive | worker moves the status on time; enqueues events | what becomes active is announced and has participants; due surveys are moved |
| Surveys: participation (`survey_service`) | `PULS_ANKETA_UCESCA`, drafts, submissions | save draft, submit | reads the survey's status and period | submissions and participations balance; named ones are unique |
| Survey structure: question types, conditions, visibility | questions, conditions; a table of types, a copy of it in every process | validate, compute visibility, check answers | draft, submit and edit use it | what is stored is what was asked, whichever copy of the types answers |
| Survey results | none (reads) | aggregate, export | submissions | totals agree with submissions |
| Onboarding surveys | rules, automatic participations | set a rule, assign due surveys | dates of employment from HR, surveys, events | one assignment per employee and survey, in its window; whoever is due is assigned |
| Onboarding documents | one row per document, the PDF a BLOB in it, audit rows | create, edit, replace, publish, withdraw, archive; list, open, download | audit log | what employees can read does not change under them; a version is one content |
| Ideas and cycles | ideas, cycles | submit, edit, decide, score; plan, activate and close cycles | enqueue events | one active cycle; per-user limit |
| Provisioning | accounts without a password | send temporary passwords, batch by batch | HR synchronisation, SMS | everyone who can be reached gets a password; what was sent is what is stored |
| User administration | accounts, roles | lock, unlock, reset, deactivate | sessions, SMS | a lockout leaves no active session |
| Configuration | key/value rows | validated upsert | every service reads it | values are of their type and range |
| Audit, dashboard, roles, SMS, API plumbing, HR PL/SQL, download page | append-only log / none | — | — | not stateful in themselves, or outside the service |

`PROJECT.json` lists every component with its sources and status, and under `hazards` what can go wrong
at which line.

**Which behaviours are hard.** Two requests of one employee or of two administrators overlapping (all
modules); a worker's batch held across commits (push, events, provisioning); the gap between an external
effect (FCM, SMS) and the commit that records it, or an answer that never comes back; periodic status changes by a worker racing an
administrator; batches that must not starve the rest of a queue; copies of slow data (question types) that
differ between processes.

## 2. Modules

| module | models | kind |
|---|---|---|
| `PushOutbox` | push worker, publish, archive, resend, inbox flags, sessions and tokens as far as delivery depends on them | detailed specification |
| `DeliveryLedger` | what the outbox promises about one message, whether the worker learns of its acceptance or not | abstract specification |
| `NotificationRegister` | what employees may rely on about a notification: sent once, archived at most once, marked only by its recipients; implemented by `Notifications` and by `PushOutbox` | abstract specification |
| `MCPushOutbox` | symmetry, bound | model checking |
| `PushOutboxProofs` | types, inductive invariants and the safety properties, refinements | proofs |
| `Notifications` | notifications from the draft to the inbox: administrators' requests, recipients, marks, paging | detailed specification |
| `MCNotifications` | two drafts, symmetry | model checking |
| `NotificationsProofs` | what was sent and read, complete paging, what publication freezes, refinement | proofs |
| `Accounts` | one account with its sessions, token, reset codes and SMS, under overlapping requests | detailed specification |
| `MCAccounts` | devices, symmetry | model checking |
| `AccountsProofs` | types, row locks, sent-before-stored, lockout, revocation | proofs |
| `SystemEvents` | the queue of system events: enqueue under a unique key, process, retry, give up | detailed specification |
| `EventsProofs` | types, row lock, single announcement, key and change, counted attempts | proofs |
| `SurveyLifecycle` | editing, publishing, activating, extending and closing a survey; the worker's transitions | detailed specification |
| `MCSurveyLifecycle` | contents, dates and employees side by side | model checking |
| `SurveyLifecycleProofs` | types, what threads know, announcement, participants | proofs |
| `SurveyParticipation` | answering a survey: drafts and submissions of overlapping requests | detailed specification |
| `SurveyAnswers` | question types and their copies, structures, conditions, visibility, what is stored of an answer | detailed specification |
| `EmployeeAnswers` | `SurveyAnswers` under names that fit beside another part, and what its constants must satisfy | instance |
| `MCSurveyParticipation` | types, structures and answers for TLC; participation and answers side by side | model checking |
| `SurveyProofs` | participation: types, exclusion, balance, uniqueness, reachable drafts; visibility and stored answers | proofs |
| `Ideas` | submitting, editing, scoring and deciding ideas; cycles | detailed specification |
| `MCIdeas` | periods of two cycles, symmetry | model checking |
| `IdeasProofs` | exclusion and limit, single active cycle, events, decisions kept | proofs |
| `Provisioning` | the worker's rounds over employees without a password | detailed specification |
| `OnboardingDocuments` | documents for employees, their versions, audit rows and readers | detailed specification |
| `EmployeeDocuments` | `OnboardingDocuments` under names that fit beside another part | instance |
| `MCOnboarding` | provisioning and documents side by side | model checking |
| `OnboardingAssignment` | onboarding rules and the rounds that assign surveys | detailed specification |
| `MCOnboardingSurveys` | two rules and two days | model checking |
| `OnboardingProofs` | rounds of assignment; documents | proofs |

Two MC modules hold two parts that share no state (`MCSurveyParticipation`, `MCOnboarding`). Their variable
`deo` is chosen at first and says which part moves; the variables of the other stay as they are, so such a
run checks each part alone. In `MCSurveyLifecycle`, `deo` says which inputs of one part vary (see Bounds).

### PushOutbox

*State.* `isporuke` are the delivery rows; `worker` is the control state of `process_batch` with the
instances it loaded (`copy`), the row in hand (`cur`), its changed instance (`new`) and the rest of the
batch (`todo`); `resend[n]` is a resend that has loaded its rows. `accepted`, `confirmed`, `unconfirmed`, `lost`
and `late` are history variables, not state of the code: how often FCM accepted a row's message, how often it
said so, the row in hand if it was accepted and answered with an error, the acceptances whose row was never
committed, and those after the archiving.

*Actions.* `claim_ready_batch` loads due PENDING rows in the order of the code; `process_next` takes a
row; `check_notification`, `check_user`, `get_active_token`, `check_session` are the checks of
`_process_one` in its order, each reading the database at its own moment; `send_ok`,
`send_invalid_token` and `send_error` are the results of `FcmProvider.send`. Every exception of the library but two
becomes an error result (`fcm_provider.py:117-121`), a time-out and a lost response among them, so an error does
not mean that FCM refused: `send_error` may be an acceptance (`accepts`), which the code counts as a failed attempt
and repeats, or gives up as FAILED. The two exceptions that mean an unusable token are FCM's own refusals.
`commit_row` flushes only the changed columns; `rollback_row` is a failed row (a rollback expires the instances, so the rest of the batch is
read again); `crash` loses the worker's memory. The claim has no lock that outlives the first commit of
the batch, so a resend fits between any two of these steps. `apply_publish` opens rows, `resend_load` and
`resend_commit` are the two halves of `apply_resend_unread`.

One call of `messaging.send` is one acceptance at most; what the library repeats by itself is not in the
repository.

*Refinement.* In `DeliveryLedger` a message is open, delivered or abandoned, and an acceptance in flight is
confirmed or unconfirmed. A confirmed one is recorded or forgotten (a lost commit), never followed by giving the
message up; after an unconfirmed one, the message stays open or is given up. Steps of the worker that neither
open, close nor accept are stutters.

*What the model shows and no property denies*: a message FCM accepted is sent again, or its row given up as
FAILED, when the answer was lost (TLC reaches two acceptances with one opening and no lost commit, both ending
SENT and FAILED); a resend that loaded a PENDING row which the worker meanwhile
commits as SENT omits `STATUS` from its update, so the row is counted as resent and not sent; and a worker whose
session check is overtaken by a new login deactivates the token of that login.

### Notifications

*State.* `obavestenja` are the notifications with their targets (what an administrator writes, `Nacrt`, is one
model value with text, category, targets and expiry), `primaoci` the recipient rows with their read mark,
`zaposleni` and `kategorije` what publication reads of employees and categories. `zahtev[a]` is an
administrator's transaction, `oznaka[c]` one of the employee `u` that marks, `lista[l]` a pass of `u` through
the pages of the inbox (with what was there at first, what a total counted and what was shown).

*Actions.* `apply_create_draft`, `apply_update_draft` and `apply_archive` lock the row
(`get_notification_for_update`), check it and work on it; `apply_publish` takes the time and then waits for
the row (`publish_locked`), where it checks draft, category, recipients and expiry and resolves the targets;
`commit` or `rollback` ends each. `require_available` looks without a lock, `get_recipient_for_update` locks
the recipient row, `mark_commit` writes it. `list_inbox` counts, `list_rows` is the second statement of the
page. `update_category` and `synchronise` change what a publication has already read.

*Refinement.* `NotificationRegister` has three steps, `Publish`, `Archive` and `Mark`, and no requests, locks or
copies. Its `stanje`, content, recipients and readers are those of the rows that were sent (`stanje`, `poslato`,
`primili`, `procitali`); a draft shows nothing, so an edit, every step before a commit and every rollback are
stutters, and only `commit` and `mark_commit` are steps. `PushOutbox` publishes, archives and marks in one step each;
that it implements the same register says that delivery is given the notifications employees see.

*Abstraction.* The resend and the push rows are in `PushOutbox`. The targets `CENTRALA` and `MALOPRODAJA`,
which the code refuses, the filter by read state and the unread count (they only read), listings of the
administrators and the creation of categories are left out.

### Accounts

*State.* `nalog` is the row of one account, `sesije` and `kodovi` its sessions and reset codes, `token` the
device whose FCM token is active, `poslato` what the SMS gateway accepted. `zahtev[t]` is the request thread `t`
executes: what it decided from the copies it read (`kolone`, `new`), the statements it still has to execute
(`plan`) and the rows it holds (`drzi`).

*Actions.* Every endpoint is one action that reads and decides (`login`, `register_failed_attempt`,
`authenticate_refused`, `touch_activity`, `change_password`, `confirm_phone`, `logout`, `register_token`,
`delete_token`, `forgot_password`, `reset_password`, `wrong_code`; `lock`, `unlock`, `deactivate`,
`admin_reset_password`, which lock the account at once; `provision_one` of the worker). Then `send_sms` or
`sms_not_sent` where the request sends one, `execute` for each statement, which waits for the rows it changes
and holds them, and `commit`, which writes the changed columns. `token_conflict` is the refusal by the unique
index on active tokens, `deadlock_detected` a cycle that the database breaks, `rollback` any other failure.
The order of a plan is the order of the statements in the code: bulk `UPDATE`s where they are called, the
ORM's changes at the flush.

*Abstraction.* Hashes, JWTs and expiry are abstract: a password is the temporary one it was or `"sopstvena"`,
every wrong password may be tried at any time, a session may expire at any time. The HR synchronisation writes one
column, `STATUS_ZAPOSLENJA`.

*What the model shows and no property denies*: two overlapping logins leave two active sessions; a login that
read the account before a lockout and commits after it opens a session (a locked or disabled account refuses
its use, a reset one does not); failed logins that overlap count as one; a provisioning that overlaps a reset
of the employee leaves a temporary password without the flag that forces its change.

### SystemEvents

*State.* `dogadjaji` are the rows by key; `radnik[w]` is the control state of `process_batch` in worker
process `w`; `zahtev[r]` is a business transaction that enqueues (`nov`: it has inserted the key and not
committed); `vazi[e]` says whether the event still calls for a notification, which `_resolve*` reads from
surveys, cycles, ideas, versions and recipients; `obavestenja` counts the notifications published for an
event. `promene` and `neuspesi` are history.

*Actions.* `enqueue_if_absent` looks for the key, `insert_event` inserts it (waiting for an uncommitted
twin, refused by the unique key when one is committed), `commit_change` and `rollback_change` end the
business transaction. `list_ready_ids` lists a batch without locks, `get_for_update` locks one row and looks
at its status again, `resolve` decides, `commit_event` commits event and notification together,
`commit_raises` is a commit of unknown outcome, `process_fails` a rollback, `record_failure` counts in a
transaction of its own and is refused by the check constraint on a published row. The deployment rule is one
process; two stand for a restart that overlaps.

### SurveyLifecycle

*State.* `anketa` is the row of one survey, `struktura` its committed content (sections, questions, targets:
a record of whether the questions pass and of the targets), `aktivni` the active employees, `ucesca` the
participants, `automatska` whether an onboarding rule refers to it, `dogadjaj` and `podsetnici` the event keys the
survey has, `posao[t]` what administrator thread or worker `t` has read and is about to commit. `izmaklo` is
history: a status was committed whose targets gave somebody when they were validated and nobody when they were
read again.

*Actions.* Every operation is a read (`update_survey`, `change_status`, `extend_deadline`,
`discover_events`) and a commit (`persist_structure`, `commit_status`, `commit_deadline`,
`commit_discovery`) that writes the changed columns. Between the two halves of `change_status` stand the
statements of the first exit from DRAFT, each reading what is committed at its own moment: the onboarding rule
(`get_by_survey_id`), the questions (`validate_structure`), the targets and whom they give (`validate_targets`),
both again (`_materialize_targets`), and the insert, which waits for another thread's uncommitted participants
(`add_ucesce`). Between any two of them an edit may commit, a rule appear (`upsert`) or employees come and go
(`synchronise`). `rollback` is any refusal or failure. The row lock is taken by the flush next to
the commit, so a lock wait is a delay of the commit step.

*Abstraction.* Whether the questions of a content pass is a constant, and so is who belongs to a target; reminders
are keyed by the deadline; the other surveys and cycles of a discovery round share nothing with this one but its
commit. Targets and the employees in them are read in one step: were they two, an edit or a departure between
them could only make them give nobody, which one between validation and materialisation does as well
(`izmaklo`). Somebody is active at any time (`synchronise`): whoever publishes is an active employee himself.

*What the model shows and no property denies*: a survey an administrator closed while the worker held a copy
is ACTIVE again when the worker commits; and a survey leaves DRAFT without a single participant when its targets
are edited away, or the employees in them leave, after `validate_structure` saw somebody and before
`_materialize_targets` looks, because `survey_admin_service.py:349` inserts whomever it found and does not check
that it found anyone. `LeftDraftHasParticipants` excepts exactly this (`izmaklo`): nothing else, no rule created
meanwhile, no second activation, no stale copy, no worker, leaves a survey without.

### SurveyParticipation

*State.* `ucesce`, `nacrti`, `predaje` are the participation row, the questions with a committed draft
answer and the number of submissions of each employee; `zahtev[r]` is the request a thread executes, with
what it has read (survey, participation, clock) and the draft rows it has deleted but not committed.

*Actions.* A save reads and checks (`save_draft`), deletes the drafts it sees (`delete_draft`, which
waits for another uncommitted delete), stores the answers and commits (`store_draft`), or collides with
the unique key (`store_draft_duplicate`). A submit reads the survey (`submit`), waits for the row lock and
checks (`get_ucesce_for_update`), then inserts, deletes drafts and commits (`add_submission`), or is refused
by the index on named submissions (`submission_refused`). The row lock is the predicate `locked`. `deadlock`
is the one lock cycle the two can form, which Oracle breaks.

*Abstraction.* Which answers are visible and answered is a choice of a set of questions. A failed
mandatory-question check returns before any write and is not distinguished from not calling. The status of the
survey changes as `SurveyLifecycle` lets it: stale copies make any of the four statuses follow any other (TLC finds
each of the twelve steps there), but none becomes DRAFT (`LeavesDraftForGood`). Period, questions and anonymity are
constants of a behaviour, although a deadline may be extended, which only widens the times at which requests are
accepted, and an edit that overlaps an activation may rewrite the rest (the run `lifecycle_structure`).

### SurveyAnswers

*State.* `tabela` is the table of question types (a row absent, active or withdrawn), `kes[p]` the copy of
process `p` with its age, `pitanja` the structure of one survey (per question: type, options, condition,
mandatory), `odgovori` what is stored of one employee's answers, `zahtev` the request being answered between
its check and its store.

*Actions.* `update_survey` writes a structure that passes `validate_admin_survey_payload`, `change_status`
publishes one that passes `validate_structure`; `check_answers` is the first half of a save or submission
(`validate_answers`), `save_draft` and `submit` the second (`compute_visibility`, `stored`, `complete`). Each
calls the registry again (`get_question_type`), which renews a copy older than `CACHE_TTL_SECONDS` or, when
the read fails, keeps it for another period. `change_types` is the database administrator, `restart` loses a
copy and the request.

*Pure parts.* Visibility is a recursive function over the order of the questions; conditions, fields and
values are operators on one question. `AnswersInv` judges what is stored with definitions of its own
(`asked`, on the stored answers alone), so it compares the algorithm with a reference. It is inductive as the run
checks it: besides what is stored (`AnswersAreAsked`, `SubmissionIsComplete`, `AnswersHaveValues`) and the copies
(`TypesAreTakenOver`) it says why these hold (`CopiesAreDated`, `StructureRests`, `RequestIsChecked`).

*Assumptions on the constants* (`ConstantsAssumption`): the built-in types are types and every component is one of
`KOMPONENTE`, as check constraints and `BUILTIN_TYPES` say; a structure is a list; what is sent for a question is a
finite set of values, of one value unless the field is `opcija_ids`, the only list among the fields.

*Abstraction.* One request at a time (overlaps are in `SurveyParticipation`), and the structure rests once the
survey is active (overlaps of edits and activation are in `SurveyLifecycle`). The table changes only by new
types and by `AKTIVAN`, because sql/008 forbids changing the component or the bounds of a type in use.

### Ideas

*State.* `ciklusi` and `ideje` are the committed rows (a cycle's status; an idea's author, cycle, status,
text and HR score), `dogadjaji` the keys of the enqueued events, `posao[t]` what request thread `t` has read
and is about to commit.

*Actions.* `create_idea` takes the time, `get_active_cycle_for_update` locks and checks the active cycle
and counts, `insert_idea` inserts, commits and releases. `update_my_idea`, `set_hr_score` and
`change_idea_status` read an idea without a lock; `enqueue_distinction` looks for the event of a decision;
`commit_idea` writes the changed columns and the event. `change_cycle_status` reads a cycle,
`enqueue_idea_cycle_activated` counts the active ones and looks for the event, `commit_cycle` waits for an
employee who holds the cycle and is refused by the unique indexes. `rollback` is any refusal or failure.

*Abstraction.* A cycle's period is a constant, as nothing changes it; `MAX_IDEJA` is constant, though an
administrator may change the configuration; snapshots of the author are left out. `KONACNA_OCENA` stays
empty, since no code writes `AI_OCENA`. `update_my_idea` reads the idea and its cycle in one step.

### Provisioning

*State.* `korisnici` (absent, employed, left; has a password), `smetnja[u]`, why an employee can never be
provisioned (no usable phone, or processing him always raises), and `posao`, the round with the rest of its
batch.

*Actions.* `list_candidates_for_provisioning` reads the lowest ids, `skip` is a candidate without a phone or a
refused SMS, `send_sms` and `commit` the two halves of success, `rollback` a failure of either, `crash` and
`start` the process. `synchronise` and `deactivate` are the world. That an employee's password may have changed
since the batch was read is in `Accounts`.

### OnboardingDocuments

*State.* `dokumenti` are the rows (status, metadata, content, version, dates), `dnevnik` what the audit rows tell
of each, `zahtev[a]` a request that holds a row, `citalac[e]` what an employee opened and downloaded, `izdanja`
(history) every pair of version and content.

*Actions.* `create`, `update`, `replace_content` and `change_status` lock, check and flush, `commit` or `rollback`
end them; `get_published` and `get_published_content` are two requests of an employee, between which anything
may happen. The inspection of a PDF is abstract: `Pdf` are the contents that pass.

### OnboardingAssignment

*State.* `pravila` are the rules, `ankete` whether a survey is active, `korisnici` the dates of employment,
`ucesca` the participations; `radnik[w]` is a worker's discovery (rules as read, candidates left, dates in the
session, rows inserted and not committed), `zahtev[a]` an administrator's change of a rule.

*Actions.* `assign_due_surveys` reads the active rules, `find_qualified_candidates` the survey and candidates of
one rule, `add_ucesce` inserts for one candidate (waiting for another worker's uncommitted twin, failing on a
committed one), `next_rule`, `commit`. `upsert`, `get_for_update`, `upsert_commit` are an administrator's change,
refused by the two unique indexes. `synchronise`, `survey_changes` and `tick` are the world; `rollback` and
`deadlock_detected` end a round without a trace.

*Abstraction.* Only surveys that are not anonymous (the others are refused), no `DATUM_PRIMENE_OD` (a
further column of a rule, a lower bound on dates of employment), one kind of refusal. The rest of the discovery transaction shares
nothing with this part but its commit.

## 3. Runs

| run | properties | shows |
|---|---|---|
| `outbox` | `AcceptancesAccountedFor`, `PendingIsClaimable`, `IInv`, `ArchiveStopsPushing`, `OutboxMatchesRecipients`, `TerminalUntilResend`, `ImplementsLedger` | a batch of two rows of users who share a phone at one instant, and the retries of one row over three, lost answers of FCM included, through every interleaving of worker, resend, archiving, token and session changes and one fault |
| `outbox_progress` | `DueRowsAreHandled` | with a batch of one, a backlog of two, a locked account and one fault, every due row is handled |
| `accounts` | `StoredIsDelivered`, `IInv`, `RevokedForever`, `LockoutIsComplete` | two overlapping requests, of employee, administrator or worker, on an account with two sessions on devices of their own, one code, one temporary password |
| `events` | `AnnouncedOnce`, `GivenUpAfterMaxAttempts`, `IInv`, `EventIffChange`, `DueEventsAreHandled` | two workers, two transactions, two events in batches of one, a commit of unknown outcome or a crash |
| `participation` | `SubmissionsBalance`, `DraftsAreReachable`, `IInv` (with `NamedOnce`); `AnswersInv` | a manual and an automatic participant, anonymous or named, two overlapping requests, one failure; and the answers to three questions under conditions through two processes with copies of the types |
| `lifecycle` | `ActivationAnnounced`, `LeftDraftHasParticipants`, `IInv`, `DueSurveysAreMoved`, `LeavesDraftForGood` | two administrators, the worker, an onboarding rule and a failed round: the dates of a survey with one content, and edits of targets and employees who come and go between the statements of a first exit |
| `ideas` | `OneActiveCycle`, `WithinLimit`, `DistinctionsAnnounced`, `IInv`, `EnteredWhileActive`, `EditsKeepDecisions` | two overlapping requests on two ideas and two cycles whose periods meet in one instant, limit one |
| `onboarding` | `EveryoneIsProvisioned`; `DocumentInv`, `PublishedIsFrozen` | batches of two that an employee who cannot be reached occupies in part, with crashes and refusals; and one document under two administrators and a reader |
| `onboarding_surveys` | `IInv` (with `AssignmentInv`), `DueIsAssigned` | two overlapping rounds, two administrators, corrected dates of employment and surveys that close, over two days |
| `notifications` | `IInv` (with `NotificationInv`), `PagingMissesNothing`, `ImplementsRegister` | two administrators edit, publish and archive two notifications while a reader pages and marks from two phones, leaves and comes back; and a third one is written, published and archived while he pages |

Violation runs (each one a disagreement between the code and a comment or test, see `findings`):

| run | counterexample |
|---|---|
| `participation_resubmit` | a save's copy said NOT_STARTED; its commit overwrites SUBMITTED and the anonymous survey is submitted twice |
| `lifecycle_structure` | an edit that saw DRAFT rewrites the structure after another administrator's activation |

**Bounds.** Each bound is a constant of its module that appears in a guard, except `Bound`, a state constraint
of `outbox` and, another one, of `notifications`, and what `MCSurveyLifecycle` keeps fixed.

* `outbox`: `Instants`, `MaxResend`, `MaxFault` bound the clock, the resends and the failed transactions. With
  several recipients the clock stands still and no answer is lost (`Bound`): rows interact only through a batch and
  a shared device, which one instant shows, and back-off and retries, after lost answers too, concern a row by
  itself, which a single recipient shows over three instants. Two attempts are the least with a retry.
  `MaxUnanswered`, acceptances of one row answered with an error, is two: as many as one opening has attempts.
* `outbox_progress` has `MaxUnanswered` zero: a lost answer differs from another error only in the history
  variables, which its property does not read.
* `accounts`: two threads are the least that overlap; two sessions are the least that a second login revokes;
  `Strop` and `MAX_NEUSPESNIH_PRIJAVA` of two let a failure count and lock. `AccountsProofs` does without.
* `participation`: `MaxPredaja`, `MaxFault`, `MaxTime`; in the answers `MaxPromena` changes of the table and
  `MaxKvar` failed reads or restarts. Three questions are the least chain in which the condition on a hidden
  question matters; a copy's period of one and a last moment of one let copies differ and be renewed in the
  middle of a request. One question is enough for the balance, the violation run uses two.
* `events`: two workers, two transactions and two events are the least with an overlap, a shared key and a queue
  longer than a batch.
* `lifecycle`: three instants are the least with a survey that is scheduled, begins and ends. The two parts
  (`deo`): `rokovi` has all dates and the clock with one content and fixed employees, `ljudi` all contents and every
  change of employees at one instant. Content
  and employees matter only to the first exit from DRAFT, which `ljudi` takes to either status; the transitions
  that follow and the worker depend on the clock and are in `rokovi`. The contents are one for a unit, one for nobody and one whose questions do
  not pass; two employees, of whom one is in the unit, let the targets give nobody while somebody is active.
* `ideas`: two requests of one employee are the least that can pass a limit of one, two cycles the least that
  can both be active; one text is enough because a score overlaps decisions as an edit does, and
  `DecisionsKept` is proved for any texts.
* `onboarding`: three employees and batches of two are the least where an employee waits behind one who cannot
  be reached; `MaxSmetnji` is not only a bound but the premise of the property, since as many of these as a
  batch holds do starve the rest. Two administrators, three versions and three contents let two replacements
  overlap.
* `onboarding_surveys`: `MaxPreklapanja` transactions at a time and `MaxIzmena` changes. Day 2 is in the window
  of either rule; the next day it is not.
* `notifications`: `MaxPreklapanja` requests and passes at a time; an inactive category only refuses
  publications, so while it is inactive the employee is not absent and does not page (`Bound`); three notifications
  and pages of one row are the least where something is published between two pages of a pass that began with
  two, which moves the rows behind it: TLC reaches such passes of three pages, the third notification dated after or
  before what was seen. The third comes once the first is sent and the second drafted, and while it is there nothing
  else is refused, edited, archived or marked (`WhilePaging`); all that is explored with two. A row that leaves the
  inbox between two pages makes those behind it move forward, and the code does miss one then, which is why
  `PagingMissesNothing` excepts such passes (`mirno`).

Symmetry is used only in runs without liveness. Deadlock is checked in `accounts`, `onboarding_surveys` and
`notifications`, where somebody can always act; elsewhere a bounded clock and used-up bounds let the system
come to rest, and the cfg says `CHECK_DEADLOCK FALSE`.

**Fairness.** Nothing is assumed of employees, of administrators' intentions or of a single answer of FCM.

* `outbox_progress`: weak fairness of `process_batch`, since `push_worker.py` loops and catches exceptions, and of
  a begun resend's commit, since a request runs to its end.
* `events` and `lifecycle`: weak fairness of each worker's rounds, as `system_notification_worker.py` schedules
  them for ever. A round whose discovery raises skips the queue, so this also assumes that discovery does not
  fail for ever.
* `onboarding`: weak fairness of the rounds (the job runs every few minutes, one instance at a time) and strong
  fairness, for each employee, of the SMS and of the commit: the gateway accepts and the database commits if they
  are asked again and again. The property speaks of a worker that is not stopped for ever.
* `onboarding_surveys`: weak fairness of rounds and of begun requests. The property speaks of rounds that do not
  fail for ever.

## 4. Proofs

For every value of the constants that satisfies the module's assumptions:

* `PushOutboxProofs!TypeCorrect` — types of the outbox.
* `PushOutboxProofs!Invariance` — `IInv` is invariant. `AcceptancesAccountedFor` is not inductive: a
  worker that believed a closed row to be open could add an acceptance. `IInv` adds that only the worker
  takes a claimed row out of PENDING (`ClaimedStaysPending`), that the worker holds one row at a time
  (`WorkerShape`), that absent rows carry nothing (`AbsentRowsAreBlank`), that the resend counter in every
  copy is current, because the lock on the notification makes resends exclusive (`ResendCountCurrent`), and two
  credits: an open row that is not in flight has one confirmed acceptance to come (`ConfirmedCredit`), and an open
  row as many acceptances, of either kind, as it has attempts left (`AttemptCredit`). The second needs that every
  attempt is counted: that an unconfirmed acceptance is that of the row in hand, whose counter the commit will raise
  (`UnconfirmedInHand`), and that a stale copy never lowers a counter except by a resend (`AttemptsCounted`).
* `PushOutboxProofs!AcceptancesBounded`, `RecipientsMatch` — the two safety properties `IInv` implies.
* `PushOutboxProofs!ArchiveStops` — `LateOnce`: once a message has gone out late, the notification is
  archived for good and the worker is before its first check or already at its commit, so none follows.
* `PushOutboxProofs!PendingRowsClaimable`, `TerminalRowsWait` — `Openness`, a conjunct of `IInv`: what the worker holds of open rows
  is retriable, like the rows themselves (`HeldRowsRetriable`), and a closed row that a resend has loaded has not
  changed since (`ClosedCopyIsCurrent`). Every column a flush leaves then comes from one of two retriable rows,
  and a resend of a closed row overwrites it as a whole.
* `PushOutboxProofs!OutboxImplementsLedger` — every step maps to a step or a stutter of `DeliveryLedger`. A
  `send_error` that was an acceptance is `Accept` with an unconfirmed answer; the commit that follows it is `Forget`
  or, after the last attempt, `Abandon`.
* `PushOutboxProofs!OutboxImplementsRegister` — the same for `NotificationRegister`, with the invariant that who has
  read a notification received it (`ReadersReceived`). TLC agrees on the instance of `outbox`; the property is not
  listed in that run.
* `AccountsProofs!AccountsInvariance` — its `IInv` says of every request, whatever overlaps it: a row is held by
  one request (`HeldByOne`); what it is about to store was sent (`SentFirst`); an administrator holds the account
  and, once past the statement on sessions, every active session (`AdminHolds`), which stays true because a
  session is opened only by a login that holds the account too (`PlansFit`); and what it is about to create does
  not exist and is created by no other request (`CreatedOnce`). From it `StoredWasDelivered`,
  `LockoutCompletes` and `RevocationLasts`. The number of codes must be finite for their order.
* `SurveyProofs!ParticipationInvariance`, `SubmissionsBalanced`, `NamedSubmittedOnce` — a submit that passed
  its checks owns the row and the row is open (`LockedIsOpen`): a save with a stale copy may reopen the
  participation but cannot close it, so every submission closes an open one.
* `SurveyProofs!DraftsReachable` — `DraftInv`: a save works on a copy of a participation that was not begun, which
  it will begin itself, or on one that was, and its start is never taken back (`CopiesStarted`, `RowsStarted`).
* `EventsProofs!EventsInvariance`, `EventAnnouncedOnce`, `EventTiedToChange`, `EventGivenUpInTime` — who
  locks an event alone holds a PENDING row (`LockHeld`), a row is PROCESSED exactly when it has its one
  notification (`AnnouncedIffProcessed`), a transaction that inserted a key is alone in that
  (`InsertAlone`), and the counted attempts plus the workers about to count are at most the attempts that
  failed (`AttemptsFailed`; it needs finitely many workers).
* `SurveyLifecycleProofs!LifecycleInvariance`, `ActiveIsAnnounced`, `PublishedHasParticipants`,
  `DraftIsLeftForGood` — rules and participations are never removed, so what a thread has read of them stays true
  until it commits; targets and employees are not so, and all that lasts of them is that whoever validated targets
  found somebody (`KnownToThreads`: `provereni` is not empty), which is what makes a first exit that then finds
  nobody an `izmaklo`. That a survey which left DRAFT has participants, a rule, or was missed in this way is
  `Provided`, and it stays. A status that appears was written by a thread that knew enough for it, or was there
  before. A thread that writes a status never writes DRAFT, and one that edits or extends writes none: that
  discharges what `SurveyParticipation` assumes of its survey.
* `IdeasProofs!IdeasInvariance` — who holds a cycle's row is alone in that, and the cycle stays active and
  the count right until the insert (`Holders`); events and ideas are never removed, so what a stale copy
  tells of them is still true (`Known`). From it `LimitRespected`, `DistinctionsHaveEvents`,
  `OneCycleActive`, `EnteredActiveCycle` and `DecisionsKept`; the limit needs finitely many ideas.

* `NotificationsProofs!Invariance`, `SentAndRead` — a request holds the row it read until its commit (`HeldByOne`,
  `HeldIsCurrent`), so an edit, a publication and an archiving follow one another in the order of the statuses
  (`becomes`, which also gives what a publication writes its period and its unread recipients); a mark was decided
  within the period of a published notification and its recipient row is in hand (`MarksFit`).
* `NotificationsProofs!PagingComplete` — `UnseenIsAhead`: while nothing leaves, whatever a pass has not shown yet
  and was there at first stands at the offset of the next page or behind it, because rows that are added move it
  only further back; when the total says that no page is left, nothing stands there. It needs finitely many
  notifications.
* `NotificationsProofs!NotificationsImplementRegister` — every step maps to a step or a stutter of
  `NotificationRegister`. By `HeldIsCurrent` a commit makes of the row as it is one of three things: an edit shows
  nothing, a publication is `Publish` with the recipients that were resolved under the lock, an archiving is
  `Archive` and keeps every mark that was committed while it was under way. A marking writes the recipient row it holds, so it
  changes that recipient's mark, once, or nothing.
* `NotificationsProofs!SentIsFinal` — `PublishedIsFinal`, the action property on the rows themselves: what was sent
  stays as it is in every column but its status. The register says it of what employees see, and the run checks that.
* `OnboardingProofs!Invariance`, `Assigned` — a round works with the dates in force, unless they
  were corrected meanwhile, and the window of every candidate left is open (`DatesFit`); it inserts each pair once
  (`InsertedOnce`), and nobody inserts what is committed or what another round inserts, because of the unique key
  (`NovelToAll`); a rule that a request has read is never removed (`RulesStay`).
* `OnboardingProofs!DocumentsHold`, `PublishedStays` — here the invariant is inductive as the run checks it: a row
  is held by one request from its lock to its commit (`HeldByOne`), so the copy it works on is the row
  (`HeldIsCurrent`, with what each audited change may make of a row, `changes`), the row has the last of the
  editions (`LastEdition`) and no reader was shown one yet to come (`ShownIsPast`). These two are about the instance in
  `EmployeeDocuments`, which `MCOnboarding` checks.
* `SurveyProofs!VisibilityIsDetermined` — `compute_visibility` is a recursive function; for every structure whose
  conditions name earlier questions it solves its equation, and no other assignment of visibility does. Both
  directions are inductions over the order of the questions, carried by the least question that would differ
  (`LeastNat`, from the minimum principle of `WellFoundedInduction` for sets of naturals), because a theorem that
  takes a predicate as a parameter cannot be instantiated here.
* `SurveyProofs!AnswersHold` — what is stored was asked, by what is stored alone: a stored answer is to a visible
  question, whose control question is visible and answered by that equation, so its answer is stored too
  (`StoredAnswers`). The request was checked against copies of the types that may be replaced before it stores
  (`RequestIsChecked` speaks of questions and types only, never of a copy, which is why it survives), and the
  structure does not change once answers are possible (`StructureRests`, whose conditions name earlier
  questions that are no texts, as `validate_structure` required with whatever copy it had). A copy from after the
  last change of the table is the table (`CopiesAreDated`), so a period later none is older (`CopiesTakenOver`).
  It is about the instance in `EmployeeAnswers`, which `MCSurveyParticipation` checks.

**Model-checked only.** Liveness under fairness is beyond the prover: `DueRowsAreHandled`, `DueEventsAreHandled`,
`DueSurveysAreMoved`, `EveryoneIsProvisioned`, `DueIsAssigned`. Every other property of a passing run is a theorem.

## 5. Plan

Done, in this order: `PushOutbox` with `DeliveryLedger`; `SurveyParticipation`; `SystemEvents`;
`SurveyLifecycle`; `Ideas`; `Accounts`; `Provisioning`; `SurveyAnswers`; `OnboardingDocuments`;
`OnboardingAssignment`; `Notifications`; the proofs of every safety and action property the runs check;
`NotificationRegister` with its two refinements.

Possible extensions: a register of submissions that participation implements, and safety of `Provisioning` beyond its
liveness.

## 6. Not modelled

Formatting, wording, HTTP routing and schemas, dashboards, listings and survey results (they only read), PDF
parsing and hashing (library calls), the audit log except where it tells a document's state, the HR PL/SQL
(outside the service; its effect on accounts and dates of employment is an environment action), the static
download page, roles (stateless checks of a request).

Configuration is one validated write per key that locks its row, and every reader takes the value once; the
models have it as constants. Switching back to an earlier app version enqueues no event, since its key exists for
ever (`admin_configuration_service.py`); this is by the shape of the key and `SystemEvents` has it.

Time is discrete, so sub-minute effects such as the truncation of a message's remaining lifetime are outside the
models. Smaller known effects that no property denies: discovery that always raises stops the queue of system
events; a scheduled survey whose whole period passes while the worker is down is never moved; an idea can enter
after a cycle's deadline by the time it waited for the cycle's row.
