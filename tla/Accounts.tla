------------------------------- MODULE Accounts -------------------------------
(***************************************************************************)
(* One employee account with its sessions, the FCM token of its active     *)
(* device, its reset codes and the passwords and codes sent to it by SMS,  *)
(* under overlapping requests of the employee, of administrators and of    *)
(* the provisioning worker.                                                *)
(*                                                                         *)
(* Every request reads what it needs and decides (one action per request), *)
(* sends its SMS if it has one, executes its statements in order, and      *)
(* commits.  A statement waits for the rows it changes and holds them to   *)
(* the commit; what the ORM changed itself it writes last, the changed     *)
(* columns only.  An administrator alone locks the account row at once.    *)
(***************************************************************************)
EXTENDS Integers, FiniteSets, Sequences

CONSTANTS
  Sesija,      \* ids of sessions
  Uredjaj,     \* Uredjaj[s]: the device session s is opened on
  Privremena,  \* temporary passwords
  Kod,         \* reset codes
  None,
  Thread,      \* overlapping requests
  MAX_NEUSPESNIH_PRIJAVA,
  RESET_CODE_MAX_ATTEMPTS,
  Strop        \* bound: the failed logins counted

ASSUME ConstantsAssumption ==
  /\ None \notin Sesija \cup Privremena \cup Kod \cup {Uredjaj[s] : s \in Sesija}
  /\ "sopstvena" \notin Privremena
  /\ Privremena \cap Kod = {} /\ Sesija \cap Kod = {}
  /\ {"nalog", "token"} \cap (Sesija \cup Kod) = {}
  /\ MAX_NEUSPESNIH_PRIJAVA \in Nat /\ RESET_CODE_MAX_ATTEMPTS \in Nat /\ Strop \in Nat
  /\ IsFiniteSet(Kod)

VARIABLES
  nalog,    \* the row of the account
  sesije,   \* AKTIVNA of each session, "-" before it is opened
  token,    \* the device whose FCM token is active
  kodovi,   \* rows of reset codes
  poslato,  \* temporary passwords and codes the SMS gateway accepted
  zahtev    \* the request of each thread

vars == <<nalog, sesije, token, kodovi, poslato, zahtev>>

-----------------------------------------------------------------------------

Device == {Uredjaj[s] : s \in Sesija}

\* omogucen: STATUS_ZAPOSLENJA = AKTIVAN and STATUS_NALOGA = OMOGUCEN.  lozinka: the
\* password LOZINKA_HASH is of, "sopstvena" one the employee chose.  telefon: valid.
Nalog == [omogucen : BOOLEAN, zakljucan : BOOLEAN, neuspesne : Nat,
          lozinka : Privremena \cup {"sopstvena", None}, obavezna : BOOLEAN, telefon : BOOLEAN]
Kolona == {"omogucen", "zakljucan", "neuspesne", "lozinka", "obavezna", "telefon"}

\* redni = 0: not created; otherwise its place in the order of DATUM_ZAHTEVA.
KodRed == [redni : Nat, aktivan : BOOLEAN, pokusaji : Nat]

Redovi == {"nalog", "token"} \cup Sesija \cup Kod

Naredba == {"nalog", "sesije", "sesija", "token", "token_uredjaja", "kodovi", "kod"}

Admin == {"lock", "unlock", "deactivate", "admin_reset_password"}
Operacija == Admin \cup
  {"login", "failed_attempt", "refuse", "touch", "change_password", "confirm_phone", "logout",
   "register", "delete_token", "forgot_password", "reset_password", "wrong_code", "provision"}

ASSUME NoneAssumption == None \notin Operacija

NoNalog == [omogucen |-> FALSE, zakljucan |-> FALSE, neuspesne |-> 0,
            lozinka |-> None, obavezna |-> FALSE, telefon |-> FALSE]

\* plan: the statements left; drzi: the rows held; kolone, new: the columns of the
\* account it changes, and to what; s: its session; k, pokusaji: the code as read;
\* p: what it sends.
Zahtev == [pc : {"idle", "sms", "work"}, op : Operacija \cup {None}, plan : Seq(Naredba),
           drzi : SUBSET Redovi, kolone : SUBSET Kolona, new : Nalog, s : Sesija \cup {None},
           k : Kod \cup {None}, pokusaji : Nat, p : Privremena \cup Kod \cup {None}]
Idle == [pc |-> "idle", op |-> None, plan |-> <<>>, drzi |-> {}, kolone |-> {},
         new |-> NoNalog, s |-> None, k |-> None, pokusaji |-> 0, p |-> None]

\* A new employee of the HR synchronisation, or one with a password of his own.
Init ==
  /\ nalog \in [omogucen : {TRUE}, zakljucan : {FALSE}, neuspesne : {0},
                lozinka : {"sopstvena", None}, obavezna : BOOLEAN, telefon : BOOLEAN]
  /\ nalog.obavezna <=> nalog.lozinka = None
  /\ sesije = [s \in Sesija |-> "-"]
  /\ token = None
  /\ kodovi = [k \in Kod |-> [redni |-> 0, aktivan |-> FALSE, pokusaji |-> 0]]
  /\ poslato = {}
  /\ zahtev = [t \in Thread |-> Idle]

Tables == <<nalog, sesije, token, kodovi>>

-----------------------------------------------------------------------------
(* What a request reads, and how it begins *)

Held(t) == UNION {zahtev[u].drzi : u \in Thread \ {t}}

begin(t, z) ==
  /\ zahtev[t] = Idle
  /\ zahtev' = [zahtev EXCEPT ![t] = z]
  /\ UNCHANGED poslato /\ UNCHANGED Tables

\* An UPDATE of the ORM names the columns that differ from the copy it has read; a
\* new hash differs from every other, of the same password too.
changed(op, c, new) ==
  \/ new[c] # nalog[c]
  \/ c = "lozinka" /\ op \in {"change_password", "reset_password"}

\* A request op that leaves the account as new.
Request(op, pc, plan, new) ==
  LET kolone == {c \in Kolona : changed(op, c, new)}
  IN [Idle EXCEPT !.pc = pc, !.op = op, !.plan = plan, !.kolone = kolone,
                  !.new = [c \in Kolona |-> IF c \in kolone THEN new[c] ELSE NoNalog[c]]]

\* What the next SMS carries: never sent before.
Fresh(p) == p \notin poslato /\ \A t \in Thread : zahtev[t].p # p

-----------------------------------------------------------------------------
(* login *)

\* Every password the request checks is checked against the account as read.
may_log_in == nalog.omogucen /\ ~nalog.zakljucan

login(t, s) ==
  /\ may_log_in /\ nalog.lozinka # None
  /\ sesije[s] = "-" /\ \A u \in Thread : zahtev[u].s # s
  /\ begin(t, [Request("login", "work", <<"sesije", "token", "nalog">>,
                       [nalog EXCEPT !.neuspesne = 0]) EXCEPT !.s = s])

\* A wrong password: the counter of the copy is increased, at the limit it locks.
register_failed_attempt(t) ==
  LET n == nalog.neuspesne + 1 IN
  /\ may_log_in
  /\ n <= Strop
  /\ begin(t, Request("failed_attempt", "work", <<"nalog">>,
                      [nalog EXCEPT !.neuspesne = n,
                                    !.zakljucan = (n >= MAX_NEUSPESNIH_PRIJAVA)]))

-----------------------------------------------------------------------------
(* Requests with the token of a session *)

is_valid(s) == sesije[s] = "D" /\ may_log_in

with_session(t, s, z) == sesije[s] = "D" /\ begin(t, [z EXCEPT !.s = s])

\* Expired, which it may be at any time, or of an account that is not valid any more:
\* the session is revoked.
authenticate_refused(t, s) ==
  with_session(t, s, Request("refuse", "work", <<"token_uredjaja", "sesija">>, nalog))

\* A request that changes nothing here but POSLEDNJA_AKTIVNOST.
touch_activity(t, s) ==
  is_valid(s) /\ with_session(t, s, Request("touch", "work", <<"sesija">>, nalog))

change_password(t, s) ==
  /\ is_valid(s) /\ nalog.lozinka # None
  /\ with_session(t, s, Request("change_password", "work", <<"nalog">>,
       [nalog EXCEPT !.lozinka = "sopstvena", !.obavezna = FALSE, !.neuspesne = 0]))

confirm_phone(t, s) ==
  /\ is_valid(s)
  /\ with_session(t, s, Request("confirm_phone", "work", <<"nalog">>,
                                [nalog EXCEPT !.telefon = TRUE]))

logout(t, s) ==
  is_valid(s) /\ with_session(t, s, Request("logout", "work", <<"token_uredjaja", "sesija">>, nalog))

register_token(t, s) ==
  is_valid(s) /\ with_session(t, s, Request("register", "work", <<"token">>, nalog))

delete_token(t, s) ==
  is_valid(s) /\ with_session(t, s, Request("delete_token", "work", <<"token_uredjaja">>, nalog))

-----------------------------------------------------------------------------
(* Reset of the password by a code *)

forgot_password(t, k) ==
  /\ nalog.omogucen /\ nalog.telefon /\ Fresh(k)
  /\ begin(t, [Request("forgot_password", "sms", <<"kodovi">>, nalog) EXCEPT !.p = k])

get_active_for_user(k) ==
  /\ kodovi[k].aktivan
  /\ \A x \in Kod : kodovi[x].aktivan => kodovi[x].redni <= kodovi[k].redni

with_code(t, k, z) ==
  /\ nalog.omogucen
  /\ get_active_for_user(k)
  /\ kodovi[k].pokusaji < RESET_CODE_MAX_ATTEMPTS
  /\ begin(t, [z EXCEPT !.k = k, !.pokusaji = kodovi[k].pokusaji])

reset_password(t, k) ==
  with_code(t, k, Request("reset_password", "work", <<"sesije", "token", "nalog", "kod">>,
    [nalog EXCEPT !.lozinka = "sopstvena", !.obavezna = FALSE, !.neuspesne = 0,
                  !.zakljucan = FALSE]))

wrong_code(t, k) == with_code(t, k, Request("wrong_code", "work", <<"kod">>, nalog))

-----------------------------------------------------------------------------
(* Administrators and the provisioning worker *)

\* (mutant) the target is read without FOR UPDATE
unlocked(t, op, pc, plan, new) == Request(op, pc, Append(plan, "nalog"), new)

\* SELECT FOR UPDATE of the target: its row is held from here on.
load_target(t, op, pc, plan, new) ==
  [Request(op, pc, plan, new) EXCEPT !.drzi = {"nalog"}]

admin(t, z) == "nalog" \notin Held(t) /\ begin(t, z)

\* (mutant) locking a locked account revokes nothing
lock_changes_only(t) ==
  admin(t, load_target(t, "lock", "work", IF nalog.zakljucan THEN <<>> ELSE <<"sesije", "token">>,
                       [nalog EXCEPT !.zakljucan = TRUE]))

lock(t) == admin(t, load_target(t, "lock", "work", <<"sesije", "token">>,
                                [nalog EXCEPT !.zakljucan = TRUE]))

unlock(t) == admin(t, load_target(t, "unlock", "work", <<>>,
                                  [nalog EXCEPT !.zakljucan = FALSE, !.neuspesne = 0]))

deactivate(t) == admin(t, load_target(t, "deactivate", "work", <<"sesije", "token">>,
                                      [nalog EXCEPT !.omogucen = FALSE]))

admin_reset_password(t, p) ==
  /\ nalog.omogucen /\ nalog.telefon /\ Fresh(p)
  /\ admin(t, [load_target(t, "admin_reset_password", "sms", <<"sesije", "token">>,
                 [nalog EXCEPT !.lozinka = p, !.obavezna = TRUE, !.neuspesne = 0,
                               !.zakljucan = FALSE]) EXCEPT !.p = p])

\* The candidate as its batch has read it.
provision_one(t, p) ==
  /\ nalog.omogucen /\ nalog.lozinka = None /\ nalog.telefon /\ Fresh(p)
  /\ begin(t, [Request("provision", "sms", <<"nalog">>,
                       [nalog EXCEPT !.lozinka = p, !.obavezna = TRUE]) EXCEPT !.p = p])

-----------------------------------------------------------------------------
(* The SMS, the statements, the commit *)

\* (mutant) what was not sent is stored all the same
send_ignored(t) ==
  /\ zahtev[t].pc = "sms"
  /\ zahtev' = [zahtev EXCEPT ![t].pc = "work"]
  /\ UNCHANGED poslato /\ UNCHANGED Tables

\* The gateway accepts the message, in a transaction of its own.
send_sms(t) ==
  /\ zahtev[t].pc = "sms"
  /\ poslato' = poslato \cup {zahtev[t].p}
  /\ zahtev' = [zahtev EXCEPT ![t].pc = "work"]
  /\ UNCHANGED Tables

\* Not accepted: only an audit row is written.
sms_not_sent(t) ==
  /\ zahtev[t].pc = "sms"
  /\ zahtev' = [zahtev EXCEPT ![t] = Idle]
  /\ UNCHANGED poslato /\ UNCHANGED Tables

\* The rows statement n of request z changes.
rows(z, n) ==
  CASE n = "nalog" -> {"nalog"}
    [] n = "sesije" -> {s \in Sesija : sesije[s] = "D"}
    [] n = "sesija" -> {z.s}
    [] n = "token" -> IF token = None THEN {} ELSE {"token"}
    [] n = "token_uredjaja" -> IF token = Uredjaj[z.s] THEN {"token"} ELSE {}
    [] n = "kodovi" -> {k \in Kod : kodovi[k].aktivan}
    [] n = "kod" -> {z.k}

blocked(t) == zahtev[t].plan # <<>> /\ rows(zahtev[t], Head(zahtev[t].plan)) \cap Held(t) # {}

execute(t) ==
  LET z == zahtev[t] IN
  /\ z.pc = "work" /\ z.plan # <<>> /\ ~blocked(t)
  /\ zahtev' = [zahtev EXCEPT ![t].plan = Tail(z.plan),
                              ![t].drzi = z.drzi \cup rows(z, Head(z.plan))]
  /\ UNCHANGED poslato /\ UNCHANGED Tables

saved_account(z) == [c \in Kolona |-> IF c \in z.kolone THEN z.new[c] ELSE nalog[c]]

\* (mutant) the ORM writes the whole row of the session
saved_whole_session(z, s) ==
  IF z.op \in {"login", "touch"} /\ s = z.s THEN "D"
  ELSE IF z.op # "touch" /\ s \in z.drzi THEN "N" ELSE sesije[s]

\* login opens its session; every row held is revoked, except that touch only dates it.
saved_session(z, s) ==
  IF z.op = "login" /\ s = z.s THEN "D"
  ELSE IF z.op # "touch" /\ s \in z.drzi THEN "N" ELSE sesije[s]

saved_token(z) ==
  CASE z.op = "register" -> Uredjaj[z.s]
    [] z.op # "register" /\ "token" \in z.drzi -> None
    [] OTHER -> token

\* UX_PUSH_TOKEN_AKTIVAN_KOR: the account has one active token.
single_token(z) ==
  z.op = "register" => "token" \in z.drzi \/ token \in {None, Uredjaj[z.s]}

next_redni == Cardinality({x \in Kod : kodovi[x].redni # 0}) + 1

created_code == [redni |-> next_redni, aktivan |-> TRUE, pokusaji |-> 0]

\* A code the request holds: used or superseded, or its wrong answer counted.
held_code(z, k) ==
  CASE z.op \in {"forgot_password", "reset_password"} -> [kodovi[k] EXCEPT !.aktivan = FALSE]
    [] z.op = "wrong_code" -> [kodovi[k] EXCEPT !.pokusaji = z.pokusaji + 1]
    [] OTHER -> kodovi[k]

saved_code(z, k) ==
  IF z.op = "forgot_password" /\ k = z.p THEN created_code
  ELSE IF k \in z.drzi THEN held_code(z, k) ELSE kodovi[k]

commit(t) ==
  LET z == zahtev[t] IN
  /\ z.pc = "work" /\ z.plan = <<>>
  /\ single_token(z)
  /\ nalog' = IF "nalog" \in z.drzi THEN saved_account(z) ELSE nalog
  /\ sesije' = [s \in Sesija |-> saved_session(z, s)]
  /\ token' = saved_token(z)
  /\ kodovi' = [k \in Kod |-> saved_code(z, k)]
  /\ zahtev' = [zahtev EXCEPT ![t] = Idle]
  /\ UNCHANGED poslato

\* Roll back: what the request holds is released, an SMS stays sent.
rollback(t) ==
  /\ zahtev[t].pc # "idle"
  /\ zahtev' = [zahtev EXCEPT ![t] = Idle]
  /\ UNCHANGED poslato /\ UNCHANGED Tables

token_conflict(t) ==
  /\ zahtev[t].pc = "work" /\ zahtev[t].plan = <<>> /\ ~single_token(zahtev[t])
  /\ rollback(t)

waits_for(t, u) ==
  blocked(t) /\ rows(zahtev[t], Head(zahtev[t].plan)) \cap zahtev[u].drzi # {}

\* ORA-00060: the database fails a statement of requests that wait for one another.
deadlock_detected(t) ==
  /\ zahtev[t].pc = "work"
  /\ \E u \in Thread \ {t} : waits_for(t, u) /\ waits_for(u, t)
  /\ rollback(t)

-----------------------------------------------------------------------------
(* HR ends the employment: its synchronisation writes STATUS_ZAPOSLENJA alone *)

synchronise ==
  /\ nalog.omogucen /\ \A t \in Thread : "nalog" \notin zahtev[t].drzi
  /\ nalog' = [nalog EXCEPT !.omogucen = FALSE]
  /\ UNCHANGED <<sesije, token, kodovi, poslato, zahtev>>

Employee(t) ==
  \/ \E s \in Sesija : login(t, s)
  \/ register_failed_attempt(t)
  \/ \E s \in Sesija :
       \/ authenticate_refused(t, s) \/ touch_activity(t, s) \/ change_password(t, s)
       \/ confirm_phone(t, s) \/ logout(t, s) \/ register_token(t, s) \/ delete_token(t, s)
  \/ \E k \in Kod : forgot_password(t, k) \/ reset_password(t, k) \/ wrong_code(t, k)

Administrator(t) ==
  \/ lock(t) \/ unlock(t) \/ deactivate(t)
  \/ \E p \in Privremena : admin_reset_password(t, p)

Worker(t) == \E p \in Privremena : provision_one(t, p)

Answered(t) == send_sms(t) \/ sms_not_sent(t)

Finish(t) == commit(t) \/ token_conflict(t) \/ deadlock_detected(t)

Next ==
  \/ \E t \in Thread : \/ Employee(t) \/ Administrator(t) \/ Worker(t)
                       \/ Answered(t) \/ execute(t) \/ Finish(t) \/ rollback(t)
  \/ synchronise

Spec == Init /\ [][Next]_vars

-----------------------------------------------------------------------------
(* Properties *)

\* Every variable has its type.
TypeOK ==
  /\ nalog \in Nalog
  /\ sesije \in [Sesija -> {"-", "D", "N"}]
  /\ token \in Device \cup {None}
  /\ kodovi \in [Kod -> KodRed]
  /\ poslato \subseteq Privremena \cup Kod
  /\ zahtev \in [Thread -> Zahtev]

\* A row is held by one request.
HeldByOne == \A t, u \in Thread : t # u => zahtev[t].drzi \cap zahtev[u].drzi = {}

\* What request z is about to store was accepted by the gateway, or is what it sends.
Sent(z) ==
  /\ z.pc = "sms" => z.p # None /\ ("lozinka" \in z.kolone => z.new.lozinka = z.p)
  /\ z.pc = "work" =>
       /\ z.op = "forgot_password" => z.p \in poslato
       /\ "lozinka" \in z.kolone => z.new.lozinka \in poslato \cup {"sopstvena"}

SentFirst == \A t \in Thread : Sent(zahtev[t])

\* An administrator holds the account, and past the statement of the sessions all of them.
Holds(z) ==
  z.op \in Admin =>
    /\ "nalog" \in z.drzi
    /\ z.op # "unlock" => \/ z.plan = <<"sesije", "token">>
                          \/ z.pc = "work" /\ \A s \in Sesija : sesije[s] = "D" => s \in z.drzi

AdminHolds == \A t \in Thread : Holds(zahtev[t])

\* The statements of request z are about a session and a code it has, and a login has the
\* account or a statement that takes it.
Fits(z) ==
  /\ \A i \in DOMAIN z.plan : /\ z.plan[i] = "sesija" => z.op # "login" /\ z.s \in Sesija
                              /\ z.plan[i] = "kod" => z.k \in Kod
  /\ z.op = "register" => z.s \in Sesija
  /\ z.op = "login" => "nalog" \in z.drzi \/ \E i \in DOMAIN z.plan : z.plan[i] = "nalog"

PlansFit == \A t \in Thread : Fits(zahtev[t])

\* What request z is about to create is not there yet; what else it is about, is.
Creates(z) ==
  /\ \A s \in Sesija : s \in z.drzi \/ (z.op # "login" /\ s = z.s) => sesije[s] # "-"
  /\ z.op = "login" => z.s \in Sesija /\ sesije[z.s] = "-"
  /\ z.op = "forgot_password" => z.p \in Kod /\ kodovi[z.p].redni = 0

\* And no two requests create the same.
CreatedOnce ==
  /\ \A t \in Thread : Creates(zahtev[t])
  /\ \A t, v \in Thread :
       /\ (zahtev[t].op = "login" /\ zahtev[v].op = "login" /\ zahtev[t].s = zahtev[v].s)
            => t = v
       /\ (zahtev[t].op = "forgot_password" /\ zahtev[v].op = "forgot_password"
             /\ zahtev[t].p = zahtev[v].p) => t = v

(* A reset code is stored, and a temporary password is the account's, only  *)
(* after the gateway accepted the message that carries it, whatever fails   *)
(* or overlaps (auth_service.forgot_password, the administrators' reset,    *)
(* provisioning).                                                           *)
StoredIsDelivered ==
  /\ \A k \in Kod : kodovi[k].redni # 0 => k \in poslato
  /\ nalog.lozinka \in poslato \cup {"sopstvena", None}

(* A session revoked, a reset code used or superseded, stays so: a request  *)
(* that read it before and commits after does not bring it back.            *)
RevokedForever ==
  [][/\ \A s \in Sesija : sesije[s] = "N" => sesije'[s] = "N"
     /\ \A k \in Kod : kodovi[k].redni # 0 /\ ~kodovi[k].aktivan => ~kodovi'[k].aktivan]_vars

(* When an administrator's lock, deactivation or password reset commits, no *)
(* session of the account is active, whatever logins and logouts overlap    *)
(* it.  What commits later is another matter: a login that read the account *)
(* before it opens a session after it, and a token that a registration      *)
(* commits meanwhile remains until a delivery drops it.                     *)
LockoutIsComplete ==
  [][\A t \in Thread :
       zahtev[t].op \in Admin \ {"unlock"} /\ commit(t) => \A s \in Sesija : sesije'[s] # "D"]_vars

\* The inductive invariant.
IInv ==
  /\ TypeOK /\ HeldByOne /\ SentFirst /\ AdminHolds /\ PlansFit /\ CreatedOnce
  /\ StoredIsDelivered
=============================================================================
