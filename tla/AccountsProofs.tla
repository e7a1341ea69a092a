---------------------------- MODULE AccountsProofs ----------------------------
(***************************************************************************)
(* Proofs about Accounts, for any sessions, codes, passwords and threads:  *)
(* the types, the exclusion by row locks, that nothing is stored before it *)
(* was sent, that an administrator's lockout is complete, and that what    *)
(* was revoked stays so.                                                   *)
(***************************************************************************)
EXTENDS Accounts, FiniteSetTheorems, TLAPS

USE ConstantsAssumption, NoneAssumption

LEMMA NoAccountTyped == NoNalog \in Nalog
BY DEF NoNalog, Nalog

LEMMA IdleTyped == Idle \in Zahtev
<1>1. <<>> \in Seq(Naredba) OBVIOUS
<1> QED BY <1>1, NoAccountTyped DEF Idle, Zahtev

\* The account a request is about to store has its type.
LEMMA NewTyped ==
  ASSUME NEW old \in Nalog, NEW new \in Nalog, NEW S
  PROVE  [c \in Kolona |-> IF c \in S THEN new[c] ELSE old[c]] \in Nalog
BY DEF Nalog, Kolona

\* What a new request is.
LEMMA RequestTyped ==
  ASSUME NEW op \in Operacija, NEW pc \in {"sms", "work"}, NEW plan \in Seq(Naredba),
         NEW new \in Nalog, nalog \in Nalog
  PROVE  LET z == Request(op, pc, plan, new) IN
         /\ z \in Zahtev
         /\ z.pc = pc /\ z.op = op /\ z.plan = plan
         /\ z.drzi = {} /\ z.s = None /\ z.k = None /\ z.p = None /\ z.pokusaji = 0
         /\ "lozinka" \in z.kolone =>
              /\ z.new.lozinka = new.lozinka
              /\ \/ new.lozinka # nalog.lozinka
                 \/ op \in {"change_password", "reset_password"}
<1> DEFINE kolone == {c \in Kolona : changed(op, c, new)}
           acc == [c \in Kolona |-> IF c \in kolone THEN new[c] ELSE NoNalog[c]]
<1>1. acc \in Nalog BY NoAccountTyped, NewTyped
<1>2. kolone \in SUBSET Kolona OBVIOUS
<1>3. Request(op, pc, plan, new) =
        [Idle EXCEPT !.pc = pc, !.op = op, !.plan = plan, !.kolone = kolone, !.new = acc]
      BY Zenon DEF Request
<1>4. "lozinka" \in kolone =>
        /\ acc.lozinka = new.lozinka
        /\ \/ new.lozinka # nalog.lozinka
           \/ op \in {"change_password", "reset_password"}
      BY DEF changed, Kolona
<1> HIDE DEF kolone, acc
<1>5. Request(op, pc, plan, new) =
        [pc |-> pc, op |-> op, plan |-> plan, drzi |-> {}, kolone |-> kolone,
         new |-> acc, s |-> None, k |-> None, pokusaji |-> 0, p |-> None]
      BY <1>3 DEF Idle
<1> QED BY <1>1, <1>2, <1>4, <1>5 DEF Zahtev

-----------------------------------------------------------------------------
(* One request changes, the tables do not *)

\* What becomes of one request leaves the others as they are.
LEMMA OthersKept ==
  ASSUME TypeOK, NEW t \in Thread, NEW z \in Zahtev, zahtev' = [zahtev EXCEPT ![t] = z]
  PROVE  /\ zahtev' \in [Thread -> Zahtev] /\ zahtev'[t] = z
         /\ \A v \in Thread : v # t => zahtev'[v] = zahtev[v]
BY DEF TypeOK

\* Request t becomes z, which is sound by itself and holds and creates nothing others do.
LEMMA OneRequest ==
  ASSUME IInv, NEW t \in Thread, NEW z \in Zahtev, zahtev' = [zahtev EXCEPT ![t] = z],
         UNCHANGED <<nalog, sesije, token, kodovi>>,
         poslato \subseteq poslato', poslato' \subseteq Privremena \cup Kod,
         Sent(z)', Holds(z), Fits(z), Creates(z),
         \A v \in Thread \ {t} : zahtev[v].drzi \cap z.drzi = {},
         \A v \in Thread \ {t} :
           /\ z.op = "login" /\ zahtev[v].op = "login" => zahtev[v].s # z.s
           /\ z.op = "forgot_password" /\ zahtev[v].op = "forgot_password" => zahtev[v].p # z.p
  PROVE  IInv'
<1>1. /\ zahtev' \in [Thread -> Zahtev] /\ zahtev'[t] = z
      /\ \A v \in Thread : v # t => zahtev'[v] = zahtev[v]
      BY OthersKept DEF IInv
<1>2. TypeOK' BY <1>1 DEF IInv, TypeOK
<1>3. HeldByOne' BY <1>1 DEF IInv, HeldByOne
<1>4. SentFirst' BY <1>1 DEF IInv, SentFirst, Sent
<1>5. AdminHolds' BY <1>1 DEF IInv, AdminHolds, Holds
<1>6. PlansFit' BY <1>1 DEF IInv, PlansFit, Fits
<1>7. CreatedOnce'
  <2>1. ASSUME NEW v \in Thread PROVE Creates(zahtev[v])'
        BY <1>1 DEF IInv, CreatedOnce, Creates
  <2>2. ASSUME NEW v \in Thread, NEW x \in Thread
        PROVE  /\ (zahtev'[v].op = "login" /\ zahtev'[x].op = "login"
                     /\ zahtev'[v].s = zahtev'[x].s) => v = x
               /\ (zahtev'[v].op = "forgot_password" /\ zahtev'[x].op = "forgot_password"
                     /\ zahtev'[v].p = zahtev'[x].p) => v = x
        BY <1>1 DEF IInv, CreatedOnce
  <2> QED BY <2>1, <2>2 DEF CreatedOnce
<1>8. StoredIsDelivered' BY DEF IInv, StoredIsDelivered
<1> QED BY <1>2, <1>3, <1>4, <1>5, <1>6, <1>7, <1>8 DEF IInv

\* A request that ends without a trace.
LEMMA EndKept ==
  ASSUME IInv, NEW t \in Thread, zahtev' = [zahtev EXCEPT ![t] = Idle],
         UNCHANGED <<nalog, sesije, token, kodovi, poslato>>
  PROVE  IInv'
<1>1. Idle \in Zahtev BY IdleTyped
<1>2. Sent(Idle)' /\ Holds(Idle) /\ Fits(Idle) /\ Creates(Idle)
      BY DEF Idle, Sent, Holds, Fits, Creates, Admin, Operacija
<1>3. \A v \in Thread \ {t} : zahtev[v].drzi \cap Idle.drzi = {} BY DEF Idle
<1>4. Idle.op # "login" /\ Idle.op # "forgot_password" BY DEF Idle, Operacija
<1>5. poslato' \subseteq Privremena \cup Kod /\ poslato \subseteq poslato'
      BY DEF IInv, TypeOK
<1> QED BY <1>1, <1>2, <1>3, <1>4, <1>5, OneRequest

-----------------------------------------------------------------------------
(* A request begins *)

LEMMA BeginKept ==
  ASSUME IInv, NEW t \in Thread, NEW z \in Zahtev, begin(t, z),
         z.drzi = {} \/ (z.drzi = {"nalog"} /\ "nalog" \notin Held(t)),
         Sent(z), Holds(z), Fits(z), Creates(z),
         z.op = "login" => \A v \in Thread : zahtev[v].s # z.s,
         z.op = "forgot_password" => Fresh(z.p)
  PROVE  IInv'
<1>1. /\ zahtev' = [zahtev EXCEPT ![t] = z] /\ poslato' = poslato
      /\ UNCHANGED <<nalog, sesije, token, kodovi>>
      BY DEF begin, Tables
<1>2. \A v \in Thread \ {t} : zahtev[v].drzi \cap z.drzi = {}
      BY DEF Held
<1>3. Sent(z)' BY <1>1 DEF Sent
<1>4. poslato' \subseteq Privremena \cup Kod BY <1>1 DEF IInv, TypeOK
<1>5. \A v \in Thread \ {t} :
         /\ z.op = "login" /\ zahtev[v].op = "login" => zahtev[v].s # z.s
         /\ z.op = "forgot_password" /\ zahtev[v].op = "forgot_password" => zahtev[v].p # z.p
      BY DEF Fresh
<1> QED BY <1>1, <1>2, <1>3, <1>4, <1>5, OneRequest

SessionPlans == {<<"token_uredjaja", "sesija">>, <<"sesija">>, <<"nalog">>, <<"token">>,
                 <<"token_uredjaja">>}

LEMMA SessionPlansTyped ==
  ASSUME NEW plan \in SessionPlans
  PROVE  plan \in Seq(Naredba) /\ \A i \in DOMAIN plan : plan[i] # "kod"
<1>1. CASE plan = <<"token_uredjaja", "sesija">> BY <1>1 DEF Naredba
<1>2. CASE plan = <<"sesija">> BY <1>2 DEF Naredba
<1>3. CASE plan = <<"nalog">> BY <1>3 DEF Naredba
<1>4. CASE plan = <<"token">> BY <1>4 DEF Naredba
<1>5. CASE plan = <<"token_uredjaja">> BY <1>5 DEF Naredba
<1> QED BY <1>1, <1>2, <1>3, <1>4, <1>5 DEF SessionPlans

\* A request with the token of session s.
LEMMA SessionRequest ==
  ASSUME IInv, NEW t \in Thread, NEW s \in Sesija, NEW plan \in SessionPlans, NEW new \in Nalog,
         NEW op \in {"refuse", "touch", "change_password", "confirm_phone", "logout",
                     "register", "delete_token"},
         new.lozinka = IF op = "change_password" THEN "sopstvena" ELSE nalog.lozinka,
         with_session(t, s, Request(op, "work", plan, new))
  PROVE  IInv'
<1> DEFINE z == [Request(op, "work", plan, new) EXCEPT !.s = s]
<1>0. plan \in Seq(Naredba) /\ \A i \in DOMAIN plan : plan[i] # "kod" BY SessionPlansTyped
<1>1. op \in Operacija BY DEF Operacija
<1>2. nalog \in Nalog BY DEF IInv, TypeOK
<1>3. PICK y \in Zahtev :
        /\ y = Request(op, "work", plan, new)
        /\ y.pc = "work" /\ y.op = op /\ y.plan = plan
        /\ y.drzi = {} /\ y.p = None
        /\ "lozinka" \in y.kolone =>
             /\ y.new.lozinka = new.lozinka
             /\ \/ new.lozinka # nalog.lozinka
                \/ op \in {"change_password", "reset_password"}
      BY <1>0, <1>1, <1>2, RequestTyped
<1>4. z = [y EXCEPT !.s = s] BY <1>3
<1> HIDE DEF z
<1>5. z \in Zahtev BY <1>4 DEF Zahtev
<1>6. /\ z.pc = "work" /\ z.op = op /\ z.plan = plan /\ z.drzi = {} /\ z.s = s
      /\ "lozinka" \in z.kolone => z.new.lozinka = "sopstvena"
      BY <1>3, <1>4 DEF Zahtev
<1>7. begin(t, z) /\ sesije[s] = "D" BY DEF with_session, z
<1>8. Sent(z) BY <1>6 DEF Sent
<1>9. Holds(z) BY <1>6 DEF Holds, Admin
<1>10. Fits(z) BY <1>0, <1>6 DEF Fits
<1>11. Creates(z) BY <1>6, <1>7 DEF Creates
<1> QED BY <1>5, <1>6, <1>7, <1>8, <1>9, <1>10, <1>11, BeginKept

CodePlans == {<<"sesije", "token", "nalog", "kod">>, <<"kod">>}

LEMMA CodePlansTyped ==
  ASSUME NEW plan \in CodePlans
  PROVE  plan \in Seq(Naredba) /\ \A i \in DOMAIN plan : plan[i] # "sesija"
<1>1. CASE plan = <<"sesije", "token", "nalog", "kod">> BY <1>1 DEF Naredba
<1>2. CASE plan = <<"kod">> BY <1>2 DEF Naredba
<1> QED BY <1>1, <1>2 DEF CodePlans

\* A request with reset code k.
LEMMA CodeRequest ==
  ASSUME IInv, NEW t \in Thread, NEW k \in Kod, NEW plan \in CodePlans, NEW new \in Nalog,
         NEW op \in {"reset_password", "wrong_code"},
         new.lozinka = IF op = "reset_password" THEN "sopstvena" ELSE nalog.lozinka,
         with_code(t, k, Request(op, "work", plan, new))
  PROVE  IInv'
<1> DEFINE z == [Request(op, "work", plan, new) EXCEPT !.k = k, !.pokusaji = kodovi[k].pokusaji]
<1>0. plan \in Seq(Naredba) /\ \A i \in DOMAIN plan : plan[i] # "sesija" BY CodePlansTyped
<1>1. op \in Operacija BY DEF Operacija
<1>2. nalog \in Nalog /\ kodovi[k].pokusaji \in Nat BY DEF IInv, TypeOK, KodRed
<1>3. PICK y \in Zahtev :
        /\ y = Request(op, "work", plan, new)
        /\ y.pc = "work" /\ y.op = op /\ y.plan = plan
        /\ y.drzi = {} /\ y.p = None /\ y.s = None
        /\ "lozinka" \in y.kolone =>
             /\ y.new.lozinka = new.lozinka
             /\ \/ new.lozinka # nalog.lozinka
                \/ op \in {"change_password", "reset_password"}
      BY <1>0, <1>1, <1>2, RequestTyped
<1>4. z = [y EXCEPT !.k = k, !.pokusaji = kodovi[k].pokusaji] BY <1>3
<1>5. begin(t, z) BY DEF with_code
<1> HIDE DEF z
<1>6. z \in Zahtev BY <1>2, <1>4 DEF Zahtev
<1>7. /\ z.pc = "work" /\ z.op = op /\ z.plan = plan /\ z.drzi = {} /\ z.k = k /\ z.s = None
      /\ "lozinka" \in z.kolone => z.new.lozinka = "sopstvena"
      BY <1>3, <1>4 DEF Zahtev
<1>8. Sent(z) BY <1>7 DEF Sent
<1>9. Holds(z) BY <1>7 DEF Holds, Admin
<1>10. Fits(z) BY <1>0, <1>7 DEF Fits
<1>11. Creates(z) BY <1>7 DEF Creates
<1> QED BY <1>5, <1>6, <1>7, <1>8, <1>9, <1>10, <1>11, BeginKept

\* An administrator's request: it holds the account from the start.
LEMMA AdminRequest ==
  ASSUME IInv, NEW t \in Thread, NEW op \in Admin, NEW new \in Nalog, NEW pc \in {"sms", "work"},
         NEW plan \in {<<>>, <<"sesije", "token">>}, NEW p \in Privremena \cup {None},
         op # "unlock" => plan = <<"sesije", "token">>,
         IF pc = "sms" THEN p # None /\ new.lozinka = p ELSE new.lozinka = nalog.lozinka,
         \/ admin(t, [load_target(t, op, pc, plan, new) EXCEPT !.p = p])
         \/ p = None /\ admin(t, load_target(t, op, pc, plan, new))
  PROVE  IInv'
<1> DEFINE z == [load_target(t, op, pc, plan, new) EXCEPT !.p = p]
<1>0. op \in Operacija /\ op \notin {"change_password", "reset_password", "login", "forgot_password",
                                    "register"}
      BY DEF Operacija, Admin
<1>1. plan \in Seq(Naredba)
  <2>1. <<>> \in Seq(Naredba) OBVIOUS
  <2>2. <<"sesije", "token">> \in Seq(Naredba) BY DEF Naredba
  <2> QED BY <2>1, <2>2
<1>2. nalog \in Nalog BY DEF IInv, TypeOK
<1>3. PICK y \in Zahtev :
        /\ y = Request(op, pc, plan, new)
        /\ y.pc = pc /\ y.op = op /\ y.plan = plan
        /\ y.drzi = {} /\ y.s = None /\ y.p = None
        /\ "lozinka" \in y.kolone =>
             /\ y.new.lozinka = new.lozinka
             /\ \/ new.lozinka # nalog.lozinka
                \/ op \in {"change_password", "reset_password"}
      BY <1>0, <1>1, <1>2, RequestTyped
<1>4. z = [[y EXCEPT !.drzi = {"nalog"}] EXCEPT !.p = p] BY <1>3 DEF load_target
<1>5. begin(t, z) /\ "nalog" \notin Held(t)
  <2>1. p = None => z = load_target(t, op, pc, plan, new)
    <3>1. [[y EXCEPT !.drzi = {"nalog"}] EXCEPT !.p = None] = [y EXCEPT !.drzi = {"nalog"}]
          BY <1>3 DEF Zahtev
    <3>2. load_target(t, op, pc, plan, new) = [y EXCEPT !.drzi = {"nalog"}]
          BY <1>3, Zenon DEF load_target
    <3> QED BY <1>4, <3>1, <3>2
  <2>2. admin(t, z) BY <2>1, Zenon
  <2> QED BY <2>2 DEF admin
<1> HIDE DEF z
<1>6. z \in Zahtev BY <1>4 DEF Zahtev, Redovi
<1>7. /\ z.pc = pc /\ z.op = op /\ z.plan = plan /\ z.drzi = {"nalog"} /\ z.s = None /\ z.p = p
      /\ "lozinka" \in z.kolone => z.new.lozinka = new.lozinka /\ new.lozinka # nalog.lozinka
      BY <1>0, <1>3, <1>4 DEF Zahtev
<1>8. Sent(z) BY <1>0, <1>7 DEF Sent
<1>9. Holds(z) BY <1>7 DEF Holds
<1>10. \A i \in DOMAIN plan : plan[i] \in {"sesije", "token"}
  <2>1. CASE plan = <<>> BY <2>1
  <2>2. CASE plan = <<"sesije", "token">> BY <2>2
  <2> QED BY <2>1, <2>2
<1>11. Fits(z) BY <1>0, <1>7, <1>10 DEF Fits
<1>12. Creates(z) BY <1>0, <1>7 DEF Creates
<1> QED BY <1>0, <1>5, <1>6, <1>7, <1>8, <1>9, <1>11, <1>12, BeginKept

LEMMA SessionsKept ==
  ASSUME IInv, NEW t \in Thread, NEW s \in Sesija,
         \/ authenticate_refused(t, s) \/ touch_activity(t, s) \/ change_password(t, s)
         \/ confirm_phone(t, s) \/ logout(t, s) \/ register_token(t, s) \/ delete_token(t, s)
  PROVE  IInv'
<1>0. nalog \in Nalog BY DEF IInv, TypeOK
<1>1. /\ <<"token_uredjaja", "sesija">> \in SessionPlans /\ <<"sesija">> \in SessionPlans
      /\ <<"nalog">> \in SessionPlans /\ <<"token">> \in SessionPlans
      /\ <<"token_uredjaja">> \in SessionPlans
      BY DEF SessionPlans
<1>2. CASE authenticate_refused(t, s)
      BY <1>0, <1>1, <1>2, SessionRequest DEF authenticate_refused
<1>3. CASE touch_activity(t, s) BY <1>0, <1>1, <1>3, SessionRequest DEF touch_activity
<1>4. CASE change_password(t, s)
  <2> DEFINE new == [nalog EXCEPT !.lozinka = "sopstvena", !.obavezna = FALSE, !.neuspesne = 0]
  <2>1. new \in Nalog /\ new.lozinka = "sopstvena" BY <1>0 DEF Nalog
  <2>2. with_session(t, s, Request("change_password", "work", <<"nalog">>, new))
        BY <1>4 DEF change_password
  <2> HIDE DEF new
  <2> QED BY <1>1, <2>1, <2>2, SessionRequest
<1>5. CASE confirm_phone(t, s)
  <2> DEFINE new == [nalog EXCEPT !.telefon = TRUE]
  <2>1. new \in Nalog /\ new.lozinka = nalog.lozinka BY <1>0 DEF Nalog
  <2>2. with_session(t, s, Request("confirm_phone", "work", <<"nalog">>, new))
        BY <1>5 DEF confirm_phone
  <2> HIDE DEF new
  <2> QED BY <1>1, <2>1, <2>2, SessionRequest
<1>6. CASE logout(t, s) BY <1>0, <1>1, <1>6, SessionRequest DEF logout
<1>7. CASE register_token(t, s) BY <1>0, <1>1, <1>7, SessionRequest DEF register_token
<1>8. CASE delete_token(t, s) BY <1>0, <1>1, <1>8, SessionRequest DEF delete_token
<1> QED BY <1>2, <1>3, <1>4, <1>5, <1>6, <1>7, <1>8

LEMMA CodesKept ==
  ASSUME IInv, NEW t \in Thread, NEW k \in Kod,
         forgot_password(t, k) \/ reset_password(t, k) \/ wrong_code(t, k)
  PROVE  IInv'
<1>0. nalog \in Nalog BY DEF IInv, TypeOK
<1>1. <<"sesije", "token", "nalog", "kod">> \in CodePlans /\ <<"kod">> \in CodePlans
      BY DEF CodePlans
<1>2. CASE forgot_password(t, k)
  <2> DEFINE plan == <<"kodovi">>
             z == [Request("forgot_password", "sms", plan, nalog) EXCEPT !.p = k]
  <2>1. plan \in Seq(Naredba) /\ \A i \in DOMAIN plan : plan[i] \notin {"sesija", "kod"}
        BY DEF Naredba
  <2>2. "forgot_password" \in Operacija \ Admin BY DEF Operacija, Admin
  <2>3. begin(t, z) /\ Fresh(k) BY <1>2 DEF forgot_password
  <2> HIDE DEF plan
  <2>4. PICK y \in Zahtev :
          /\ y = Request("forgot_password", "sms", plan, nalog)
          /\ y.pc = "sms" /\ y.op = "forgot_password" /\ y.plan = plan
          /\ y.drzi = {} /\ y.s = None /\ "lozinka" \notin y.kolone
        BY <1>0, <2>1, <2>2, RequestTyped
  <2>5. z = [y EXCEPT !.p = k] BY <2>4
  <2> HIDE DEF z
  <2>6. z \in Zahtev BY <2>5 DEF Zahtev
  <2>7. /\ z.pc = "sms" /\ z.op = "forgot_password" /\ z.plan = plan /\ z.drzi = {}
        /\ z.s = None /\ "lozinka" \notin z.kolone /\ z.p = k
        BY <2>4, <2>5 DEF Zahtev
  <2>8. Sent(z) BY <2>7 DEF Sent
  <2>9. Holds(z) BY <2>2, <2>7 DEF Holds
  <2>10. Fits(z) BY <2>1, <2>7 DEF Fits
  <2>11. kodovi[k].redni = 0 BY <2>3 DEF Fresh, IInv, StoredIsDelivered
  <2>12. Creates(z) BY <2>7, <2>11 DEF Creates
  <2> QED BY <2>3, <2>6, <2>7, <2>8, <2>9, <2>10, <2>12, BeginKept
<1>3. CASE reset_password(t, k)
  <2> DEFINE new == [nalog EXCEPT !.lozinka = "sopstvena", !.obavezna = FALSE, !.neuspesne = 0,
                                  !.zakljucan = FALSE]
  <2>1. new \in Nalog /\ new.lozinka = "sopstvena" BY <1>0 DEF Nalog
  <2>2. with_code(t, k, Request("reset_password", "work", <<"sesije", "token", "nalog", "kod">>, new))
        BY <1>3 DEF reset_password
  <2> HIDE DEF new
  <2> QED BY <1>1, <2>1, <2>2, CodeRequest
<1>4. CASE wrong_code(t, k) BY <1>0, <1>1, <1>4, CodeRequest DEF wrong_code
<1> QED BY <1>2, <1>3, <1>4

LEMMA LoginKept ==
  ASSUME IInv, NEW t \in Thread, NEW s \in Sesija, login(t, s)
  PROVE  IInv'
<1> DEFINE plan == <<"sesije", "token", "nalog">>
           new == [nalog EXCEPT !.neuspesne = 0]
           z == [Request("login", "work", plan, new) EXCEPT !.s = s]
<1>0. nalog \in Nalog BY DEF IInv, TypeOK
<1>1. plan \in Seq(Naredba) BY DEF Naredba
<1>2. /\ \A i \in DOMAIN plan : plan[i] \notin {"sesija", "kod"}
      /\ 3 \in DOMAIN plan /\ plan[3] = "nalog"
      OBVIOUS
<1>3. "login" \in Operacija \ Admin BY DEF Operacija, Admin
<1>4. new \in Nalog /\ new.lozinka = nalog.lozinka BY <1>0 DEF Nalog
<1>5. begin(t, z) /\ sesije[s] = "-" /\ \A v \in Thread : zahtev[v].s # s
  <2>1. sesije[s] = "-" /\ \A v \in Thread : zahtev[v].s # s BY DEF login
  <2>2. begin(t, z) BY DEF login
  <2> QED BY <2>1, <2>2
<1> HIDE DEF plan, new
<1>6. PICK y \in Zahtev :
        /\ y = Request("login", "work", plan, new)
        /\ y.pc = "work" /\ y.op = "login" /\ y.plan = plan
        /\ y.drzi = {} /\ "lozinka" \notin y.kolone
      BY <1>0, <1>1, <1>3, <1>4, RequestTyped
<1>7. z = [y EXCEPT !.s = s] BY <1>6
<1> HIDE DEF z
<1>8. z \in Zahtev BY <1>7 DEF Zahtev
<1>9. /\ z.pc = "work" /\ z.op = "login" /\ z.plan = plan /\ z.drzi = {}
      /\ "lozinka" \notin z.kolone /\ z.s = s
      BY <1>6, <1>7 DEF Zahtev
<1>10. Sent(z) BY <1>9 DEF Sent
<1>11. Holds(z) BY <1>3, <1>9 DEF Holds
<1>12. Fits(z) BY <1>2, <1>9 DEF Fits
<1>13. Creates(z) BY <1>5, <1>9 DEF Creates
<1> QED BY <1>5, <1>8, <1>9, <1>10, <1>11, <1>12, <1>13, BeginKept

LEMMA FailureKept ==
  ASSUME IInv, NEW t \in Thread, register_failed_attempt(t)
  PROVE  IInv'
<1> DEFINE plan == <<"nalog">>
           n == nalog.neuspesne + 1
           locked == n >= MAX_NEUSPESNIH_PRIJAVA
           new == [nalog EXCEPT !.neuspesne = n, !.zakljucan = locked]
           z == Request("failed_attempt", "work", plan, new)
<1>0. nalog \in Nalog BY DEF IInv, TypeOK
<1>1. plan \in Seq(Naredba) /\ \A i \in DOMAIN plan : plan[i] \notin {"sesija", "kod"}
      BY DEF Naredba
<1>2. "failed_attempt" \in Operacija \ Admin BY DEF Operacija, Admin
<1>3. begin(t, z) BY DEF register_failed_attempt
<1>4. new \in Nalog /\ new.lozinka = nalog.lozinka
  <2>1. n \in Nat BY <1>0 DEF Nalog
  <2>2. locked \in BOOLEAN OBVIOUS
  <2> HIDE DEF n, locked
  <2> QED BY <1>0, <2>1, <2>2 DEF Nalog
<1> HIDE DEF plan, new
<1>5. /\ z \in Zahtev /\ z.pc = "work" /\ z.op = "failed_attempt" /\ z.plan = plan
      /\ z.drzi = {} /\ z.s = None /\ "lozinka" \notin z.kolone
      BY <1>0, <1>1, <1>2, <1>4, RequestTyped
<1> HIDE DEF z
<1>6. Sent(z) BY <1>5 DEF Sent
<1>7. Holds(z) BY <1>2, <1>5 DEF Holds
<1>8. Fits(z) BY <1>1, <1>5 DEF Fits
<1>9. Creates(z) BY <1>5 DEF Creates
<1> QED BY <1>3, <1>5, <1>6, <1>7, <1>8, <1>9, BeginKept

LEMMA ProvisionKept ==
  ASSUME IInv, NEW t \in Thread, NEW p \in Privremena, provision_one(t, p)
  PROVE  IInv'
<1> DEFINE plan == <<"nalog">>
           new == [nalog EXCEPT !.lozinka = p, !.obavezna = TRUE]
           z == [Request("provision", "sms", plan, new) EXCEPT !.p = p]
<1>0. nalog \in Nalog BY DEF IInv, TypeOK
<1>1. plan \in Seq(Naredba) /\ \A i \in DOMAIN plan : plan[i] \notin {"sesija", "kod"}
      BY DEF Naredba
<1>2. "provision" \in Operacija \ Admin BY DEF Operacija, Admin
<1>3. new \in Nalog /\ new.lozinka = p BY <1>0 DEF Nalog
<1>4. begin(t, z) BY DEF provision_one
<1> HIDE DEF plan, new
<1>5. PICK y \in Zahtev :
        /\ y = Request("provision", "sms", plan, new)
        /\ y.pc = "sms" /\ y.op = "provision" /\ y.plan = plan
        /\ y.drzi = {} /\ y.s = None /\ ("lozinka" \in y.kolone => y.new.lozinka = p)
      BY <1>0, <1>1, <1>2, <1>3, RequestTyped
<1>6. z = [y EXCEPT !.p = p] BY <1>5
<1> HIDE DEF z
<1>7. z \in Zahtev BY <1>6 DEF Zahtev
<1>8. /\ z.pc = "sms" /\ z.op = "provision" /\ z.plan = plan /\ z.drzi = {} /\ z.s = None
      /\ z.p = p /\ ("lozinka" \in z.kolone => z.new.lozinka = p)
      BY <1>5, <1>6 DEF Zahtev
<1>9. Sent(z) BY <1>8 DEF Sent
<1>10. Holds(z) BY <1>2, <1>8 DEF Holds
<1>11. Fits(z) BY <1>1, <1>8 DEF Fits
<1>12. Creates(z) BY <1>8 DEF Creates
<1> QED BY <1>4, <1>7, <1>8, <1>9, <1>10, <1>11, <1>12, BeginKept

LEMMA AdminKept ==
  ASSUME IInv, NEW t \in Thread,
         \/ lock(t) \/ unlock(t) \/ deactivate(t)
         \/ \E p \in Privremena : admin_reset_password(t, p)
  PROVE  IInv'
<1> DEFINE plan == <<"sesije", "token">>
<1>0. nalog \in Nalog BY DEF IInv, TypeOK
<1>1. /\ plan \in Seq(Naredba) /\ <<>> \in Seq(Naredba)
      /\ "lock" \in Admin /\ "unlock" \in Admin /\ "deactivate" \in Admin
      /\ "admin_reset_password" \in Admin
      BY DEF Naredba, Admin
<1>2. CASE lock(t)
  <2> DEFINE new == [nalog EXCEPT !.zakljucan = TRUE]
  <2>1. new \in Nalog /\ new.lozinka = nalog.lozinka BY <1>0 DEF Nalog
  <2>2. admin(t, load_target(t, "lock", "work", plan, new)) BY <1>2 DEF lock
  <2> HIDE DEF new, plan
  <2> QED BY <1>1, <2>1, <2>2, AdminRequest DEF plan
<1>3. CASE unlock(t)
  <2> DEFINE new == [nalog EXCEPT !.zakljucan = FALSE, !.neuspesne = 0]
  <2>1. new \in Nalog /\ new.lozinka = nalog.lozinka BY <1>0 DEF Nalog
  <2>2. admin(t, load_target(t, "unlock", "work", <<>>, new)) BY <1>3 DEF unlock
  <2> HIDE DEF new
  <2> QED BY <1>1, <2>1, <2>2, AdminRequest
<1>4. CASE deactivate(t)
  <2> DEFINE new == [nalog EXCEPT !.omogucen = FALSE]
  <2>1. new \in Nalog /\ new.lozinka = nalog.lozinka BY <1>0 DEF Nalog
  <2>2. admin(t, load_target(t, "deactivate", "work", plan, new)) BY <1>4 DEF deactivate
  <2> HIDE DEF new, plan
  <2> QED BY <1>1, <2>1, <2>2, AdminRequest DEF plan
<1>5. ASSUME NEW p \in Privremena, admin_reset_password(t, p) PROVE IInv'
  <2> DEFINE new == [nalog EXCEPT !.lozinka = p, !.obavezna = TRUE, !.neuspesne = 0,
                                  !.zakljucan = FALSE]
  <2>1. new \in Nalog /\ new.lozinka = p BY <1>0 DEF Nalog
  <2>2. admin(t, [load_target(t, "admin_reset_password", "sms", plan, new) EXCEPT !.p = p])
        BY <1>5 DEF admin_reset_password
  <2> HIDE DEF new
  <2> QED BY <1>1, <2>1, <2>2, AdminRequest
<1> QED BY <1>2, <1>3, <1>4, <1>5

-----------------------------------------------------------------------------
(* The SMS, and a statement *)

LEMMA SmsKept ==
  ASSUME IInv, NEW t \in Thread, send_sms(t)
  PROVE  IInv'
<1>1. zahtev[t] \in Zahtev /\ zahtev[t].pc = "sms" BY DEF IInv, TypeOK, send_sms
<1>2. /\ Sent(zahtev[t]) /\ Holds(zahtev[t]) /\ Fits(zahtev[t]) /\ Creates(zahtev[t])
      BY DEF IInv, SentFirst, AdminHolds, PlansFit, CreatedOnce
<1>3. zahtev[t].p \in Privremena \cup Kod BY <1>1, <1>2 DEF Sent, Zahtev
<1>4. PICK z \in Zahtev :
        /\ z = [zahtev[t] EXCEPT !.pc = "work"]
        /\ z.pc = "work" /\ z.op = zahtev[t].op /\ z.plan = zahtev[t].plan
        /\ z.drzi = zahtev[t].drzi /\ z.kolone = zahtev[t].kolone /\ z.new = zahtev[t].new
        /\ z.s = zahtev[t].s /\ z.k = zahtev[t].k /\ z.p = zahtev[t].p
  <2> DEFINE y == [zahtev[t] EXCEPT !.pc = "work"]
  <2>1. /\ y \in Zahtev /\ y.pc = "work" /\ y.op = zahtev[t].op /\ y.plan = zahtev[t].plan
        /\ y.drzi = zahtev[t].drzi /\ y.kolone = zahtev[t].kolone /\ y.new = zahtev[t].new
        /\ y.s = zahtev[t].s /\ y.k = zahtev[t].k /\ y.p = zahtev[t].p
        BY <1>1 DEF Zahtev
  <2> HIDE DEF y
  <2>2. \E z \in Zahtev : z = y BY <2>1
  <2> QED BY <2>1, <2>2 DEF y
<1>5. /\ zahtev' = [zahtev EXCEPT ![t] = z] /\ poslato' = poslato \cup {zahtev[t].p}
      /\ UNCHANGED <<nalog, sesije, token, kodovi>>
      BY <1>4 DEF send_sms, Tables
<1>6. poslato \subseteq poslato' /\ poslato' \subseteq Privremena \cup Kod
      BY <1>3, <1>5 DEF IInv, TypeOK
<1>7. Sent(z)' BY <1>1, <1>2, <1>4, <1>5 DEF Sent
<1>8. Holds(z) BY <1>1, <1>2, <1>4 DEF Holds
<1>9. Fits(z) BY <1>2, <1>4 DEF Fits
<1>10. Creates(z) BY <1>2, <1>4 DEF Creates
<1>11. \A v \in Thread \ {t} : zahtev[v].drzi \cap z.drzi = {} BY <1>4 DEF IInv, HeldByOne
<1>12. \A v \in Thread \ {t} :
         /\ z.op = "login" /\ zahtev[v].op = "login" => zahtev[v].s # z.s
         /\ z.op = "forgot_password" /\ zahtev[v].op = "forgot_password" => zahtev[v].p # z.p
      BY <1>4 DEF IInv, CreatedOnce
<1>13. zahtev' = [zahtev EXCEPT ![t] = z] BY <1>5
<1>14. UNCHANGED <<nalog, sesije, token, kodovi>> BY <1>5
<1>15. Sent(z)' BY <1>7
<1>16. z \in Zahtev OBVIOUS
<1> QED BY <1>6, <1>8, <1>9, <1>10, <1>11, <1>12, <1>13, <1>14, <1>15, <1>16, OneRequest

\* The rows of a statement are rows, and sessions among them are opened.
LEMMA RowsTyped ==
  ASSUME TypeOK, NEW z \in Zahtev, z.plan # <<>>, Fits(z), Creates(z)
  PROVE  /\ rows(z, Head(z.plan)) \subseteq Redovi
         /\ \A s \in Sesija : s \in rows(z, Head(z.plan)) => sesije[s] # "-"
<1>1. z.plan \in Seq(Naredba) BY DEF Zahtev
<1>2. 1 \in DOMAIN z.plan /\ Head(z.plan) = z.plan[1] /\ z.plan[1] \in Naredba BY <1>1
<1>3. /\ Head(z.plan) = "sesija" => z.op # "login" /\ z.s \in Sesija
      /\ Head(z.plan) = "kod" => z.k \in Kod
      BY <1>2 DEF Fits
<1>4. \A s \in Sesija : s \notin Kod /\ s \notin {"nalog", "token"} OBVIOUS
<1> QED BY <1>2, <1>3, <1>4 DEF rows, Redovi, Creates, Naredba

\* What is left of a plan after its head.
LEMMA TailPlan ==
  ASSUME NEW plan \in Seq(Naredba), plan # <<>>
  PROVE  /\ Tail(plan) \in Seq(Naredba)
         /\ 1 \in DOMAIN plan /\ Head(plan) = plan[1]
         /\ \A i \in DOMAIN Tail(plan) : i + 1 \in DOMAIN plan /\ Tail(plan)[i] = plan[i + 1]
         /\ \A i \in DOMAIN plan : i # 1 =>
              i - 1 \in DOMAIN Tail(plan) /\ Tail(plan)[i - 1] = plan[i]
OBVIOUS

LEMMA ExecuteKept ==
  ASSUME IInv, NEW t \in Thread, execute(t)
  PROVE  IInv'
<1> DEFINE new == rows(zahtev[t], Head(zahtev[t].plan))
<1>1. zahtev[t] \in Zahtev /\ zahtev[t].pc = "work" /\ zahtev[t].plan # <<>>
      BY DEF IInv, TypeOK, execute
<1>2. /\ Sent(zahtev[t]) /\ Holds(zahtev[t]) /\ Fits(zahtev[t]) /\ Creates(zahtev[t])
      BY DEF IInv, SentFirst, AdminHolds, PlansFit, CreatedOnce
<1>3. new \subseteq Redovi /\ \A s \in Sesija : s \in new => sesije[s] # "-"
      BY <1>1, <1>2, RowsTyped DEF IInv
<1>4. /\ Head(zahtev[t].plan) = "sesije" => new = {s \in Sesija : sesije[s] = "D"}
      /\ Head(zahtev[t].plan) = "nalog" => new = {"nalog"}
      BY DEF rows
<1>5. \A v \in Thread \ {t} : zahtev[v].drzi \cap new = {}
      BY <1>1 DEF execute, blocked, Held
<1> HIDE DEF new
<1>6. zahtev[t].plan \in Seq(Naredba) BY <1>1 DEF Zahtev
<1>7. PICK z \in Zahtev :
        /\ zahtev' = [zahtev EXCEPT ![t] = z]
        /\ z.pc = "work" /\ z.op = zahtev[t].op /\ z.plan = Tail(zahtev[t].plan)
        /\ z.drzi = zahtev[t].drzi \cup new /\ z.kolone = zahtev[t].kolone
        /\ z.new = zahtev[t].new
        /\ z.s = zahtev[t].s /\ z.k = zahtev[t].k /\ z.p = zahtev[t].p
  <2> DEFINE y == [zahtev[t] EXCEPT !.plan = Tail(zahtev[t].plan), !.drzi = zahtev[t].drzi \cup new]
  <2>1. Tail(zahtev[t].plan) \in Seq(Naredba) BY <1>1, <1>6, TailPlan
  <2>2. /\ y \in Zahtev /\ y.pc = "work" /\ y.op = zahtev[t].op
        /\ y.plan = Tail(zahtev[t].plan)
        /\ y.drzi = zahtev[t].drzi \cup new /\ y.kolone = zahtev[t].kolone
        /\ y.new = zahtev[t].new
        /\ y.s = zahtev[t].s /\ y.k = zahtev[t].k /\ y.p = zahtev[t].p
        BY <1>1, <1>3, <2>1 DEF Zahtev
  <2>3. zahtev' = [zahtev EXCEPT ![t] = y] BY DEF execute, new, IInv, TypeOK
  <2> HIDE DEF y
  <2>4. \E z \in Zahtev : z = y BY <2>2
  <2> QED BY <2>2, <2>3, <2>4
<1>8. UNCHANGED <<nalog, sesije, token, kodovi>> /\ poslato' = poslato
      BY DEF execute, Tables
<1>9. poslato \subseteq poslato' /\ poslato' \subseteq Privremena \cup Kod
      BY <1>8 DEF IInv, TypeOK
<1>10. Sent(z)' BY <1>1, <1>2, <1>7, <1>8 DEF Sent
<1>11. Holds(z)
  <2> SUFFICES ASSUME z.op \in Admin
               PROVE  /\ "nalog" \in z.drzi
                      /\ z.op # "unlock" => \A s \in Sesija : sesije[s] = "D" => s \in z.drzi
      BY <1>7 DEF Holds
  <2>1. /\ "nalog" \in zahtev[t].drzi
        /\ z.op # "unlock" =>
             \/ zahtev[t].plan = <<"sesije", "token">>
             \/ \A s \in Sesija : sesije[s] = "D" => s \in zahtev[t].drzi
        BY <1>2, <1>7 DEF Holds
  <2>2. zahtev[t].plan = <<"sesije", "token">> => Head(zahtev[t].plan) = "sesije" OBVIOUS
  <2> QED BY <1>4, <1>7, <2>1, <2>2
<1>12. Fits(z)
  <2>1. \A i \in DOMAIN z.plan : /\ z.plan[i] = "sesija" => z.op # "login" /\ z.s \in Sesija
                                 /\ z.plan[i] = "kod" => z.k \in Kod
        BY <1>1, <1>2, <1>6, <1>7, TailPlan DEF Fits
  <2>2. ASSUME z.op = "login", "nalog" \notin z.drzi
        PROVE  \E i \in DOMAIN z.plan : z.plan[i] = "nalog"
    <3>1. PICK i \in DOMAIN zahtev[t].plan : zahtev[t].plan[i] = "nalog"
          BY <1>2, <1>7, <2>2 DEF Fits
    <3>2. i # 1 BY <1>1, <1>4, <1>6, <1>7, <2>2, <3>1, TailPlan
    <3>3. i - 1 \in DOMAIN z.plan /\ z.plan[i - 1] = "nalog"
          BY <1>1, <1>6, <1>7, <3>1, <3>2, TailPlan
    <3> QED BY <3>3
  <2>3. z.op = "register" => z.s \in Sesija BY <1>2, <1>7 DEF Fits
  <2>4. z.op = "login" => "nalog" \in z.drzi \/ \E i \in DOMAIN z.plan : z.plan[i] = "nalog"
        BY <2>2
  <2> QED BY <2>1, <2>3, <2>4 DEF Fits
<1>13. Creates(z) BY <1>2, <1>3, <1>7 DEF Creates
<1>14. \A v \in Thread \ {t} : zahtev[v].drzi \cap z.drzi = {}
       BY <1>5, <1>7 DEF IInv, HeldByOne
<1>15. \A v \in Thread \ {t} :
         /\ z.op = "login" /\ zahtev[v].op = "login" => zahtev[v].s # z.s
         /\ z.op = "forgot_password" /\ zahtev[v].op = "forgot_password" => zahtev[v].p # z.p
      BY <1>7 DEF IInv, CreatedOnce
<1>16. zahtev' = [zahtev EXCEPT ![t] = z] /\ UNCHANGED <<nalog, sesije, token, kodovi>>
       BY <1>7, <1>8
<1> QED BY <1>9, <1>10, <1>11, <1>12, <1>13, <1>14, <1>15, <1>16, OneRequest

-----------------------------------------------------------------------------
(* The commit *)

LEMMA NextOrdinal == ASSUME TypeOK PROVE next_redni \in Nat
<1> DEFINE S == {x \in Kod : kodovi[x].redni # 0}
<1>1. IsFiniteSet(S) BY FS_Subset
<1>2. Cardinality(S) \in Nat BY <1>1, FS_CardinalityType
<1> QED BY <1>2 DEF next_redni

\* What a commit does to the sessions: one opened, or some revoked.
LEMMA SessionsCommitted ==
  ASSUME TypeOK, NEW z \in Zahtev, NEW s \in Sesija
  PROVE  /\ saved_session(z, s) \in {sesije[s], "D", "N"}
         /\ saved_session(z, s) = "D" /\ sesije[s] # "D" => z.op = "login" /\ s = z.s
         /\ saved_session(z, s) # sesije[s] => s \in z.drzi \/ (z.op = "login" /\ s = z.s)
         /\ z.op \in Admin /\ s \in z.drzi => saved_session(z, s) = "N"
         /\ z.op \in Admin /\ s \notin z.drzi => saved_session(z, s) = sesije[s]
BY DEF saved_session, Admin

\* What it does to the codes: one created, or some used, superseded or missed.
LEMMA CodesCommitted ==
  ASSUME TypeOK, NEW z \in Zahtev, NEW k \in Kod
  PROVE  /\ saved_code(z, k) \in KodRed
         /\ saved_code(z, k).redni # kodovi[k].redni => z.op = "forgot_password" /\ k = z.p
         /\ saved_code(z, k).aktivan /\ ~kodovi[k].aktivan => z.op = "forgot_password" /\ k = z.p
<1>1. kodovi[k] \in KodRed /\ z.pokusaji \in Nat BY DEF TypeOK, Zahtev
<1>2. CASE z.op = "forgot_password" /\ k = z.p
  <2>1. saved_code(z, k) = [redni |-> next_redni, aktivan |-> TRUE, pokusaji |-> 0]
        BY <1>2, Zenon DEF saved_code, created_code
  <2>2. next_redni \in Nat BY NextOrdinal
  <2>3. [redni |-> next_redni, aktivan |-> TRUE, pokusaji |-> 0] \in KodRed BY <2>2 DEF KodRed
  <2> QED BY <1>2, <2>1, <2>3, Zenon
<1>3. CASE ~(z.op = "forgot_password" /\ k = z.p)
  <2>1. saved_code(z, k) \in {[kodovi[k] EXCEPT !.aktivan = FALSE],
                              [kodovi[k] EXCEPT !.pokusaji = z.pokusaji + 1], kodovi[k]}
        BY <1>3 DEF saved_code, held_code
  <2>2. CASE saved_code(z, k) = [kodovi[k] EXCEPT !.aktivan = FALSE]
    <3>1. /\ [kodovi[k] EXCEPT !.aktivan = FALSE] \in KodRed
          /\ [kodovi[k] EXCEPT !.aktivan = FALSE].redni = kodovi[k].redni
          /\ [kodovi[k] EXCEPT !.aktivan = FALSE].aktivan = FALSE
          BY <1>1 DEF KodRed
    <3> QED BY <2>2, <3>1
  <2>3. CASE saved_code(z, k) = [kodovi[k] EXCEPT !.pokusaji = z.pokusaji + 1]
    <3>1. /\ [kodovi[k] EXCEPT !.pokusaji = z.pokusaji + 1] \in KodRed
          /\ [kodovi[k] EXCEPT !.pokusaji = z.pokusaji + 1].redni = kodovi[k].redni
          /\ [kodovi[k] EXCEPT !.pokusaji = z.pokusaji + 1].aktivan = kodovi[k].aktivan
          BY <1>1 DEF KodRed
    <3> QED BY <2>3, <3>1
  <2> QED BY <1>1, <2>1, <2>2, <2>3
<1> QED BY <1>2, <1>3

\* The facts about the request that commits, and what becomes of the tables.
LEMMA Committed ==
  ASSUME IInv, NEW t \in Thread, commit(t), NEW z, z = zahtev[t]
  PROVE  /\ z \in Zahtev /\ z.pc = "work"
         /\ Sent(z) /\ Holds(z) /\ Fits(z) /\ Creates(z)
         /\ z.op = "login" => "nalog" \in z.drzi
         /\ z.op = "register" => z.s \in Sesija
         /\ nalog' = IF "nalog" \in z.drzi THEN saved_account(z) ELSE nalog
         /\ sesije' = [s \in Sesija |-> saved_session(z, s)]
         /\ token' = saved_token(z)
         /\ kodovi' = [k \in Kod |-> saved_code(z, k)]
         /\ poslato' = poslato
<1>1. z \in Zahtev BY DEF IInv, TypeOK
<1>2. z.pc = "work" /\ z.plan = <<>> BY DEF commit
<1>3. Sent(z) /\ Holds(z) /\ Fits(z) /\ Creates(z)
      BY DEF IInv, SentFirst, AdminHolds, PlansFit, CreatedOnce
<1>4. /\ z.op = "login" => "nalog" \in z.drzi
      /\ z.op = "register" => z.s \in Sesija
      BY <1>2, <1>3 DEF Fits
<1> QED BY <1>1, <1>2, <1>3, <1>4 DEF commit

LEMMA CommitKept ==
  ASSUME IInv, NEW t \in Thread, commit(t)
  PROVE  IInv'
<1>1. PICK z : z = zahtev[t] OBVIOUS
<1>2. /\ z \in Zahtev /\ z.pc = "work"
      /\ Sent(z) /\ Holds(z) /\ Fits(z) /\ Creates(z)
      /\ z.op = "login" => "nalog" \in z.drzi
      /\ z.op = "register" => z.s \in Sesija
      /\ nalog' = IF "nalog" \in z.drzi THEN saved_account(z) ELSE nalog
      /\ sesije' = [s \in Sesija |-> saved_session(z, s)]
      /\ token' = saved_token(z)
      /\ kodovi' = [k \in Kod |-> saved_code(z, k)]
      /\ poslato' = poslato
      BY <1>1, Committed
<1>3. /\ zahtev' \in [Thread -> Zahtev] /\ zahtev'[t] = Idle
      /\ \A v \in Thread : v # t => zahtev'[v] = zahtev[v]
      BY IdleTyped, OthersKept DEF IInv, commit
<1>4. ASSUME NEW s \in Sesija
      PROVE  /\ sesije'[s] \in {sesije[s], "D", "N"}
             /\ sesije'[s] = "D" /\ sesije[s] # "D" => z.op = "login" /\ s = z.s
             /\ sesije'[s] # sesije[s] => s \in z.drzi \/ (z.op = "login" /\ s = z.s)
      BY <1>2, SessionsCommitted DEF IInv
<1>5. ASSUME NEW k \in Kod
      PROVE  /\ kodovi'[k] \in KodRed
             /\ kodovi'[k].redni # kodovi[k].redni => z.op = "forgot_password" /\ k = z.p
      BY <1>2, CodesCommitted DEF IInv
<1>6. TypeOK'
  <2>1. nalog' \in Nalog
    <3>1. z.new \in Nalog /\ nalog \in Nalog BY <1>2 DEF Zahtev, IInv, TypeOK
    <3>2. saved_account(z) \in Nalog BY <3>1, NewTyped DEF saved_account
    <3> QED BY <1>2, <3>1, <3>2
  <2>2. sesije' \in [Sesija -> {"-", "D", "N"}]
    <3>1. \A s \in Sesija : saved_session(z, s) \in {"-", "D", "N"}
          BY <1>2, <1>4 DEF IInv, TypeOK
    <3> QED BY <1>2, <3>1
  <2>3. token' \in Device \cup {None} BY <1>2 DEF saved_token, Device, IInv, TypeOK
  <2>4. kodovi' \in [Kod -> KodRed]
    <3>1. \A k \in Kod : saved_code(z, k) \in KodRed BY <1>2, CodesCommitted DEF IInv
    <3> QED BY <1>2, <3>1
  <2> QED BY <1>2, <1>3, <2>1, <2>2, <2>3, <2>4 DEF IInv, TypeOK
<1>7. HeldByOne' BY <1>3 DEF IInv, HeldByOne, Idle
<1>8. SentFirst'
  <2>1. ASSUME NEW v \in Thread PROVE Sent(zahtev[v])'
    <3>1. CASE v = t BY <1>3, <3>1 DEF Sent, Idle
    <3>2. CASE v # t BY <1>2, <1>3, <3>2 DEF IInv, SentFirst, Sent
    <3> QED BY <3>1, <3>2
  <2> QED BY <2>1 DEF SentFirst
<1>9. AdminHolds'
  <2>1. ASSUME NEW v \in Thread PROVE Holds(zahtev[v])'
    <3>1. CASE v = t BY <1>3, <3>1 DEF Holds, Idle, Admin, Operacija
    <3>2. CASE v # t
      <4>1. zahtev'[v] = zahtev[v] /\ Holds(zahtev[v]) BY <1>3, <3>2 DEF IInv, AdminHolds
      <4>2. ASSUME zahtev[v].op \in Admin, NEW s \in Sesija, sesije'[s] = "D"
            PROVE  sesije[s] = "D"
        <5>1. "nalog" \in zahtev[v].drzi BY <4>1, <4>2 DEF Holds
        <5>2. "nalog" \notin z.drzi BY <1>1, <3>2, <5>1 DEF IInv, HeldByOne
        <5> QED BY <1>2, <1>4, <4>2, <5>2
      <4> QED BY <4>1, <4>2 DEF Holds
    <3> QED BY <3>1, <3>2
  <2> QED BY <2>1 DEF AdminHolds
<1>10. PlansFit'
  <2>1. ASSUME NEW v \in Thread PROVE Fits(zahtev[v])'
    <3>1. CASE v = t BY <1>3, <3>1 DEF Fits, Idle, Operacija
    <3>2. CASE v # t BY <1>3, <3>2 DEF IInv, PlansFit, Fits
    <3> QED BY <3>1, <3>2
  <2> QED BY <2>1 DEF PlansFit
<1>11. CreatedOnce'
  <2>1. ASSUME NEW v \in Thread PROVE Creates(zahtev[v])'
    <3>1. CASE v = t BY <1>3, <3>1 DEF Creates, Idle, Operacija
    <3>2. CASE v # t
      <4>1. zahtev'[v] = zahtev[v] /\ Creates(zahtev[v]) BY <1>3, <3>2 DEF IInv, CreatedOnce
      <4>2. \A s \in Sesija : sesije[s] # "-" => sesije'[s] # "-" BY <1>4
      <4>3. zahtev[v].op = "login" => sesije'[zahtev[v].s] = "-"
        <5> SUFFICES ASSUME zahtev[v].op = "login" PROVE sesije'[zahtev[v].s] = "-" OBVIOUS
        <5>1. zahtev[v].s \in Sesija /\ sesije[zahtev[v].s] = "-" BY <4>1 DEF Creates
        <5>2. zahtev[v].s \notin z.drzi BY <1>2, <5>1 DEF Creates
        <5>3. ~(z.op = "login" /\ zahtev[v].s = z.s) BY <1>1, <3>2 DEF IInv, CreatedOnce
        <5> QED BY <1>4, <5>1, <5>2, <5>3
      <4>4. zahtev[v].op = "forgot_password" => kodovi'[zahtev[v].p].redni = 0
        <5> SUFFICES ASSUME zahtev[v].op = "forgot_password"
                     PROVE  kodovi'[zahtev[v].p].redni = 0
            OBVIOUS
        <5>1. zahtev[v].p \in Kod /\ kodovi[zahtev[v].p].redni = 0 BY <4>1 DEF Creates
        <5>2. ~(z.op = "forgot_password" /\ zahtev[v].p = z.p)
              BY <1>1, <3>2 DEF IInv, CreatedOnce
        <5> QED BY <1>5, <5>1, <5>2
      <4> QED BY <4>1, <4>2, <4>3, <4>4 DEF Creates
    <3> QED BY <3>1, <3>2
  <2>2. ASSUME NEW v \in Thread, NEW x \in Thread
        PROVE  /\ (zahtev'[v].op = "login" /\ zahtev'[x].op = "login"
                     /\ zahtev'[v].s = zahtev'[x].s) => v = x
               /\ (zahtev'[v].op = "forgot_password" /\ zahtev'[x].op = "forgot_password"
                     /\ zahtev'[v].p = zahtev'[x].p) => v = x
    <3>1. Idle.op # "login" /\ Idle.op # "forgot_password" BY DEF Idle, Operacija
    <3> QED BY <1>3, <3>1 DEF IInv, CreatedOnce
  <2> QED BY <2>1, <2>2 DEF CreatedOnce
<1>12. StoredIsDelivered'
  <2>1. ASSUME NEW k \in Kod, kodovi'[k].redni # 0 PROVE k \in poslato
    <3>1. CASE kodovi'[k].redni = kodovi[k].redni
          BY <2>1, <3>1 DEF IInv, StoredIsDelivered
    <3>2. CASE kodovi'[k].redni # kodovi[k].redni BY <1>2, <1>5, <3>2 DEF Sent
    <3> QED BY <3>1, <3>2
  <2>2. nalog'.lozinka \in poslato \cup {"sopstvena", None}
    <3>1. nalog.lozinka \in poslato \cup {"sopstvena", None} BY DEF IInv, StoredIsDelivered
    <3>2. saved_account(z).lozinka = IF "lozinka" \in z.kolone THEN z.new.lozinka
                                     ELSE nalog.lozinka
          BY DEF saved_account, Kolona
    <3>3. "lozinka" \in z.kolone => z.new.lozinka \in poslato \cup {"sopstvena"}
          BY <1>2 DEF Sent
    <3> QED BY <1>2, <3>1, <3>2, <3>3
  <2> QED BY <1>2, <2>1, <2>2 DEF StoredIsDelivered
<1> QED BY <1>6, <1>7, <1>8, <1>9, <1>10, <1>11, <1>12 DEF IInv

LEMMA SynchroniseKept ==
  ASSUME IInv, synchronise
  PROVE  IInv'
<1>1. /\ nalog \in Nalog /\ nalog' = [nalog EXCEPT !.omogucen = FALSE]
      /\ sesije' = sesije /\ token' = token /\ kodovi' = kodovi /\ poslato' = poslato
      /\ zahtev' = zahtev
      BY DEF synchronise, IInv, TypeOK
<1>2. nalog' \in Nalog /\ nalog'.lozinka = nalog.lozinka BY <1>1 DEF Nalog
<1>3. TypeOK' BY <1>1, <1>2 DEF IInv, TypeOK
<1>4. HeldByOne' BY <1>1 DEF IInv, HeldByOne
<1>5. SentFirst' BY <1>1 DEF IInv, SentFirst, Sent
<1>6. AdminHolds' BY <1>1 DEF IInv, AdminHolds, Holds
<1>7. PlansFit' BY <1>1 DEF IInv, PlansFit, Fits
<1>8. CreatedOnce' BY <1>1 DEF IInv, CreatedOnce, Creates
<1>9. StoredIsDelivered' BY <1>1, <1>2 DEF IInv, StoredIsDelivered
<1> QED BY <1>3, <1>4, <1>5, <1>6, <1>7, <1>8, <1>9 DEF IInv

LEMMA StutterKept ==
  ASSUME IInv, UNCHANGED vars
  PROVE  IInv'
<1>1. /\ nalog' = nalog /\ sesije' = sesije /\ token' = token /\ kodovi' = kodovi
      /\ poslato' = poslato /\ zahtev' = zahtev
      BY DEF vars
<1>2. TypeOK' BY <1>1 DEF IInv, TypeOK
<1>3. HeldByOne' BY <1>1 DEF IInv, HeldByOne
<1>4. SentFirst' BY <1>1 DEF IInv, SentFirst, Sent
<1>5. AdminHolds' BY <1>1 DEF IInv, AdminHolds, Holds
<1>6. PlansFit' BY <1>1 DEF IInv, PlansFit, Fits
<1>7. CreatedOnce' BY <1>1 DEF IInv, CreatedOnce, Creates
<1>8. StoredIsDelivered' BY <1>1 DEF IInv, StoredIsDelivered
<1> QED BY <1>2, <1>3, <1>4, <1>5, <1>6, <1>7, <1>8 DEF IInv

-----------------------------------------------------------------------------
(* Every step *)

LEMMA EmployeeKept ==
  ASSUME IInv, NEW t \in Thread, Employee(t)
  PROVE  IInv'
<1>1. ASSUME NEW s \in Sesija, login(t, s) PROVE IInv' BY <1>1, LoginKept
<1>2. CASE register_failed_attempt(t) BY <1>2, FailureKept
<1>3. ASSUME NEW s \in Sesija,
             \/ authenticate_refused(t, s) \/ touch_activity(t, s) \/ change_password(t, s)
             \/ confirm_phone(t, s) \/ logout(t, s) \/ register_token(t, s) \/ delete_token(t, s)
      PROVE  IInv'
      BY <1>3, SessionsKept
<1>4. ASSUME NEW k \in Kod,
             forgot_password(t, k) \/ reset_password(t, k) \/ wrong_code(t, k)
      PROVE  IInv'
      BY <1>4, CodesKept
<1> QED BY <1>1, <1>2, <1>3, <1>4 DEF Employee

LEMMA EndsKept ==
  ASSUME IInv, NEW t \in Thread,
         \/ sms_not_sent(t) \/ token_conflict(t) \/ deadlock_detected(t) \/ rollback(t)
  PROVE  IInv'
<1>1. zahtev' = [zahtev EXCEPT ![t] = Idle] /\ UNCHANGED <<nalog, sesije, token, kodovi, poslato>>
      BY DEF sms_not_sent, token_conflict, deadlock_detected, rollback, Tables
<1> QED BY <1>1, EndKept

LEMMA NextKept ==
  ASSUME IInv, [Next]_vars
  PROVE  IInv'
<1>1. ASSUME NEW t \in Thread, Employee(t) PROVE IInv' BY <1>1, EmployeeKept
<1>2. ASSUME NEW t \in Thread, Administrator(t) PROVE IInv' BY <1>2, AdminKept DEF Administrator
<1>3. ASSUME NEW t \in Thread, Worker(t) PROVE IInv' BY <1>3, ProvisionKept DEF Worker
<1>4. ASSUME NEW t \in Thread, Answered(t) PROVE IInv' BY <1>4, SmsKept, EndsKept DEF Answered
<1>5. ASSUME NEW t \in Thread, execute(t) PROVE IInv' BY <1>5, ExecuteKept
<1>6. ASSUME NEW t \in Thread, Finish(t) PROVE IInv' BY <1>6, CommitKept, EndsKept DEF Finish
<1>7. ASSUME NEW t \in Thread, rollback(t) PROVE IInv' BY <1>7, EndsKept
<1>8. CASE synchronise BY <1>8, SynchroniseKept
<1>9. CASE UNCHANGED vars BY <1>9, StutterKept
<1> QED BY <1>1, <1>2, <1>3, <1>4, <1>5, <1>6, <1>7, <1>8, <1>9 DEF Next

LEMMA InitSound == Init => IInv
<1> SUFFICES ASSUME Init PROVE IInv OBVIOUS
<1>1. \A t \in Thread : zahtev[t] = Idle BY DEF Init
<1>2. Idle.drzi = {} /\ Idle.plan = <<>> /\ Idle.pc = "idle" /\ Idle.op = None BY DEF Idle
<1>3. None \notin Admin /\ None # "login" /\ None # "register" /\ None # "forgot_password"
      BY DEF Admin, Operacija
<1>4. TypeOK
  <2>1. nalog \in Nalog
    <3>1. nalog \in [omogucen : {TRUE}, zakljucan : {FALSE}, neuspesne : {0},
                     lozinka : {"sopstvena", None}, obavezna : BOOLEAN, telefon : BOOLEAN]
          BY DEF Init
    <3>2. /\ {TRUE} \subseteq BOOLEAN /\ {FALSE} \subseteq BOOLEAN /\ {0} \subseteq Nat
          /\ {"sopstvena", None} \subseteq Privremena \cup {"sopstvena", None}
          OBVIOUS
    <3> QED BY <3>1, <3>2, Zenon DEF Nalog
  <2>2. kodovi \in [Kod -> KodRed] BY DEF Init, KodRed
  <2>3. zahtev \in [Thread -> Zahtev] BY IdleTyped DEF Init
  <2> QED BY <2>1, <2>2, <2>3 DEF Init, TypeOK
<1>5. HeldByOne BY <1>1, <1>2 DEF HeldByOne
<1>6. SentFirst BY <1>1, <1>2 DEF SentFirst, Sent
<1>7. AdminHolds BY <1>1, <1>2, <1>3 DEF AdminHolds, Holds
<1>8. PlansFit
  <2>1. Fits(Idle) BY DEF Fits, Idle, Operacija
  <2> QED BY <1>1, <2>1 DEF PlansFit
<1>9. CreatedOnce
  <2>1. Creates(Idle) BY DEF Creates, Idle, Operacija
  <2> QED BY <1>1, <1>2, <1>3, <2>1 DEF CreatedOnce
<1>10. StoredIsDelivered BY DEF Init, StoredIsDelivered
<1> QED BY <1>4, <1>5, <1>6, <1>7, <1>8, <1>9, <1>10 DEF IInv

\* Only a commit changes a session or a code.
LEMMA OnlyCommits ==
  ASSUME [Next]_vars, ~(\E t \in Thread : commit(t))
  PROVE  sesije' = sesije /\ kodovi' = kodovi
<1>1. ASSUME NEW t \in Thread, NEW z, begin(t, z) PROVE sesije' = sesije /\ kodovi' = kodovi
      BY <1>1 DEF begin, Tables
<1>2. ASSUME NEW t \in Thread, Employee(t) PROVE sesije' = sesije /\ kodovi' = kodovi
      BY <1>1, <1>2 DEF Employee, login, register_failed_attempt, authenticate_refused,
         touch_activity, change_password, confirm_phone, logout, register_token, delete_token,
         forgot_password, reset_password, wrong_code, with_session, with_code
<1>3. ASSUME NEW t \in Thread, Administrator(t) \/ Worker(t)
      PROVE  sesije' = sesije /\ kodovi' = kodovi
      BY <1>1, <1>3 DEF Administrator, Worker, lock, unlock, deactivate, admin_reset_password,
         admin, provision_one
<1>4. ASSUME NEW t \in Thread, Answered(t) \/ execute(t) \/ rollback(t) \/ Finish(t)
      PROVE  sesije' = sesije /\ kodovi' = kodovi
      BY <1>4 DEF Answered, send_sms, sms_not_sent, execute, rollback, Finish, token_conflict,
         deadlock_detected, Tables
<1>5. CASE synchronise BY <1>5 DEF synchronise
<1>6. CASE UNCHANGED vars BY <1>6 DEF vars
<1> QED BY <1>2, <1>3, <1>4, <1>5, <1>6 DEF Next

-----------------------------------------------------------------------------
(* The theorems *)

(* However requests overlap, every row is held by one of them, nothing is   *)
(* about to be stored that was not sent, an administrator's request holds   *)
(* the account and then its active sessions, and no two requests create the *)
(* same session or code.                                                    *)
THEOREM AccountsInvariance == Spec => []IInv
<1>1. IInv /\ [Next]_vars => IInv' BY NextKept
<1> QED BY InitSound, <1>1, PTL DEF Spec

(* A temporary password or a reset code is stored only after the gateway    *)
(* accepted it (auth_service.forgot_password, admin_users_service           *)
(* reset_password, provisioning_service).                                   *)
THEOREM StoredWasDelivered == Spec => []StoredIsDelivered
<1>1. IInv => StoredIsDelivered BY DEF IInv
<1> QED BY AccountsInvariance, <1>1, PTL

(* The commit of an administrator's lock, deactivation or password reset    *)
(* leaves no active session, whatever overlaps it: he holds the account,    *)
(* which a login must take to commit (admin_users_service._load_target).    *)
THEOREM LockoutCompletes == Spec => LockoutIsComplete
<1>1. ASSUME IInv, NEW t \in Thread, zahtev[t].op \in Admin \ {"unlock"}, commit(t),
             NEW s \in Sesija
      PROVE  sesije'[s] # "D"
  <2>1. PICK z : z = zahtev[t] OBVIOUS
  <2>2. /\ z \in Zahtev /\ Holds(z) /\ sesije' = [x \in Sesija |-> saved_session(z, x)]
        BY <1>1, <2>1, Committed
  <2>3. z.plan = <<>> BY <1>1, <2>1 DEF commit
  <2>4. sesije[s] = "D" => s \in z.drzi BY <1>1, <2>1, <2>2, <2>3 DEF Holds
  <2>5. /\ s \in z.drzi => saved_session(z, s) = "N"
        /\ s \notin z.drzi => saved_session(z, s) = sesije[s]
        BY <1>1, <2>1, <2>2, SessionsCommitted DEF IInv
  <2> QED BY <2>2, <2>4, <2>5
<1>2. IInv => [\A t \in Thread : zahtev[t].op \in Admin \ {"unlock"} /\ commit(t) =>
                 \A s \in Sesija : sesije'[s] # "D"]_vars
      BY <1>1
<1> QED BY AccountsInvariance, <1>2, PTL DEF LockoutIsComplete

(* A session revoked, and a reset code used or superseded, is never active  *)
(* again: a login creates its session, and no other commit activates one.   *)
THEOREM RevocationLasts == Spec => RevokedForever
<1>1. ASSUME IInv, [Next]_vars
      PROVE  /\ \A s \in Sesija : sesije[s] = "N" => sesije'[s] = "N"
             /\ \A k \in Kod : kodovi[k].redni # 0 /\ ~kodovi[k].aktivan => ~kodovi'[k].aktivan
  <2>1. CASE ~(\E t \in Thread : commit(t)) BY <1>1, <2>1, OnlyCommits
  <2>2. ASSUME NEW t \in Thread, commit(t)
        PROVE  /\ \A s \in Sesija : sesije[s] = "N" => sesije'[s] = "N"
               /\ \A k \in Kod : kodovi[k].redni # 0 /\ ~kodovi[k].aktivan => ~kodovi'[k].aktivan
    <3>1. PICK z : z = zahtev[t] OBVIOUS
    <3>2. /\ z \in Zahtev /\ Creates(z)
          /\ sesije' = [x \in Sesija |-> saved_session(z, x)]
          /\ kodovi' = [k \in Kod |-> saved_code(z, k)]
          BY <1>1, <2>2, <3>1, Committed
    <3>3. ASSUME NEW s \in Sesija, sesije[s] = "N" PROVE sesije'[s] = "N"
      <4>1. /\ saved_session(z, s) \in {sesije[s], "D", "N"}
            /\ saved_session(z, s) = "D" /\ sesije[s] # "D" => z.op = "login" /\ s = z.s
            BY <1>1, <3>2, SessionsCommitted DEF IInv
      <4>2. ~(z.op = "login" /\ s = z.s) BY <3>2, <3>3 DEF Creates
      <4> QED BY <3>2, <3>3, <4>1, <4>2
    <3>4. ASSUME NEW k \in Kod, kodovi[k].redni # 0, ~kodovi[k].aktivan
          PROVE  ~kodovi'[k].aktivan
      <4>1. saved_code(z, k).aktivan /\ ~kodovi[k].aktivan => z.op = "forgot_password" /\ k = z.p
            BY <1>1, <3>2, CodesCommitted DEF IInv
      <4>2. ~(z.op = "forgot_password" /\ k = z.p) BY <3>2, <3>4 DEF Creates
      <4> QED BY <3>2, <3>4, <4>1, <4>2
    <3> QED BY <3>3, <3>4
  <2> QED BY <2>1, <2>2
<1>2. IInv /\ [Next]_vars =>
        [/\ \A s \in Sesija : sesije[s] = "N" => sesije'[s] = "N"
         /\ \A k \in Kod : kodovi[k].redni # 0 /\ ~kodovi[k].aktivan => ~kodovi'[k].aktivan]_vars
      BY <1>1
<1> QED BY AccountsInvariance, <1>2, PTL DEF Spec, RevokedForever
=============================================================================
