------------------------- MODULE NotificationsProofs -------------------------
(***************************************************************************)
(* Proofs about Notifications, for all notifications, employees, requests  *)
(* and page sizes.                                                         *)
(*                                                                         *)
(* A row that an administrator holds is his alone until he commits, and    *)
(* what he will write is a change of the row as it is (HeldIsCurrent), so  *)
(* that what was sent stays (SentStays).  The marks and the passes through *)
(* the inbox rest on that: they hold rows that were sent.  A commit is     *)
(* therefore one step of NotificationRegister, or shows nothing.           *)
(***************************************************************************)
EXTENDS Notifications, FiniteSetTheorems, TLAPS

-----------------------------------------------------------------------------
(* Types *)

\* None is no row and no request.
LEMMA NoneApart ==
  /\ None \notin Istek /\ None \notin Red /\ None \notin Primalac
  /\ None \notin Zahtev /\ None \notin Oznaka /\ None \notin Lista
  /\ Time \subseteq Istek /\ None \notin Time
BY ConstantsAssumption DEF Istek, Time

LEMMA NoRecipientsType == NoRecipients \in [Korisnik -> Primalac \cup {None}]
BY DEF NoRecipients

\* The row a publication makes, and its expiry.
LEMMA ExpiryType ==
  ASSUME NEW z \in Zahtev, NEW red \in Red
  PROVE  DATUM_ISTEKA(z, red) \in Istek
BY ConstantsAssumption DEF DATUM_ISTEKA, Zahtev, Red, Istek, Time

LEMMA MarkedType ==
  ASSUME NEW r \in Primalac, NEW p \in BOOLEAN, NEW t \in Time
  PROVE  marked(r, p, t) \in Primalac
BY DEF marked, Primalac

\* A pass after a page.
LEMMA ShownType ==
  ASSUME NEW z \in Lista, NEW more \in BOOLEAN, NEW same \in BOOLEAN, NEW P \in SUBSET Obavestenje
  PROVE  [z EXCEPT !.pc = IF more THEN "count" ELSE "done",
                   !.page = IF more THEN @ + 1 ELSE @,
                   !.vidjene = @ \cup P,
                   !.mirno = @ /\ same] \in Lista
<1>1. z.page \in Nat /\ z.vidjene \subseteq Obavestenje /\ z.mirno \in BOOLEAN BY DEF Lista
<1>2. /\ (IF more THEN z.page + 1 ELSE z.page) \in Nat
      /\ (IF more THEN "count" ELSE "done") \in {"count", "rows", "done"}
      /\ z.vidjene \cup P \in SUBSET Obavestenje
      /\ (z.mirno /\ same) \in BOOLEAN
  BY <1>1
<1> QED BY <1>2 DEF Lista

\* A request of an administrator that holds a row.
LEMMA FlushType ==
  ASSUME TypeOK, NEW a \in Admin, NEW n \in Obavestenje, NEW red \in Red,
         NEW rows \in [Korisnik -> Primalac \cup {None}], flush(a, n, red, rows)
  PROVE  TypeOK'
<1>1. [pc |-> "commit", id |-> n, t |-> now, istek |-> None, red |-> red, primaoci |-> rows] \in Zahtev
  BY DEF Zahtev, TypeOK
<1>2. zahtev' \in [Admin -> Zahtev \cup {None}]
  BY <1>1 DEF flush, TypeOK
<1> QED BY <1>2 DEF flush, TypeOK, Business, Tables, Inbox

LEMMA AdministratorType ==
  ASSUME TypeOK, NEW a \in Admin, Administrator(a)
  PROVE  TypeOK'
<1>1. ASSUME NEW n \in Obavestenje, NEW p \in Nacrt, apply_create_draft(a, n, p) PROVE TypeOK'
  <2>1. [status |-> "DRAFT", nacrt |-> p, objava |-> None, istek |-> p.istek] \in Red
    BY ConstantsAssumption DEF Red, Status
  <2> QED BY <1>1, <2>1, FlushType, NoRecipientsType DEF apply_create_draft
<1>2. ASSUME NEW n \in Obavestenje, NEW p \in Nacrt, apply_update_draft(a, n, p) PROVE TypeOK'
  <2>1. obavestenja[n] \in Red
    BY <1>2 DEF apply_update_draft, get_notification_for_update, TypeOK
  <2>2. [obavestenja[n] EXCEPT !.nacrt = p, !.istek = p.istek] \in Red
    BY <2>1, ConstantsAssumption DEF Red
  <2>3. primaoci[n] \in [Korisnik -> Primalac \cup {None}] BY DEF TypeOK
  <2> QED BY <1>2, <2>2, <2>3, FlushType DEF apply_update_draft
<1>3. ASSUME NEW n \in Obavestenje, apply_archive(a, n) PROVE TypeOK'
  <2>1. obavestenja[n] \in Red
    BY <1>3 DEF apply_archive, get_notification_for_update, TypeOK
  <2>2. [obavestenja[n] EXCEPT !.status = "ARCHIVED"] \in Red
    BY <2>1 DEF Red, Status
  <2>3. primaoci[n] \in [Korisnik -> Primalac \cup {None}] BY DEF TypeOK
  <2> QED BY <1>3, <2>2, <2>3, FlushType DEF apply_archive
<1>4. ASSUME NEW n \in Obavestenje, NEW i \in Time \cup {None}, apply_publish(a, n, i) PROVE TypeOK'
  <2>1. [pc |-> "publish", id |-> n, t |-> now, istek |-> i, red |-> None, primaoci |-> NoRecipients] \in Zahtev
    BY NoRecipientsType DEF Zahtev, TypeOK
  <2>2. zahtev' \in [Admin -> Zahtev \cup {None}]
    BY <1>4, <2>1 DEF apply_publish, TypeOK
  <2> QED BY <1>4, <2>2 DEF apply_publish, TypeOK, Business, Tables, Inbox
<1>5. ASSUME publish_locked(a) PROVE TypeOK'
  <2> DEFINE z == zahtev[a]
             old == obavestenja[z.id]
             red == [old EXCEPT !.status = "PUBLISHED", !.objava = z.t, !.istek = DATUM_ISTEKA(z, old)]
             rows == [k \in Korisnik |->
                        IF k \in _resolve_recipients(old.nacrt.ciljevi) /\ primaoci[z.id][k] = None
                          THEN [procitano |-> FALSE, citanje |-> None] ELSE primaoci[z.id][k]]
  <2>1. z \in Zahtev /\ z.id \in Obavestenje
    BY <1>5 DEF publish_locked, TypeOK, Zahtev
  <2>2. old \in Red
    BY <1>5, <2>1 DEF publish_locked, get_notification_for_update, TypeOK
  <2>3. DATUM_ISTEKA(z, old) \in Istek BY <2>1, <2>2, ExpiryType
  <2>4. red \in Red
    BY <2>1, <2>2, <2>3 DEF Red, Status, Zahtev
  <2>5. rows \in [Korisnik -> Primalac \cup {None}]
    <3>1. [procitano |-> FALSE, citanje |-> None] \in Primalac BY DEF Primalac
    <3>2. primaoci[z.id] \in [Korisnik -> Primalac \cup {None}] BY <2>1 DEF TypeOK
    <3> QED BY <3>1, <3>2
  <2>6. [z EXCEPT !.pc = "commit", !.red = red, !.primaoci = rows] \in Zahtev
    BY <2>1, <2>4, <2>5 DEF Zahtev
  <2>7. zahtev' = [zahtev EXCEPT ![a] = IF ~publishable(z) THEN None
                     ELSE [z EXCEPT !.pc = "commit", !.red = red, !.primaoci = rows]]
    BY <1>5 DEF publish_locked
  <2> HIDE DEF red, rows
  <2>8. zahtev' \in [Admin -> Zahtev \cup {None}]
    BY <2>6, <2>7 DEF TypeOK
  <2> QED BY <1>5, <2>8 DEF publish_locked, TypeOK, Business, Tables, Inbox
<1>6. ASSUME commit(a) PROVE TypeOK'
  <2> DEFINE z == zahtev[a]
  <2>1. z \in Zahtev /\ z.id \in Obavestenje /\ z.red \in Red \cup {None}
        /\ z.primaoci \in [Korisnik -> Primalac \cup {None}]
    BY <1>6 DEF commit, TypeOK, Zahtev
  <2>2. obavestenja' \in [Obavestenje -> Red \cup {None}]
    BY <1>6, <2>1 DEF commit, TypeOK
  <2>3. primaoci' \in [Obavestenje -> [Korisnik -> Primalac \cup {None}]]
    <3>1. primaoci[z.id] \in [Korisnik -> Primalac \cup {None}] BY <2>1 DEF TypeOK
    <3>2. [k \in Korisnik |-> IF primaoci[z.id][k] = None THEN z.primaoci[k] ELSE primaoci[z.id][k]]
            \in [Korisnik -> Primalac \cup {None}]
      BY <2>1, <3>1
    <3>3. primaoci' = [primaoci EXCEPT ![z.id] =
            [k \in Korisnik |-> IF primaoci[z.id][k] = None THEN z.primaoci[k] ELSE primaoci[z.id][k]]]
      BY <1>6 DEF commit
    <3> QED BY <3>2, <3>3 DEF TypeOK
  <2>4. zahtev' \in [Admin -> Zahtev \cup {None}]
    BY <1>6 DEF commit, TypeOK
  <2> QED BY <1>6, <2>2, <2>3, <2>4 DEF commit, TypeOK, Business, Inbox
<1>7. ASSUME rollback(a) PROVE TypeOK'
  BY <1>7 DEF rollback, TypeOK, Business, Tables, Inbox
<1> QED BY <1>1, <1>2, <1>3, <1>4, <1>5, <1>6, <1>7 DEF Administrator

LEMMA EmployeeType ==
  ASSUME TypeOK, Employee
  PROVE  TypeOK'
<1>0. u \in Korisnik BY ConstantsAssumption
<1>1. ASSUME NEW c \in Citalac, NEW n \in Obavestenje, NEW p \in BOOLEAN, require_available(c, n, p)
      PROVE  TypeOK'
  <2>1. [pc |-> "lock", id |-> n, t |-> now, procitano |-> p, red |-> None] \in Oznaka
    BY DEF Oznaka, TypeOK
  <2>2. oznaka' \in [Citalac -> Oznaka \cup {None}]
    BY <1>1, <2>1 DEF require_available, TypeOK
  <2> QED BY <1>1, <2>2 DEF require_available, TypeOK, Unmarked
<1>2. ASSUME NEW c \in Citalac, get_recipient_for_update(c) PROVE TypeOK'
  <2> DEFINE z == oznaka[c]
             r == marked(primaoci[z.id][u], z.procitano, z.t)
  <2>1. z \in Oznaka /\ z.id \in Obavestenje /\ z.procitano \in BOOLEAN /\ z.t \in Time
    BY <1>2 DEF get_recipient_for_update, TypeOK, Oznaka
  <2>2. oznaka' = [oznaka EXCEPT ![c] = IF primaoci[z.id][u] = None THEN None
                                        ELSE [z EXCEPT !.pc = "commit", !.red = r]]
    BY <1>2 DEF get_recipient_for_update
  <2>3. primaoci[z.id][u] \in Primalac \cup {None} BY <1>0, <2>1 DEF TypeOK
  <2>4. CASE primaoci[z.id][u] = None
    <3>1. oznaka' \in [Citalac -> Oznaka \cup {None}] BY <2>2, <2>4 DEF TypeOK
    <3> QED BY <1>2, <3>1 DEF get_recipient_for_update, TypeOK, Unmarked
  <2>5. CASE primaoci[z.id][u] # None
    <3>1. r \in Primalac BY <2>1, <2>3, <2>5, MarkedType
    <3> HIDE DEF r
    <3>2. [z EXCEPT !.pc = "commit", !.red = r] \in Oznaka BY <2>1, <3>1 DEF Oznaka
    <3>3. oznaka' \in [Citalac -> Oznaka \cup {None}] BY <2>2, <2>5, <3>2 DEF TypeOK
    <3> QED BY <1>2, <3>3 DEF get_recipient_for_update, TypeOK, Unmarked
  <2> QED BY <2>4, <2>5
<1>3. ASSUME NEW c \in Citalac, mark_commit(c) PROVE TypeOK'
  <2>1. oznaka[c] \in Oznaka /\ oznaka[c].id \in Obavestenje /\ oznaka[c].red \in Primalac \cup {None}
    BY <1>3 DEF mark_commit, TypeOK, Oznaka
  <2>2. primaoci' \in [Obavestenje -> [Korisnik -> Primalac \cup {None}]]
    BY <1>0, <1>3, <2>1 DEF mark_commit, TypeOK
  <2>3. oznaka' \in [Citalac -> Oznaka \cup {None}] BY <1>3 DEF mark_commit, TypeOK
  <2> QED BY <1>3, <2>2, <2>3 DEF mark_commit, TypeOK, Unmarked
<1>4. ASSUME NEW c \in Citalac, mark_rollback(c) PROVE TypeOK'
  BY <1>4 DEF mark_rollback, TypeOK, Unmarked
<1>5. ASSUME NEW l \in Listanje, list_inbox(l) \/ list_rows(l) \/ close(l) PROVE TypeOK'
  <2>1. _inbox_base(now) \subseteq Obavestenje BY DEF _inbox_base
  <2>2. ASSUME list_inbox(l) PROVE lista' \in [Listanje -> Lista \cup {None}]
    <3>1. CASE lista[l] = None
      <4>1. [pc |-> "rows", page |-> 1, t |-> now, prva |-> _inbox_base(now),
             dostupne |-> _inbox_base(now), vidjene |-> {}, mirno |-> TRUE] \in Lista
        BY <2>1 DEF Lista, TypeOK
      <4> QED BY <2>2, <3>1, <4>1 DEF list_inbox, TypeOK
    <3>2. CASE lista[l] # None
      <4>1. lista[l] \in Lista BY <3>2 DEF TypeOK
      <4>2. [lista[l] EXCEPT !.pc = "rows", !.t = now, !.dostupne = _inbox_base(now),
               !.mirno = @ /\ lista[l].dostupne \subseteq _inbox_base(now)] \in Lista
        BY <2>1, <4>1 DEF Lista, TypeOK
      <4> QED BY <2>2, <3>2, <4>2 DEF list_inbox, TypeOK
    <3> QED BY <3>1, <3>2
  <2>3. ASSUME list_rows(l) PROVE lista' \in [Listanje -> Lista \cup {None}]
    <3> DEFINE z == lista[l]
               S == _inbox_base(z.t)
               more == z.page * PageSize < Cardinality(z.dostupne)
               new == [z EXCEPT !.pc = IF more THEN "count" ELSE "done",
                                !.page = IF more THEN @ + 1 ELSE @,
                                !.vidjene = @ \cup page_rows(S, z.page),
                                !.mirno = @ /\ S = z.dostupne]
    <3>1. z \in Lista BY <2>3 DEF list_rows, TypeOK
    <3>2. page_rows(S, z.page) \subseteq Obavestenje BY DEF page_rows, _inbox_base
    <3>3. new \in Lista BY <3>1, <3>2, ShownType
    <3>4. lista' = [lista EXCEPT ![l] = new] BY <2>3 DEF list_rows
    <3> HIDE DEF new
    <3> QED BY <3>3, <3>4 DEF TypeOK
  <2>4. ASSUME close(l) PROVE lista' \in [Listanje -> Lista \cup {None}]
    BY <2>4 DEF close, TypeOK
  <2>5. UNCHANGED Unlisted BY <1>5 DEF list_inbox, list_rows, close
  <2>6. lista' \in [Listanje -> Lista \cup {None}] BY <1>5, <2>2, <2>3, <2>4
  <2> QED BY <2>5, <2>6 DEF TypeOK, Unlisted
<1> QED BY <1>1, <1>2, <1>3, <1>4, <1>5 DEF Employee

LEMMA StepType ==
  ASSUME TypeOK, [Next]_vars
  PROVE  TypeOK'
<1>1. ASSUME NEW k \in Kategorija, update_category(k) PROVE TypeOK'
  BY <1>1 DEF update_category, TypeOK, Tables, Inbox
<1>2. ASSUME NEW k \in Korisnik, NEW o \in Orgjed \cup {None}, synchronise(k, o) PROVE TypeOK'
  BY <1>2 DEF synchronise, TypeOK, Tables, Inbox
<1>3. ASSUME Tick PROVE TypeOK'
  BY <1>3, ConstantsAssumption DEF Tick, TypeOK, Time, Tables, Inbox
<1>4. ASSUME UNCHANGED vars PROVE TypeOK'
  BY <1>4 DEF vars, TypeOK
<1> QED BY <1>1, <1>2, <1>3, <1>4, AdministratorType, EmployeeType DEF Next

-----------------------------------------------------------------------------
(* What was sent stays *)

Sent(n) == obavestenja[n] # None /\ obavestenja[n].status # "DRAFT"

SentStays ==
  \A n \in Obavestenje : obavestenja[n] # None /\ obavestenja[n].status # "DRAFT" =>
    /\ obavestenja'[n] \in {obavestenja[n], [obavestenja[n] EXCEPT !.status = "ARCHIVED"]}
    /\ \A k \in Korisnik : primaoci'[n][k] = None <=> primaoci[n][k] = None

\* Archived or not, a sent row is the same but for its status.
LEMMA SentAgrees ==
  ASSUME TypeOK, SentStays, NEW n \in Obavestenje, Sent(n)
  PROVE  /\ obavestenja[n] \in Red /\ obavestenja'[n] \in Red /\ Sent(n)'
         /\ obavestenja'[n].objava = obavestenja[n].objava
         /\ obavestenja'[n].istek = obavestenja[n].istek
<1>1. obavestenja[n] \in Red BY DEF TypeOK, Sent
<1>2. [obavestenja[n] EXCEPT !.status = "ARCHIVED"] \in Red BY <1>1 DEF Red, Status
<1>3. obavestenja'[n] \in {obavestenja[n], [obavestenja[n] EXCEPT !.status = "ARCHIVED"]}
  BY DEF SentStays, Sent
<1>4. CASE obavestenja'[n] = obavestenja[n] BY <1>1, <1>4 DEF Sent
<1>5. CASE obavestenja'[n] = [obavestenja[n] EXCEPT !.status = "ARCHIVED"]
  BY <1>1, <1>2, <1>5, NoneApart DEF Sent, Red
<1> QED BY <1>3, <1>4, <1>5

\* What a commit writes.
LEMMA CommitWrites ==
  ASSUME IInv, NEW a \in Admin, commit(a)
  PROVE  LET z == zahtev[a] IN
         /\ z \in Zahtev /\ z.id \in Obavestenje /\ z.red \in Red
         /\ becomes(obavestenja[z.id], primaoci[z.id], z.red, z.primaoci)
         /\ obavestenja'[z.id] = z.red
         /\ \A k \in Korisnik :
              primaoci'[z.id][k] = IF primaoci[z.id][k] = None THEN z.primaoci[k] ELSE primaoci[z.id][k]
         /\ \A n \in Obavestenje \ {z.id} : obavestenja'[n] = obavestenja[n] /\ primaoci'[n] = primaoci[n]
<1> DEFINE z == zahtev[a]
<1>1. z \in Zahtev /\ z.id \in Obavestenje
  BY DEF commit, IInv, NotificationInv, TypeOK, Zahtev
<1>2. z.red # None /\ becomes(obavestenja[z.id], primaoci[z.id], z.red, z.primaoci)
  BY DEF commit, IInv, HeldIsCurrent
<1>3. z.red \in Red BY <1>1, <1>2 DEF Zahtev
<1>4. obavestenja' = [obavestenja EXCEPT ![z.id] = z.red]
  BY DEF commit
<1>5. primaoci' = [primaoci EXCEPT ![z.id] =
        [k \in Korisnik |-> IF primaoci[z.id][k] = None THEN z.primaoci[k] ELSE primaoci[z.id][k]]]
  BY DEF commit
<1> HIDE DEF z
<1>6. obavestenja'[z.id] = z.red
      /\ \A n \in Obavestenje \ {z.id} : obavestenja'[n] = obavestenja[n]
  BY <1>1, <1>4 DEF IInv, NotificationInv, TypeOK
<1>7. /\ primaoci'[z.id] = [k \in Korisnik |-> IF primaoci[z.id][k] = None THEN z.primaoci[k]
                                                ELSE primaoci[z.id][k]]
      /\ \A n \in Obavestenje \ {z.id} : primaoci'[n] = primaoci[n]
  BY <1>1, <1>5 DEF IInv, NotificationInv, TypeOK
<1> QED BY <1>1, <1>2, <1>3, <1>6, <1>7 DEF z

\* What a mark writes.
LEMMA MarkWrites ==
  ASSUME IInv, NEW c \in Citalac, mark_commit(c)
  PROVE  LET z == oznaka[c] IN
         /\ z \in Oznaka /\ z.id \in Obavestenje /\ Sent(z.id) /\ z.red \in Primalac
         /\ primaoci[z.id][u] # None /\ primaoci'[z.id][u] = z.red
         /\ read_within(z.red, obavestenja[z.id])
         /\ obavestenja' = obavestenja
         /\ \A n \in Obavestenje, k \in Korisnik :
              n # z.id \/ k # u => primaoci'[n][k] = primaoci[n][k]
<1> DEFINE z == oznaka[c]
<1>1. z \in Oznaka /\ z.id \in Obavestenje
  BY DEF mark_commit, IInv, NotificationInv, TypeOK, Oznaka
<1>2. /\ z.red # None /\ Sent(z.id) /\ primaoci[z.id][u] # None
      /\ read_within(z.red, obavestenja[z.id])
  BY DEF mark_commit, IInv, MarksFit, Sent
<1>3. z.red \in Primalac BY <1>1, <1>2 DEF Oznaka
<1>4. primaoci' = [primaoci EXCEPT ![z.id][u] = z.red] /\ obavestenja' = obavestenja
  BY DEF mark_commit, Unmarked
<1> HIDE DEF z
<1>5. /\ primaoci'[z.id][u] = z.red
      /\ \A n \in Obavestenje, k \in Korisnik :
           n # z.id \/ k # u => primaoci'[n][k] = primaoci[n][k]
  BY <1>1, <1>4, ConstantsAssumption DEF IInv, NotificationInv, TypeOK
<1> QED BY <1>1, <1>2, <1>3, <1>4, <1>5 DEF z

\* A step other than a commit leaves both tables alone.
LEMMA TablesKept ==
  ASSUME [Next]_vars, \A a \in Admin : ~commit(a), \A c \in Citalac : ~mark_commit(c)
  PROVE  UNCHANGED <<obavestenja, primaoci>>
<1>1. ASSUME NEW a \in Admin, Administrator(a) PROVE UNCHANGED Tables
  BY <1>1 DEF Administrator, apply_create_draft, apply_update_draft, apply_publish, apply_archive,
              flush, publish_locked, rollback
<1>2. ASSUME Employee PROVE UNCHANGED Tables
  BY <1>2 DEF Employee, require_available, get_recipient_for_update, mark_rollback, list_inbox,
              list_rows, close, Unmarked, Unlisted, Tables
<1>3. ASSUME NEW k \in Kategorija, update_category(k) PROVE UNCHANGED Tables
  BY <1>3 DEF update_category
<1>4. ASSUME NEW k \in Korisnik, NEW o \in Orgjed \cup {None}, synchronise(k, o) PROVE UNCHANGED Tables
  BY <1>4 DEF synchronise
<1>5. Tick => UNCHANGED Tables BY DEF Tick
<1>6. UNCHANGED vars => UNCHANGED Tables BY DEF vars, Tables
<1> QED BY <1>1, <1>2, <1>3, <1>4, <1>5, <1>6 DEF Next, Tables

LEMMA SentRowsStay ==
  ASSUME IInv, [Next]_vars
  PROVE  SentStays
<1>1. CASE \E a \in Admin : commit(a)
  <2> PICK a \in Admin : commit(a) BY <1>1
  <2> DEFINE z == zahtev[a]
  <2>1. /\ z.id \in Obavestenje /\ z.red \in Red
        /\ becomes(obavestenja[z.id], primaoci[z.id], z.red, z.primaoci)
        /\ obavestenja'[z.id] = z.red
        /\ \A k \in Korisnik :
              primaoci'[z.id][k] = IF primaoci[z.id][k] = None THEN z.primaoci[k] ELSE primaoci[z.id][k]
        /\ \A n \in Obavestenje \ {z.id} : obavestenja'[n] = obavestenja[n] /\ primaoci'[n] = primaoci[n]
    BY CommitWrites
  <2> HIDE DEF z
  <2>2. Sent(z.id) => /\ obavestenja'[z.id] = [obavestenja[z.id] EXCEPT !.status = "ARCHIVED"]
                      /\ \A k \in Korisnik : primaoci[z.id][k] = None => z.primaoci[k] = None
    BY <2>1 DEF Sent, becomes
  <2> QED BY <2>1, <2>2 DEF SentStays, Sent
<1>2. CASE \E c \in Citalac : mark_commit(c)
  <2> PICK c \in Citalac : mark_commit(c) BY <1>2
  <2>1. /\ obavestenja' = obavestenja
        /\ \A n \in Obavestenje, k \in Korisnik : primaoci'[n][k] = None <=> primaoci[n][k] = None
    BY MarkWrites, NoneApart
  <2> QED BY <2>1 DEF SentStays
<1>3. CASE (\A a \in Admin : ~commit(a)) /\ (\A c \in Citalac : ~mark_commit(c))
  BY <1>3, TablesKept DEF SentStays
<1> QED BY <1>1, <1>2, <1>3

-----------------------------------------------------------------------------
(* Recipients and what they read *)

LEMMA RecipientsKept ==
  ASSUME IInv, [Next]_vars
  PROVE  RecipientsOfPublished'
<1>0. \A n \in Obavestenje : primaoci[n] \in [Korisnik -> Primalac \cup {None}]
      /\ primaoci'[n] \in [Korisnik -> Primalac \cup {None}]
  BY StepType DEF IInv, NotificationInv, TypeOK
<1> SUFFICES ASSUME NEW n \in Obavestenje
             PROVE  IF obavestenja'[n] = None \/ obavestenja'[n].status = "DRAFT"
                      THEN primaoci'[n] = NoRecipients
                      ELSE primaoci'[n] # NoRecipients /\ period(obavestenja'[n])
  BY DEF RecipientsOfPublished, period
<1>1. IF obavestenja[n] = None \/ obavestenja[n].status = "DRAFT" THEN primaoci[n] = NoRecipients
      ELSE primaoci[n] # NoRecipients /\ period(obavestenja[n])
  BY DEF IInv, NotificationInv, RecipientsOfPublished
<1>2. CASE \E a \in Admin : commit(a) /\ zahtev[a].id = n
  <2> PICK a \in Admin : commit(a) /\ zahtev[a].id = n BY <1>2
  <2> DEFINE z == zahtev[a]
  <2>1. /\ z.red \in Red /\ z \in Zahtev
        /\ becomes(obavestenja[n], primaoci[n], z.red, z.primaoci)
        /\ obavestenja'[n] = z.red
        /\ \A k \in Korisnik :
              primaoci'[n][k] = IF primaoci[n][k] = None THEN z.primaoci[k] ELSE primaoci[n][k]
    BY CommitWrites
  <2>2. z.primaoci \in [Korisnik -> Primalac \cup {None}] BY <2>1 DEF Zahtev
  <2> HIDE DEF z
  <2>3. ASSUME obavestenja[n] = None \/ obavestenja[n].status = "DRAFT"
        PROVE  primaoci'[n] = z.primaoci
    <3>1. \A k \in Korisnik : primaoci[n][k] = None BY <1>1, <2>3 DEF NoRecipients
    <3>2. \A k \in Korisnik : primaoci'[n][k] = z.primaoci[k] BY <2>1, <3>1
    <3> QED BY <1>0, <2>2, <3>2
  <2>4. CASE (obavestenja[n] = None \/ obavestenja[n].status = "DRAFT") /\ z.red.status = "DRAFT"
    BY <2>1, <2>3, <2>4 DEF becomes
  <2>5. CASE (obavestenja[n] = None \/ obavestenja[n].status = "DRAFT") /\ z.red.status # "DRAFT"
    <3>1. z.primaoci # NoRecipients /\ period(z.red) BY <2>1, <2>5 DEF becomes, Red
    <3> QED BY <2>1, <2>3, <2>5, <3>1, NoneApart
  <2>6. CASE obavestenja[n] # None /\ obavestenja[n].status # "DRAFT"
    <3>1. obavestenja[n] \in Red BY <2>6 DEF IInv, NotificationInv, TypeOK
    <3>2. z.red = [obavestenja[n] EXCEPT !.status = "ARCHIVED"] BY <2>1, <2>6 DEF becomes
    <3>3. z.red.status = "ARCHIVED" /\ z.red.objava = obavestenja[n].objava
            /\ z.red.istek = obavestenja[n].istek
      BY <3>1, <3>2 DEF Red
    <3>4. period(z.red) BY <1>1, <2>6, <3>3 DEF period
    <3>5. PICK k \in Korisnik : primaoci[n][k] # None
      BY <1>0, <1>1, <2>6 DEF NoRecipients
    <3>6. primaoci'[n] # NoRecipients BY <2>1, <3>5 DEF NoRecipients
    <3> QED BY <2>1, <3>3, <3>4, <3>6, NoneApart
  <2> QED BY <2>4, <2>5, <2>6
<1>3. CASE \E c \in Citalac : mark_commit(c) /\ oznaka[c].id = n
  <2> PICK c \in Citalac : mark_commit(c) /\ oznaka[c].id = n BY <1>3
  <2>1. /\ Sent(n) /\ obavestenja' = obavestenja /\ u \in Korisnik
        /\ oznaka[c].red \in Primalac /\ primaoci'[n][u] = oznaka[c].red
    BY MarkWrites, ConstantsAssumption
  <2>2. primaoci'[n] # NoRecipients BY <2>1, NoneApart DEF NoRecipients
  <2> QED BY <1>1, <2>1, <2>2 DEF Sent
<1>4. CASE (\A a \in Admin : ~(commit(a) /\ zahtev[a].id = n))
           /\ (\A c \in Citalac : ~(mark_commit(c) /\ oznaka[c].id = n))
  <2>1. obavestenja'[n] = obavestenja[n] /\ primaoci'[n] = primaoci[n]
    <3>1. CASE \E a \in Admin : commit(a)
      <4> PICK a \in Admin : commit(a) BY <3>1
      <4>1. zahtev[a].id # n BY <1>4
      <4> QED BY <4>1, CommitWrites
    <3>2. CASE \E c \in Citalac : mark_commit(c)
      <4> PICK c \in Citalac : mark_commit(c) BY <3>2
      <4>1. oznaka[c].id # n BY <1>4
      <4>2. obavestenja' = obavestenja /\ \A k \in Korisnik : primaoci'[n][k] = primaoci[n][k]
        BY <4>1, MarkWrites
      <4> QED BY <1>0, <4>2
    <3>3. CASE (\A a \in Admin : ~commit(a)) /\ (\A c \in Citalac : ~mark_commit(c))
      BY <3>3, TablesKept
    <3> QED BY <3>1, <3>2, <3>3
  <2> QED BY <1>1, <2>1
<1> QED BY <1>2, <1>3, <1>4

LEMMA ReadKept ==
  ASSUME IInv, [Next]_vars
  PROVE  ReadInItsPeriod'
<1> SUFFICES ASSUME NEW n \in Obavestenje, NEW k \in Korisnik, primaoci'[n][k] # None
             PROVE  read_within(primaoci'[n][k], obavestenja'[n])
  BY DEF ReadInItsPeriod, read_within
<1>1. primaoci[n][k] # None => read_within(primaoci[n][k], obavestenja[n])
  BY DEF IInv, NotificationInv, ReadInItsPeriod
<1>2. primaoci[n][k] # None => Sent(n)
  BY DEF IInv, NotificationInv, RecipientsOfPublished, NoRecipients, Sent
<1>3. Sent(n) => /\ obavestenja'[n].objava = obavestenja[n].objava
                 /\ obavestenja'[n].istek = obavestenja[n].istek
  BY SentRowsStay, SentAgrees DEF IInv, NotificationInv
<1>4. CASE \E a \in Admin : commit(a)
  <2> PICK a \in Admin : commit(a) BY <1>4
  <2> DEFINE z == zahtev[a]
  <2>1. CASE primaoci[n][k] # None
    <3>1. primaoci'[n][k] = primaoci[n][k] BY <2>1, CommitWrites
    <3> QED BY <1>1, <1>2, <1>3, <2>1, <3>1 DEF read_within
  <2>2. CASE primaoci[n][k] = None
    <3>1. n = z.id /\ primaoci'[n][k] = z.primaoci[k] BY <2>2, CommitWrites
    <3>2. becomes(obavestenja[n], primaoci[n], z.red, z.primaoci) BY <3>1, CommitWrites
    <3>3. primaoci'[n][k] = [procitano |-> FALSE, citanje |-> None]
      BY <2>2, <3>1, <3>2 DEF becomes, NoRecipients
    <3> QED BY <3>3 DEF read_within
  <2> QED BY <2>1, <2>2
<1>5. CASE \E c \in Citalac : mark_commit(c)
  <2> PICK c \in Citalac : mark_commit(c) BY <1>5
  <2>1. CASE n = oznaka[c].id /\ k = u
    BY <2>1, MarkWrites
  <2>2. CASE ~(n = oznaka[c].id /\ k = u)
    BY <1>1, <2>2, MarkWrites
  <2> QED BY <2>1, <2>2
<1>6. CASE (\A a \in Admin : ~commit(a)) /\ (\A c \in Citalac : ~mark_commit(c))
  BY <1>1, <1>6, TablesKept
<1> QED BY <1>4, <1>5, <1>6

-----------------------------------------------------------------------------
(* Administrators that hold a row *)

Holds(a) == zahtev[a] # None /\ zahtev[a].pc = "commit"

\* What a holds is a change of the row as it is.
Fits(a) == /\ zahtev[a].red # None
           /\ becomes(obavestenja[zahtev[a].id], primaoci[zahtev[a].id], zahtev[a].red, zahtev[a].primaoci)

\* Whoever holds a row takes or leaves it, and the tables stay.
LEMMA HoldersOnly ==
  ASSUME IInv, UNCHANGED obavestenja,
         \A a \in Admin : Holds(a)' => Holds(a) /\ zahtev'[a] = zahtev[a],
         \A n \in Obavestenje, k \in Korisnik : primaoci'[n][k] = None => primaoci[n][k] = None,
         \A a \in Admin : Holds(a) => zahtev[a].id \in Obavestenje
  PROVE  HeldByOne' /\ HeldIsCurrent'
<1>1. HeldByOne' BY DEF IInv, HeldByOne, Holds
<1>2. ASSUME NEW a \in Admin, Holds(a)'
      PROVE  /\ zahtev'[a].red # None
             /\ becomes(obavestenja'[zahtev'[a].id], primaoci'[zahtev'[a].id], zahtev'[a].red, zahtev'[a].primaoci)
  <2>1. Holds(a) /\ zahtev'[a] = zahtev[a] /\ zahtev[a].id \in Obavestenje BY <1>2
  <2>2. /\ zahtev[a].red # None
        /\ becomes(obavestenja[zahtev[a].id], primaoci[zahtev[a].id], zahtev[a].red, zahtev[a].primaoci)
    BY <2>1 DEF IInv, HeldIsCurrent, Holds
  <2> PICK z : z = zahtev[a] OBVIOUS
  <2> PICK old : old = obavestenja[z.id] OBVIOUS
  <2>3. zahtev'[a] = z /\ obavestenja'[z.id] = old BY <2>1
  <2>4. z.red # None /\ becomes(old, primaoci[z.id], z.red, z.primaoci) BY <2>2
  <2>5. \A k \in Korisnik : primaoci'[z.id][k] = None => primaoci[z.id][k] = None BY <2>1
  <2>6. becomes(old, primaoci'[z.id], z.red, z.primaoci) BY <2>4, <2>5 DEF becomes
  <2> QED BY <2>3, <2>4, <2>6
<1> QED BY <1>1, <1>2 DEF HeldIsCurrent, Holds, becomes

\* One takes a row that nobody holds.
LEMMA HolderTakes ==
  ASSUME IInv, UNCHANGED Tables, NEW a \in Admin, NEW z \in Zahtev,
         zahtev' = [zahtev EXCEPT ![a] = z], z.pc = "commit", z.red # None,
         becomes(obavestenja[z.id], primaoci[z.id], z.red, z.primaoci),
         \A b \in Admin : Holds(b) => zahtev[b].id # z.id
  PROVE  HeldByOne' /\ HeldIsCurrent'
<1>1. zahtev'[a] = z /\ \A b \in Admin \ {a} : zahtev'[b] = zahtev[b]
  BY DEF IInv, NotificationInv, TypeOK
<1>2. HeldByOne' BY <1>1 DEF IInv, HeldByOne, Holds
<1>3. HeldIsCurrent'
  <2> SUFFICES ASSUME NEW b \in Admin, Holds(b)' PROVE Fits(b)'
    BY DEF HeldIsCurrent, Holds, Fits
  <2>1. UNCHANGED <<obavestenja, primaoci>> BY DEF Tables
  <2>2. CASE b = a
    <3>1. zahtev'[b] = z BY <1>1, <2>2
    <3> QED BY <2>1, <3>1 DEF Fits, becomes
  <2>3. CASE b # a
    <3>1. zahtev'[b] = zahtev[b] BY <1>1, <2>3
    <3>2. Holds(b) BY <3>1 DEF Holds
    <3>3. Fits(b) BY <3>2 DEF IInv, HeldIsCurrent, Holds, Fits
    <3> PICK y : y = zahtev[b] OBVIOUS
    <3>4. zahtev'[b] = y BY <3>1
    <3>5. y.red # None /\ becomes(obavestenja[y.id], primaoci[y.id], y.red, y.primaoci) BY <3>3 DEF Fits
    <3> QED BY <2>1, <3>4, <3>5 DEF Fits, becomes
  <2> QED BY <2>2, <2>3
<1> QED BY <1>2, <1>3

LEMMA AdministratorHolds ==
  ASSUME IInv, NEW a \in Admin, Administrator(a), ~commit(a)
  PROVE  HeldByOne' /\ HeldIsCurrent'
<1>0. /\ TypeOK /\ zahtev \in [Admin -> Zahtev \cup {None}]
      /\ \A b \in Admin : Holds(b) => zahtev[b].id \in Obavestenje
  BY DEF IInv, NotificationInv, TypeOK, Holds, Zahtev
<1>1. \A n \in Obavestenje :
        IF obavestenja[n] = None \/ obavestenja[n].status = "DRAFT" THEN primaoci[n] = NoRecipients
        ELSE primaoci[n] # NoRecipients /\ period(obavestenja[n])
  BY DEF IInv, NotificationInv, RecipientsOfPublished
<1>2. ASSUME NEW n \in Obavestenje, get_notification_for_update(n)
      PROVE  \A b \in Admin : Holds(b) => zahtev[b].id # n
  BY <1>2 DEF get_notification_for_update, Holds
<1>3. ASSUME NEW n \in Obavestenje, NEW red \in Red, NEW rows \in [Korisnik -> Primalac \cup {None}],
             flush(a, n, red, rows), becomes(obavestenja[n], primaoci[n], red, rows),
             \A b \in Admin : Holds(b) => zahtev[b].id # n
      PROVE  HeldByOne' /\ HeldIsCurrent'
  <2> DEFINE z == [pc |-> "commit", id |-> n, t |-> now, istek |-> None, red |-> red, primaoci |-> rows]
  <2>1. z \in Zahtev BY <1>0 DEF Zahtev, TypeOK
  <2>2. zahtev' = [zahtev EXCEPT ![a] = z] /\ UNCHANGED Tables BY <1>3 DEF flush
  <2>3. z.pc = "commit" /\ z.red = red /\ z.id = n /\ z.primaoci = rows /\ red # None
    BY NoneApart
  <2> HIDE DEF z
  <2> QED BY <1>3, <2>1, <2>2, <2>3, HolderTakes
<1>4. ASSUME UNCHANGED Tables, NEW z \in Zahtev \cup {None}, z # None => z.pc = "publish",
             zahtev' = [zahtev EXCEPT ![a] = z]
      PROVE  HeldByOne' /\ HeldIsCurrent'
  <2>1. \A b \in Admin : Holds(b)' => Holds(b) /\ zahtev'[b] = zahtev[b]
    BY <1>0, <1>4 DEF Holds
  <2> QED BY <1>0, <1>4, <2>1, HoldersOnly DEF Tables
<1>5. ASSUME NEW n \in Obavestenje, NEW p \in Nacrt, apply_create_draft(a, n, p)
      PROVE  HeldByOne' /\ HeldIsCurrent'
  <2> DEFINE red == [status |-> "DRAFT", nacrt |-> p, objava |-> None, istek |-> p.istek]
  <2>1. red \in Red /\ red.status = "DRAFT" BY ConstantsAssumption DEF Red, Status
  <2>2. flush(a, n, red, NoRecipients) /\ obavestenja[n] = None
        /\ \A b \in Admin : Holds(b) => zahtev[b].id # n
    BY <1>5 DEF apply_create_draft, Holds
  <2> HIDE DEF red
  <2>3. becomes(obavestenja[n], primaoci[n], red, NoRecipients) BY <2>1, <2>2 DEF becomes
  <2> QED BY <1>3, <2>1, <2>2, <2>3, NoRecipientsType
<1>6. ASSUME NEW n \in Obavestenje, NEW p \in Nacrt, apply_update_draft(a, n, p)
      PROVE  HeldByOne' /\ HeldIsCurrent'
  <2> DEFINE red == [obavestenja[n] EXCEPT !.nacrt = p, !.istek = p.istek]
  <2>1. obavestenja[n] \in Red /\ obavestenja[n].status = "DRAFT" /\ get_notification_for_update(n)
    BY <1>0, <1>6 DEF apply_update_draft, get_notification_for_update, TypeOK
  <2>2. red \in Red /\ red.status = "DRAFT" BY <2>1, ConstantsAssumption DEF Red
  <2>3. flush(a, n, red, primaoci[n]) BY <1>6 DEF apply_update_draft
  <2>4. primaoci[n] = NoRecipients BY <1>1, <2>1
  <2> HIDE DEF red
  <2>5. becomes(obavestenja[n], primaoci[n], red, primaoci[n]) BY <2>1, <2>2, <2>4 DEF becomes
  <2> QED BY <1>2, <1>3, <2>1, <2>2, <2>3, <2>4, <2>5, NoRecipientsType
<1>7. ASSUME NEW n \in Obavestenje, apply_archive(a, n)
      PROVE  HeldByOne' /\ HeldIsCurrent'
  <2> DEFINE red == [obavestenja[n] EXCEPT !.status = "ARCHIVED"]
  <2>1. obavestenja[n] \in Red /\ obavestenja[n].status = "PUBLISHED" /\ get_notification_for_update(n)
    BY <1>0, <1>7 DEF apply_archive, get_notification_for_update, TypeOK
  <2>2. red \in Red BY <2>1 DEF Red, Status
  <2>3. flush(a, n, red, primaoci[n]) BY <1>7 DEF apply_archive
  <2>4. primaoci[n] \in [Korisnik -> Primalac \cup {None}] BY <1>0 DEF TypeOK
  <2>5. becomes(obavestenja[n], primaoci[n], red, primaoci[n])
    BY <2>1, NoneApart DEF becomes
  <2> HIDE DEF red
  <2> QED BY <1>2, <1>3, <2>1, <2>2, <2>3, <2>4, <2>5
<1>8. ASSUME NEW n \in Obavestenje, NEW i \in Time \cup {None}, apply_publish(a, n, i)
      PROVE  HeldByOne' /\ HeldIsCurrent'
  <2> DEFINE z == [pc |-> "publish", id |-> n, t |-> now, istek |-> i, red |-> None, primaoci |-> NoRecipients]
  <2>1. z \in Zahtev /\ z.pc = "publish" BY <1>0, NoRecipientsType DEF Zahtev, TypeOK
  <2>2. zahtev' = [zahtev EXCEPT ![a] = z] /\ UNCHANGED Tables BY <1>8 DEF apply_publish
  <2> HIDE DEF z
  <2> QED BY <1>4, <2>1, <2>2
<1>9. ASSUME publish_locked(a)
      PROVE  HeldByOne' /\ HeldIsCurrent'
  <2> DEFINE z == zahtev[a]
             old == obavestenja[z.id]
             to == _resolve_recipients(old.nacrt.ciljevi)
             red == [old EXCEPT !.status = "PUBLISHED", !.objava = z.t, !.istek = DATUM_ISTEKA(z, old)]
             rows == [k \in Korisnik |->
                        IF k \in to /\ primaoci[z.id][k] = None
                          THEN [procitano |-> FALSE, citanje |-> None] ELSE primaoci[z.id][k]]
             new == [z EXCEPT !.pc = "commit", !.red = red, !.primaoci = rows]
  <2>0. get_notification_for_update(z.id) /\ UNCHANGED Tables
        /\ zahtev' = [zahtev EXCEPT ![a] = IF ~publishable(z) THEN None ELSE new]
    BY <1>9 DEF publish_locked
  <2>1. z \in Zahtev /\ z.id \in Obavestenje /\ z.t \in Time /\ z.pc = "publish"
    BY <1>0, <1>9 DEF publish_locked, Zahtev
  <2>2. CASE ~publishable(z)
    <3>1. zahtev' = [zahtev EXCEPT ![a] = None] BY <2>0, <2>2
    <3> QED BY <1>4, <2>0, <3>1
  <2>3. CASE publishable(z)
    <3>1. old \in Red /\ old.status = "DRAFT" /\ to # {} /\ to \subseteq Korisnik
          /\ z.t < DATUM_ISTEKA(z, old)
      BY <1>0, <2>0, <2>1, <2>3 DEF publishable, get_notification_for_update, TypeOK, _resolve_recipients,
         Istek, Time
    <3>2. DATUM_ISTEKA(z, old) \in Istek BY <2>1, <3>1, ExpiryType
    <3>3. red \in Red /\ red.status = "PUBLISHED" /\ red.objava = z.t /\ red.istek = DATUM_ISTEKA(z, old)
      BY <2>1, <3>1, <3>2 DEF Red, Status
    <3>4. period(red) BY <2>1, <3>1, <3>2, <3>3 DEF period
    <3>5. primaoci[z.id] = NoRecipients BY <1>1, <2>1, <3>1
    <3>6. [procitano |-> FALSE, citanje |-> None] \in Primalac BY DEF Primalac
    <3>7. \A k \in Korisnik : rows[k] = IF k \in to THEN [procitano |-> FALSE, citanje |-> None] ELSE None
      BY <3>5 DEF NoRecipients
    <3>8. rows \in [Korisnik -> Primalac \cup {None}] BY <3>5, <3>6 DEF NoRecipients
    <3>9. rows # NoRecipients
      <4>1. PICK k \in Korisnik : k \in to BY <3>1
      <4>2. rows[k] # None BY <3>6, <3>7, <4>1, NoneApart
      <4> QED BY <4>2 DEF NoRecipients
    <3> HIDE DEF red, rows, to
    <3>10. new \in Zahtev /\ new.pc = "commit" /\ new.id = z.id /\ new.red = red /\ new.primaoci = rows
      BY <2>1, <3>3, <3>8 DEF Zahtev
    <3>11. zahtev' = [zahtev EXCEPT ![a] = new] BY <2>0, <2>3
    <3> HIDE DEF new
    <3>12. becomes(obavestenja[z.id], primaoci[z.id], red, rows)
      BY <3>1, <3>3, <3>4, <3>7, <3>9, NoneApart DEF becomes
    <3>13. red # None BY <3>3, NoneApart
    <3>14. \A b \in Admin : Holds(b) => zahtev[b].id # z.id BY <1>2, <2>0, <2>1
    <3>15. becomes(obavestenja[new.id], primaoci[new.id], new.red, new.primaoci)
      BY <3>10, <3>12, Zenon
    <3>16. new.red # None /\ \A b \in Admin : Holds(b) => zahtev[b].id # new.id
      BY <3>10, <3>13, <3>14, Zenon
    <3> HIDE DEF z, old
    <3> QED BY <2>0, <3>10, <3>11, <3>15, <3>16, HolderTakes
  <2> QED BY <2>2, <2>3
<1>10. ASSUME rollback(a)
      PROVE  HeldByOne' /\ HeldIsCurrent'
  BY <1>4, <1>10 DEF rollback
<1> QED BY <1>5, <1>6, <1>7, <1>8, <1>9, <1>10 DEF Administrator

LEMMA CommitReleases ==
  ASSUME IInv, NEW a \in Admin, commit(a)
  PROVE  HeldByOne' /\ HeldIsCurrent'
<1> DEFINE z == zahtev[a]
<1>1. zahtev' = [zahtev EXCEPT ![a] = None] /\ Holds(a) BY DEF commit, Holds
<1>2. zahtev'[a] = None /\ \A b \in Admin \ {a} : zahtev'[b] = zahtev[b]
  BY <1>1 DEF IInv, NotificationInv, TypeOK
<1>3. \A b \in Admin : Holds(b)' => Holds(b) /\ b # a /\ zahtev'[b] = zahtev[b] BY <1>2 DEF Holds
<1>4. HeldByOne' BY <1>3 DEF IInv, HeldByOne, Holds
<1>5. ASSUME NEW b \in Admin, Holds(b)'
      PROVE  /\ zahtev'[b].red # None
             /\ becomes(obavestenja'[zahtev'[b].id], primaoci'[zahtev'[b].id], zahtev'[b].red, zahtev'[b].primaoci)
  <2>1. Holds(b) /\ b # a /\ zahtev'[b] = zahtev[b] BY <1>3, <1>5
  <2>2. zahtev[b].id \in Obavestenje /\ zahtev[b].id # z.id
    BY <1>1, <2>1 DEF IInv, NotificationInv, TypeOK, Zahtev, HeldByOne, Holds
  <2>3. obavestenja'[zahtev[b].id] = obavestenja[zahtev[b].id]
        /\ primaoci'[zahtev[b].id] = primaoci[zahtev[b].id]
    BY <2>2, CommitWrites
  <2>4. /\ zahtev[b].red # None
        /\ becomes(obavestenja[zahtev[b].id], primaoci[zahtev[b].id], zahtev[b].red, zahtev[b].primaoci)
    BY <2>1 DEF IInv, HeldIsCurrent, Holds
  <2> QED BY <2>1, <2>3, <2>4, Zenon
<1> QED BY <1>4, <1>5 DEF HeldIsCurrent, Holds, becomes

\* A step of nobody who holds a row.
LEMMA OthersLeaveHeld ==
  ASSUME IInv, [Next]_vars, \A a \in Admin : ~Administrator(a)
  PROVE  HeldByOne' /\ HeldIsCurrent'
<1>1. \A a \in Admin : Holds(a) => zahtev[a].id \in Obavestenje
  BY DEF IInv, NotificationInv, TypeOK, Holds, Zahtev
<1>2. zahtev' = zahtev
  <2>1. Employee => zahtev' = zahtev
    BY DEF Employee, require_available, get_recipient_for_update, mark_commit, mark_rollback, list_inbox,
           list_rows, close, Unmarked, Unlisted
  <2> QED BY <2>1 DEF Next, update_category, synchronise, Tick, vars
<1>3. UNCHANGED obavestenja
      /\ \A n \in Obavestenje, k \in Korisnik : primaoci'[n][k] = None => primaoci[n][k] = None
  <2>1. \A a \in Admin : ~commit(a) BY DEF Administrator
  <2>2. CASE \E c \in Citalac : mark_commit(c)
    BY <2>2, MarkWrites, NoneApart
  <2>3. CASE \A c \in Citalac : ~mark_commit(c)
    BY <2>1, <2>3, TablesKept
  <2> QED BY <2>2, <2>3
<1> QED BY <1>1, <1>2, <1>3, HoldersOnly DEF Holds

LEMMA HeldKept ==
  ASSUME IInv, [Next]_vars
  PROVE  HeldByOne' /\ HeldIsCurrent'
BY CommitReleases, AdministratorHolds, OthersLeaveHeld

-----------------------------------------------------------------------------
(* The inbox *)

\* Whoever marks what he had found available marks it within its period.
LEMMA MarkedReadWithin ==
  ASSUME NEW r \in Primalac, NEW p \in BOOLEAN, NEW t \in Time, NEW red,
         red.objava <= t, t < red.istek, read_within(r, red)
  PROVE  read_within(marked(r, p, t), red)
BY NoneApart DEF read_within, marked

LEMMA MarksKept ==
  ASSUME IInv, [Next]_vars
  PROVE  MarksFit'
<1> DEFINE Fit(c) ==
      LET z == oznaka[c] IN
      z # None => /\ Sent(z.id)
                  /\ obavestenja[z.id].objava <= z.t /\ z.t < obavestenja[z.id].istek
                  /\ z.pc = "commit" => /\ z.red # None /\ primaoci[z.id][u] # None
                                        /\ read_within(z.red, obavestenja[z.id])
<1> SUFFICES ASSUME NEW c \in Citalac PROVE Fit(c)'
  BY DEF MarksFit, Sent, read_within
<1>1. Fit(c) BY DEF IInv, MarksFit, Sent
<1>2. u \in Korisnik /\ TypeOK /\ SentStays BY ConstantsAssumption, SentRowsStay DEF IInv, NotificationInv
\* The row of a request that stands still is as good as before.
<1>3. CASE oznaka'[c] = oznaka[c] /\ oznaka[c] # None
  <2> PICK y : y = oznaka[c] OBVIOUS
  <2>1. y.id \in Obavestenje /\ Sent(y.id) BY <1>1, <1>2, <1>3 DEF TypeOK, Oznaka
  <2>2. /\ Sent(y.id)' /\ obavestenja'[y.id].objava = obavestenja[y.id].objava
        /\ obavestenja'[y.id].istek = obavestenja[y.id].istek
    BY <1>2, <2>1, SentAgrees
  <2>3. primaoci'[y.id][u] = None <=> primaoci[y.id][u] = None BY <1>2, <2>1 DEF SentStays, Sent
  <2>4. /\ obavestenja'[y.id].objava <= y.t /\ y.t < obavestenja'[y.id].istek
        /\ y.pc = "commit" => /\ y.red # None /\ primaoci'[y.id][u] # None
                              /\ read_within(y.red, obavestenja'[y.id])
    BY <1>1, <1>3, <2>2, <2>3 DEF read_within
  <2>5. oznaka'[c] = y BY <1>3
  <2> QED BY <2>2, <2>4, <2>5 DEF Sent, read_within
<1>4. ASSUME NEW n \in Obavestenje, NEW p \in BOOLEAN, require_available(c, n, p) PROVE Fit(c)'
  <2> DEFINE z == [pc |-> "lock", id |-> n, t |-> now, procitano |-> p, red |-> None]
  <2>1. available(n, now) /\ oznaka'[c] = z
    BY <1>2, <1>4 DEF require_available, TypeOK
  <2>2. obavestenja' = obavestenja BY <1>4 DEF require_available, Unmarked
  <2> QED BY <2>1, <2>2 DEF available, Sent
<1>5. ASSUME get_recipient_for_update(c) PROVE Fit(c)'
  <2> DEFINE z == oznaka[c]
             row == primaoci[z.id][u]
             r == marked(row, z.procitano, z.t)
  <2>1. z \in Oznaka /\ z # None /\ z.id \in Obavestenje /\ z.t \in Time /\ z.procitano \in BOOLEAN
    BY <1>2, <1>5 DEF get_recipient_for_update, TypeOK, Oznaka
  <2>2. oznaka'[c] = IF row = None THEN None ELSE [z EXCEPT !.pc = "commit", !.red = r]
    BY <1>2, <1>5 DEF get_recipient_for_update, TypeOK
  <2>3. obavestenja' = obavestenja /\ primaoci' = primaoci
    BY <1>5 DEF get_recipient_for_update, Unmarked
  <2>4. CASE row = None BY <2>2, <2>4
  <2>5. CASE row # None
    <3>1. row \in Primalac BY <1>2, <2>1, <2>5 DEF TypeOK
    <3>2. read_within(row, obavestenja[z.id])
      BY <1>2, <2>1, <2>5 DEF IInv, NotificationInv, ReadInItsPeriod
    <3>3. r \in Primalac /\ read_within(r, obavestenja[z.id])
      BY <1>1, <2>1, <3>1, <3>2, MarkedReadWithin, MarkedType
    <3> HIDE DEF r, row
    <3>4. /\ oznaka'[c].id = z.id /\ oznaka'[c].t = z.t /\ oznaka'[c].red = r
      BY <2>1, <2>2, <2>5 DEF Oznaka
    <3>5. r # None /\ row # None /\ row = primaoci[z.id][u] BY <2>5, <3>3, NoneApart DEF row
    <3> QED BY <1>1, <2>1, <2>3, <3>3, <3>4, <3>5 DEF Sent, read_within
  <2> QED BY <2>4, <2>5
<1>6. ASSUME mark_commit(c) \/ mark_rollback(c) PROVE Fit(c)'
  BY <1>2, <1>6 DEF mark_commit, mark_rollback, TypeOK
<1>7. CASE oznaka'[c] # oznaka[c]
  <2>1. \/ \E n \in Obavestenje, p \in BOOLEAN : require_available(c, n, p)
        \/ get_recipient_for_update(c) \/ mark_commit(c) \/ mark_rollback(c)
    <3>1. ASSUME NEW d \in Citalac \ {c},
                 \/ \E n \in Obavestenje, p \in BOOLEAN : require_available(d, n, p)
                 \/ get_recipient_for_update(d) \/ mark_commit(d) \/ mark_rollback(d)
          PROVE  FALSE
      BY <1>2, <1>7, <3>1 DEF require_available, get_recipient_for_update, mark_commit, mark_rollback, TypeOK
    <3>2. ASSUME NEW a \in Admin, Administrator(a) PROVE FALSE
      BY <1>7, <3>2 DEF Administrator, apply_create_draft, apply_update_draft, apply_publish, apply_archive,
                        flush, publish_locked, commit, rollback, Inbox
    <3>3. ASSUME NEW l \in Listanje, list_inbox(l) \/ list_rows(l) \/ close(l) PROVE FALSE
      BY <1>7, <3>3 DEF list_inbox, list_rows, close, Unlisted
    <3>4. ASSUME UNCHANGED Inbox PROVE FALSE BY <1>7, <3>4 DEF Inbox
    <3> QED BY <3>1, <3>2, <3>3, <3>4 DEF Next, Employee, update_category, synchronise, Tick, vars, Inbox
  <2> QED BY <1>4, <1>5, <1>6, <2>1
<1>8. CASE oznaka'[c] = oznaka[c] /\ oznaka[c] = None BY <1>8
<1> QED BY <1>3, <1>7, <1>8

\* What comes before a notification: at most the others.
LEMMA BeforeBound ==
  ASSUME NEW S \in SUBSET Obavestenje, NEW n \in S
  PROVE  /\ Cardinality(before(n, S)) \in Nat /\ Cardinality(S) \in Nat
         /\ obavestenja[n].objava \in Nat => Cardinality(before(n, S)) < Cardinality(S)
<1>1. before(n, S) \subseteq S BY DEF before
<1>2. IsFiniteSet(S) /\ IsFiniteSet(before(n, S))
  BY <1>1, ConstantsAssumption, FS_Subset
<1>3. /\ Cardinality(before(n, S)) \in Nat /\ Cardinality(S) \in Nat
      /\ Cardinality(before(n, S)) <= Cardinality(S)
      /\ Cardinality(before(n, S)) = Cardinality(S) => before(n, S) = S
  BY <1>1, <1>2, FS_Subset, FS_CardinalityType
<1>4. obavestenja[n].objava \in Nat => n \notin before(n, S)
  <2>1. n \in Nat BY ConstantsAssumption
  <2>2. \A x \in Nat : ~(x > x) OBVIOUS
  <2> QED BY <2>1, <2>2, Zenon DEF before
<1> QED BY <1>3, <1>4

\* More notifications, more of them before n.
LEMMA BeforeGrows ==
  ASSUME NEW T \in SUBSET Obavestenje, NEW S \in SUBSET T, NEW n
  PROVE  Cardinality(before(n, S)) <= Cardinality(before(n, T))
<1>1. before(n, S) \subseteq before(n, T) BY DEF before
<1>2. IsFiniteSet(before(n, T))
  BY ConstantsAssumption, FS_Subset DEF before
<1> QED BY <1>1, <1>2, FS_Subset

\* The order of what was sent stays.
LEMMA BeforeStays ==
  ASSUME TypeOK, SentStays, NEW S \in SUBSET Obavestenje, \A m \in S : Sent(m), NEW n \in S
  PROVE  before(n, S)' = before(n, S)
<1>1. \A m \in S : obavestenja'[m].objava = obavestenja[m].objava
  BY SentAgrees
<1> QED BY <1>1 DEF before

\* A page leaves what lies before it to earlier ones, what lies behind it to later ones.
LEMMA PageSplits ==
  ASSUME NEW S \in SUBSET Obavestenje, NEW page \in Nat, NEW n \in S, n \notin page_rows(S, page),
         Cardinality(before(n, S)) >= (page - 1) * PageSize
  PROVE  Cardinality(before(n, S)) >= page * PageSize
<1> DEFINE r == Cardinality(before(n, S))
           lo == (page - 1) * PageSize
           hi == page * PageSize
<1>1. r \in Nat BY BeforeBound
<1>2. lo \in Int /\ hi \in Int BY ConstantsAssumption
<1>3. r \notin lo .. hi - 1 BY DEF page_rows
<1>4. r >= lo OBVIOUS
<1> HIDE DEF r, lo, hi
<1>5. r >= hi BY <1>1, <1>2, <1>3, <1>4
<1> QED BY <1>5 DEF r, hi

\* What UnseenIsAhead says of one pass.
Ahead(z) ==
  /\ \A m \in z.dostupne : Sent(m)
  /\ z.mirno => /\ z.prva \subseteq z.dostupne
                /\ \A n \in z.prva \ z.vidjene :
                     /\ z.pc # "done"
                     /\ Cardinality(before(n, z.dostupne)) >= (z.page - 1) * PageSize

LEMMA AheadStays ==
  ASSUME TypeOK, SentStays, NEW z \in Lista, Ahead(z)
  PROVE  /\ \A m \in z.dostupne : Sent(m)'
         /\ z.mirno => \A n \in z.prva \ z.vidjene :
                         Cardinality(before(n, z.dostupne)') >= (z.page - 1) * PageSize
<1>1. z.dostupne \subseteq Obavestenje BY DEF Lista
<1>2. \A m \in z.dostupne : Sent(m)' BY <1>1, SentAgrees DEF Ahead
<1>3. ASSUME z.mirno, NEW n \in z.prva \ z.vidjene
      PROVE  Cardinality(before(n, z.dostupne)') >= (z.page - 1) * PageSize
  <2>1. n \in z.dostupne /\ Cardinality(before(n, z.dostupne)) >= (z.page - 1) * PageSize
    BY <1>3 DEF Ahead
  <2>2. before(n, z.dostupne)' = before(n, z.dostupne)
    BY <1>1, <2>1, BeforeStays DEF Ahead
  <2> QED BY <2>1, <2>2
<1> QED BY <1>2, <1>3

LEMMA AvailableSent ==
  ASSUME NEW t PROVE _inbox_base(t) \subseteq Obavestenje /\ \A m \in _inbox_base(t) : Sent(m)
BY DEF _inbox_base, available, Sent

\* The first page of a pass.
LEMMA FirstPageAhead ==
  ASSUME NEW S \in SUBSET Obavestenje, \A m \in S : Sent(m), NEW t
  PROVE  Ahead([pc |-> "rows", page |-> 1, t |-> t, prva |-> S, dostupne |-> S,
                vidjene |-> {}, mirno |-> TRUE])
<1> DEFINE z == [pc |-> "rows", page |-> 1, t |-> t, prva |-> S, dostupne |-> S,
                 vidjene |-> {}, mirno |-> TRUE]
<1>1. /\ z.prva = S /\ z.dostupne = S /\ z.pc # "done" /\ z.page = 1 OBVIOUS
<1> HIDE DEF z
<1>2. (z.page - 1) * PageSize = 0 BY <1>1, ConstantsAssumption
<1>3. \A n \in S : Cardinality(before(n, S)) >= 0 BY BeforeBound
<1> QED BY <1>1, <1>2, <1>3 DEF Ahead, z

\* A later page: everything that was counted is still there.
LEMMA NextPageAhead ==
  ASSUME NEW z \in Lista, Ahead(z), NEW S \in SUBSET Obavestenje, \A m \in S : Sent(m), NEW t
  PROVE  Ahead([z EXCEPT !.pc = "rows", !.t = t, !.dostupne = S,
                         !.mirno = @ /\ z.dostupne \subseteq S])
<1> PICK y : y = [z EXCEPT !.pc = "rows", !.t = t, !.dostupne = S,
                           !.mirno = @ /\ z.dostupne \subseteq S]
  OBVIOUS
<1>1. /\ y.prva = z.prva /\ y.vidjene = z.vidjene /\ y.page = z.page /\ y.dostupne = S
      /\ y.pc # "done" /\ y.mirno = (z.mirno /\ z.dostupne \subseteq S)
  BY DEF Lista
<1>2. ASSUME y.mirno, NEW n \in z.prva \ z.vidjene
      PROVE  n \in S /\ Cardinality(before(n, S)) >= (z.page - 1) * PageSize
  <2>1. /\ z.dostupne \subseteq S /\ n \in z.dostupne
        /\ Cardinality(before(n, z.dostupne)) >= (z.page - 1) * PageSize
    BY <1>1, <1>2 DEF Ahead
  <2>2. Cardinality(before(n, z.dostupne)) <= Cardinality(before(n, S)) BY <2>1, BeforeGrows
  <2>3. Cardinality(before(n, z.dostupne)) \in Nat /\ Cardinality(before(n, S)) \in Nat
    BY <2>1, BeforeBound
  <2>4. (z.page - 1) * PageSize \in Int BY ConstantsAssumption DEF Lista
  <2> QED BY <2>1, <2>2, <2>3, <2>4
<1>3. y.mirno => z.prva \subseteq S BY <1>1 DEF Ahead
<1>4. Ahead(y) BY <1>1, <1>2, <1>3 DEF Ahead
<1> QED BY <1>4

\* The rows of the page: what is not among them is on a later one, and there is one.
LEMMA RowsAhead ==
  ASSUME NEW z \in Lista, Ahead(z), NEW S \in SUBSET Obavestenje,
         \A n \in z.dostupne : obavestenja[n].objava \in Nat
  PROVE  LET more == z.page * PageSize < Cardinality(z.dostupne) IN
         Ahead([z EXCEPT !.pc = IF more THEN "count" ELSE "done",
                         !.page = IF more THEN @ + 1 ELSE @,
                         !.vidjene = @ \cup page_rows(S, z.page),
                         !.mirno = @ /\ S = z.dostupne])
<1> DEFINE more == z.page * PageSize < Cardinality(z.dostupne)
<1> PICK y : y = [z EXCEPT !.pc = IF more THEN "count" ELSE "done",
                           !.page = IF more THEN @ + 1 ELSE @,
                           !.vidjene = @ \cup page_rows(S, z.page),
                           !.mirno = @ /\ S = z.dostupne]
  OBVIOUS
<1>1. /\ y.prva = z.prva /\ y.vidjene = z.vidjene \cup page_rows(S, z.page) /\ y.dostupne = z.dostupne
      /\ y.pc = (IF more THEN "count" ELSE "done") /\ y.page = (IF more THEN z.page + 1 ELSE z.page)
      /\ y.mirno = (z.mirno /\ S = z.dostupne)
  BY DEF Lista
<1>2. ASSUME y.mirno, NEW n \in y.prva \ y.vidjene
      PROVE  y.pc # "done" /\ Cardinality(before(n, z.dostupne)) >= (y.page - 1) * PageSize
  <2>1. /\ S = z.dostupne /\ n \in S /\ n \notin page_rows(S, z.page) /\ z.page \in Nat
        /\ Cardinality(before(n, S)) >= (z.page - 1) * PageSize
    <3>1. z.mirno /\ S = z.dostupne /\ n \in z.prva /\ n \notin z.vidjene /\ n \notin page_rows(S, z.page)
      BY <1>1, <1>2
    <3>2. n \in z.dostupne /\ Cardinality(before(n, z.dostupne)) >= (z.page - 1) * PageSize
      BY <3>1 DEF Ahead
    <3>3. z.page \in Nat BY DEF Lista
    <3> QED BY <3>1, <3>2, <3>3
  <2>2. Cardinality(before(n, S)) >= z.page * PageSize BY <2>1, PageSplits
  <2>3. /\ Cardinality(before(n, S)) \in Nat /\ Cardinality(S) \in Nat
        /\ Cardinality(before(n, S)) < Cardinality(S)
    BY <2>1, BeforeBound
  <2>4. z.page * PageSize \in Int BY <2>1, ConstantsAssumption
  <2>5. more BY <2>1, <2>2, <2>3, <2>4
  <2>6. (y.page - 1) * PageSize = z.page * PageSize
    <3>1. y.page - 1 = z.page BY <1>1, <2>1, <2>5
    <3> QED BY <3>1
  <2> QED BY <1>1, <2>1, <2>2, <2>5, <2>6
<1>3. y.mirno => y.prva \subseteq y.dostupne BY <1>1 DEF Ahead
<1>4. Ahead(y) BY <1>1, <1>2, <1>3 DEF Ahead
<1> QED BY <1>4

LEMMA PassesKept ==
  ASSUME IInv, [Next]_vars
  PROVE  UnseenIsAhead'
<1>1. TypeOK /\ SentStays /\ TypeOK' BY SentRowsStay, StepType DEF IInv, NotificationInv
<1>2. \A l \in Listanje : lista[l] # None => lista[l] \in Lista /\ Ahead(lista[l])
  BY <1>1 DEF IInv, UnseenIsAhead, Ahead, Sent, TypeOK
<1> SUFFICES ASSUME NEW l \in Listanje, lista'[l] # None
             PROVE  \A z \in Lista : z = lista'[l] => Ahead(z)'
  <2>1. SUFFICES ASSUME NEW l \in Listanje, lista'[l] # None PROVE Ahead(lista[l])'
    BY DEF UnseenIsAhead, Ahead, Sent, before
  <2>2. lista'[l] \in Lista BY <1>1, <2>1 DEF TypeOK
  <2> PICK z \in Lista : z = lista'[l] BY <2>2
  <2>3. Ahead(z)' BY <2>1
  <2>4. \A m \in lista'[l].dostupne : Sent(m)' BY <2>3 DEF Ahead
  <2>5. lista'[l].mirno => lista'[l].prva \subseteq lista'[l].dostupne BY <2>3 DEF Ahead
  <2>6. ASSUME lista'[l].mirno, NEW n \in lista'[l].prva \ lista'[l].vidjene
        PROVE  /\ lista'[l].pc # "done"
               /\ Cardinality(before(n, lista[l].dostupne)') >= (lista'[l].page - 1) * PageSize
    <3>1. n \in z.prva \ z.vidjene /\ z.mirno BY <2>6
    <3>2. z.pc # "done" /\ Cardinality(before(n, z.dostupne)') >= (z.page - 1) * PageSize
      BY <2>3, <3>1 DEF Ahead, before
    <3>3. before(n, lista[l].dostupne)' = before(n, z.dostupne)' BY DEF before
    <3> QED BY <3>2, <3>3
  <2> QED BY <2>4, <2>5, <2>6 DEF Ahead
<1>3. CASE lista'[l] = lista[l]
  <2> TAKE z \in Lista
  <2> HAVE z = lista'[l]
  <2>1. Ahead(z) BY <1>2, <1>3
  <2> QED BY <1>1, <2>1, AheadStays DEF Ahead
<1>4. ASSUME UNCHANGED obavestenja, NEW z \in Lista, Ahead(z) PROVE Ahead(z)'
  BY <1>4 DEF Ahead, Sent, before
<1>5. ASSUME list_inbox(l) PROVE \A z \in Lista : z = lista'[l] => Ahead(z)'
  <2>1. _inbox_base(now) \in SUBSET Obavestenje /\ \A m \in _inbox_base(now) : Sent(m)
    BY AvailableSent
  <2>2. CASE lista[l] = None
    <3>1. lista'[l] = [pc |-> "rows", page |-> 1, t |-> now, prva |-> _inbox_base(now),
                       dostupne |-> _inbox_base(now), vidjene |-> {}, mirno |-> TRUE]
      BY <1>1, <1>5, <2>2 DEF list_inbox, TypeOK
    <3>2. Ahead(lista'[l]) BY <2>1, <3>1, FirstPageAhead
    <3> QED BY <1>4, <1>5, <3>2 DEF list_inbox, Unlisted
  <2>3. CASE lista[l] # None
    <3>1. lista'[l] = [lista[l] EXCEPT !.pc = "rows", !.t = now, !.dostupne = _inbox_base(now),
                                       !.mirno = @ /\ lista[l].dostupne \subseteq _inbox_base(now)]
      BY <1>1, <1>5, <2>3 DEF list_inbox, TypeOK
    <3>2. Ahead([lista[l] EXCEPT !.pc = "rows", !.t = now, !.dostupne = _inbox_base(now),
                                 !.mirno = @ /\ lista[l].dostupne \subseteq _inbox_base(now)])
      BY <1>2, <2>1, <2>3, NextPageAhead
    <3>3. Ahead(lista'[l]) BY <3>1, <3>2, Zenon
    <3> QED BY <1>4, <1>5, <3>3 DEF list_inbox, Unlisted
  <2> QED BY <2>2, <2>3
<1>6. ASSUME list_rows(l) PROVE \A z \in Lista : z = lista'[l] => Ahead(z)'
  <2> DEFINE y == lista[l]
             S == _inbox_base(y.t)
             more == y.page * PageSize < Cardinality(y.dostupne)
  <2>1. y \in Lista /\ Ahead(y) BY <1>2, <1>6 DEF list_rows
  <2>2. S \in SUBSET Obavestenje BY AvailableSent
  <2>3. \A n \in y.dostupne : obavestenja[n].objava \in Nat
    <3>1. \A n \in y.dostupne : n \in Obavestenje /\ Sent(n) BY <2>1 DEF Ahead, Lista
    <3>2. \A n \in Obavestenje : Sent(n) => period(obavestenja[n])
      BY DEF IInv, NotificationInv, RecipientsOfPublished, Sent
    <3> QED BY <3>1, <3>2 DEF period, Time
  <2>4. lista'[l] = [y EXCEPT !.pc = IF more THEN "count" ELSE "done",
                              !.page = IF more THEN @ + 1 ELSE @,
                              !.vidjene = @ \cup page_rows(S, y.page),
                              !.mirno = @ /\ S = y.dostupne]
    BY <1>1, <1>6 DEF list_rows, TypeOK
  <2> HIDE DEF y, S
  <2>5. Ahead([y EXCEPT !.pc = IF more THEN "count" ELSE "done",
                        !.page = IF more THEN @ + 1 ELSE @,
                        !.vidjene = @ \cup page_rows(S, y.page),
                        !.mirno = @ /\ S = y.dostupne])
    BY <2>1, <2>2, <2>3, RowsAhead
  <2>6. Ahead(lista'[l]) BY <2>4, <2>5, Zenon
  <2> QED BY <1>4, <1>6, <2>6 DEF list_rows, Unlisted
<1>7. ASSUME close(l) PROVE FALSE
  BY <1>1, <1>7 DEF close, TypeOK
<1>8. CASE lista'[l] # lista[l]
  <2>1. ASSUME NEW k \in Listanje \ {l}, list_inbox(k) \/ list_rows(k) \/ close(k) PROVE FALSE
    BY <1>1, <1>8, <2>1 DEF list_inbox, list_rows, close, TypeOK
  <2>2. ASSUME NEW a \in Admin, Administrator(a) PROVE FALSE
    BY <1>8, <2>2 DEF Administrator, apply_create_draft, apply_update_draft, apply_publish, apply_archive,
                      flush, publish_locked, commit, rollback, Inbox
  <2>3. ASSUME NEW c \in Citalac,
               \/ \E n \in Obavestenje, p \in BOOLEAN : require_available(c, n, p)
               \/ get_recipient_for_update(c) \/ mark_commit(c) \/ mark_rollback(c)
        PROVE  FALSE
    BY <1>8, <2>3 DEF require_available, get_recipient_for_update, mark_commit, mark_rollback, Unmarked
  <2>4. ASSUME UNCHANGED Inbox PROVE FALSE BY <1>8, <2>4 DEF Inbox
  <2>5. list_inbox(l) \/ list_rows(l) \/ close(l)
    BY <2>1, <2>2, <2>3, <2>4 DEF Next, Employee, update_category, synchronise, Tick, vars, Inbox
  <2> QED BY <1>5, <1>6, <1>7, <2>5
<1> QED BY <1>3, <1>8

-----------------------------------------------------------------------------
(* The theorems *)

LEMMA InitInv == Init => IInv
<1> SUFFICES ASSUME Init PROVE IInv OBVIOUS
<1>1. TypeOK
  <2>1. NoRecipients \in [Korisnik -> Primalac \cup {None}] BY NoRecipientsType
  <2> QED BY <2>1, ConstantsAssumption DEF Init, TypeOK, Time
<1>2. RecipientsOfPublished /\ ReadInItsPeriod
  BY DEF Init, RecipientsOfPublished, ReadInItsPeriod, NoRecipients
<1>3. HeldByOne /\ HeldIsCurrent /\ MarksFit /\ UnseenIsAhead
  BY DEF Init, HeldByOne, HeldIsCurrent, MarksFit, UnseenIsAhead
<1> QED BY <1>1, <1>2, <1>3 DEF IInv, NotificationInv

LEMMA StepInv == IInv /\ [Next]_vars => IInv'
<1> SUFFICES ASSUME IInv, [Next]_vars PROVE IInv' OBVIOUS
<1>1. TypeOK' BY StepType DEF IInv, NotificationInv
<1> QED BY <1>1, RecipientsKept, ReadKept, HeldKept, MarksKept, PassesKept DEF IInv, NotificationInv

\* Types, recipients, dates of reading, what requests hold and what passes have ahead of
\* them: together they are kept by every step.
THEOREM Invariance == Spec => []IInv
BY InitInv, StepInv, PTL DEF Spec

\* Whatever overlaps, drafts have no recipients, what was sent has some and a period, and
\* is dated as read in it.
THEOREM SentAndRead == Spec => []NotificationInv
<1>1. IInv => NotificationInv BY DEF IInv
<1> QED BY <1>1, Invariance, PTL

\* Paging by offset shows everything that was there at first, for any number of
\* notifications, any page size and whatever is published meanwhile.
THEOREM PagingComplete == Spec => []PagingMissesNothing
<1>1. IInv => PagingMissesNothing
  BY DEF IInv, UnseenIsAhead, PagingMissesNothing
<1> QED BY <1>1, Invariance, PTL

\* What was published stays as it was sent, to whom it was sent.
THEOREM SentIsFinal == Spec => PublishedIsFinal
<1>1. IInv /\ [Next]_vars =>
        [\A n \in Obavestenje : obavestenja[n] # None /\ obavestenja[n].status # "DRAFT" =>
           /\ obavestenja'[n] \in {obavestenja[n], [obavestenja[n] EXCEPT !.status = "ARCHIVED"]}
           /\ \A k \in Korisnik : primaoci'[n][k] = None <=> primaoci[n][k] = None]_vars
  BY SentRowsStay DEF SentStays
<1> QED BY <1>1, Invariance, PTL DEF Spec, PublishedIsFinal

-----------------------------------------------------------------------------
(* Notifications implement NotificationRegister: what an administrator     *)
(* does shows at his commit, a mark at its own, and nothing else shows.    *)

\* What the register shows is changed by a step for n alone, to s, x, S and R.
shows(n, s, x, S, R) ==
  /\ stanje'[n] = s /\ poslato'[n] = x /\ primili'[n] = S /\ procitali'[n] = R
  /\ \A m \in Obavestenje \ {n} :
       /\ stanje'[m] = stanje[m] /\ poslato'[m] = poslato[m]
       /\ primili'[m] = primili[m] /\ procitali'[m] = procitali[m]

\* A table, f before and g after, of which one entry is changed.
table(f) == f = [m \in Obavestenje |-> f[m]]

LEMMA TableExcept ==
  ASSUME NEW f, NEW g, table(f), table(g), NEW n \in Obavestenje, NEW x, g[n] = x,
         \A m \in Obavestenje \ {n} : g[m] = f[m]
  PROVE  g = [f EXCEPT ![n] = x]
<1> DEFINE h == [f EXCEPT ![n] = x]
<1>1. \A m \in Obavestenje : g[m] = h[m] BY DEF table
<1>2. h = [m \in Obavestenje |-> h[m]] BY DEF table
<1> QED BY <1>1, <1>2 DEF table

LEMMA Tabled ==
  /\ table(stanje) /\ table(poslato) /\ table(primili) /\ table(procitali)
  /\ table(stanje') /\ table(poslato') /\ table(primili') /\ table(procitali')
BY DEF table, stanje, poslato, primili, procitali

LEMMA RegisterExcept ==
  ASSUME NEW n \in Obavestenje, NEW s, NEW x, NEW S, NEW R, shows(n, s, x, S, R)
  PROVE  /\ stanje' = [stanje EXCEPT ![n] = s] /\ poslato' = [poslato EXCEPT ![n] = x]
         /\ primili' = [primili EXCEPT ![n] = S] /\ procitali' = [procitali EXCEPT ![n] = R]
<1>1. stanje' = [stanje EXCEPT ![n] = s] BY Tabled, TableExcept DEF shows
<1>2. poslato' = [poslato EXCEPT ![n] = x] BY Tabled, TableExcept DEF shows
<1>3. primili' = [primili EXCEPT ![n] = S] BY Tabled, TableExcept DEF shows
<1>4. procitali' = [procitali EXCEPT ![n] = R] BY Tabled, TableExcept DEF shows
<1> QED BY <1>1, <1>2, <1>3, <1>4

\* Entries that stay as they are.
LEMMA TableSame ==
  ASSUME NEW f, table(f), NEW n \in Obavestenje PROVE [f EXCEPT ![n] = f[n]] = f
BY DEF table

LEMMA PublishShown ==
  ASSUME NEW n \in Obavestenje, NEW x \in Sadrzaj, NEW S \in SUBSET Korisnik, S # {},
         stanje[n] = "DRAFT", shows(n, "PUBLISHED", x, S, procitali[n])
  PROVE  Register!Next
<1>1. procitali' = procitali BY RegisterExcept, Tabled, TableSame
<1>2. \E y \in Sadrzaj : poslato' = [poslato EXCEPT ![n] = y] BY RegisterExcept
<1>3. \E T \in (SUBSET Korisnik) \ {{}} : primili' = [primili EXCEPT ![n] = T]
  <2>1. primili' = [primili EXCEPT ![n] = S] BY RegisterExcept
  <2>2. S \in (SUBSET Korisnik) \ {{}} OBVIOUS
  <2> QED BY <2>1, <2>2
<1>4. stanje' = [stanje EXCEPT ![n] = "PUBLISHED"] BY RegisterExcept
<1>5. Register!Publish(n) BY <1>1, <1>2, <1>3, <1>4 DEF Register!Publish
<1> QED BY <1>5 DEF Register!Next

LEMMA ArchiveShown ==
  ASSUME NEW n \in Obavestenje, stanje[n] = "PUBLISHED",
         shows(n, "ARCHIVED", poslato[n], primili[n], procitali[n])
  PROVE  Register!Next
<1>1. UNCHANGED <<poslato, primili, procitali>> BY RegisterExcept, Tabled, TableSame
<1>2. Register!Archive(n) BY <1>1, RegisterExcept DEF Register!Archive
<1> QED BY <1>2 DEF Register!Next

LEMMA MarkShown ==
  ASSUME NEW n \in Obavestenje, NEW k \in primili[n],
         shows(n, stanje[n], poslato[n], primili[n],
               IF k \in procitali[n] THEN procitali[n] \ {k} ELSE procitali[n] \cup {k})
  PROVE  Register!Next
<1>1. UNCHANGED <<stanje, poslato, primili>> BY RegisterExcept, Tabled, TableSame
<1>2. Register!Mark(n, k) BY <1>1, RegisterExcept DEF Register!Mark
<1>3. k \in Korisnik BY DEF primili
<1> QED BY <1>2, <1>3 DEF Register!Next

LEMMA NothingShown ==
  ASSUME \A m \in Obavestenje : /\ stanje'[m] = stanje[m] /\ poslato'[m] = poslato[m]
                                /\ primili'[m] = primili[m] /\ procitali'[m] = procitali[m]
  PROVE  UNCHANGED Register!register
BY Tabled DEF table, Register!register

\* What does not touch the tables of a notification shows nothing of it.
LEMMA UntouchedShown ==
  ASSUME NEW m \in Obavestenje, obavestenja'[m] = obavestenja[m], primaoci'[m] = primaoci[m]
  PROVE  /\ stanje'[m] = stanje[m] /\ poslato'[m] = poslato[m]
         /\ primili'[m] = primili[m] /\ procitali'[m] = procitali[m]
BY DEF stanje, poslato, primili, procitali, sent

LEMMA SameRowsShown ==
  ASSUME NEW n \in Obavestenje, \A k \in Korisnik : primaoci'[n][k] = primaoci[n][k]
  PROVE  primili'[n] = primili[n] /\ procitali'[n] = procitali[n]
<1>1. /\ primili[n] = {k \in Korisnik : primaoci[n][k] # None}
      /\ primili'[n] = {k \in Korisnik : primaoci'[n][k] # None}
  BY DEF primili
<1>2. primili'[n] = primili[n] BY <1>1
<1>3. /\ procitali[n] = {k \in primili[n] : primaoci[n][k].procitano}
      /\ procitali'[n] = {k \in primili'[n] : primaoci'[n][k].procitano}
  BY DEF procitali
<1>4. \A k \in primili[n] : primaoci'[n][k] = primaoci[n][k] BY <1>1
<1> QED BY <1>2, <1>3, <1>4

LEMMA CommitShown ==
  ASSUME IInv, NEW a \in Admin, commit(a)
  PROVE  Register!Next \/ UNCHANGED Register!register
<1> PICK z : z = zahtev[a] OBVIOUS
<1> PICK n : n = z.id OBVIOUS
<1> PICK old : old = obavestenja[n] OBVIOUS
<1>1. /\ n \in Obavestenje /\ z.red \in Red /\ obavestenja'[n] = z.red
      /\ becomes(old, primaoci[n], z.red, z.primaoci)
      /\ \A k \in Korisnik :
           primaoci'[n][k] = IF primaoci[n][k] = None THEN z.primaoci[k] ELSE primaoci[n][k]
      /\ \A m \in Obavestenje \ {n} : obavestenja'[m] = obavestenja[m] /\ primaoci'[m] = primaoci[m]
  BY CommitWrites
<1>2. \A m \in Obavestenje \ {n} :
        /\ stanje'[m] = stanje[m] /\ poslato'[m] = poslato[m]
        /\ primili'[m] = primili[m] /\ procitali'[m] = procitali[m]
  BY <1>1, UntouchedShown
<1>3. ~sent(n) => primaoci[n] = NoRecipients
  BY <1>1 DEF IInv, NotificationInv, RecipientsOfPublished, sent
<1>4. z.red # None BY <1>1, NoneApart
\* An edit.
<1>6. CASE /\ old = None \/ old.status = "DRAFT"
           /\ z.red.status = "DRAFT" /\ z.primaoci = NoRecipients
  <2>1. ~sent(n) /\ ~sent(n)' BY <1>1, <1>6 DEF sent
  <2>2. \A k \in Korisnik : primaoci[n][k] = None /\ primaoci'[n][k] = None
    BY <1>1, <1>3, <1>6, <2>1 DEF NoRecipients
  <2>3. stanje'[n] = stanje[n] /\ poslato'[n] = poslato[n] BY <1>1, <2>1 DEF stanje, poslato
  <2>4. primili'[n] = primili[n] /\ procitali'[n] = procitali[n] BY <1>1, <2>2, SameRowsShown
  <2> QED BY <1>2, <2>3, <2>4, NothingShown
\* A publication.
<1>7. CASE /\ old # None /\ old.status = "DRAFT"
           /\ z.red.status = "PUBLISHED" /\ period(z.red) /\ z.primaoci # NoRecipients
           /\ \A k \in Korisnik : z.primaoci[k] # None => z.primaoci[k] = [procitano |-> FALSE, citanje |-> None]
  <2> DEFINE S == {k \in Korisnik : z.primaoci[k] # None}
  <2>1. ~sent(n) /\ sent(n)' BY <1>1, <1>4, <1>7 DEF sent
  <2>2. \A k \in Korisnik : primaoci[n][k] = None /\ primaoci'[n][k] = z.primaoci[k]
    BY <1>1, <1>3, <2>1 DEF NoRecipients
  <2>3. S # {}
    <3>1. z.primaoci \in [Korisnik -> Primalac \cup {None}]
      BY CommitWrites DEF Zahtev
    <3> QED BY <1>7, <3>1 DEF NoRecipients
  <2>4. content(z.red) \in Sadrzaj
    <3>1. z.red.nacrt \in Nacrt BY <1>1 DEF Red
    <3> QED BY <1>7, <3>1 DEF period, content, Sadrzaj
  <2>5. stanje[n] = "DRAFT" /\ procitali[n] = {}
    <3>1. stanje[n] = "DRAFT" BY <1>1, <2>1 DEF stanje
    <3>2. primili[n] = {} BY <1>1, <2>2 DEF primili
    <3>3. procitali[n] = {} BY <1>1, <3>2 DEF procitali
    <3> QED BY <3>1, <3>3
  <2>6. stanje'[n] = "PUBLISHED" /\ poslato'[n] = content(z.red)
    BY <1>1, <1>7, <2>1 DEF stanje, poslato
  <2>7. primili'[n] = S BY <1>1, <2>2 DEF primili
  <2>8. procitali'[n] = {}
    <3>1. \A k \in Korisnik : primaoci'[n][k] # None => primaoci'[n][k].procitano = FALSE
      BY <1>7, <2>2
    <3> QED BY <1>1, <3>1 DEF procitali, primili
  <2> HIDE DEF S
  <2>9. shows(n, "PUBLISHED", content(z.red), S, procitali[n]) BY <1>2, <2>5, <2>6, <2>7, <2>8 DEF shows
  <2>10. S \in SUBSET Korisnik BY DEF S
  <2> QED BY <1>1, <2>3, <2>4, <2>5, <2>9, <2>10, PublishShown
\* An archiving.
<1>8. CASE /\ old # None /\ old.status = "PUBLISHED"
           /\ z.red = [old EXCEPT !.status = "ARCHIVED"]
           /\ \A k \in Korisnik : primaoci[n][k] = None => z.primaoci[k] = None
  <2>1. old \in Red BY <1>1, <1>8 DEF IInv, NotificationInv, TypeOK
  <2>2. z.red.status = "ARCHIVED" /\ content(z.red) = content(old) BY <1>8, <2>1 DEF Red, content
  <2>3. sent(n) /\ sent(n)' BY <1>1, <1>4, <1>8, <2>2 DEF sent
  <2>4. \A k \in Korisnik : primaoci'[n][k] = primaoci[n][k]
    <3> TAKE k \in Korisnik
    <3>1. primaoci'[n][k] = IF primaoci[n][k] = None THEN z.primaoci[k] ELSE primaoci[n][k] BY <1>1
    <3>2. primaoci[n][k] = None => z.primaoci[k] = None BY <1>8
    <3> QED BY <3>1, <3>2
  <2>5. stanje[n] = "PUBLISHED" /\ stanje'[n] = "ARCHIVED" /\ poslato'[n] = poslato[n]
    BY <1>1, <1>8, <2>2, <2>3 DEF stanje, poslato
  <2>6. primili'[n] = primili[n] /\ procitali'[n] = procitali[n]
    BY <1>1, <2>4, SameRowsShown
  <2> QED BY <1>1, <1>2, <2>5, <2>6, ArchiveShown DEF shows
<1> QED BY <1>1, <1>6, <1>7, <1>8, Zenon DEF becomes

LEMMA MarkCommitShown ==
  ASSUME IInv, NEW c \in Citalac, mark_commit(c)
  PROVE  Register!Next \/ UNCHANGED Register!register
<1> PICK z : z = oznaka[c] OBVIOUS
<1> PICK n : n = z.id OBVIOUS
<1>1. /\ n \in Obavestenje /\ z.red \in Primalac
      /\ primaoci[n][u] # None /\ primaoci'[n][u] = z.red
      /\ obavestenja' = obavestenja
      /\ \A m \in Obavestenje, k \in Korisnik : m # n \/ k # u => primaoci'[m][k] = primaoci[m][k]
  BY MarkWrites
<1>2. u \in Korisnik /\ z.red # None BY <1>1, ConstantsAssumption, NoneApart
<1>3. stanje' = stanje /\ poslato' = poslato BY <1>1 DEF stanje, poslato, sent
<1>4. \A m \in Obavestenje : primili'[m] = primili[m] BY <1>1, <1>2 DEF primili
<1>5. \A m \in Obavestenje \ {n} : procitali'[m] = procitali[m]
  BY <1>1, <1>4 DEF procitali, primili
<1>6. u \in primili[n] BY <1>1, <1>2 DEF primili
<1>7. \A k \in Korisnik \ {u} : k \in procitali'[n] <=> k \in procitali[n]
  BY <1>1, <1>4 DEF procitali, primili
<1>8. procitali[n] \subseteq Korisnik /\ procitali'[n] \subseteq Korisnik
  BY <1>1 DEF procitali, primili
<1>9. CASE u \in procitali'[n] <=> u \in procitali[n]
  <2>1. procitali'[n] = procitali[n] BY <1>7, <1>8, <1>9
  <2> QED BY <1>3, <1>4, <1>5, <2>1, NothingShown
<1>10. CASE ~(u \in procitali'[n] <=> u \in procitali[n])
  <2>1. procitali'[n] = IF u \in procitali[n] THEN procitali[n] \ {u} ELSE procitali[n] \cup {u}
    BY <1>2, <1>7, <1>8, <1>10
  <2> QED BY <1>1, <1>3, <1>4, <1>5, <1>6, <2>1, MarkShown DEF shows
<1> QED BY <1>9, <1>10

LEMMA StepRegister == IInv /\ [Next]_vars => [Register!Next]_Register!register
<1> SUFFICES ASSUME IInv, [Next]_vars PROVE Register!Next \/ UNCHANGED Register!register
  OBVIOUS
<1>1. CASE (\A a \in Admin : ~commit(a)) /\ (\A c \in Citalac : ~mark_commit(c))
  BY <1>1, TablesKept, UntouchedShown, NothingShown
<1> QED BY <1>1, CommitShown, MarkCommitShown

LEMMA InitRegister == Init => Register!Init
<1> SUFFICES ASSUME Init PROVE Register!Init OBVIOUS
<1>1. \A n \in Obavestenje : ~sent(n) /\ \A k \in Korisnik : primaoci[n][k] = None
  BY DEF Init, sent, NoRecipients
<1>2. \A n \in Obavestenje : primili[n] = {} /\ procitali[n] = {} BY <1>1 DEF primili, procitali
<1>3. stanje = [n \in Obavestenje |-> "DRAFT"] /\ poslato = [n \in Obavestenje |-> None]
  BY <1>1 DEF stanje, poslato
<1>4. primili = [n \in Obavestenje |-> {}] /\ procitali = [n \in Obavestenje |-> {}]
  BY <1>2, Tabled DEF table
<1> QED BY <1>3, <1>4 DEF Register!Init

\* Requests that overlap do to each notification what single steps would: it is sent
\* once, keeps its recipients and its content, and loses no mark to an administrator.
THEOREM NotificationsImplementRegister == Spec => ImplementsRegister
<1>1. IInv /\ [Next]_vars => [Register!Next]_Register!register BY StepRegister
<1> QED BY <1>1, InitRegister, Invariance, PTL DEF Spec, ImplementsRegister, Register!Spec
=============================================================================
