---------------------------- MODULE Notifications ----------------------------
(***************************************************************************)
(* Notifications from the draft to the inbox.  Administrators write drafts *)
(* and publish and archive them; publishing turns the target groups into   *)
(* recipients.  Employees page through their inbox and mark what they read.*)
(*                                                                         *)
(* Every change is one transaction: it locks the row, works on it and      *)
(* commits.  Statements see what is committed when they run.  What becomes *)
(* of the push messages is told in PushOutbox.                             *)
(***************************************************************************)
EXTENDS Integers, FiniteSets

CONSTANTS
  Obavestenje, \* ids of notifications
  Korisnik,    \* employees
  Orgjed,      \* organisational units
  Kategorija,  \* categories
  Nacrt,       \* what administrators write: TEKST, KATEGORIJA, CILJEVI, ISTEK
  Admin,       \* overlapping requests of administrators
  Citalac,     \* the requests of one employee, u, that mark a notification
  Listanje,    \* his passes through the inbox
  u,
  PageSize,
  DefaultExpiry, \* NOTIFICATION_DEFAULT_EXPIRY_DAYS
  None,
  MaxTime,     \* bound: the last moment
  MaxPreklapanja \* bound: requests and passes that overlap

VARIABLES
  now,
  zaposleni,   \* the unit of each employee, None for one who is not active
  kategorije,  \* is the category active?
  obavestenja, \* PULS_OBAVESTENJA and its targets
  primaoci,    \* PULS_OBAVESTENJE_PRIMAOCI: the row of each recipient
  zahtev,      \* the request of each administrator
  oznaka,      \* the requests that mark as read or unread
  lista        \* the passes through the inbox

vars == <<now, zaposleni, kategorije, obavestenja, primaoci, zahtev, oznaka, lista>>

-----------------------------------------------------------------------------

Time == 0 .. MaxTime
Istek == 0 .. MaxTime + DefaultExpiry
Status == {"DRAFT", "PUBLISHED", "ARCHIVED"}

Red == [status : Status, nacrt : Nacrt, objava : Time \cup {None}, istek : Istek \cup {None}]

Primalac == [procitano : BOOLEAN, citanje : Time \cup {None}]
NoRecipients == [k \in Korisnik |-> None]

\* pc "publish": waiting for the row, with the time taken before; "commit": holding it,
\* with the row and the recipients to be.
Zahtev == [pc : {"publish", "commit"}, id : Obavestenje, t : Time, istek : Time \cup {None},
           red : Red \cup {None}, primaoci : [Korisnik -> Primalac \cup {None}]]

\* The unread count a request answers with is left out.
Oznaka == [pc : {"lock", "commit"}, id : Obavestenje, t : Time, procitano : BOOLEAN,
           red : Primalac \cup {None}]

\* prva, vidjene: what was available at first, and what the pages have shown;
\* dostupne: what the last total counted; mirno: nothing came between a total and its rows,
\* and nothing that was counted left before the next total.
Lista == [pc : {"count", "rows", "done"}, page : Nat, t : Time,
          prva : SUBSET Obavestenje, dostupne : SUBSET Obavestenje,
          vidjene : SUBSET Obavestenje, mirno : BOOLEAN]

ASSUME ConstantsAssumption ==
  /\ Obavestenje \subseteq Nat /\ IsFiniteSet(Obavestenje)
  /\ MaxTime \in Nat /\ MaxPreklapanja \in Nat /\ DefaultExpiry \in Nat \ {0} /\ PageSize \in Nat \ {0}
  /\ None \notin Orgjed \cup Istek \cup Red \cup Primalac \cup Zahtev \cup Oznaka \cup Lista
  /\ u \in Korisnik
  /\ \A p \in Nacrt : /\ p.kategorija \in Kategorija
                      /\ p.ciljevi # {} /\ p.ciljevi \subseteq {"SVI"} \cup Orgjed \cup Korisnik
                      /\ p.istek \in Istek \cup {None}

Init ==
  /\ now = 0
  /\ zaposleni \in [Korisnik -> Orgjed]
  /\ kategorije = [k \in Kategorija |-> TRUE]
  /\ obavestenja = [n \in Obavestenje |-> None]
  /\ primaoci = [n \in Obavestenje |-> NoRecipients]
  /\ zahtev = [a \in Admin |-> None]
  /\ oznaka = [c \in Citalac |-> None]
  /\ lista = [l \in Listanje |-> None]

room == Cardinality({a \in Admin : zahtev[a] # None}) + Cardinality({c \in Citalac : oznaka[c] # None})
          + Cardinality({l \in Listanje : lista[l] # None}) < MaxPreklapanja

Business == <<now, zaposleni, kategorije>>
Tables == <<obavestenja, primaoci>>
Inbox == <<oznaka, lista>>

-----------------------------------------------------------------------------
(* Administrators *)

\* (mutant) the row is read without FOR UPDATE
get_notification(n) == obavestenja[n] # None

\* The row exists and no other request holds it.
get_notification_for_update(n) ==
  /\ obavestenja[n] # None
  /\ \A b \in Admin : zahtev[b] # None => zahtev[b].pc # "commit" \/ zahtev[b].id # n

\* The row and the recipients to be committed.
flush(a, n, red, rows) ==
  /\ zahtev' = [zahtev EXCEPT ![a] = [pc |-> "commit", id |-> n, t |-> now, istek |-> None,
                                      red |-> red, primaoci |-> rows]]
  /\ UNCHANGED Business /\ UNCHANGED Tables /\ UNCHANGED Inbox

\* A draft and its targets; the id is its own.
apply_create_draft(a, n, p) ==
  /\ zahtev[a] = None /\ room
  /\ obavestenja[n] = None
  /\ \A b \in Admin : zahtev[b] # None => zahtev[b].id # n
  /\ flush(a, n, [status |-> "DRAFT", nacrt |-> p, objava |-> None, istek |-> p.istek],
           NoRecipients)

\* The draft and its targets are replaced as a whole.
apply_update_draft(a, n, p) ==
  /\ zahtev[a] = None /\ room
  /\ get_notification_for_update(n)
  /\ obavestenja[n].status = "DRAFT"
  /\ flush(a, n, [obavestenja[n] EXCEPT !.nacrt = p, !.istek = p.istek], primaoci[n])

apply_archive(a, n) ==
  /\ zahtev[a] = None /\ room
  /\ get_notification_for_update(n)
  /\ obavestenja[n].status = "PUBLISHED"
  /\ flush(a, n, [obavestenja[n] EXCEPT !.status = "ARCHIVED"], primaoci[n])

\* The time is taken before the row is waited for; i is the DATUM_ISTEKA of the request.
apply_publish(a, n, i) ==
  /\ zahtev[a] = None /\ room
  /\ obavestenja[n] # None
  /\ zahtev' = [zahtev EXCEPT ![a] = [pc |-> "publish", id |-> n, t |-> now, istek |-> i,
                                      red |-> None, primaoci |-> NoRecipients]]
  /\ UNCHANGED Business /\ UNCHANGED Tables /\ UNCHANGED Inbox

\* Active employees of the target groups, each once.
_resolve_recipients(ciljevi) ==
  {k \in Korisnik : zaposleni[k] # None /\ {"SVI", zaposleni[k], k} \cap ciljevi # {}}

DATUM_ISTEKA(z, red) ==
  IF z.istek # None THEN z.istek
  ELSE IF red.istek # None THEN red.istek ELSE z.t + DefaultExpiry

\* (mutant) nobody has to be left of the target groups
publishable_to_nobody(z) ==
  LET red == obavestenja[z.id] IN
  /\ red.status = "DRAFT"
  /\ kategorije[red.nacrt.kategorija]
  /\ DATUM_ISTEKA(z, red) > z.t

\* Without a draft, an active category, a recipient or a future expiry: an error.
publishable(z) ==
  LET red == obavestenja[z.id] IN
  /\ red.status = "DRAFT"
  /\ kategorije[red.nacrt.kategorija]
  /\ _resolve_recipients(red.nacrt.ciljevi) # {}
  /\ DATUM_ISTEKA(z, red) > z.t

\* The row is locked: it is published, with a recipient row for everyone who has none.
publish_locked(a) ==
  LET z == zahtev[a]
      red == obavestenja[z.id] IN
  /\ z # None /\ z.pc = "publish"
  /\ get_notification_for_update(z.id)
  /\ zahtev' = [zahtev EXCEPT ![a] =
       IF ~publishable(z) THEN None
       ELSE [z EXCEPT !.pc = "commit",
               !.red = [red EXCEPT !.status = "PUBLISHED", !.objava = z.t,
                                   !.istek = DATUM_ISTEKA(z, red)],
               !.primaoci = [k \in Korisnik |->
                 IF k \in _resolve_recipients(red.nacrt.ciljevi) /\ primaoci[z.id][k] = None
                   THEN [procitano |-> FALSE, citanje |-> None] ELSE primaoci[z.id][k]]]]
  /\ UNCHANGED Business /\ UNCHANGED Tables /\ UNCHANGED Inbox

\* The row, and the recipients that are new: marks committed meanwhile stay.
commit(a) ==
  LET z == zahtev[a] IN
  /\ z # None /\ z.pc = "commit"
  /\ obavestenja' = [obavestenja EXCEPT ![z.id] = z.red]
  /\ primaoci' = [primaoci EXCEPT ![z.id] =
       [k \in Korisnik |-> IF @[k] = None THEN z.primaoci[k] ELSE @[k]]]
  /\ zahtev' = [zahtev EXCEPT ![a] = None]
  /\ UNCHANGED Business /\ UNCHANGED Inbox

rollback(a) ==
  /\ zahtev[a] # None
  /\ zahtev' = [zahtev EXCEPT ![a] = None]
  /\ UNCHANGED Business /\ UNCHANGED Tables /\ UNCHANGED Inbox

\* Read without a lock, and committed at once: a publication may have checked it before.
update_category(k) ==
  /\ kategorije' = [kategorije EXCEPT ![k] = ~@]
  /\ UNCHANGED <<now, zaposleni, zahtev>> /\ UNCHANGED Tables /\ UNCHANGED Inbox

-----------------------------------------------------------------------------
(* The inbox of employee u *)

available(n, t) ==
  /\ obavestenja[n] # None /\ obavestenja[n].status = "PUBLISHED"
  /\ obavestenja[n].objava <= t /\ t < obavestenja[n].istek

_inbox_base(t) == {n \in Obavestenje : primaoci[n][u] # None /\ available(n, t)}

Unmarked == <<now, zaposleni, kategorije, obavestenja, zahtev, lista>>

\* mark_read (p) or mark_unread: the notification is available.
require_available(c, n, p) ==
  /\ oznaka[c] = None /\ room
  /\ available(n, now)
  /\ oznaka' = [oznaka EXCEPT ![c] = [pc |-> "lock", id |-> n, t |-> now, procitano |-> p,
                                      red |-> None]]
  /\ UNCHANGED primaoci /\ UNCHANGED Unmarked

\* The row after the mark; a repeated mark leaves its date.
marked(r, p, t) ==
  IF r.procitano = p THEN r
  ELSE [procitano |-> p, citanje |-> IF p THEN t ELSE None]

\* The recipient row of u is locked and marked; none: not found.
get_recipient_for_update(c) ==
  LET z == oznaka[c]
      r == marked(primaoci[z.id][u], z.procitano, z.t) IN
  /\ z # None /\ z.pc = "lock"
  /\ \A b \in Citalac : oznaka[b] # None => oznaka[b].pc # "commit" \/ oznaka[b].id # z.id
  /\ oznaka' = [oznaka EXCEPT ![c] =
       IF primaoci[z.id][u] = None THEN None
       ELSE [z EXCEPT !.pc = "commit", !.red = r]]
  /\ UNCHANGED primaoci /\ UNCHANGED Unmarked

mark_commit(c) ==
  LET z == oznaka[c] IN
  /\ z # None /\ z.pc = "commit"
  /\ primaoci' = [primaoci EXCEPT ![z.id][u] = z.red]
  /\ oznaka' = [oznaka EXCEPT ![c] = None]
  /\ UNCHANGED Unmarked

mark_rollback(c) ==
  /\ oznaka[c] # None
  /\ oznaka' = [oznaka EXCEPT ![c] = None]
  /\ UNCHANGED primaoci /\ UNCHANGED Unmarked

Unlisted == <<now, zaposleni, kategorije, obavestenja, primaoci, zahtev, oznaka>>

\* Page 1, or the next one: the total is counted.
list_inbox(l) ==
  /\ IF lista[l] = None THEN room ELSE lista[l].pc = "count"
  /\ lista' = [lista EXCEPT ![l] =
       IF lista[l] = None
         THEN [pc |-> "rows", page |-> 1, t |-> now, prva |-> _inbox_base(now),
               dostupne |-> _inbox_base(now), vidjene |-> {}, mirno |-> TRUE]
         ELSE [lista[l] EXCEPT !.pc = "rows", !.t = now, !.dostupne = _inbox_base(now),
                               !.mirno = @ /\ lista[l].dostupne \subseteq _inbox_base(now)]]
  /\ UNCHANGED Unlisted

\* ORDER BY DATUM_OBJAVE DESC, ID DESC: what comes before n.
before(n, S) == {m \in S : \/ obavestenja[m].objava > obavestenja[n].objava
                           \/ obavestenja[m].objava = obavestenja[n].objava /\ m > n}

\* (mutant) pages count from 0
page_of_offset(S, page) ==
  {n \in S : Cardinality(before(n, S)) \in page * PageSize .. (page + 1) * PageSize - 1}

page_rows(S, page) ==
  {n \in S : Cardinality(before(n, S)) \in (page - 1) * PageSize .. page * PageSize - 1}

\* The rows of the page, a statement of their own; has_more tells whether there is another.
list_rows(l) ==
  LET z == lista[l]
      S == _inbox_base(z.t)
      has_more == z.page * PageSize < Cardinality(z.dostupne) IN
  /\ z # None /\ z.pc = "rows"
  /\ lista' = [lista EXCEPT ![l] =
       [z EXCEPT !.pc = IF has_more THEN "count" ELSE "done",
                 !.page = IF has_more THEN @ + 1 ELSE @,
                 !.vidjene = @ \cup page_rows(S, z.page),
                 !.mirno = @ /\ S = z.dostupne]]
  /\ UNCHANGED Unlisted

close(l) ==
  /\ lista[l] # None /\ lista[l].pc = "done"
  /\ lista' = [lista EXCEPT ![l] = None]
  /\ UNCHANGED Unlisted

-----------------------------------------------------------------------------

\* The HR synchronisation: an employee moves, leaves or comes back.
synchronise(k, o) ==
  /\ zaposleni[k] # o
  /\ zaposleni' = [zaposleni EXCEPT ![k] = o]
  /\ UNCHANGED <<now, kategorije, zahtev>> /\ UNCHANGED Tables /\ UNCHANGED Inbox

Tick == now < MaxTime /\ now' = now + 1
          /\ UNCHANGED <<zaposleni, kategorije, zahtev>> /\ UNCHANGED Tables /\ UNCHANGED Inbox

Administrator(a) ==
  \/ \E n \in Obavestenje :
       \/ \E p \in Nacrt : apply_create_draft(a, n, p) \/ apply_update_draft(a, n, p)
       \/ \E i \in Time \cup {None} : apply_publish(a, n, i)
       \/ apply_archive(a, n)
  \/ publish_locked(a) \/ commit(a) \/ rollback(a)

Employee ==
  \/ \E c \in Citalac :
       \/ \E n \in Obavestenje, p \in BOOLEAN : require_available(c, n, p)
       \/ get_recipient_for_update(c) \/ mark_commit(c) \/ mark_rollback(c)
  \/ \E l \in Listanje : list_inbox(l) \/ list_rows(l) \/ close(l)

Next ==
  \/ \E a \in Admin : Administrator(a)
  \/ Employee
  \/ \E k \in Kategorija : update_category(k)
  \/ \E k \in Korisnik, o \in Orgjed \cup {None} : synchronise(k, o)
  \/ Tick

Spec == Init /\ [][Next]_vars

-----------------------------------------------------------------------------

\* Every variable has its type.
TypeOK ==
  /\ now \in Time
  /\ zaposleni \in [Korisnik -> Orgjed \cup {None}] /\ kategorije \in [Kategorija -> BOOLEAN]
  /\ obavestenja \in [Obavestenje -> Red \cup {None}]
  /\ primaoci \in [Obavestenje -> [Korisnik -> Primalac \cup {None}]]
  /\ zahtev \in [Admin -> Zahtev \cup {None}] /\ oznaka \in [Citalac -> Oznaka \cup {None}]
  /\ lista \in [Listanje -> Lista \cup {None}]

\* A row that was sent has a period.
period(red) == red.objava \in Time /\ red.istek \in Istek /\ red.objava < red.istek

\* The row of a recipient is dated when it is read, within the period.
read_within(r, red) ==
  /\ r.procitano <=> r.citanje # None
  /\ r.procitano => red.objava <= r.citanje /\ r.citanje < red.istek

\* Nobody is a recipient of a draft, and what is published has recipients and a period:
\* also when its target groups were edited or emptied while it was being published.
RecipientsOfPublished ==
  \A n \in Obavestenje :
    IF obavestenja[n] = None \/ obavestenja[n].status = "DRAFT" THEN primaoci[n] = NoRecipients
    ELSE primaoci[n] # NoRecipients /\ period(obavestenja[n])

\* Whoever overlaps with whom, a notification is dated as read in its own period.
ReadInItsPeriod ==
  \A n \in Obavestenje, k \in Korisnik :
    primaoci[n][k] # None => read_within(primaoci[n][k], obavestenja[n])

\* What holds of drafts, publications and recipients, whoever edits, publishes, archives
\* and reads at a time.
NotificationInv == TypeOK /\ RecipientsOfPublished /\ ReadInItsPeriod

\* Whoever pages through the inbox sees everything that was there when he began, also
\* while more is published, and dated before what he has seen: unless something leaves
\* the inbox meanwhile, or comes between the total of a page and its rows.
PagingMissesNothing ==
  \A l \in Listanje : lista[l] # None /\ lista[l].pc = "done" /\ lista[l].mirno =>
    lista[l].prva \subseteq lista[l].vidjene

\* What was published stays as it was sent, to whom it was sent: an edit that began on
\* the draft does not reach it, a second publication does not add to it, and it never
\* becomes a draft again.
PublishedIsFinal ==
  [][\A n \in Obavestenje : obavestenja[n] # None /\ obavestenja[n].status # "DRAFT" =>
       /\ obavestenja'[n] \in {obavestenja[n], [obavestenja[n] EXCEPT !.status = "ARCHIVED"]}
       /\ \A k \in Korisnik : primaoci'[n][k] = None <=> primaoci[n][k] = None]_vars

\* What there is to see of the notifications once they are sent.
sent(n) == obavestenja[n] # None /\ obavestenja[n].status # "DRAFT"
Sadrzaj == [nacrt : Nacrt, objava : Time, istek : Istek]
content(red) == [nacrt |-> red.nacrt, objava |-> red.objava, istek |-> red.istek]

stanje == [n \in Obavestenje |-> IF sent(n) THEN obavestenja[n].status ELSE "DRAFT"]
poslato == [n \in Obavestenje |-> IF sent(n) THEN content(obavestenja[n]) ELSE None]
primili == [n \in Obavestenje |-> {k \in Korisnik : primaoci[n][k] # None}]
procitali == [n \in Obavestenje |-> {k \in primili[n] : primaoci[n][k].procitano}]

Register == INSTANCE NotificationRegister WITH sadrzaj <- poslato, primalac <- primili

\* The promise kept: whatever requests overlap, each step is one of NotificationRegister
\* or leaves it unchanged.  So a publication that waited sends once, to somebody, unread,
\* what was committed before it, no edit reaches that, and an archiving keeps the marks
\* that were committed while it was under way.
ImplementsRegister == Register!Spec

(* Why they hold: the inductive invariant. *)

\* A row, once an administrator holds it for a commit, is his alone.
HeldByOne ==
  \A a, b \in Admin :
    (/\ zahtev[a] # None /\ zahtev[a].pc = "commit"
     /\ zahtev[b] # None /\ zahtev[b].pc = "commit"
     /\ zahtev[a].id = zahtev[b].id) => a = b

\* What red and its recipient rows may become from the row old, with rows.
becomes(old, rows, red, new) ==
  \/ /\ old = None \/ old.status = "DRAFT"
     /\ red.status = "DRAFT" /\ new = NoRecipients
  \/ /\ old # None /\ old.status = "DRAFT"
     /\ red.status = "PUBLISHED" /\ period(red)
     /\ new # NoRecipients
     /\ \A k \in Korisnik : new[k] # None => new[k] = [procitano |-> FALSE, citanje |-> None]
  \/ /\ old # None /\ old.status = "PUBLISHED"
     /\ red = [old EXCEPT !.status = "ARCHIVED"]
     /\ \A k \in Korisnik : rows[k] = None => new[k] = None

\* So that what he will commit is still a change of the row as it is.
HeldIsCurrent ==
  \A a \in Admin : zahtev[a] # None /\ zahtev[a].pc = "commit" =>
    LET z == zahtev[a] IN
    z.red # None /\ becomes(obavestenja[z.id], primaoci[z.id], z.red, z.primaoci)

\* A request that marks a notification found it available, and has its row in hand.
MarksFit ==
  \A c \in Citalac : oznaka[c] # None =>
    LET z == oznaka[c] IN
    /\ obavestenja[z.id] # None /\ obavestenja[z.id].status # "DRAFT"
    /\ obavestenja[z.id].objava <= z.t /\ z.t < obavestenja[z.id].istek
    /\ z.pc = "commit" => /\ z.red # None /\ primaoci[z.id][u] # None
                          /\ read_within(z.red, obavestenja[z.id])

\* What was there at first and has not been seen lies on a page to come: nothing that
\* was counted has left, and what came moves it back, never forth.
UnseenIsAhead ==
  \A l \in Listanje : lista[l] # None =>
    LET z == lista[l] IN
    /\ \A m \in z.dostupne : obavestenja[m] # None /\ obavestenja[m].status # "DRAFT"
    /\ z.mirno => /\ z.prva \subseteq z.dostupne
                  /\ \A n \in z.prva \ z.vidjene :
                       /\ z.pc # "done"
                       /\ Cardinality(before(n, z.dostupne)) >= (z.page - 1) * PageSize

IInv == NotificationInv /\ HeldByOne /\ HeldIsCurrent /\ MarksFit /\ UnseenIsAhead
=============================================================================
