------------------------- MODULE OnboardingDocuments -------------------------
(***************************************************************************)
(* Documents for new employees: a PDF in a row of its own, which           *)
(* administrators of the portal create, edit, replace, publish, withdraw   *)
(* and archive, and which employees list, open and download while it is    *)
(* published, each in a request of its own.                                *)
(*                                                                         *)
(* Every change locks the row, checks it, writes the columns that differ   *)
(* with its audit row, and commits once.                                   *)
(***************************************************************************)
EXTENDS Integers, FiniteSets

CONSTANTS
  Dokument,   \* ids of documents
  Pdf,        \* contents that pass validate_pdf_upload, one for each SHA-256
  Naziv,      \* the metadata: title, description and order
  Admin,      \* overlapping requests of administrators
  Citalac,    \* employees
  None,
  MaxTime,    \* bound: the last moment
  MaxVerzija  \* bound: replacements of the content

VARIABLES
  now,
  dokumenti,  \* the row of each document (PULS_ONBOARDING_DOKUMENTI), or None
  dnevnik,    \* the audit rows of each document, as far as they tell its state
  zahtev,     \* the request of each administrator
  citalac,    \* what each employee has opened
  izdanja     \* history: every pair of version and content each document has had

vars == <<now, dokumenti, dnevnik, zahtev, citalac, izdanja>>

-----------------------------------------------------------------------------

Time == 0 .. MaxTime
Status == {"DRAFT", "PUBLISHED", "ARCHIVED"}

Red == [status : Status, naziv : Naziv, sadrzaj : Pdf, verzija : 1 .. MaxVerzija,
        objava : Time \cup {None}, izmena : Time]

Kolone == {"status", "naziv", "sadrzaj", "verzija", "objava", "izmena"}

\* The labels that _audit writes; the name of a status is that of a change to it.
Akcija == {"CREATED", "UPDATED", "CONTENT_REPLACED", "PUBLISHED", "UNPUBLISHED", "ARCHIVED"}

\* zamena: the rows CONTENT_REPLACED; stanje: the last row that tells the status.
Dnevnik == [zamena : Nat, stanje : Akcija \cup {None}]

\* procitana: the version of the content that was downloaded.
Citanje == [dok : Dokument, verzija : 1 .. MaxVerzija, procitana : 0 .. MaxVerzija]

\* A request holds the row it works on, with the copy it read.
Zahtev == [dok : Dokument, kopija : Red \cup {None}, red : Red, akcija : Akcija]

\* What the constants must satisfy (assumed by EmployeeDocuments).
ConstantsAssumption ==
  /\ MaxTime \in Nat /\ MaxVerzija \in Nat \ {0}
  /\ None \notin Time \cup Red \cup Zahtev \cup Citanje

Init ==
  /\ now = 0
  /\ dokumenti = [d \in Dokument |-> None]
  /\ dnevnik = [d \in Dokument |-> [zamena |-> 0, stanje |-> None]]
  /\ zahtev = [a \in Admin |-> None]
  /\ citalac = [e \in Citalac |-> None]
  /\ izdanja = [d \in Dokument |-> {}]

Tables == <<now, dokumenti, dnevnik, citalac, izdanja>>

-----------------------------------------------------------------------------
(* Administrators.  A request that finds no row, finds it ARCHIVED or has nothing *)
(* to change ends here without a trace. *)

\* (mutant) the row is read without FOR UPDATE
get(a, d) == zahtev[a] = None /\ dokumenti[d] # None

\* Not before whoever holds the row has ended his transaction.
get_for_update(a, d) ==
  /\ zahtev[a] = None
  /\ dokumenti[d] # None
  /\ \A b \in Admin : zahtev[b] # None => zahtev[b].dok # d

\* The audit row is added and the answer composed before the commit.
flush(a, d, kopija, red, akcija) ==
  /\ zahtev' = [zahtev EXCEPT ![a] = [dok |-> d, kopija |-> kopija,
                                      red |-> [red EXCEPT !.izmena = now], akcija |-> akcija]]
  /\ UNCHANGED Tables

create(a, d, n, p) ==
  /\ zahtev[a] = None
  /\ dokumenti[d] = None
  /\ \A b \in Admin : zahtev[b] # None => zahtev[b].dok # d   \* the id is its own
  /\ flush(a, d, None, [status |-> "DRAFT", naziv |-> n, sadrzaj |-> p, verzija |-> 1,
                        objava |-> None, izmena |-> now], "CREATED")

update(a, d, n) ==
  LET dok == dokumenti[d] IN
  /\ get_for_update(a, d)
  /\ dok.status # "ARCHIVED"
  /\ dok.naziv # n
  /\ flush(a, d, dok, [dok EXCEPT !.naziv = n], "UPDATED")

\* Only a draft; the same SHA-256 is no replacement.
replace_content(a, d, p) ==
  LET dok == dokumenti[d] IN
  /\ get_for_update(a, d)
  /\ dok.status = "DRAFT"
  /\ dok.sadrzaj # p
  /\ dok.verzija < MaxVerzija
  /\ flush(a, d, dok, [dok EXCEPT !.sadrzaj = p, !.verzija = @ + 1], "CONTENT_REPLACED")

ONB_DOKUMENT_DOZVOLJENI_PRELAZI ==
  {<<"DRAFT", "PUBLISHED">>, <<"DRAFT", "ARCHIVED">>,
   <<"PUBLISHED", "DRAFT">>, <<"PUBLISHED", "ARCHIVED">>}

\* (mutant) the day of publication survives a withdrawal
objava_kept(dok, target) == IF target = "PUBLISHED" THEN now ELSE dok.objava

\* DATUM_OBJAVE: an archived document keeps it.
objava(dok, target) ==
  CASE target = "PUBLISHED" -> now [] target = "DRAFT" -> None [] OTHER -> dok.objava

change_status(a, d, target) ==
  LET dok == dokumenti[d] IN
  /\ get_for_update(a, d)
  /\ <<dok.status, target>> \in ONB_DOKUMENT_DOZVOLJENI_PRELAZI
  /\ flush(a, d, dok, [dok EXCEPT !.status = target, !.objava = objava(dok, target)],
           IF target = "DRAFT" THEN "UNPUBLISHED" ELSE target)

\* The audit log with one more row.
_audit(d, akcija) ==
  CASE akcija = "CONTENT_REPLACED" -> [dnevnik EXCEPT ![d].zamena = @ + 1]
    [] akcija = "UPDATED" -> dnevnik
    [] OTHER -> [dnevnik EXCEPT ![d].stanje = akcija]

\* The columns that differ from the copy.
written(z) ==
  IF z.kopija = None THEN z.red
  ELSE [c \in Kolone |-> IF z.red[c] # z.kopija[c] THEN z.red[c] ELSE dokumenti[z.dok][c]]

commit(a) ==
  LET z == zahtev[a] IN
  /\ z # None
  /\ dokumenti' = [dokumenti EXCEPT ![z.dok] = written(z)]
  /\ dnevnik' = _audit(z.dok, z.akcija)
  /\ izdanja' = [izdanja EXCEPT ![z.dok] = @ \cup {<<written(z).verzija, written(z).sadrzaj>>}]
  /\ zahtev' = [zahtev EXCEPT ![a] = None]
  /\ UNCHANGED <<now, citalac>>

\* Something raises, or the process dies.
rollback(a) ==
  /\ zahtev[a] # None
  /\ zahtev' = [zahtev EXCEPT ![a] = None]
  /\ UNCHANGED Tables

-----------------------------------------------------------------------------
(* Employees *)

list_published == {d \in Dokument : dokumenti[d] # None /\ dokumenti[d].status = "PUBLISHED"}

\* The list or the detail: the version is shown, the content is not.
get_published(e, d) ==
  /\ d \in list_published
  /\ citalac' = [citalac EXCEPT ![e] = [dok |-> d, verzija |-> dokumenti[d].verzija,
                                        procitana |-> 0]]
  /\ UNCHANGED <<now, dokumenti, dnevnik, zahtev, izdanja>>

\* The content of the document he has opened, if it is still published.
get_published_content(e) ==
  /\ citalac[e] # None
  /\ citalac[e].dok \in list_published
  /\ citalac' = [citalac EXCEPT ![e].procitana = dokumenti[citalac[e].dok].verzija]
  /\ UNCHANGED <<now, dokumenti, dnevnik, zahtev, izdanja>>

-----------------------------------------------------------------------------

Administrator(a) ==
  \E d \in Dokument :
    \/ \E n \in Naziv : update(a, d, n)
    \/ \E n \in Naziv, p \in Pdf : create(a, d, n, p)
    \/ \E p \in Pdf : replace_content(a, d, p)
    \/ \E target \in Status : change_status(a, d, target)

Employee(e) == get_published_content(e) \/ \E d \in Dokument : get_published(e, d)

Tick == now < MaxTime /\ now' = now + 1
          /\ UNCHANGED <<dokumenti, dnevnik, zahtev, citalac, izdanja>>

Next ==
  \/ \E a \in Admin : Administrator(a) \/ commit(a) \/ rollback(a)
  \/ \E e \in Citalac : Employee(e)
  \/ Tick

Spec == Init /\ [][Next]_vars

-----------------------------------------------------------------------------

\* Every variable has its type.
TypeOK ==
  /\ now \in Time
  /\ dokumenti \in [Dokument -> Red \cup {None}]
  /\ dnevnik \in [Dokument -> Dnevnik]
  /\ zahtev \in [Admin -> Zahtev \cup {None}]
  /\ citalac \in [Citalac -> Citanje \cup {None}]
  /\ izdanja \in [Dokument -> SUBSET ((1 .. MaxVerzija) \X Pdf)]

\* A version is one content for ever, whichever administrators replaced it at a time.
VersionIdentifiesContent ==
  \A d \in Dokument : \A x, y \in izdanja[d] : x[1] = y[1] => x = y

\* A draft has no date of publication, a published document has one.
DateTellsPublished ==
  \A d \in Dokument : dokumenti[d] # None =>
    /\ dokumenti[d].status = "DRAFT" => dokumenti[d].objava = None
    /\ dokumenti[d].status = "PUBLISHED" => dokumenti[d].objava # None

\* The audit log tells how the document came to its version and its status.
AuditTellsDocument ==
  \A d \in Dokument : dokumenti[d] # None =>
    /\ dokumenti[d].verzija = dnevnik[d].zamena + 1
    /\ dnevnik[d].stanje \in IF dokumenti[d].status = "DRAFT"
                               THEN {"CREATED", "UNPUBLISHED"} ELSE {dokumenti[d].status}

\* The content an employee downloads is never older than the version he was shown.
ContentNotOlder ==
  \A e \in Citalac : citalac[e] # None /\ citalac[e].procitana # 0 =>
    citalac[e].procitana >= citalac[e].verzija

(* Why these hold, by induction. *)

\* A row is held by one request, from its lock to its commit.
HeldByOne ==
  \A a, b \in Admin :
    zahtev[a] # None /\ zahtev[b] # None /\ zahtev[a].dok = zahtev[b].dok => a = b

\* What each audited change may make of a row.
changes(old, red, akcija) ==
  \/ akcija = "CREATED" /\ old = None
       /\ red.status = "DRAFT" /\ red.verzija = 1 /\ red.objava = None
  \/ /\ old # None /\ akcija # "CREATED" /\ red.izmena >= old.izmena
     /\ IF akcija = "CONTENT_REPLACED"
          THEN /\ old.status = "DRAFT" /\ red.status = "DRAFT" /\ red.objava = old.objava
               /\ red.verzija = old.verzija + 1
          ELSE /\ red.verzija = old.verzija /\ red.sadrzaj = old.sadrzaj
               /\ IF akcija = "UPDATED" THEN red.status = old.status /\ red.objava = old.objava
                  ELSE /\ red.status = IF akcija = "UNPUBLISHED" THEN "DRAFT" ELSE akcija
                       /\ red.status = "DRAFT" => red.objava = None
                       /\ red.status = "PUBLISHED" => red.objava # None

\* So that the copy a request works on is the row as it is when it commits.
HeldIsCurrent ==
  \A a \in Admin : zahtev[a] # None =>
    LET z == zahtev[a] IN
    /\ z.kopija = dokumenti[z.dok]
    /\ changes(z.kopija, z.red, z.akcija) /\ z.red.izmena <= now

\* The row has the last of the editions, and the date of a moment that was.
LastEdition ==
  \A d \in Dokument :
    IF dokumenti[d] = None THEN izdanja[d] = {} /\ dnevnik[d].zamena = 0
    ELSE /\ <<dokumenti[d].verzija, dokumenti[d].sadrzaj>> \in izdanja[d]
         /\ \A x \in izdanja[d] : x[1] <= dokumenti[d].verzija
         /\ dokumenti[d].izmena <= now

\* No employee has been shown a version that is yet to come.
ShownIsPast ==
  \A e \in Citalac : citalac[e] # None =>
    /\ dokumenti[citalac[e].dok] # None
    /\ citalac[e].verzija <= dokumenti[citalac[e].dok].verzija

\* What holds of every document, its audit log and what employees opened of it, whichever
\* changes, publications and downloads overlap.
DocumentInv ==
  /\ TypeOK /\ VersionIdentifiesContent /\ DateTellsPublished /\ AuditTellsDocument
  /\ ContentNotOlder
  /\ HeldByOne /\ HeldIsCurrent /\ LastEdition /\ ShownIsPast

\* What employees can read does not change under them: the content and the version of a
\* document that is not a draft stay, whatever replacement was under way when it was
\* published; and no change is dated before the last one.
PublishedIsFrozen ==
  [][\A d \in Dokument : dokumenti[d] # None =>
       /\ dokumenti'[d] # None
       /\ dokumenti'[d].izmena >= dokumenti[d].izmena
       /\ dokumenti[d].status # "DRAFT" =>
            /\ dokumenti'[d].sadrzaj = dokumenti[d].sadrzaj
            /\ dokumenti'[d].verzija = dokumenti[d].verzija]_vars
=============================================================================
