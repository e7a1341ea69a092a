--------------------------- MODULE MCNotifications ---------------------------
(* One draft for everybody, one for a unit with a date of its own, for TLC. *)
EXTENDS Notifications, TLC

CONSTANTS o1, g1

Nacrti == {[tekst |-> 1, kategorija |-> g1, ciljevi |-> {"SVI"}, istek |-> None],
           [tekst |-> 2, kategorija |-> g1, ciljevi |-> {o1}, istek |-> 2]}

\* Bound: an inactive category refuses publications and does nothing else, so while it is
\* inactive nobody is absent, which refuses them too, and nobody pages.
NothingElse == \/ kategorije[g1]
               \/ zaposleni[u] # None /\ \A l \in Listanje : lista[l] = None

\* Bound: the third notification comes when the first is sent and the second at least
\* drafted, and nothing of them is refused, edited, archived or marked after that.
third == obavestenja[3] # None \/ \E a \in Admin : zahtev[a] # None /\ zahtev[a].id = 3
WhilePaging ==
  /\ kategorije[g1] /\ zaposleni[u] # None /\ \A c \in Citalac : oznaka[c] = None
  /\ obavestenja[1] # None /\ obavestenja[1].status = "PUBLISHED"
  /\ obavestenja[2] # None /\ obavestenja[2].status # "ARCHIVED"
  /\ \A n \in {1, 2} : primaoci[n][u] # None => ~primaoci[n][u].procitano
  /\ \A a \in Admin : zahtev[a] # None /\ zahtev[a].id # 3 =>
       zahtev[a].id = 2 /\ (zahtev[a].red # None => zahtev[a].red.status = "PUBLISHED")

Bound == IF third THEN WhilePaging ELSE NothingElse

Symmetry == Permutations(Admin) \cup Permutations(Citalac)
=============================================================================
