CONSTANTS
  Korisnik = {1, 2, 3}
  BatchSize = 2
  MaxSmetnji = 1
  Dokument = {d1}
  Pdf = {p1, p2, p3}
  Naziv = {n1, n2}
  Urednik = {a1, a2}
  Citalac = {e1}
  NoValue = none
  MaxTime = 1
  MaxVerzija = 3
SPECIFICATION Parts
INVARIANT DocumentInv
PROPERTY EveryoneIsProvisioned
PROPERTY PublishedIsFrozen
CHECK_DEADLOCK FALSE
