CONSTANTS
  k1 = k1
  k2 = k2
  Korisnik = {k1, k2}
  Struktura <- Sadrzaji
  Admin = {a1, a2}
  Worker = w
  MaxTime = 2
  MaxFault = 0
SPECIFICATION MCSpec
PROPERTY StructureFrozen
CHECK_DEADLOCK FALSE
