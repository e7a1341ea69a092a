CONSTANTS
  c1 = c1
  c2 = c2
  Ciklus = {c1, c2}
  Ideja = {i1, i2}
  Korisnik = {u1}
  Tekst = {x}
  Ocena = {7}
  None = none
  Thread = {t1, t2}
  MAX_IDEJA = 1
  Period <- Periodi
  MaxTime = 1
SPECIFICATION Spec
SYMMETRY Symmetry
INVARIANTS OneActiveCycle WithinLimit DistinctionsAnnounced IInv
PROPERTIES EnteredWhileActive EditsKeepDecisions
CHECK_DEADLOCK FALSE
