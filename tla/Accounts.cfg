CONSTANTS
  Sesija = {s1, s2}
  Uredjaj <- Uredjaji
  Privremena = {p1}
  Kod = {k1}
  None = none
  Thread = {t1, t2}
  MAX_NEUSPESNIH_PRIJAVA = 2
  RESET_CODE_MAX_ATTEMPTS = 1
  Strop = 2
SPECIFICATION Spec
SYMMETRY Symmetry
INVARIANTS StoredIsDelivered IInv
PROPERTIES RevokedForever LockoutIsComplete
