CONSTANTS
  Obavestenje = {1, 2, 3}
  Korisnik = {u1}
  Orgjed = {o1}
  Kategorija = {g1}
  o1 = o1
  g1 = g1
  u = u1
  Nacrt <- Nacrti
  Admin = {a1, a2}
  Citalac = {c1, c2}
  Listanje = {l1}
  PageSize = 1
  DefaultExpiry = 1
  None = none
  MaxTime = 1
  MaxPreklapanja = 2
SYMMETRY Symmetry
CONSTRAINT Bound
SPECIFICATION Spec
INVARIANT IInv
INVARIANT PagingMissesNothing
PROPERTY ImplementsRegister
