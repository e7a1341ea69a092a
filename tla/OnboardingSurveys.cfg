CONSTANTS
  Anketa = {s1, s2}
  Korisnik = {u1, u2}
  s1 = s1
  s2 = s2
  Zatecena <- Pocetak
  Pravilo <- Pravila
  Dani = {2, 3}
  Datumi = {0, 1}
  Worker = {w1, w2}
  Admin = {a1, a2}
  None = none
  MaxPreklapanja = 2
  MaxIzmena = 2
SPECIFICATION Spec
INVARIANT IInv
PROPERTY DueIsAssigned
