CONSTANTS
  User = {u1, u2}
  Question = {q1}
  Request = {r1, r2}
  Nobody = Nobody
  Automatic = {u2}
  Pocetak = 0
  Kraj = 1
  Od = 1
  Do = 2
  MaxTime = 2
  MaxPredaja = 2
  MaxFault = 1
  Proces = {a1, a2}
  Tip <- Tipovi
  Ugradjeni = {"MULTI_CHOICE", "BOOLEAN"}
  Predlog <- Structures
  Poslato <- Payloads
  TTL = 1
  MaxVreme = 1
  MaxPromena = 2
  MaxKvar = 1
SPECIFICATION Parts
SYMMETRY Symmetry
INVARIANTS SubmissionsBalance DraftsAreReachable IInv AnswersInv
CHECK_DEADLOCK FALSE
