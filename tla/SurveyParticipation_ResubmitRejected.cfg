CONSTANTS
  User = {u1}
  Question = {q1, q2}
  Request = {r1, r2}
  Nobody = Nobody
  Automatic = {}
  Pocetak = 0
  Kraj = 1
  Od = 0
  Do = 0
  MaxTime = 1
  MaxPredaja = 2
  MaxFault = 0
SPECIFICATION Spec
INVARIANT ResubmitRejected
CHECK_DEADLOCK FALSE
