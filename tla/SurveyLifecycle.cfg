CONSTANTS
  k1 = k1
  k2 = k2
  Korisnik = {k1, k2}
  Struktura <- Sadrzaji
  Admin = {a1, a2}
  Worker = w
  MaxTime = 2
  MaxFault = 1
SPECIFICATION MCSpec
INVARIANTS ActivationAnnounced LeftDraftHasParticipants IInv
PROPERTIES DueSurveysAreMoved LeavesDraftForGood
CHECK_DEADLOCK FALSE
