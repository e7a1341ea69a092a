CONSTANTS
  Notif = {n1}
  User = {u1, u2}
  Device = {phone}
  NoDevice = NoDevice
  MaxAttempts = 1
  BatchSize = 1
  Instants = {0, 1}
  Accounts = {"ok", "locked"}
  MaxResend = 0
  MaxFault = 1
  MaxUnanswered = 0
SPECIFICATION FairSpec
PROPERTY DueRowsAreHandled
CHECK_DEADLOCK FALSE
