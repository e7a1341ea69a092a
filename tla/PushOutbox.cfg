CONSTANTS
  Notif = {n1}
  User = {u1, u2}
  Device = {phone}
  NoDevice = NoDevice
  MaxAttempts = 2
  BatchSize = 2
  Instants = {0, 31, 62}
  Accounts = {"ok"}
  MaxResend = 1
  MaxFault = 1
  MaxUnanswered = 2
SPECIFICATION Spec
CONSTRAINT Bound
SYMMETRY Symmetry
INVARIANTS AcceptancesAccountedFor PendingIsClaimable IInv ArchiveStopsPushing OutboxMatchesRecipients
PROPERTIES TerminalUntilResend ImplementsLedger
CHECK_DEADLOCK FALSE
