CONSTANTS
  Event = {e1, e2}
  NoEvent = NoEvent
  Worker = {w1, w2}
  Request = {r1, r2}
  MaxAttempts = 2
  BatchSize = 1
  Instants = {0, 1}
  MaxFault = 1
SPECIFICATION FairSpec
INVARIANTS AnnouncedOnce GivenUpAfterMaxAttempts IInv EventIffChange
PROPERTY DueEventsAreHandled
CHECK_DEADLOCK FALSE
