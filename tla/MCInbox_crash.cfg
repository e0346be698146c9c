SPECIFICATION Spec
CONSTANTS
  h1 = h1
  h2 = h2
  h3 = h3
  bare = bare
  forged = forged
  blank = blank
  alice = alice
  NoHandle = NoHandle
  NoSender = NoSender
  Handles = {h1, h2, h3}
  Senders = {alice}
  Posts <- MessageIds
  Body <- Messages
  Allowed <- OnlyAlice
  MaxEntries = 2
  Workers = 1
  Times <- TwoTimes
  ClockMayStepBack = FALSE
  MaxSent = 4
  MaxCrashes = 1
CHECK_DEADLOCK FALSE
INVARIANT
  DuplicateWasProcessed
