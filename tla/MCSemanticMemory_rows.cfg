SPECIFICATION FairSpec
CONSTANTS
  tea = tea
  Tea = Tea
  alice = alice
  bob = bob
  NoKey = NoKey
  Owners = {alice, bob}
  Keys = {tea, Tea}
  Safe <- Spellings
  Values = {green, pin}
  Secrets = {pin}
  MaxRows = 3
  MaxStatements = 2
  MaxFacts = 1
CHECK_DEADLOCK FALSE
INVARIANTS
  LatestStands
  IndexMatchesActive
  ExtractedInOrder
PROPERTY
  DeadStaysDead
  QueueDrains
