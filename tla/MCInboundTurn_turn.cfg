SPECIFICATION FairSpec
CONSTANTS
  MaxHistory = 6
  MaxRounds = 2
  MaxCalls = 2
  MaxChunks = 2
  PriorHistories <- Histories
CHECK_DEADLOCK FALSE
INVARIANTS
  TypeOK
  SpawnIsAnnounced
  PromptIsWellFormed
  CompletedMeansAnswered
  UserHearsOnce
  CompletedTurnIsWhole
PROPERTY
  TurnEnds
