SPECIFICATION Spec
CONSTANTS
  alice = alice
  bob = bob
  strong = strong
  weak = weak
  near = near
  Owners = {alice, bob}
  Asker = alice
  drink = drink
  city = city
  Keys = {drink, city}
  Texts = {strong, weak}
  Bodies = {strong}
  Strength <- TextStrength
  Cosine <- TextCosine
  Distance <- TextDistance
  Confidences = {100}
  LexicalWeight = 45
  VectorWeight = 55
  MinimumVectorScore = 30
  Limit = 2
  Nearest <- NearestOf
  MaxEntries = 2
  MaxWriters = 1
CHECK_DEADLOCK FALSE
INVARIANT
  FallbackKeepsLexicalRanking
