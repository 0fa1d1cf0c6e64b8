CONSTANTS
  db = db
  listener = listener
  beat = beat
  web = web
  Order <- Four
  MaxDeaths = 3
SPECIFICATION FairSpec
INVARIANTS
  NobodyForgotten
  ServedSchemaMatches
PROPERTY AllComeBack
CHECK_DEADLOCK FALSE
