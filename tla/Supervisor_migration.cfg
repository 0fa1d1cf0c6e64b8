CONSTANTS
  db = db
  listener = listener
  beat = beat
  web = web
  Order <- Two
  MaxDeaths = 1
SPECIFICATION FairSpec
PROPERTY MigrationIsFinished
CHECK_DEADLOCK FALSE
