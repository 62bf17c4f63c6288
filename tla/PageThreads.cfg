SPECIFICATION FairSpec
CONSTANTS
  Lights = {1990, 3000}
  Proximities = {50, 51}
  MailboxSize = 2
INVARIANTS TypeOK DarkWhenLeft WidgetsLive
PROPERTIES ReturnsUnlessTrapped ReadingShown
CHECK_DEADLOCK FALSE
