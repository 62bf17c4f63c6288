SPECIFICATION Spec
CONSTANTS
  Lights = {1990, 3000}
  Proximities = {50, 51}
  MailboxSize = 2
PROPERTY DarkerIsBrighter
CHECK_DEADLOCK FALSE
