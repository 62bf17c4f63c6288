SPECIFICATION Spec
CONSTANTS
  Lights = {1990, 3000}
  Proximities = {50, 51}
  MailboxSize = 2
INVARIANT DeletedOwnsNothing
