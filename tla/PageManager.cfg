SPECIFICATION FairSpec
CONSTANTS
  MaxPage = 4
  PageStackSize = 5
  Imported <- MCImported
  PageIds <- MCPageIds
INVARIANTS
  TypeOK
  BusyHasWork
  ShownIsTop
  OnePageLive
PROPERTIES
  SwitchCompletes
  NavSpec
  NavReaches
