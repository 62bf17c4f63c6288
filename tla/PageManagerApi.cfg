SPECIFICATION ApiSpec
CONSTANTS
  MaxPage = 3
  PageStackSize = 4
  Imported <- MCImported
  PageIds <- MCPageIds
INVARIANT
  StackShape
PROPERTY
  SwitchIsAtomic
