SPECIFICATION DisplaySpec
CONSTANTS
  MaxPage <- PAGE_MAX
  PageStackSize = 10
  Imported <- PAGE_IMPORT
  PageIds = {}
INVARIANTS
  DisplayTypeOK
  KeyMeetsIdleManager
  StackIsMenuPath
  TimersOnlyInGame
  NotLeftSetting
PROPERTY
  WalksMenus
