SPECIFICATION FairSpec
CONSTANTS
  BULLET_COUNT = 2
  ENEMY_COUNT = 2
  BulletEvery = {7}
  EnemyEvery = {12}
  RandX = {35, 48}
  RandMoveX = {1}
  RandMoveY = {7}
  Keys = {"LEFT", "DOWN"}
  MaxMoves = 1
  StaleEnemies = FALSE
CHECK_DEADLOCK FALSE
INVARIANTS
  TypeOK
  NoMisuse
  TimersOnlyOnPage
PROPERTIES
  NoTunnelling
  EnemyGoes
