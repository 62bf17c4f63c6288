SPECIFICATION Spec
CONSTANTS
  BULLET_COUNT = 1
  ENEMY_COUNT = 3
  BulletEvery = {7}
  EnemyEvery = {12, 13}
  RandX = {48}
  RandMoveX = {1}
  RandMoveY = {4, 6}
  Keys = {"LEFT"}
  MaxMoves = 0
  StaleEnemies = TRUE
CHECK_DEADLOCK FALSE
INVARIANTS
  NoMisuse
