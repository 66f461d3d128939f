\* Three players: a game, and one who waits, or comes in the middle of it.
SPECIFICATION Spec
CONSTANTS
  Players = {g1, g2, g3}
  Null = Null
  MaxHp = 4
  MaxMp = 2
  NormalDamage = {1}
  MagicDamage = {1, 2}
  MagicCost = 1
  hpPotionEffect = 2
  mpPotionEffect = 2
  Potions = 1
SYMMETRY Symmetry
INVARIANTS
  GameInv
  RoomsPaired
  GameOver
PROPERTIES
  GameProgress
\* Players that have left send nothing.
CHECK_DEADLOCK FALSE
