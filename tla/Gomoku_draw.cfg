CONSTANTS
  BOARD = 3
  FIVE = 3
  Coordinates = {0, 1, 2, 3}
SPECIFICATION GomokuSpec
INVARIANT FiveAlwaysWins
CHECK_DEADLOCK FALSE
