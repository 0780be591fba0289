CONSTANTS
  c1 = c1
  c2 = c2
  c3 = c3
  NULL = NULL
  Gone = Gone
  Cells <- ThreeCells
  Buckets = 2
  Items <- ThreeItems
  TreeIds = {1, 2, 3, 4}
  Students <- SixStudents
  NoNode = NoNode
  Inputs <- TypedOrRight
  Programs <- SomePrograms
  BOARD = 3
  FIVE = 3
  Coordinates <- OneOff
  MaxRecipeId = 4
  MaxListed = 3
SPECIFICATION Spec
INVARIANTS LinksAgree NothingLeaks TreeIsSorted CalculatesValue EndsWithFirstLine IdsAreUnique
PROPERTIES ListsAreSequences BalanceEnds
CHECK_DEADLOCK FALSE
