SPECIFICATION Spec
CONSTANTS
  Sizes = {0, 2}
  Values = {"a", "b"}
  MaxSize = 3
  MaxIndex = 2
  MaxNodes = 3
  MaxVector = 3
INVARIANTS TypeOK IndexInverts NotShared NoneLost FindsFirst
PROPERTY KeepsContents
CHECK_DEADLOCK FALSE
