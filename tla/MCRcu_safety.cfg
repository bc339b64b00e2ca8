SPECIFICATION Spec
CONSTANTS
  NCores = 2
  MaxTick = 4
  MaxDepth = 2
  Objects = {o1, o2}
  Slots = {s1}
  EpochTimeMultiplier = 2
INVARIANTS
  TypeOK
  NoUseAfterFree
  NothingLeftBehind
PROPERTIES
  ImplementsClock
  EventuallyReclaimed
CHECK_DEADLOCK FALSE
