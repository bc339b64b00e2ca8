SPECIFICATION Spec
CONSTANTS
  Width = 2
  MaxKey = 4
  InitKeys <- OneTwo
  Writers = {11, 12}
  Scripts <- Mixed
  Getters = {13}
  Scanners = {13}
  MaxLeaves = 4
INVARIANTS TypeOK   
