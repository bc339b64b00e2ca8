SPECIFICATION Spec
CONSTANTS
  NCores = 2
  MaxTick = 2
  Loggers = {w1}
  Assignment <- OneLogger
  g_perthread_buffers = 2
  BufferTxns = 1
  HorizonTxns = 1
  IovMax = 2
  g_max_lag_epochs = 1
  MaxTxns <- BusyAndIdle
INVARIANTS
  TypeOK
  NothingLost
PROPERTIES
  WriterClaimsAreTrue
CHECK_DEADLOCK FALSE
