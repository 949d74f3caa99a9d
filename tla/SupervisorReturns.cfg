SPECIFICATION Spec
CONSTANTS
  InputSize = 2
  MaxInput = 2
  StdoutCap = 1
  StderrCap = 1
  WallMillis = 1
  CleanupMillis = 1
  PipeSize = 1
  MaxWritten = 0
  Senders = {}
  CallerBlocks = {TRUE}
  MayFork = TRUE
PROPERTIES Returns
