SPECIFICATION Spec
CONSTANTS
  InputSize = 0
  MaxInput = 2
  StdoutCap = 1
  StderrCap = 1
  WallMillis = 1
  CleanupMillis = 1
  PipeSize = 1
  MaxWritten = 2
  MayFork = TRUE
  Senders = {}
  CallerBlocks = {TRUE}
INVARIANTS ResponseIsWhole CleanupHonest WireAccepted ExecFailureNotAnExit
