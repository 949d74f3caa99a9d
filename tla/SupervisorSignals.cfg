SPECIFICATION Spec
CONSTANTS
  InputSize = 2
  MaxInput = 2
  StdoutCap = 1
  StderrCap = 1
  WallMillis = 1
  CleanupMillis = 1
  PipeSize = 2
  MaxWritten = 0
  MayFork = FALSE
  Senders = {"thread", "process"}
  CallerBlocks = {TRUE, FALSE}
INVARIANT SigpipeRestored
