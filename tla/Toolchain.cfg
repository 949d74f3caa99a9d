SPECIFICATION MainSpec
CONSTANTS
  MaxContexts = 2
  MaxWalk = 6
  MaxFiles = 3
  Cases <- Checked
  Meddles = 2
  Above <- Opt
  SystemRoots <- UsrLib
  Missing <- Nix
  Lower <- Cased
  Unportable <- Refused
  Controls <- Bell
  Tasks <- AllTasks
  OwnIds <- Distribution
  MaxChanges = 2
CHECK_DEADLOCK FALSE
INVARIANTS GraphIsLoaded RejectionsExplained OneTree QuietAccepts LockVerdicts AcceptedWasSo HonestAccepted
