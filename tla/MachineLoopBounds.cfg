SPECIFICATION Spec
CONSTANTS
  Names <- MCNames
  Programs <- MCLoopPrograms
  Seeds <- MCEmptyVault
  ResponseLists <- MCSilence
  Slots = {"s"}
  Values = {0, 1}
  Default = 0
  Malformed = Malformed
  Effects = {0, 1, 2}
  Amounts = {0}
  Mints = {"A"}
  MaxBalance = 0
  MaxOccurrence = 2
  Fuel = 40
  MaxInvocations = 1
INVARIANTS TargetsStopToo
CHECK_DEADLOCK FALSE
