SPECIFICATION Spec
CONSTANTS
  Names <- MCNames
  Programs <- MCPrograms
  Seeds <- MCNativeVault
  ResponseLists <- MCResponses
  Slots = {"s"}
  Values = {0, 1}
  Default = 0
  Malformed = Malformed
  Effects = {0, 1, 2, 3, 4}
  Amounts = {2}
  Mints = {"A"}
  MaxBalance = 3
  MaxOccurrence = 2
  Fuel = 40
  MaxInvocations = 2
INVARIANTS EffectIdentity ResponsesConsumed LoopsCovered NativeNoOverdraft
PROPERTIES PureFramesInert LifecycleSpec
CHECK_DEADLOCK FALSE
