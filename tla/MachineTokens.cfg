SPECIFICATION Spec
CONSTANTS
  Names <- MCNames
  Programs <- MCTokenPrograms
  Seeds <- MCTokenVault
  ResponseLists <- MCTokenResponses
  Slots = {"s"}
  Values = {0, 1}
  Default = 0
  Malformed = Malformed
  Effects = {0, 1, 2}
  Amounts = {1, 2}
  Mints = {"A", "B"}
  MaxBalance = 3
  MaxOccurrence = 6
  Fuel = 12
  MaxInvocations = 1
INVARIANTS TokenNoOverdraft
CHECK_DEADLOCK FALSE
