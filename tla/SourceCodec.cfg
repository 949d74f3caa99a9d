SPECIFICATION Spec
CONSTANTS
  Cases <- MCCases
  MaxKids = 2
  MaxOdd = 1
INVARIANTS RoundTrip OneSpelling Traversable
