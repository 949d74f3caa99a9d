SPECIFICATION Spec
CONSTANTS
  r1 = r1
  r2 = r2
  Runs = {r1, r2}
  Members <- TwoMembers
  Source = "git"
  Attempts = 2
  Retired = Retired
SYMMETRY Either
CHECK_DEADLOCK FALSE
INVARIANTS NothingTorn NoResidue AloneSucceeds ReportStands
PROPERTY DoctorAgrees
