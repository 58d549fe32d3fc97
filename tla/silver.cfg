CONSTANTS
  run1 = run1
  run2 = run2
  Null = Null
  NaN = NaN
  MaxInt = 10
  Month <- MCMonth
  Contents <- MCContents
  Run = {run1, run2}
  MaxIngestions = 2
  Now = 0
  JsonValue <- MCJsonValue
SPECIFICATION Spec
SYMMETRY MCSymmetry
INVARIANTS AcceptedAreClean PartitionsWhole NeverInvalidResult AcceptedBecomeEvents IdsUnambiguous RecordsNeverBreakARun
PROPERTIES ReturnedMeansStored OtherMonthsUntouched
