CONSTANTS
  jan = jan
  feb = feb
  morning = morning
  evening = evening
  ea = ea
  eb = eb
  ec = ec
  bad = bad
  a1 = a1
  a2 = a2
  b1 = b1
  c1 = c1
  nan = nan
  p1 = p1
  p2 = p2
  run1 = run1
  run2 = run2
  Partition = {0, 1}
  EventId = {ea, eb, ec}
  Invalid = bad
  Slice = {jan, feb}
  Hour = {morning, evening}
  SliceOf <- MCSliceOf
  HourOf <- MCHourOf
  Run = {run1, run2}
  MaxLen = 2
  Producer = {p1}
  Row = {a1, a2, b1, c1, nan}
  Contents <- MCContents
  IdOf <- MCIdOf
  Quarantine = {nan}
  Route <- MCRoute
SPECIFICATION Spec
SYMMETRY MCSymmetry
INVARIANTS SettledIsExact SettledReconciles SettledLosesNothing
