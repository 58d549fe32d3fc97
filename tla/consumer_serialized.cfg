CONSTANTS
  ea = ea
  eb = eb
  ec = ec
  ed = ed
  s1 = s1
  s2 = s2
  Invalid = Invalid
  r1 = r1
  r2 = r2
  Partition = {0, 1}
  EventId = {ea, eb, ec, ed}
  Slice = {s1, s2}
  Hour = {1, 2}
  SliceOf <- MCSliceOf
  HourOf <- MCHourOf
  Run = {r1}
  MaxLen = 2
  Retention = FALSE
  Serialized = TRUE
SPECIFICATION Spec
INVARIANTS TypeOK ReplayExact ReadsEachOffsetOnce SnapshotWhole NeverContradictsItself
PROPERTIES CountsNeverShrink
SYMMETRY MCSymmetry
