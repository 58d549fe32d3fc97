CONSTANTS
  ea = ea
  eb = eb
  ec = ec
  ed = ed
  s1 = s1
  s2 = s2
  Invalid = Invalid
  r1 = r1
  r2 = r2
  Partition = {0, 1}
  EventId = {ea, ec}
  Slice = {s1}
  Hour = {1, 2}
  SliceOf <- MCSliceOf
  HourOf <- MCHourOf
  Run = {r1}
  MaxLen = 2
  Retention = TRUE
  Serialized = FALSE
SPECIFICATION Spec
INVARIANTS LossOnlyByExpiry NeverOvercounts
