CONSTANTS
  run1 = run1
  run2 = run2
  Null = Null
  NaN = NaN
  MaxInt = 10
  Month <- MCOneMonth
  Contents <- MCRerunContents
  Run = {run1}
  MaxIngestions = 2
  Now = 0
  JsonValue <- MCJsonValue
SPECIFICATION Spec
PROPERTIES TablesReconcile
