CONSTANTS
  c1 = c1
  c2 = c2
  s1 = s1
  h1 = h1
  h2 = h2
  Free = Free
  Client = {c1, c2}
  Slice = {s1}
  Hour = {h1, h2}
  MaxCount = 2
SPECIFICATION TableFairSpec
INVARIANTS LocksHeld EnsuredMeansTable
PROPERTIES UpsertsAreAtomic ReturnedMeansCommitted CallEnds EnsureConverges
