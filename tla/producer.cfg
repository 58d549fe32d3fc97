CONSTANTS
  a = a
  b = b
  q = q
  p1 = p1
  Row = {a, b, q}
  Content = {{}, {a, q}, {a, b, q}}
  Quarantine = {q}
  Run = {p1}
  QueueLimit = 2
SPECIFICATION SetupFairSpec
INVARIANTS DoneMeansDelivered NeverTwice RefusedOnlyForArguments EnsuredMeansTopicsExist
PROPERTIES RunsDeliver RunEnds EnsureConverges
