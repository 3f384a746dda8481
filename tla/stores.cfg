SPECIFICATION Spec
CONSTANTS
  None = None
  w1 = w1  w2 = w2  d1 = d1  p1 = p1  p2 = p2
  Workers = {w1, w2}
  Duties = {d1}
  People = {p1, p2}
  Backings = {"memory", "sqlite", "dynamodb"}
  MaxCrashes = 2
SYMMETRY Alike
INVARIANT TypeOK
INVARIANT ExecutedOnce
INVARIANT DanglingClaimsAreCrashes
INVARIANT SnapshotIsOneInstant
INVARIANT SnapshotShowsConsent
PROPERTY KeepsBook
