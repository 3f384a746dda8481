SPECIFICATION Spec
CONSTANTS
  None = None
  p1 = p1  p2 = p2  d1 = d1  d2 = d2
  Workers = {w1}
  People = {p1}
  Duties = {d1}
  Active = {p1}
  OptedIn = {p1}
  NightSleepers = {}
  Overlaps <- NoOverlap
  WeeklyAsks = 3
  InitialHolder <- HeldByP1
  InitiallyConfirmed = {d1}
  Texts = {t1}
  Notices <- P1DropsD1
  InitialGrants = {"draft", "send", "write"}
  Revocable = {"write"}
  Deliveries = {"sent"}
  SweepLimit = 10
  MaxCrashes = 0
PROPERTY ReplayMeansPerformed
