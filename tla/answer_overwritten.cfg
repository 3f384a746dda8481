SPECIFICATION Spec
CONSTANTS
  None = None
  p1 = p1  p2 = p2  d1 = d1  d2 = d2
  Workers = {w1, w2}
  People = {p1, p2}
  Duties = {d1}
  Active = {p1, p2}
  OptedIn = {p1, p2}
  NightSleepers = {}
  Overlaps <- NoOverlap
  WeeklyAsks = 3
  InitialHolder <- Unfilled
  InitiallyConfirmed = {}
  Texts = {t1}
  Notices <- NoNotice
  InitialGrants = {"draft", "send", "write"}
  Revocable = {}
  Deliveries = {"sent"}
  SweepLimit = 10
  MaxCrashes = 0
PROPERTY AnswersAreFinal
