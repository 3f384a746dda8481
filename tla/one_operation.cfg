SPECIFICATION Spec
CONSTANTS
  None = None
  p1 = p1  p2 = p2  d1 = d1  d2 = d2
  Workers = {w1}
  People = {p1, p2}
  Duties = {d1, d2}
  Active = {p1, p2}
  OptedIn = {p1, p2}
  NightSleepers = {p2}
  Overlaps <- AllOverlap
  WeeklyAsks = 1
  InitialHolder <- HeldByP1
  InitiallyConfirmed = {}
  Texts = {t1}
  Notices <- AnyDropsD1
  InitialGrants = {"draft", "send", "write"}
  Revocable = {"write", "send"}
  Deliveries = {"sent", "unsure"}
  SweepLimit = 10
  MaxCrashes = 0
INVARIANT TypeOK
INVARIANT OneOpenAskPerDuty
INVARIANT OneOpenAskPerPerson
INVARIANT NoDoubleBooking
INVARIANT AcceptanceIsKept
INVARIANT WithinBudget
PROPERTY ReleasesOwnCommitment
PROPERTY NotInvitedBack
