SPECIFICATION Spec
CONSTANTS
  None = None
  p1 = p1  p2 = p2  d1 = d1  d2 = d2
  Workers = {w1, w2}
  People = {p1, p2}
  Duties = {d1}
  Active = {p1, p2}
  OptedIn = {p1, p2}
  NightSleepers = {}
  Overlaps <- NoOverlap
  WeeklyAsks = 3
  InitialHolder <- HeldByP1
  InitiallyConfirmed = {d1}
  Texts = {t1}
  Notices <- P1DropsD1
  InitialGrants = {"draft", "send", "write"}
  Revocable = {}
  Deliveries = {"sent", "lost", "unsure"}
  SweepLimit = 10
  MaxCrashes = 1
SYMMETRY Alike
INVARIANT AtMostOneMessage
INVARIANT NoPhantomAsk
INVARIANT OrphansAreCrashes
INVARIANT UndoneAreCrashes
INVARIANT IInv
PROPERTY NobodyIsVolunteered
PROPERTY WriteAhead
PROPERTY EvidenceIsKept
PROPERTY KeepsPromise
