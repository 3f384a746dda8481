SPECIFICATION Spec
CONSTANTS
  None = None
  p1 = p1  p2 = p2  d1 = d1  d2 = d2  d3 = d3
  People = {p1, p2}
  Duties = {d1, d2, d3}
  Shift <- MCShift
  Org <- MCOrg
  Day = 3
  WeekDays = 2
  Weekend = 1
  Step = 2
  SearchHorizon = 6
  SociableStart = 0
  SociableEnd = 2
  NoticeSaturation = 12
  RestSaturation = 12
  HorizonDays = 1
  SweepLimit = 10
  InitialPerson <- MCPerson
  InitialHolder <- P1OnFirst
  InitiallyConfirmed = {d1}
  InitialGrants <- AlwaysToP2
  Revocable <- ToEveryone
  Deliveries = {"sent", "lost"}
  MaxNow = 8
INVARIANT SlidingBudget
INVARIANT AsksAreConsiderate
INVARIANT GateAgrees
INVARIANT DeferralEnds
INVARIANT LighterFirst
PROPERTY JoinsBeforeStart
PROPERTY TimeMakesNoGap
PROPERTY SweepsWithinHorizon
