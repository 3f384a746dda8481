SPECIFICATION OfficeSpec
CONSTANTS
  None = None
  p1 = p1  p2 = p2  d1 = d1  d2 = d2  n1 = n1  n2 = n2  w1 = w1
  People = {p1, p2}
  Duties = {d1, d2}
  Shift <- MCShift
  Org <- MCOrg
  Day = 1
  WeekDays = 2
  Weekend = 0
  Step = 1
  SearchHorizon = 2
  SociableStart = 0
  SociableEnd = 1
  NoticeSaturation = 12
  RestSaturation = 12
  HorizonDays = 2
  SweepLimit = 10
  InitialPerson <- MCPerson
  InitialHolder <- P1OnFirst
  InitiallyConfirmed = {d1}
  InitialGrants <- SendAndWrite
  Revocable <- ForEveryone
  Deliveries = {"sent"}
  MaxNow = 1
  Words = {w1}
  PlanHorizon = 2
  MaxJobs = 2
  MaxCalls = 1
  Name <- MCName
  PeopleSheets <- MCPeopleSheets
  DutySheets <- MCDutySheets
  DefaultQuiet <- Awake
INVARIANT FilledMeansOnDuty
