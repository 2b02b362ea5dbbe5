\* Settings of one employee, with two clients at a time at the cards.
CONSTANTS
  e1 = e1
  agency = agency
  shop = shop
  other = other
  Employees = {e1}
  EmployerOf <- MCEmployerOf
  Organizations = {agency, shop, other}
  ContractsOffered <- MCContracts
  Terms <- MCTerms
  VersionsOffered <- MCVersions
  SystemsOffered <- MCSystems
  Tokens = {t1, t2}
  Fingerprints = {f1, f2}
  Clients = {c1, c2}
  MaxOperations = 4
  MonthLengths <- MCMonthLengths
  WeekLength = 3
  LastDate = 7
  None = None
SPECIFICATION EmploymentSpec
CHECK_DEADLOCK FALSE
SYMMETRY ClientSymmetry
INVARIANTS TokenRegistersOneCard PeriodsTile SeenByThoseConcerned
