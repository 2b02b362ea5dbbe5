\* Two years of two days, two runs at a time.
CONSTANTS
  e1 = e1
  e2 = e2
  e3 = e3
  Employees = {e1, e2, e3}
  Organizations = {{e1, e2, e3}}
  HiredOn <- MCHiredOn
  LastDay = 4
  MonthDay <- MCMonthDay
  YearOf <- MCYearOf
  FixedDay = 1
  Settings <- MCSettings
  FirstRule <- MCFirstRule
  Rules <- MCRules
  MaxCatchUp = 2
  HandDays = {3}
  MaxByHand = 1
  MaxFailures = 1
  Runners = {r1, r2}
SPECIFICATION Spec
CHECK_DEADLOCK FALSE
INVARIANT NobodyIsMissed
PROPERTY CatchesUp
