\* Two transactions at a time, over a month of two days of eight instants.
CONSTANTS
  DayLength = 8
  Days = {1, 2}
  Clients = {c1, c2}
  Nobody = Nobody
  FirstInputs <- MCFirstInputs
  PunchTimes = {8}
  Schedules <- MCSchedules
  Limits = {8}
  RuleVersions <- MCRuleVersions
  MaxChanges = 3
  MaxCloses = 1
SPECIFICATION Spec
CHECK_DEADLOCK FALSE
SYMMETRY ClientSymmetry
INVARIANTS CurrentUnlessOvertaken DayAddsUp
PROPERTIES WhatIsClosedStands
