\* Three days of leave, the second not a working day; beside it a generation over two dates.
CONSTANTS
  LastLedgerDay = 3
  UnitMinutes = 1
  LedgerClients = {c1, c2}
  Amounts = {1}
  NonWorking = {2}
  MaxEntries = 3
  LastDate = 1
  Cycles <- MCCycles
  Categories <- MCCategories
  Assignable <- MCAssignable
  Edits <- MCEdits
  Ranges <- MCRanges
  Generations = {g1}
  None = None
SPECIFICATION MCSpec
CHECK_DEADLOCK FALSE
SYMMETRY ClientSymmetry
INVARIANTS OverdrawnOnlyOnAGrantDay EveryMinuteIsAccounted
PROPERTIES HandEditsStand GenerationsFollowTheCycles
