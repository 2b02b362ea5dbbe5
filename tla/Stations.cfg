\* Two stations and devices, two batches and a punch, two requests at a time.
CONSTANTS
  Devices = {d1, d2}
  Agents = {a1, a2}
  old = old
  Requests = {r1, r2, old}
  Legacy = {old}
  Employees = {e1}
  Clients = {c1, c2}
  MaxSequence = 2
  MaxBatches = 2
  MaxPunches = 1
  LastTick = 4
  TicksPerMinute = 2
  Tolerance = 1
  None = None
SPECIFICATION Spec
CHECK_DEADLOCK FALSE
SYMMETRY StationSymmetry
INVARIANTS EveryBatchIsAccountedFor SameAnswerAgain EveryDifferenceIsListed
PROPERTY EnrolledOnce
