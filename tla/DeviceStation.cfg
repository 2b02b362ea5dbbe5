\* One producer and one sender, two punches, under the fairness of LiveSpec.
CONSTANTS
  Punches = {x1, x2}
  Producers = {station}
  NoPunch = NoPunch
SPECIFICATION LiveSpec
CHECK_DEADLOCK FALSE
PROPERTIES PendingNeverReplayed EveryPunchLeavesSpool
