\* Two workers race for one notification: overlapping leases, late answers, crashes.
CONSTANTS
  Events = {e1}
  Endpoints = {p1}
  Workers = {w1, w2}
  Tokens = {t1, t2, t3, t4}
  NoToken = NoToken
  NoEntry = NoEntry
  Lease = 2
  InitialDelay = 2
  Multiplier = 2
  MaximumDelay = 5
  MaxAttempts = 3
  MaxFaults = 1
SPECIFICATION LiveSpec
INVARIANT HistoryExplainsRows
PROPERTIES LeaseIsExclusive PromiseKept EveryNotificationEnds
