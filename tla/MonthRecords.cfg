\* Records of one day: two transactions at a time, and approved corrections of what they left.
CONSTANTS
  Instants = {2, 3}
  Ids = {i1, i2, i3}
  NoId = NoId
  Types = {"clock_in", "break_start"}
  Clients = {c1, c2}
  Nobody = Nobody
  MaxSubmissions = 0
  MaxReopens = 0
  DuplicateWindow = 1
  CorrectionThreshold = 1
  Requested <- MCRequested
  NoTime = NoTime
SPECIFICATION MCSpec
SYMMETRY IdSymmetry
PROPERTIES ReviewSeesWhatCounts PunchesAreAccepted OnlyOvertakenCorrectionsAreLost CorrectedAsApproved
