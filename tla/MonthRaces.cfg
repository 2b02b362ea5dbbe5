\* Punches, decisions, closings and reopenings of two clients at a time on one day.
CONSTANTS
  Instants = {2}
  Ids = {i1, i2}
  NoId = NoId
  Types = {"clock_in"}
  Clients = {c1, c2}
  Nobody = Nobody
  MaxSubmissions = 2
  MaxReopens = 1
SPECIFICATION SpecRaces
SYMMETRY RaceSymmetry
VIEW RaceView
INVARIANT ClosedMonthStands
 
