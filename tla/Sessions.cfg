SPECIFICATION MCSpec
CONSTANTS
  person = person
  admin = admin
  s1 = s1
  s2 = s2
  r1 = r1
  r2 = r2
  lan = lan
  Users = {person, admin}
  Admins = {admin}
  Sources = {lan}
  SessionIds = {s1, s2}
  Requests = {r1, r2}
  IdleLifetime = 5
  AbsoluteLifetime = 8
  MaxFailures <- MCMaxFailures
  Window = 2
  BlockTime = 2
  Retention = 2
  SlowestRequest = 1
  MaxRequests = 2
  MaxChanges = 1
  Horizon = 7
  Menu <- Modules
  Sections <- SectionOf
  Links <- Addresses
  Choosables = {k1, k2}
  HeldOffered <- MCHeld
  MaxFillings = 1
  MaxWrites = 2
  MaxLoads = 3
  Nothing = Nothing
SYMMETRY MCSymmetry
INVARIANT PasswordChangeEndsSessions
INVARIANT UseKeepsSession
INVARIANT SavedOnceAndShown
PROPERTY DeadStaysDead
PROPERTY BlockIsNotProlonged
