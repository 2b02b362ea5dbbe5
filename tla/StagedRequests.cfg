\* Two transactions at a time on one request.
CONSTANTS
  u1 = u1
  u2 = u2
  Requests = {r1}
  Users = {u1, u2}
  Policies = {role}
  Holders <- MCHolders
  Delegations <- MCDelegations
  Nobody = nobody
  Proxies = {u1}
  Routes <- MCRoutes
  Clients = {c1, c2}
  MaxSteps = 2
  MaxSubmissions = 2
SPECIFICATION Spec
SYMMETRY ClientSymmetry
INVARIANTS DecidedByTheApprover EffectFollowsApproval TurnIsAnnounced
PROPERTY ImplementsChain
