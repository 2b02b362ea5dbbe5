----------------------------- MODULE MCSessions -----------------------------
(* A model-checking instance of Sessions, and one of SettingsPages: a state is of *)
(* the one or of the other, and the variables of the other one stand still.       *)
EXTENDS Sessions, SettingsSections, SettingsPages

CONSTANTS person, admin, s1, s2, r1, r2, lan

\* A supervisor of employees and leave, and an administrator.
MCHeld ==
  {{"employee.read", "leave.manage"},
   {"organization.read", "organization.manage", "employee.read", "employee.manage",
    "user.manage", "attendance.close", "leave.manage", "request.manage"}}

MCMaxFailures == [account |-> 1, source |-> 2]

\* At 0 the administrator logged in, at 1 the other user failed to.
LoggedIn ==
  [user |-> admin, issued |-> 0, expires |-> IdleLifetime, revoked |-> FALSE, at |-> 0, used |-> 0]

Failed(until) == [failures |-> 1, start |-> 1, until |-> until, updated |-> 1]

Begun ==
  /\ now = 3
  /\ hash = [u \in Users |-> 0]
  /\ sessions = [s \in SessionIds |-> IF s = s1 THEN LoggedIn ELSE Unused]
  /\ attempts = [k \in Keys |->
       CASE k = <<"account", person>> -> Failed(1 + BlockTime)
         [] k = <<"source", lan>> -> Failed(None)
         [] OTHER -> NoRow]
  /\ requests = [r \in Requests |-> Free]
  /\ change = [u \in Users |-> [keep |-> "none", done |-> TRUE]]
  /\ begun = 0

Closed ==
  /\ held = Nothing /\ route = <<"", "">> /\ choice = Nothing /\ form = Nothing
  /\ list = [status |-> "closed"] /\ loads = {} /\ writes = {} /\ pending = "no"
  /\ stored = {} /\ reported = {} /\ lost = {} /\ tally = Nothing

MCInit == Begun /\ (Closed \/ InitConsole)

MCNext ==
  \/ held = Nothing /\ Next /\ UNCHANGED consoleVars
  \/ held # Nothing /\ NextConsole /\ UNCHANGED vars

MCSpec == MCInit /\ [][MCNext]_<<vars, consoleVars>>

MCSymmetry == Permutations(Requests) \cup Permutations(Choosables)
=============================================================================
