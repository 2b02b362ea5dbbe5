--------------------------- MODULE MCLeaveGrants ---------------------------
(* Model-checking instances of LeaveGrants: years of two days. *)
EXTENDS LeaveGrants

CONSTANTS e1, e2, e3

MCMonthDay == [d \in Days |-> (d + 1) % 2]
MCYearOf == [d \in Days |-> (d + 1) \div 2]
MCHiredOn == [e \in Employees |-> CASE e = e1 -> 1 [] e = e2 -> 2 [] e = e3 -> NoDay]
MCSettings ==
  {[enabled |-> TRUE, basis |-> "hire_anniversary", start |-> 2],
   [enabled |-> TRUE, basis |-> "fixed_date", start |-> 3],
   [enabled |-> FALSE, basis |-> "hire_anniversary", start |-> 2]}
MCFirstRule == [service |-> 1, minutes |-> 1]
MCRules == {[service |-> 0, minutes |-> 2]}
=============================================================================
