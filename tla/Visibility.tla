------------------------------ MODULE Visibility ------------------------------
(***************************************************************************)
(* Who may see an employee for a period                                    *)
(* (packages/domain/src/organization/assignment.ts and                     *)
(* api/src/shared/employee-visibility.ts).  It is decided twice: on rows   *)
(* that were read, for one employee or a list, and in the conditions of    *)
(* the queries of the exports.                                             *)
(***************************************************************************)
EXTENDS Employment

Roles == {"workspace_admin", "organization_manager", "employee"}

\* What a user of these roles may see; `self` is the user's employee, or None.
ResolveVisibility(roles, organizations, self) ==
  IF "workspace_admin" \in roles THEN [kind |-> "workspace", organizations |-> {}, self |-> None]
  ELSE IF "organization_manager" \in roles
  THEN [kind |-> "organizations", organizations |-> organizations, self |-> self]
  ELSE [kind |-> IF self = None THEN "none" ELSE "self", organizations |-> {}, self |-> self]

Visibilities ==
  {ResolveVisibility(roles, organizations, self) :
     roles \in SUBSET Roles, organizations \in SUBSET Organizations,
     self \in Employees \union {None}}
-----------------------------------------------------------------------------
(* On rows that were read. *)

\* Mutant: the dates of the contract are left out.
HostPeriodAssigned(a) == [host |-> a.contract.host, from |-> a.from, to |-> a.to]

\* A host has to do with an employee while both the contract and the assignment last.
HostPeriod(a) ==
  [host |-> a.contract.host,
   from |-> Max({a.from, a.contract.from}), to |-> Min({a.to, a.contract.to})]

HostOrganizations(e) == {HostPeriod(a) : a \in {b \in assignments : b.employee = e}}

\* Compares the ends only: what ends before it starts overlaps the periods around it.
CanAccess(organizations, e, period) ==
  \/ EmployerOf[e] \in organizations
  \/ \E h \in HostOrganizations(e) : h.host \in organizations /\ Overlaps(h, period)

IsVisible(visibility, e, period) ==
  \/ visibility.kind = "workspace"
  \/ visibility.kind = "self" /\ visibility.self = e
  \/ /\ visibility.kind = "organizations"
     /\ visibility.self = e \/ CanAccess(visibility.organizations, e, period)
-----------------------------------------------------------------------------
(* In a query. *)

\* Mutant: the condition on the contract is left out.
HostConditionAssigned(a, organizations, period) ==
  a.contract.host \in organizations /\ Overlaps(a, period)

HostCondition(a, organizations, period) ==
  /\ a.contract.host \in organizations
  /\ Overlaps(a, period) /\ Overlaps(a.contract, period)

VisibilityCondition(visibility, e, period) ==
  \/ visibility.kind = "workspace"
  \/ visibility.kind \in {"self", "organizations"} /\ visibility.self = e
  \/ /\ visibility.kind = "organizations"
     /\ \/ EmployerOf[e] \in visibility.organizations
        \/ \E a \in assignments :
             a.employee = e /\ HostCondition(a, visibility.organizations, period)
-----------------------------------------------------------------------------
(* On a date. *)

\* The assignment that counts on a date is the one that started last.
ActiveAssignmentAt(e, date) ==
  LET applicable == {a \in assignments : a.employee = e /\ date \in Days(a)} IN
  IF applicable = {} THEN None
  ELSE CHOOSE a \in applicable : \A b \in applicable : b.from <= a.from

\* The host an employee works for on a date, if the contract lasts as well.
HostAt(e, date) ==
  LET a == ActiveAssignmentAt(e, date) IN
  IF a # None /\ date \in Days(a.contract) THEN a.contract.host ELSE None
-----------------------------------------------------------------------------
(***************************************************************************)
(* Properties.                                                             *)
(***************************************************************************)
Day(date) == [from |-> date, to |-> date]

\* An assignment was made for dates on none of which its contract lasts.
NeverMeets(e) == \E a \in assignments : a.employee = e /\ ~Overlaps(a, a.contract)

\* A screen and an export agree on whom a user sees, whatever assignments and contracts
\* were made, ended or prolonged; on one date that is the employer, the one host the
\* employee works for on it, the employee and the administrators, and over a period whoever
\* sees one of its dates ("判定の意味は listEmployeeOrganizations と同じにする",
\* employee-visibility.ts:174; "どちらか一方でも終わっていれば、その日には関わりが無い",
\* assignment-repository.ts:265).
SeenByThoseConcerned ==
  \A v \in Visibilities, e \in Employees, range \in Ranges :
    LET sees == IsVisible(v, e, range) IN
    /\ sees <=> VisibilityCondition(v, e, range)
    /\ range.from = range.to =>
         (sees <=> \/ v.kind = "workspace" \/ v.self = e
                   \/ EmployerOf[e] \in v.organizations
                   \/ HostAt(e, range.from) \in v.organizations)
    /\ ~NeverMeets(e) =>
         (sees <=> \E date \in Days(range) : IsVisible(v, e, Day(date)))
=============================================================================
