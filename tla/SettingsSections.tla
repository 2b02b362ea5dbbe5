--------------------------- MODULE SettingsSections ---------------------------
(***************************************************************************)
(* The sections of the settings console, as SettingsPages needs them: the  *)
(* components of packages/web/src/admin/sections and the menu of           *)
(* AdminConsole.tsx.  Fields are names, and a permission of "nobody" is    *)
(* one that no person has.                                                 *)
(***************************************************************************)
EXTENDS Naturals, Sequences, SequencesExt

-----------------------------------------------------------------------------
(* The forms: what must be filled in before anything is sent, what copying *)
(* a row blanks, what a successful save clears.  "once": the tables refuse *)
(* a second row of the same contents.                                      *)

NoForm == [required |-> {}, cleared |-> {}, copies |-> FALSE, blanked |-> {},
           saves |-> "nothing", once |-> TRUE, calls |-> 1, moves |-> FALSE]

Creates(required, cleared) ==
  [NoForm EXCEPT !.required = required, !.cleared = cleared, !.saves = "new row"]

Copying(f, blanked) == [f EXCEPT !.copies = TRUE, !.blanked = blanked]

OrganizationForm == Copying(Creates({"code", "name"}, {"code", "name"}), {"code"})

SiteForm == Copying(Creates({"code", "name"}, {"code", "name"}), {"code"})

DepartmentForm == Copying(Creates({"code", "name"}, {"code", "name"}), {"code"})

\* With an account, its address and password are required and cleared as well.
EmployeeForm ==
  Copying(Creates({"number", "name"}, {"number", "name"}), {"number", "name"})

\* An empty user, which a save leaves behind, is refused by the server.
UserScopeForm == [Copying(Creates({"user"}, {"user"}), {}) EXCEPT !.saves = "same row"]

WorkCategoryRequired == {"code", "internal", "display", "from"}

WorkCategoryForm == Copying(Creates(WorkCategoryRequired, {"code", "from"}), {"from"})

\* The times have values from the start.
WorkPatternForm == Copying(Creates({"code", "name"}, {"code"}), {})

\* Without a pattern nothing is sent (FormValidationError).
WorkCycleRequired == {"code", "name", "pattern"}

WorkCycleForm == Creates(WorkCycleRequired, {"code"})

\* One schedule a date: sending it again replaces it.
WorkScheduleRequired == {"date"}

WorkScheduleForm == [Copying(Creates(WorkScheduleRequired, {}), {}) EXCEPT !.saves = "same row"]

CalculationRuleRequired == {"from"}

CalculationRuleForm == Copying(Creates(CalculationRuleRequired, {"from"}), {"from"})

\* The settlement is required of flexible and variable systems.
LaborSystemRequired == {"from", "settlement"}

\* A copy takes the employee of its row, who is also the one whose list is shown.
LaborSystemForm ==
  [Copying(Creates(LaborSystemRequired, {"from"}), {"from"}) EXCEPT !.moves = TRUE]

\* Only rows that exist are edited here, and stay in the form after a save.
LeaveTypeForm == [Copying(NoForm, {}) EXCEPT !.saves = "edited row"]

\* Service and minutes have values from the start and keep them after a save.
LeaveGrantForm == Creates({}, {})

\* Several grants of one day may be alike: nothing in the ledger tells them apart.
LeaveLedgerRequired == {"minutes", "effectiveOn"}

LeaveLedgerForm == [Creates(LeaveLedgerRequired, {"minutes"}) EXCEPT !.once = FALSE]

\* Without an approver for every step nothing is sent (FormValidationError).
RequestTypeRequired == {"code", "name", "route"}

\* The type and then its route: two requests.  A row is taken up for editing.
RequestTypeForm ==
  [Copying(Creates(RequestTypeRequired, RequestTypeRequired), {}) EXCEPT !.calls = 2]

-----------------------------------------------------------------------------
(* The sections: who reads and who writes; whether the list depends on a   *)
(* choice, and whether one is made from the start ("preset"); who may act  *)
(* on its rows, and on what; whether files are imported.                   *)

ReadOnly(permission, chosen) ==
  [reads |-> permission, writes |-> "nobody", chosen |-> chosen, form |-> NoForm,
   acts |-> "nobody", actsOn |-> "row", imports |-> FALSE]

Section(reads, writers, f) ==
  [ReadOnly(reads, "nothing") EXCEPT !.writes = writers, !.form = f]

OrganizationSettings ==
  [Section("organization.read", "organization.manage", OrganizationForm)
     EXCEPT !.acts = "organization.manage"]

SiteSettings == Section("organization.read", "organization.manage", SiteForm)

DepartmentSettings == Section("organization.read", "organization.manage", DepartmentForm)

EmployeeSettings ==
  [Section("employee.read", "employee.manage", EmployeeForm)
     EXCEPT !.acts = "employee.manage", !.imports = TRUE]

UserScopeSettings == Section("user.manage", "user.manage", UserScopeForm)

WorkCategorySettings ==
  [Section("organization.read", "organization.manage", WorkCategoryForm) EXCEPT !.imports = TRUE]

WorkPatternSettings == Section("organization.read", "organization.manage", WorkPatternForm)

WorkCycleSettings == Section("organization.read", "organization.manage", WorkCycleForm)

WorkScheduleSettings ==
  [Section("employee.read", "organization.manage", WorkScheduleForm) EXCEPT !.chosen = "required"]

CalculationRuleSettings ==
  Section("organization.read", "organization.manage", CalculationRuleForm)

\* An assignment that is open may be ended by whoever sees it, as far as the page goes.
LaborSystemSettings ==
  [Section("employee.read", "employee.manage", LaborSystemForm)
     EXCEPT !.chosen = "required", !.acts = "employee.read"]

MonthlySummarySettings == ReadOnly("employee.read", "preset")

OvertimeWarningSettings == ReadOnly("employee.read", "preset")

PeriodSummarySettings == ReadOnly("employee.read", "required")

\* A month is closed and reopened from its row: the month that is chosen, for the employee
\* of the row.
ClosingReadinessSettings ==
  [ReadOnly("attendance.close", "preset")
     EXCEPT !.acts = "attendance.close", !.actsOn = "choice"]

LeaveTypeSettings == Section("leave.manage", "leave.manage", LeaveTypeForm)

LeaveGrantSettings ==
  [Section("leave.manage", "leave.manage", LeaveGrantForm) EXCEPT !.imports = TRUE]

LeaveRegisterSettings == ReadOnly("employee.read", "preset")

LeaveExpirationSettings == ReadOnly("employee.read", "preset")

\* An entry is taken back from its row.
LeaveLedgerSettings ==
  [Section("leave.manage", "leave.manage", LeaveLedgerForm)
     EXCEPT !.chosen = "required", !.acts = "leave.manage"]

RequestTypeSettings ==
  [Section("request.manage", "request.manage", RequestTypeForm) EXCEPT !.imports = TRUE]

-----------------------------------------------------------------------------
(* AdminConsole.tsx; names of sections are written without hyphens. *)

\* modulesFor: the modules in the order of their tabs, the sections in that of the menu.
Modules ==
  <<[key |-> "organization", sections |-> <<"organizations", "sites", "departments">>],
    [key |-> "employee", sections |-> <<"employees", "scopes">>],
    [key |-> "work", sections |-> <<"categories", "patterns", "cycles", "schedules", "rules",
                                    "laborSystems">>],
    [key |-> "monthly", sections |-> <<"summaries", "overtimeWarnings", "periods", "readiness">>],
    [key |-> "leave", sections |-> <<"leaveTypes", "grantRules", "register", "expirations",
                                     "ledger">>],
    [key |-> "request", sections |-> <<"requestTypes">>]>>

\* render; what a section requires is what its list is read with.
SectionOf ==
  [organizations |-> OrganizationSettings, sites |-> SiteSettings,
   departments |-> DepartmentSettings, employees |-> EmployeeSettings,
   scopes |-> UserScopeSettings, categories |-> WorkCategorySettings,
   patterns |-> WorkPatternSettings, cycles |-> WorkCycleSettings,
   schedules |-> WorkScheduleSettings, rules |-> CalculationRuleSettings,
   laborSystems |-> LaborSystemSettings, summaries |-> MonthlySummarySettings,
   overtimeWarnings |-> OvertimeWarningSettings, periods |-> PeriodSummarySettings,
   readiness |-> ClosingReadinessSettings, leaveTypes |-> LeaveTypeSettings,
   grantRules |-> LeaveGrantSettings, register |-> LeaveRegisterSettings,
   expirations |-> LeaveExpirationSettings, ledger |-> LeaveLedgerSettings,
   requestTypes |-> RequestTypeSettings]

\* Links of tabs and menu, and addresses that name nothing.
Addresses ==
  UNION {{<<m.key, s>> : s \in Range(m.sections)} : m \in Range(Modules)} \cup {<<"", "">>}
=============================================================================
