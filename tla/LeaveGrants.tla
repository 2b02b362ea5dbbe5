----------------------------- MODULE LeaveGrants -----------------------------
(***************************************************************************)
(* Automatic grants of one leave type: packages/api/src/leave/             *)
(* {grant-scheduler,grant-service,repository}.ts and                       *)
(* packages/domain/src/leave/grant.ts.                                     *)
(*                                                                         *)
(* The command that runs every day and an administrator's button run the   *)
(* same code: the days from the last one recorded to today, one            *)
(* transaction each, whose first statement claims the day.  A run that     *)
(* fails leaves the rest to the next.  Meanwhile administrators grant in   *)
(* bulk, import grants and change the type and its rules.                  *)
(*                                                                         *)
(* Days are numbered; MonthDay and YearOf are their calendar, and rules    *)
(* count whole years of service.  The employees are those whose status is  *)
(* active all the while; who retires or comes later is left out.           *)
(***************************************************************************)
EXTENDS Naturals, FiniteSets, FiniteSetsExt

CONSTANTS
  Employees,
  Organizations, \* the sets of employees that are granted to in bulk, or imported for
  HiredOn,       \* the day each employee was hired on, or NoDay
  LastDay,       \* bound: the last day
  MonthDay,      \* month and day of each day of the calendar
  YearOf,
  FixedDay,      \* grant_fixed_month and grant_fixed_day
  Settings,      \* bound: the settings an administrator gives the type
  FirstRule, Rules,  \* bound: the rule there is and those that may be created
  MaxCatchUp,    \* maximumCatchUpDays
  HandDays,      \* bound: the days of bulk grants and imports
  MaxByHand,     \* bound: bulk grants and imports
  MaxFailures,   \* bound: failures and crashes
  Runners        \* runs that may be under way at a time

Days == 1 .. LastDay
NoDay == 0
Bases == {"hire_anniversary", "fixed_date"}
LeaveTypeRows == [enabled : BOOLEAN, basis : Bases, start : Days]
GrantRuleRows == [service : Nat, minutes : Nat \ {0}]

ASSUME GrantsAssumption ==
  /\ Organizations \subseteq SUBSET Employees /\ HandDays \subseteq Days
  /\ LastDay \in Nat /\ MaxCatchUp \in Nat \ {0} /\ MaxByHand \in Nat /\ MaxFailures \in Nat
  /\ MonthDay \in [Days -> Nat] /\ YearOf \in [Days -> Nat]
  /\ HiredOn \in [Employees -> Days \union {NoDay}]
  /\ Settings \subseteq LeaveTypeRows
  /\ {FirstRule} \union Rules \subseteq GrantRuleRows

\* The fixed day comes within every MaxCatchUp days (0040 allows 1 to 28; the default is 400).
ASSUME CatchUpAssumption ==
  \A d \in Days : d + MaxCatchUp - 1 \in Days =>
    \E f \in d .. d + MaxCatchUp - 1 : MonthDay[f] = FixedDay

VARIABLES
  today,    \* the business date of the workspace
  type,     \* leave_types: auto_grant_enabled, grant_basis, auto_grant_from
  rules,    \* leave_grant_rules
  runs,     \* leave_grant_runs: the days that were processed
  grants,   \* grants by rule or import in leave_ledger_entries
  byHand,   \* number of bulk grants and imports
  failures, \* number of failures and crashes
  runner,   \* where each run stands and what it has read
  bases,    \* history: the bases the type has had
  latest    \* history: the latest first day it had while enabled and no day was recorded

tableVars == <<type, rules, runs, grants>>
histories == <<bases, latest>>
vars == <<today, tableVars, byHand, failures, runner, histories>>

GrantRows ==
  [employee : Employees, day : Days, minutes : Nat \ {0}, source : {"rule", "import"}]

\* What a run has read of the type, and what it has yet to do.
Idle    == [pc |-> "idle"]
Started == [pc : {"started"}, type : Settings, today : Days]
Running == [pc : {"running", "claimed", "planned"}, basis : Bases,
            dates : (SUBSET Days) \ {{}}, plan : SUBSET GrantRows]

TypeOK ==
  /\ today \in Days /\ type \in Settings /\ runs \subseteq Days /\ byHand \in 0 .. MaxByHand
  /\ failures \in 0 .. MaxFailures
  /\ rules \subseteq {FirstRule} \union Rules
  /\ grants \subseteq GrantRows
  /\ bases \subseteq Bases /\ latest \in Nat
  /\ runner \in [Runners -> {Idle} \union Started \union Running]

Init ==
  /\ today = 1 /\ type \in Settings
  /\ rules = {FirstRule} /\ runs = {} /\ grants = {} /\ byHand = 0 /\ failures = 0
  /\ runner = [c \in Runners |-> Idle]
  /\ bases = {type.basis} /\ latest = IF type.enabled THEN type.start ELSE 0

-----------------------------------------------------------------------------
(***************************************************************************)
(* What is granted on a day.                                               *)
(***************************************************************************)
\* Mutant: the anniversary itself does not complete the year.
ServiceBefore(hired, day) ==
  IF MonthDay[day] > MonthDay[hired] THEN YearOf[day] - YearOf[hired]
  ELSE YearOf[day] - YearOf[hired] - 1

\* serviceMonthsBetween, in years.
ServiceBetween(hired, day) ==
  IF MonthDay[day] >= MonthDay[hired] THEN YearOf[day] - YearOf[hired]
  ELSE YearOf[day] - YearOf[hired] - 1

\* grantMinutesFor: the rules of the longest service that was reached.
Reached(hired, day, rs) ==
  LET reached == {r \in rs : r.service <= ServiceBetween(hired, day)}
  IN  {r \in reached : \A q \in reached : q.service <= r.service}

\* planLeaveGrants: the service of those without a date of hire cannot be counted.
Plan(basis, day, rs, es) ==
  {[employee |-> y[1], day |-> day, minutes |-> y[2].minutes, source |-> "rule"] :
     y \in {x \in {e \in es : HiredOn[e] # NoDay} \X rs :
       /\ basis = "hire_anniversary" => MonthDay[HiredOn[x[1]]] = MonthDay[day]
       /\ HiredOn[x[1]] <= day
       /\ x[2] \in Reached(HiredOn[x[1]], day, rs)}}

\* listBulkGrantedEmployees; the unique index has the same rows.
AlreadyGranted(day) == {g.employee : g \in {x \in grants : x.day = day}}

\* leaveGrantDatesBetween.
DatesBetween(basis, from, through) ==
  {d \in from .. through : basis = "fixed_date" => MonthDay[d] = FixedDay}

\* findLastGrantRun
FindLastGrantRun == Max(runs)

\* Mutant: the day after the last one is taken for done.
PendingAfterNext(t, now) ==
  LET from    == IF runs = {} THEN t.start ELSE FindLastGrantRun + 2
      through == Min({from + MaxCatchUp - 1, now})
  IN  DatesBetween(t.basis, from, through)

\* pendingDatesOf: from the day after the last one recorded, at most MaxCatchUp days.
Pending(t, now) ==
  LET from    == IF runs = {} THEN t.start ELSE FindLastGrantRun + 1
      through == Min({from + MaxCatchUp - 1, now})
  IN  DatesBetween(t.basis, from, through)

NoPreview == [day |-> 0, grants |-> {}]

\* preview: the next day that is pending and who would be granted what on it.
Preview(t, now) ==
  LET dates == Pending(t, now)
      day   == Min(dates)
  IN  IF dates = {} THEN NoPreview
      ELSE [day |-> day,
            grants |-> {g \in Plan(t.basis, day, rules, Employees) :
                          g.employee \notin AlreadyGranted(day)}]

-----------------------------------------------------------------------------
(***************************************************************************)
(* A run.                                                                  *)
(***************************************************************************)
\* listAutoGrantLeaveTypes
AutoGranted(t) == t.enabled

\* The type as it is, and the business date of the run.
StartRun(c) ==
  /\ runner[c] = Idle /\ AutoGranted(type)
  /\ runner' = [runner EXCEPT ![c] =
       [pc |-> "started", type |-> type, today |-> today]]
  /\ UNCHANGED <<today, tableVars, byHand, failures, histories>>

Continue(c, basis, dates) ==
  runner' = [runner EXCEPT ![c] =
    IF dates = {} THEN Idle
    ELSE [pc |-> "running", basis |-> basis, dates |-> dates, plan |-> {}]]

PlanDates(c) ==
  /\ runner[c].pc = "started"
  /\ Continue(c, runner[c].type.basis, Pending(runner[c].type, runner[c].today))
  /\ UNCHANGED <<today, tableVars, byHand, failures, histories>>

DayOf(c) == Min(runner[c].dates)

\* The run that inserted the row of the day and has not ended.
Holds(c, day) == runner[c].pc \in {"claimed", "planned"} /\ DayOf(c) = day

\* claimGrantRun: wait for another run that has claimed the day; go on to the next day when
\* it is recorded.
Claim(c) ==
  /\ runner[c].pc = "running"
  /\ ~\E x \in Runners : Holds(x, DayOf(c))
  /\ IF DayOf(c) \in runs THEN Continue(c, runner[c].basis, runner[c].dates \ {DayOf(c)})
     ELSE runner' = [runner EXCEPT ![c].pc = "claimed"]
  /\ UNCHANGED <<today, tableVars, byHand, failures, histories>>

\* The rules, the employees and who has been granted.
ReadPlan(c) ==
  LET r == runner[c]
      all == Plan(r.basis, DayOf(c), rules, Employees)
  IN
  /\ r.pc = "claimed"
  /\ runner' = [runner EXCEPT ![c].pc = "planned",
       ![c].plan = {g \in all : g.employee \notin AlreadyGranted(DayOf(c))}]
  /\ UNCHANGED <<today, tableVars, byHand, failures, histories>>

\* leave_ledger_entries_bulk_grant_once_key.
Conflicts(rows) == \E g \in rows : g.employee \in AlreadyGranted(g.day)

\* Mutant: a day on which nobody is granted anything is not recorded.
RecordIfGranted(day, rows) == IF rows = {} THEN runs ELSE runs \union {day}

\* The row that was inserted by the claim.
Record(day, rows) == runs \union {day}

\* Grants and record of the day commit together.
CommitDay(c) ==
  LET r == runner[c]
      d == DayOf(c)
  IN
  /\ r.pc = "planned" /\ ~Conflicts(r.plan)
  /\ grants' = grants \union r.plan
  /\ runs' = Record(d, r.plan)
  /\ Continue(c, r.basis, r.dates \ {d})
  /\ UNCHANGED <<today, type, rules, byHand, failures, histories>>

\* The unique violation ends the run.
RefuseDay(c) ==
  /\ runner[c].pc = "planned" /\ Conflicts(runner[c].plan)
  /\ runner' = [runner EXCEPT ![c] = Idle]
  /\ UNCHANGED <<today, tableVars, byHand, failures, histories>>

\* Any other error or a crash ends the run with its transaction undone.
Fail(c) ==
  /\ runner[c] # Idle /\ failures < MaxFailures
  /\ runner' = [runner EXCEPT ![c] = Idle]
  /\ failures' = failures + 1
  /\ UNCHANGED <<today, tableVars, byHand, histories>>

-----------------------------------------------------------------------------
(***************************************************************************)
(* Administrators.                                                         *)
(***************************************************************************)
\* grantInBulk, for the employees of one organization or all.
GrantInBulk(basis, day, es) ==
  /\ byHand < MaxByHand
  /\ grants' = grants \union
       {g \in Plan(basis, day, rules, es) : g.employee \notin AlreadyGranted(day)}
  /\ byHand' = byHand + 1
  /\ UNCHANGED <<today, type, rules, runs, failures, runner, histories>>

\* importCsv: all rows or none.
ImportCsv(day, es) ==
  LET rows == {[employee |-> e, day |-> day, minutes |-> FirstRule.minutes,
                source |-> "import"] : e \in es}
  IN
  /\ byHand < MaxByHand /\ ~Conflicts(rows)
  /\ grants' = grants \union rows
  /\ byHand' = byHand + 1
  /\ UNCHANGED <<today, type, rules, runs, failures, runner, histories>>

\* createGrantRule; the unique index allows one rule for a length of service.
InsertGrantRule(r) ==
  /\ \A q \in rules : q.service # r.service
  /\ rules' = rules \union {r}

CreateRule(r) ==
  /\ InsertGrantRule(r)
  /\ UNCHANGED <<today, type, runs, grants, byHand, failures, runner, histories>>

UpdateLeaveType(s) ==
  /\ s # type
  /\ type' = s
  /\ bases' = bases \union {s.basis}
  /\ latest' = IF s.enabled /\ runs = {} /\ s.start > latest THEN s.start ELSE latest
  /\ UNCHANGED <<today, rules, runs, grants, byHand, failures, runner>>

NextDay ==
  /\ today < LastDay
  /\ today' = today + 1
  /\ UNCHANGED <<tableVars, byHand, failures, runner, histories>>

Run(c) ==
  StartRun(c) \/ PlanDates(c) \/ Claim(c) \/ ReadPlan(c) \/ CommitDay(c) \/ RefuseDay(c) \/ Fail(c)

Administer ==
  \/ \E day \in HandDays, es \in Organizations :
       ImportCsv(day, es) \/ \E basis \in Bases : GrantInBulk(basis, day, es)
  \/ \E r \in Rules : CreateRule(r)
  \/ \E s \in Settings : UpdateLeaveType(s)

Next == NextDay \/ Administer \/ \E c \in Runners : Run(c)

\* The command is started again and again, and a run that does not fail goes on.
Fairness == WF_vars(NextDay) /\ \A c \in Runners : WF_vars(Run(c))

Spec == Init /\ [][Next]_vars /\ Fairness
-----------------------------------------------------------------------------
(***************************************************************************)
(* Properties.                                                             *)
(***************************************************************************)
\* The days recorded leave no gap: whatever fails, overlaps or is caught up late, from the
\* first day of the type on every day before one that is recorded is recorded, save those
\* that are not the fixed day of a fixed_date type ("次の実行は失敗した日から続く",
\* grant-scheduler.ts:233).  Days before the latest of several first days are left out: two
\* runs that overlap such a change begin with different ones.
NothingPassedOver ==
  \A d \in Days \ runs :
    latest <= d /\ (\E b \in runs : d < b) =>
      "fixed_date" \in bases /\ MonthDay[d] # FixedDay

\* Of a day that is recorded nobody is missing: every employee whose hire is dated and who
\* completes a year that a rule rewards has a grant, from whatever run, bulk grant or import
\* it came ("付与漏れに誰も気付けない", grant-service.ts:33).
AnniversaryIsGranted ==
  \A d \in runs, e \in Employees :
    /\ HiredOn[e] # NoDay /\ HiredOn[e] < d /\ MonthDay[HiredOn[e]] = MonthDay[d]
    /\ FirstRule.service <= YearOf[d] - YearOf[HiredOn[e]]
    => e \in AlreadyGranted(d)

\* The two together: neither a day nor an employee is passed over.
NobodyIsMissed == NothingPassedOver /\ AnniversaryIsGranted

\* Once its settings stay, the preview shows nothing left: everything up to today is
\* processed, however many runs failed ("止まっていた期間は、次に動いたときに日ごとに追いつく", grant-scheduler.ts:8).
CatchesUp ==
  \A s \in Settings :
    <>[](type = s /\ AutoGranted(s)) => <>[](Preview(type, today) = NoPreview)
=============================================================================
