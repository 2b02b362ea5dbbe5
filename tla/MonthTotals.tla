----------------------------- MODULE MonthTotals -----------------------------
(***************************************************************************)
(* The stored calculations of an employee's days and what a month makes of *)
(* them: packages/api/src/attendance/{day,calculation-repository}.ts,      *)
(* monthly/{service,repository}.ts, the calculations that schedule, punch, *)
(* request and monthly services ask for, close and reopen of               *)
(* approval/service.ts, and payrollCsv of integration/export-service.ts.   *)
(*                                                                         *)
(* A transaction reads what a day is calculated from, then the latest      *)
(* version of the day, and adds a version when the fingerprint differs;    *)
(* other transactions may commit between these steps.  A punch holds the   *)
(* employee's row (lockEmployee, FOR UPDATE) all the while; a transaction  *)
(* that inserts a version takes a key-share lock of that row, for the      *)
(* foreign key.  The transactions that wait for each other's version and   *)
(* lock are told apart by the database, which aborts one of them.          *)
(*                                                                         *)
(* The daily requests that must be approved before a month is closed are   *)
(* those of AttendanceMonth; here a close succeeds whenever the month is   *)
(* not closed.  One month; the rules, once changed, apply to all its days; *)
(* each day has its schedule row from the start (no generated schedules),  *)
(* and punches are corrected by the employee only (no correction requests).*)
(***************************************************************************)
EXTENDS WorkCalculation, TLC

CONSTANTS
  Days,          \* the days of the month, in order
  Clients,       \* transactions that may run at a time
  Nobody,
  FirstInputs,   \* [Days -> input]: what the days may look like at first
  PunchTimes,    \* instants at which a punch or a correction may occur
  Schedules,     \* <<schedule, category>>: what an administrator may set
  Limits,        \* instants a request may be approved until
  RuleVersions,  \* the rule versions that may come into effect
  MaxChanges,    \* bound: transactions that begin
  MaxCloses      \* bound: snapshots

ASSUME MonthAssumption ==
  /\ Days \subseteq Nat /\ Days # {} /\ IsFiniteSet(Days)
  /\ Nobody \notin Clients
  /\ FirstInputs \subseteq [Days -> CalculationInput]
  /\ PunchTimes \subseteq Int /\ Limits \subseteq Int
  /\ Schedules \subseteq WorkSchedule \X WorkCategory
  /\ RuleVersions \subseteq CalculationRules
  /\ MaxChanges \in Nat /\ MaxCloses \in Nat

VARIABLES
  day,        \* [Days -> input]: the committed events, schedule and approvals
  rules,      \* the rule version in effect
  rows,       \* attendance_calculations: the latest version of each day, which is all that is read
  closing,    \* monthly_closings: "none" (no row), "closed" or "open"
  snapshots,  \* monthly_closing_snapshots: the totals, by sequence
  employee,   \* who holds the employee's row for update, or Nobody
  tx,         \* the open transactions
  begun,      \* bound: transactions that have begun
  missed,     \* history: <<client, day>>: what the client has read of the day was changed since
  replaced,   \* history: <<client, day>>: the version the client was satisfied with is not the
              \* latest any more
  stale,      \* history: days whose latest version was calculated from what had changed since,
              \* or added while a change was under way that the one before it had satisfied
  underway    \* history: transactions that were open when the month was closed

dataVars == <<day, rules, rows, closing, snapshots>>
historyVars == <<missed, replaced, stale, underway>>
vars == <<dataVars, employee, tx, begun, historyVars>>

NoInput == [events |-> <<>>]

NoTx == [op |-> "none", at |-> "idle", of |-> {}, days |-> {}, own |-> NoInput,
         read |-> NoInput, version |-> 0, pending |-> {}, totals |-> <<>>]

Row(version, input) == [version |-> version, input |-> input, totals |-> Calculate(input)]

Init ==
  /\ rules \in RuleVersions
  /\ day \in FirstInputs
  /\ \A d \in Days : day[d].rules = rules
  /\ rows = [d \in Days |-> Row(1, day[d])]
  /\ closing = "none" /\ snapshots = <<>>
  /\ employee = Nobody
  /\ tx = [c \in Clients |-> NoTx]
  /\ begun = 0
  /\ missed = {} /\ replaced = {} /\ stale = {} /\ underway = {}

-----------------------------------------------------------------------------
(***************************************************************************)
(* What a transaction sees.                                                *)
(***************************************************************************)
Today(c) == Min(tx[c].days)

Open(c) == tx[c].op # "none"

\* Who holds the key-share lock of the employee's row.
Shares(c) == tx[c].pending # {} /\ tx[c].at # "share"

\* buildContext: the committed inputs of a day, with the change the transaction is making.
Seen(c, d) ==
  LET own == tx[c].own IN
  [day[d] EXCEPT
     !.rules = rules,
     !.events = IF tx[c].op = "record" THEN own.events ELSE @,
     !.schedule = IF tx[c].op = "schedule" THEN own.schedule ELSE @,
     !.category = IF tx[c].op = "schedule" THEN own.category ELSE @,
     !.limit = IF tx[c].op = "approve" THEN Max({@, own.limit}) ELSE @]

\* Mutant: the approvals are no part of the fingerprint.
FingerprintOfPunches(input) == [input EXCEPT !.limit = Unset, !.holidayWork = FALSE]

\* fingerprintSource: all that the calculation reads, the rules by a version that no other has.
Fingerprint(input) == input

Begin(c, op, days, own) ==
  /\ ~Open(c) /\ begun < MaxChanges /\ begun' = begun + 1
  /\ tx' = [tx EXCEPT ![c] = [NoTx EXCEPT !.op = op, !.at = "read", !.of = days,
                                          !.days = days, !.own = own]]

-----------------------------------------------------------------------------
(***************************************************************************)
(* The operations that calculate days again.                               *)
(***************************************************************************)
\* A punch that is moved stands where its new instant puts it.
Moved(events, i, at) ==
  LET rest == RemoveAt(events, i)
      before == {j \in DOMAIN rest : rest[j].at < at}
  IN  InsertAt(rest, Cardinality(before) + 1, [events[i] EXCEPT !.at = at])

Free(events) == PunchTimes \ {events[i].at : i \in DOMAIN events}

Added(events, type, at) == Append(events, [type |-> type, at |-> at])

\* A punch after the others, or the outcome of a correction that voids or moves one.
Recordings(events) ==
  {Added(events, type, at) :
     type \in {t \in PunchTypes : Accepts(Summary(events).state, t)},
     at \in {t \in Free(events) : \A i \in DOMAIN events : events[i].at < t}}
  \union {RemoveAt(events, i) : i \in DOMAIN events}
  \union {Moved(events, i, at) : i \in DOMAIN events, at \in Free(events)}

\* recordAttendanceEvent and correct: the day is read with the employee's row locked.
Record(c, d, events) ==
  /\ employee = Nobody
  /\ \A x \in Clients \ {c} : ~Shares(x)
  /\ closing # "closed"
  /\ events \in Recordings(day[d].events)
  /\ employee' = c
  /\ Begin(c, "record", {d}, [day[d] EXCEPT !.events = events])
  /\ UNCHANGED <<dataVars, historyVars>>

\* upsertWorkSchedule: the closing is not looked at.
PutSchedule(c, d, s) ==
  /\ \A x \in Clients : ~(tx[x].op = "schedule" /\ d \in tx[x].of)
  /\ Begin(c, "schedule", {d}, [day[d] EXCEPT !.schedule = s[1], !.category = s[2]])
  /\ UNCHANGED <<dataVars, employee, historyVars>>

\* applyToAttendance: an overtime request that covers the day is approved.
ApproveOvertime(c, d, limit) ==
  /\ closing # "closed"
  /\ Begin(c, "approve", {d}, [day[d] EXCEPT !.limit = limit])
  /\ UNCHANGED <<dataVars, employee, historyVars>>

\* Mutant: the days that are closed are calculated again.
RecalculateAll(c) ==
  /\ Begin(c, "recalculate", Days, NoInput)
  /\ UNCHANGED <<dataVars, employee, historyVars>>

\* recalculate: what is closed when it begins is skipped, which leaves nothing of the month.
Recalculate(c) ==
  /\ closing # "closed"
  /\ Begin(c, "recalculate", Days, NoInput)
  /\ UNCHANGED <<dataVars, employee, historyVars>>

\* createCalculationRuleVersion: no day is calculated again.
CreateRuleVersion(version) ==
  /\ begun < MaxChanges /\ begun' = begun + 1
  /\ version # rules /\ rules' = version
  /\ UNCHANGED <<day, rows, closing, snapshots, employee, tx, historyVars>>

-----------------------------------------------------------------------------
(***************************************************************************)
(* recalculateWorkDay, for each day of the transaction in turn.            *)
(***************************************************************************)
Advance(c, t) ==
  LET rest == tx[c].days \ {Today(c)} IN
  tx' = [tx EXCEPT ![c] = [t EXCEPT !.days = rest, !.at = IF rest = {} THEN "commit" ELSE "read"]]

ReadDay(c) ==
  /\ tx[c].at = "read" /\ tx[c].days # {}
  /\ tx' = [tx EXCEPT ![c].read = Seen(c, Today(c)), ![c].at = "latest"]
  /\ UNCHANGED <<dataVars, employee, begun, historyVars>>

\* findLatest: the day is done when its latest version has the fingerprint.
FindLatest(c) ==
  /\ tx[c].at = "latest"
  /\ LET latest == rows[Today(c)] IN
     IF Fingerprint(latest.input) = Fingerprint(tx[c].read)
     THEN Advance(c, tx[c])
     ELSE tx' = [tx EXCEPT ![c].version = latest.version + 1, ![c].at = "insert"]
  /\ UNCHANGED <<dataVars, employee, begun, historyVars>>

\* Another transaction has inserted the version and not committed it.
Contends(c, x) == \E p \in tx[x].pending : p.day = Today(c) /\ p.row.version = tx[c].version

Taken(c) == rows[Today(c)].version >= tx[c].version

InsertVersion(c) ==
  LET inserted == [day |-> Today(c), row |-> Row(tx[c].version, tx[c].read)]
      t == [tx[c] EXCEPT !.pending = @ \union {inserted}]
  IN  /\ tx[c].at = "insert"
      /\ ~Taken(c) /\ \A x \in Clients \ {c} : ~Contends(c, x)
      /\ IF Shares(c) \/ employee \in {c, Nobody} THEN Advance(c, t)
         ELSE tx' = [tx EXCEPT ![c] = [t EXCEPT !.at = "share"]]
      /\ UNCHANGED <<dataVars, employee, begun, historyVars>>

\* The lock of the foreign key is granted.
Share(c) ==
  /\ tx[c].at = "share" /\ employee = Nobody
  /\ Advance(c, tx[c])
  /\ UNCHANGED <<dataVars, employee, begun, historyVars>>

Waits(c, x) ==
  \/ tx[c].at = "insert" /\ Contends(c, x)
  \/ tx[c].at = "share" /\ employee = x

OfOthers(pairs, c) == {m \in pairs : m[1] # c}

Ended(c) ==
  /\ tx' = [tx EXCEPT ![c] = NoTx]
  /\ employee' = IF employee = c THEN Nobody ELSE employee

\* The version is taken, or the database breaks a deadlock: the transaction fails.
Fail(c) ==
  /\ \/ tx[c].at = "insert" /\ Taken(c)
     \/ \E x \in Clients \ {c} : Waits(c, x) /\ Waits(x, c)
  /\ Ended(c)
  /\ missed' = OfOthers(missed, c) /\ replaced' = OfOthers(replaced, c)
  /\ underway' = underway \ {c}
  /\ UNCHANGED <<dataVars, begun, stale>>

HasRead(x, d) == d \in tx[x].of /\ (d \notin tx[x].days \/ (d = Today(x) /\ tx[x].at # "read"))

\* The inputs of a day as they are once the transaction commits.
Changed(c, d) == [Seen(c, d) EXCEPT !.rules = day[d].rules]

Changes(c, d) == d \in tx[c].of /\ Changed(c, d) # day[d]

Pending(c, d) == {p \in tx[c].pending : p.day = d}

\* The transaction needed no version of the day: the latest had the fingerprint.
Satisfied(x, d) == d \in tx[x].of \ tx[x].days /\ Pending(x, d) = {}

Commit(c) ==
  /\ tx[c].at = "commit" /\ tx[c].op \in {"record", "schedule", "approve", "recalculate"}
  /\ day' = [d \in Days |-> IF d \in tx[c].of THEN Changed(c, d) ELSE day[d]]
  /\ rows' = [d \in Days |-> IF Pending(c, d) = {} THEN rows[d]
                             ELSE (CHOOSE p \in Pending(c, d) : TRUE).row]
  /\ Ended(c)
  /\ missed' = OfOthers(missed, c)
       \union {m \in (Clients \ {c}) \X Days : Changes(c, m[2]) /\ HasRead(m[1], m[2])}
  /\ replaced' = OfOthers(replaced, c)
       \union {m \in (Clients \ {c}) \X Days : Pending(c, m[2]) # {} /\ Satisfied(m[1], m[2])}
  /\ stale' = {d \in Days : IF Pending(c, d) # {} THEN <<c, d>> \in missed
                             ELSE d \in stale \/ <<c, d>> \in replaced}
  /\ underway' = underway \ {c}
  /\ UNCHANGED <<rules, closing, snapshots, begun>>

-----------------------------------------------------------------------------
(***************************************************************************)
(* close and reopen.  The row of the closing is locked from saveClosing    *)
(* on, and the totals are listed after it.                                 *)
(***************************************************************************)
\* listDailyTotals: the latest version of each day.
DailyTotals == [d \in Days |-> rows[d].totals]

Live == SummarizeMonth(Days, DailyTotals)

ReadClosing(c, op) ==
  /\ op = "close" => closing # "closed" /\ Len(snapshots) < MaxCloses
  /\ op = "reopen" => closing = "closed"
  /\ Begin(c, op, {}, NoInput)
  /\ UNCHANGED <<dataVars, employee, historyVars>>

SaveClosing(c) ==
  /\ tx[c].op \in {"close", "reopen"} /\ tx[c].at = "read"
  /\ \A x \in Clients : ~(tx[x].op \in {"close", "reopen"} /\ tx[x].at = "commit")
  /\ tx' = [tx EXCEPT ![c].at = "commit",
                      ![c].totals = IF tx[c].op = "close" THEN Live ELSE <<>>]
  /\ UNCHANGED <<dataVars, employee, begun, historyVars>>

CommitClosing(c) ==
  /\ tx[c].op \in {"close", "reopen"} /\ tx[c].at = "commit"
  /\ IF tx[c].op = "close"
     THEN /\ closing' = "closed" /\ snapshots' = Append(snapshots, tx[c].totals)
          /\ underway' = {x \in Clients \ {c} : Open(x)}
     ELSE closing' = "open" /\ UNCHANGED snapshots /\ underway' = underway \ {c}
  /\ Ended(c)
  /\ UNCHANGED <<day, rules, rows, begun, missed, replaced, stale>>

\* Mutant: what is live now, whether the month is closed or not.
PayrollLive == Live

PayColumns ==
  {"worked", "outsideSchedule", "night", "nonWorkingDay", "leave", "absence", "workedDays",
   "recognizedOvertime", "unapprovedOvertime", "approvedHoliday", "unapprovedHoliday"}

\* payrollCsv: coalesce takes the live total for what the snapshot does not show.
Payroll ==
  LET Shown(k) == closing = "closed" /\ Last(snapshots)[k] # Unset
  IN  [k \in PayColumns |-> IF Shown(k) THEN Last(snapshots)[k] ELSE Live[k]]

-----------------------------------------------------------------------------
Operate(c) ==
  \/ \E d \in Days : \E events \in Recordings(day[d].events) : Record(c, d, events)
  \/ \E d \in Days, s \in Schedules : PutSchedule(c, d, s)
  \/ \E d \in Days, limit \in Limits : ApproveOvertime(c, d, limit)
  \/ Recalculate(c)
  \/ \E op \in {"close", "reopen"} : ReadClosing(c, op)

Continue(c) ==
  \/ ReadDay(c) \/ FindLatest(c) \/ InsertVersion(c) \/ Share(c) \/ Fail(c) \/ Commit(c)
  \/ SaveClosing(c) \/ CommitClosing(c)

Next ==
  \/ \E c \in Clients : Operate(c) \/ Continue(c)
  \/ \E version \in RuleVersions : CreateRuleVersion(version)

Spec == Init /\ [][Next]_vars

-----------------------------------------------------------------------------
(***************************************************************************)
(* Properties.                                                             *)
(***************************************************************************)
\* What a day is calculated from, the rules apart.
Inputs(input) == [k \in DOMAIN input \ {"rules"} |-> input[k]]

\* The latest version of a day is that of its punches, schedule and approvals, unless one of
\* them was committed between the reading of the day and the reading of its versions; or a
\* transaction that needed no version (one that was overtaken had its inputs) was still open
\* when another added one.
CurrentUnlessOvertaken ==
  \A d \in Days \ stale : Inputs(rows[d].input) = Inputs(day[d])

\* The calculations of a closed month change only where the schedule does (whose service does not
\* look at the closing), or through a transaction that was open already when it was closed.
ClosedDaysStand ==
  [][closing = "closed" /\ rows' # rows =>
       \E c \in Clients : /\ Open(c) /\ tx'[c] = NoTx
                         /\ \/ c \in underway
                            \/ tx[c].op = "schedule"]_vars

\* What is exported for a closed month does not change while it is closed, but for the totals
\* that the snapshot does not show.
ClosedPayStands ==
  [][closing = "closed" /\ closing' = "closed" /\ snapshots' = snapshots =>
       \A k \in PayColumns : Last(snapshots)[k] # Unset => Payroll'[k] = Payroll[k]]_vars

\* What a closed month says stands: its days, and what is exported of it.
WhatIsClosedStands == ClosedDaysStand /\ ClosedPayStands

\* No minute of a day counts twice: what was worked and what was a break make up the attendance
\* (and the gaps that count as breaks), what is recognized and what is not make up the work
\* outside the schedule however it is rounded, and a night or legal part is within its whole.
DayAddsUp ==
  \A d \in Days : LET t == rows[d].totals
                      input == rows[d].input
                  IN
    /\ input.rules.unit = 0 =>
         /\ t.worked + t.break - t.attended \in
              IF input.category.gap = "break" THEN Nat ELSE {0}
         /\ t.withinSchedule + t.outsideSchedule = t.worked
    /\ t.recognizedOvertime # Unset /\ input.schedule.dayType \in PlannedDays =>
         t.recognizedOvertime + t.unapprovedOvertime = t.outsideSchedule
    /\ t.legalOvertime <= t.worked /\ t.nightOvertime <= t.legalOvertime
    /\ t.nightHoliday <= t.nonWorkingDay /\ t.nightOvertime <= t.night
=============================================================================
