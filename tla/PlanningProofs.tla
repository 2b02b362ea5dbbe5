------------------------------- MODULE PlanningProofs -------------------------------
(***************************************************************************)
(* Proofs about what is planned for employees ahead of time: the leave     *)
(* that is granted (LeaveGrants) and the schedules that are generated      *)
(* (Schedules), for any calendar, rules, cycles, employees and number of   *)
(* runs.  Neither part cites a lemma of the other.                         *)
(*                                                                         *)
(* Grants: what a run has yet to do is decided before it claims a day, and *)
(* other runs record days meanwhile.  Every day before one that it has yet *)
(* to do is one it does itself, or is recorded, or may be skipped; that    *)
(* stays true, for days are never taken back.  So the smallest of its days *)
(* leaves no gap when it is recorded.                                      *)
(*                                                                         *)
(* Schedules: a generation reads assignments, cycles, categories and rows  *)
(* at different times, each while others change them.  What it has read    *)
(* stays good because settings only grow: a cycle that had all its days    *)
(* keeps them, a version that was in effect stays the only one, and a row  *)
(* that was there is still there.                                          *)
(***************************************************************************)
EXTENDS LeaveGrants, Schedules, FiniteSetTheorems, WellFoundedInduction, TLAPS

-----------------------------------------------------------------------------
(***************************************************************************)
(* Grants.                                                                 *)
(***************************************************************************)

RunnerRows == {Idle} \union Started \union Running

\* A day that a fixed_date type does not grant on.
MayBeSkipped(d, had) == "fixed_date" \in had /\ MonthDay[d] # FixedDay

\* An employee completes a year that the first rule rewards.
Earns(e, d) ==
  /\ HiredOn[e] # NoDay /\ HiredOn[e] < d /\ MonthDay[HiredOn[e]] = MonthDay[d]
  /\ FirstRule.service <= YearOf[d] - YearOf[HiredOn[e]]

Has(table, e, d) == \E g \in table : g.day = d /\ g.employee = e

\* What a run has read, as the days, grants and settings stand.
RunFits(r, days, last, had, table) ==
  /\ r.pc = "started" =>
       /\ r.type.basis \in had
       /\ days = {} => r.type.start <= last
  /\ r.pc \in {"running", "claimed", "planned"} =>
       \A x \in r.dates : \A d \in Days \ (days \union r.dates) :
         last <= d /\ d < x => MayBeSkipped(d, had)
  /\ r.pc = "planned" =>
       /\ \A g \in r.plan : g.day = Min(r.dates)
       /\ \A e \in Employees : Earns(e, Min(r.dates)) =>
            Has(table, e, Min(r.dates)) \/ \E g \in r.plan : g.employee = e

RunsFit == \A c \in Runners : RunFits(runner[c], runs, latest, bases, grants)

\* The settings that a run may read are among those remembered.
SettingsFit ==
  /\ FirstRule \in rules
  /\ type.basis \in bases
  /\ runs = {} /\ type.enabled => type.start <= latest

IInv == TypeOK /\ RunsFit /\ SettingsFit /\ NothingPassedOver /\ AnniversaryIsGranted
-----------------------------------------------------------------------------
(* Smallest and largest numbers.                                           *)

LEMMA Smallest ==
  ASSUME NEW S \in SUBSET Nat, S # {}
  PROVE  Min(S) \in S /\ \A y \in S : Min(S) <= y
<1>1. PICK x \in S : \A y \in S : ~(<<y, x>> \in OpToRel(<, Nat))
  BY NatLessThanWellFounded, WFMin
<1>2. \A y \in S : <<y, x>> \in Nat \X Nat /\ <<y, x>>[1] = y /\ <<y, x>>[2] = x
  OBVIOUS
<1>3. \A y \in S : ~(y < x)
  BY <1>1, <1>2 DEF OpToRel
<1>4. \A y \in S : x <= y
  BY <1>3
<1> QED
  BY <1>4 DEF Min

LEMMA LargestOf ==
  ASSUME NEW S \in SUBSET Nat, S # {}, NEW n \in Nat, \A y \in S : y <= n
  PROVE  Max(S) \in S /\ \A y \in S : y <= Max(S)
<1> DEFINE above == {k \in Nat : \A y \in S : y <= k}
           m == Min(above)
<1>1. n \in above
  OBVIOUS
<1>2. m \in above /\ \A k \in above : m <= k
  BY <1>1, Smallest
<1>3. m \in Nat /\ \A y \in S : y <= m
  BY <1>2
<1> HIDE DEF m, above
<1>4. m \in S
  <2> SUFFICES ASSUME m \notin S PROVE FALSE
    OBVIOUS
  <2>1. \A y \in S : y < m
    BY <1>3
  <2>2. m > 0
    <3>1. PICK y \in S : TRUE
      OBVIOUS
    <3> QED
      BY <1>3, <2>1, <3>1
  <2>3. \A y \in S : y \in Nat /\ y <= m - 1
    BY <1>3, <2>1
  <2>4. m - 1 \in above
    BY <1>3, <2>2, <2>3 DEF above
  <2>5. m <= m - 1
    BY <1>2, <2>4
  <2> QED
    BY <1>3, <2>5
<1>5. \A y \in S : m >= y
  BY <1>3
<1>6. Max(S) \in S /\ \A y \in S : Max(S) >= y
  BY <1>4, <1>5 DEF Max
<1> QED
  BY <1>6

LEMMA SmallerOfTwo ==
  ASSUME NEW n \in Nat, NEW m \in Nat
  PROVE  Min({n, m}) \in Nat /\ Min({n, m}) <= n /\ Min({n, m}) <= m
BY Smallest
-----------------------------------------------------------------------------
(* What is planned for a day.                                              *)

LEMMA HasIsGranted ==
  \A e, d : e \in AlreadyGranted(d) <=> Has(grants, e, d)
BY DEF AlreadyGranted, Has

LEMMA PlannedRows ==
  ASSUME NEW basis, NEW day \in Days, NEW rs \in SUBSET GrantRuleRows, NEW es \in SUBSET Employees,
         NEW g \in Plan(basis, day, rs, es)
  PROVE  g \in GrantRows /\ g.day = day
BY DEF Plan, GrantRows, GrantRuleRows

LEMMA EarnedIsPlanned ==
  ASSUME NEW basis, NEW day \in Days, NEW rs \in SUBSET GrantRuleRows, FirstRule \in rs,
         NEW e \in Employees, Earns(e, day)
  PROVE  \E g \in Plan(basis, day, rs, Employees) : g.employee = e
<1> DEFINE years == ServiceBetween(HiredOn[e], day)
           reached == {r \in rs : r.service <= years}
           S == {r.service : r \in reached}
<1>1. /\ HiredOn[e] \in Days /\ MonthDay[day] \in Nat /\ YearOf[day] \in Nat
      /\ YearOf[HiredOn[e]] \in Nat /\ HiredOn[e] <= day
      /\ MonthDay[HiredOn[e]] = MonthDay[day]
  BY GrantsAssumption DEF Earns, Days
<1>2. years = YearOf[day] - YearOf[HiredOn[e]]
  BY <1>1 DEF ServiceBetween
<1>3. FirstRule.service \in Nat /\ FirstRule.service <= years
  BY <1>2 DEF Earns, GrantRuleRows
<1>4. years \in Nat
  BY <1>1, <1>2, <1>3
<1>5. FirstRule \in reached
  BY <1>3
<1>6. /\ S \in SUBSET Nat /\ S # {} /\ \A y \in S : y <= years
      /\ \A q \in reached : q.service \in S /\ q.service \in Nat
  BY <1>5 DEF GrantRuleRows
<1>7. Max(S) \in S /\ \A y \in S : y <= Max(S)
  <2> HIDE DEF S, years
  <2> QED
    BY <1>4, <1>6, LargestOf
<1>8. PICK r \in reached : r.service = Max(S)
  BY <1>7
<1>9. \A q \in reached : q.service <= r.service
  <2> HIDE DEF S
  <2> QED
    BY <1>6, <1>7, <1>8
<1>10. r \in Reached(HiredOn[e], day, rs)
  BY <1>9 DEF Reached
<1> DEFINE x == <<e, r>>
           g == [employee |-> e, day |-> day, minutes |-> r.minutes, source |-> "rule"]
<1>11. x \in {c \in Employees : HiredOn[c] # NoDay} \X rs /\ x[1] = e /\ x[2] = r
  BY DEF Earns
<1> HIDE DEF reached, x
<1>12. x \in {y \in {c \in Employees : HiredOn[c] # NoDay} \X rs :
               /\ basis = "hire_anniversary" => MonthDay[HiredOn[y[1]]] = MonthDay[day]
               /\ HiredOn[y[1]] <= day
               /\ y[2] \in Reached(HiredOn[y[1]], day, rs)}
  BY <1>1, <1>10, <1>11
<1>13. g \in Plan(basis, day, rs, Employees)
  BY <1>11, <1>12 DEF Plan
<1>14. g.employee = e
  OBVIOUS
<1> QED
  BY <1>13, <1>14
-----------------------------------------------------------------------------
(* What the steps of others leave to a run.                                *)

LEMMA FitsStill ==
  ASSUME NEW r, NEW days, NEW last, NEW had, NEW table, RunFits(r, days, last, had, table),
         NEW days2, NEW last2, NEW had2, NEW table2, last \in Nat, last2 \in Nat,
         days \subseteq days2, last <= last2, had \subseteq had2, table \subseteq table2,
         r \in RunnerRows
  PROVE  RunFits(r, days2, last2, had2, table2)
<1>1. r.pc = "started" => r.type.start \in Nat
  BY GrantsAssumption DEF RunnerRows, Idle, Started, Running, LeaveTypeRows, Days
<1>2. r.pc = "started" => r.type.basis \in had2 /\ (days2 = {} => r.type.start <= last2)
  BY <1>1 DEF RunFits
<1>3. r.pc \in {"running", "claimed", "planned"} =>
        \A x \in r.dates : \A d \in Days \ (days2 \union r.dates) :
          last2 <= d /\ d < x => MayBeSkipped(d, had2)
  BY DEF RunFits, MayBeSkipped, Days
<1>4. r.pc = "planned" =>
       /\ \A g \in r.plan : g.day = Min(r.dates)
       /\ \A e \in Employees : Earns(e, Min(r.dates)) =>
            Has(table2, e, Min(r.dates)) \/ \E g \in r.plan : g.employee = e
  BY DEF RunFits, Has
<1> QED
  BY <1>2, <1>3, <1>4 DEF RunFits

LEMMA InitIInv == Init => IInv
<1> SUFFICES ASSUME Init PROVE IInv
  OBVIOUS
<1>1. type \in Settings /\ type.basis \in Bases /\ type.start \in Days
  BY GrantsAssumption DEF Init, LeaveTypeRows
<1>2. TypeOK
  BY <1>1, GrantsAssumption DEF Init, TypeOK, Days, GrantRows
<1>3. RunsFit
  BY DEF Init, RunsFit, RunFits, Idle
<1>4. SettingsFit
  BY <1>1 DEF Init, SettingsFit, Days
<1>5. NothingPassedOver /\ AnniversaryIsGranted
  BY DEF Init, NothingPassedOver, AnniversaryIsGranted
<1> QED
  BY <1>2, <1>3, <1>4, <1>5 DEF IInv

\* A run goes on, and the tables stay.
LEMMA RunMoves ==
  ASSUME IInv, NEW c \in Runners, NEW r \in RunnerRows, runner' = [runner EXCEPT ![c] = r],
         RunFits(r, runs, latest, bases, grants), failures' \in 0 .. MaxFailures,
         UNCHANGED <<today, tableVars, byHand, histories>>
  PROVE  IInv'
<1>1. UNCHANGED <<today, type, rules, runs, grants, byHand, bases, latest>>
  BY DEF tableVars, histories
<1>2. /\ runner' \in [Runners -> RunnerRows]
      /\ runner'[c] = r /\ \A x \in Runners \ {c} : runner'[x] = runner[x]
  BY DEF IInv, TypeOK, RunnerRows
<1>3. TypeOK'
  BY <1>1, <1>2 DEF IInv, TypeOK, RunnerRows
<1>4. RunsFit'
  <2>1. \A x \in Runners : RunFits(runner'[x], runs, latest, bases, grants)
    BY <1>2 DEF IInv, RunsFit
  <2> QED
    BY <1>1, <2>1 DEF RunsFit
<1>5. SettingsFit' /\ NothingPassedOver'
  BY <1>1 DEF IInv, SettingsFit, NothingPassedOver
<1>6. AnniversaryIsGranted'
  BY <1>1 DEF IInv, AnniversaryIsGranted, AlreadyGranted
<1> QED
  BY <1>3, <1>4, <1>5, <1>6 DEF IInv

\* Grants are added, and the runs stay.
LEMMA GrantsGrow ==
  ASSUME IInv, NEW more \in SUBSET GrantRows, grants' = grants \union more,
         byHand' \in 0 .. MaxByHand,
         UNCHANGED <<today, type, rules, runs, failures, runner, histories>>
  PROVE  IInv'
<1>1. UNCHANGED <<bases, latest>>
  BY DEF histories
<1>2. TypeOK'
  BY <1>1 DEF IInv, TypeOK
<1>3. RunsFit'
  <2>1. \A x \in Runners : RunFits(runner[x], runs, latest, bases, grants')
    <3>1. latest \in Nat /\ latest <= latest /\ grants \subseteq grants'
      BY DEF IInv, TypeOK
    <3>2. \A x \in Runners : runner[x] \in RunnerRows
      BY DEF IInv, TypeOK, RunnerRows
    <3> QED
      BY <3>1, <3>2, FitsStill DEF IInv, RunsFit
  <2> QED
    BY <1>1, <2>1 DEF RunsFit
<1>4. SettingsFit' /\ NothingPassedOver'
  BY <1>1 DEF IInv, SettingsFit, NothingPassedOver
<1>5. AnniversaryIsGranted'
  BY DEF IInv, AnniversaryIsGranted, AlreadyGranted
<1> QED
  BY <1>2, <1>3, <1>4, <1>5 DEF IInv

LEMMA IdleFits ==
  Idle \in RunnerRows /\ \A days, last, had, table : RunFits(Idle, days, last, had, table)
BY DEF RunnerRows, Idle, RunFits

LEMMA StartRunIInv == ASSUME IInv, NEW c \in Runners, StartRun(c) PROVE IInv'
<1> DEFINE r == [pc |-> "started", type |-> type, today |-> today]
<1>1. r \in RunnerRows
  BY DEF RunnerRows, Started, IInv, TypeOK
<1>2. r.pc = "started" /\ r.type = type
  OBVIOUS
<1>3. runner' = [runner EXCEPT ![c] = r] /\ failures' \in 0 .. MaxFailures
  BY DEF StartRun, IInv, TypeOK
<1> HIDE DEF r
<1>4. type.basis \in bases /\ (runs = {} => type.start <= latest)
  BY DEF StartRun, AutoGranted, IInv, SettingsFit
<1>5. RunFits(r, runs, latest, bases, grants)
  BY <1>2, <1>4 DEF RunFits
<1> QED
  BY <1>1, <1>3, <1>5, RunMoves DEF StartRun

\* What a run goes on with: either nothing is left, or its days are.
WhatIsLeft(basis, dates) ==
  IF dates = {} THEN Idle
  ELSE [pc |-> "running", basis |-> basis, dates |-> dates, plan |-> {}]

LEMMA GoesOn ==
  ASSUME NEW basis \in Bases, NEW dates \in SUBSET Days, NEW days, NEW last, NEW had, NEW table,
         \A x \in dates : \A d \in Days \ (days \union dates) :
           last <= d /\ d < x => MayBeSkipped(d, had)
  PROVE  /\ WhatIsLeft(basis, dates) \in RunnerRows
         /\ RunFits(WhatIsLeft(basis, dates), days, last, had, table)
<1>1. CASE dates = {}
  BY <1>1, IdleFits DEF WhatIsLeft
<1>2. CASE dates # {}
  BY <1>2 DEF WhatIsLeft, RunnerRows, Running, RunFits
<1> QED
  BY <1>1, <1>2

\* The days that are pending follow the last one that is recorded.
LEMMA PlanDatesIInv == ASSUME IInv, NEW c \in Runners, PlanDates(c) PROVE IInv'
<1> DEFINE t == runner[c].type
           now == runner[c].today
           from == IF runs = {} THEN t.start ELSE FindLastGrantRun + 1
           through == Min({from + MaxCatchUp - 1, now})
           dates == Pending(t, now)
<1>1. runner[c] \in Started /\ RunFits(runner[c], runs, latest, bases, grants)
  <2>1. runner[c] \in RunnerRows /\ runner[c].pc = "started"
    BY DEF PlanDates, IInv, TypeOK, RunnerRows
  <2> QED
    BY <2>1 DEF RunnerRows, Idle, Running, Started, IInv, RunsFit
<1>2. t \in LeaveTypeRows /\ now \in Days
  BY <1>1, GrantsAssumption DEF Started
<1>3. t.basis \in bases /\ t.basis \in Bases /\ (runs = {} => t.start <= latest) /\ t.start \in Days
  BY <1>1, <1>2 DEF RunFits, Started, LeaveTypeRows
<1>4. runs # {} => FindLastGrantRun \in runs /\ \A d \in runs : d <= FindLastGrantRun
  <2>1. runs \in SUBSET Nat /\ \A d \in runs : d <= LastDay
    BY DEF IInv, TypeOK, Days
  <2> QED
    BY <2>1, LargestOf, GrantsAssumption DEF FindLastGrantRun
<1>5. from \in Nat /\ from >= 1
  <2>1. t.start \in Nat /\ t.start >= 1
    BY <1>3 DEF Days
  <2>2. runs # {} => FindLastGrantRun \in Nat /\ FindLastGrantRun >= 1
    <3>1. \A d \in runs : d \in Nat /\ d >= 1
      BY DEF IInv, TypeOK, Days
    <3> QED
      BY <1>4, <3>1
  <2> QED
    BY <2>1, <2>2
<1>6. through \in Nat /\ through <= LastDay
  <2>1. from + MaxCatchUp - 1 \in Nat /\ now \in Nat /\ now <= LastDay
    BY <1>2, <1>5, GrantsAssumption DEF Days
  <2> HIDE DEF from, now
  <2>2. through \in Nat /\ through <= now
    BY <2>1, SmallerOfTwo
  <2> QED
    BY <2>1, <2>2, GrantsAssumption
<1>7. dates = {d \in from .. through : t.basis = "fixed_date" => MonthDay[d] = FixedDay}
  BY DEF Pending, DatesBetween
<1>8. dates \in SUBSET Days
  <2> HIDE DEF from, through, dates
  <2> QED
    BY <1>5, <1>6, <1>7, GrantsAssumption DEF Days
<1>9. ASSUME NEW x \in dates, NEW d \in Days \ (runs \union dates), latest <= d, d < x
      PROVE  MayBeSkipped(d, bases)
  <2>1. CASE d >= from
    <3>1. d \in from .. through
      <4> HIDE DEF from, through, dates
      <4>1. x \in from .. through
        BY <1>7
      <4>2. d \in Nat
        BY DEF Days
      <4> QED
        BY <1>5, <1>6, <1>9, <2>1, <4>1, <4>2
    <3>2. t.basis = "fixed_date" /\ MonthDay[d] # FixedDay
      <4> HIDE DEF from, through, dates
      <4> QED
        BY <1>7, <1>9, <3>1
    <3> QED
      BY <1>3, <3>2 DEF MayBeSkipped
  <2>2. CASE d < from
    <3>1. runs # {}
      BY <1>3, <1>9, <2>2 DEF Days, IInv, TypeOK
    <3>2. FindLastGrantRun \in runs /\ FindLastGrantRun \in Nat
      <4>1. FindLastGrantRun \in runs
        BY <1>4, <3>1
      <4>2. runs \subseteq Nat
        BY DEF Days, IInv, TypeOK
      <4> QED
        BY <4>1, <4>2
    <3>3. d \notin runs /\ d \in Nat
      BY <1>9 DEF Days
    <3>4. d < FindLastGrantRun
      <4>1. from = FindLastGrantRun + 1
        BY <3>1
      <4> HIDE DEF from
      <4>2. d # FindLastGrantRun
        BY <3>2, <3>3
      <4> QED
        BY <2>2, <3>2, <3>3, <4>1, <4>2
    <3> QED
      BY <1>9, <3>2, <3>3, <3>4 DEF IInv, NothingPassedOver, MayBeSkipped
  <2> QED
    <3> HIDE DEF from, through, dates
    <3> QED
      BY <1>5, <1>9, <2>1, <2>2 DEF Days
<1>10. runner' = [runner EXCEPT ![c] = WhatIsLeft(t.basis, dates)] /\ failures' \in 0 .. MaxFailures
  BY DEF PlanDates, Continue, WhatIsLeft, IInv, TypeOK
<1> HIDE DEF dates, t
<1> QED
  BY <1>3, <1>8, <1>9, <1>10, GoesOn, RunMoves DEF PlanDates

\* What a run has to do, while it does it.
LEMMA AtWork ==
  ASSUME IInv, NEW c \in Runners, runner[c].pc \in {"running", "claimed", "planned"}
  PROVE  /\ runner[c] \in Running /\ RunFits(runner[c], runs, latest, bases, grants)
         /\ DayOf(c) \in runner[c].dates /\ DayOf(c) \in Days
         /\ \A x \in runner[c].dates : DayOf(c) <= x
<1>1. runner[c] \in Running
  BY DEF IInv, TypeOK, Idle, Started
<1>2. runner[c].dates \in SUBSET Nat /\ runner[c].dates # {} /\ runner[c].dates \in SUBSET Days
  BY <1>1 DEF Running, Days
<1> QED
  BY <1>1, <1>2, Smallest DEF DayOf, IInv, RunsFit

\* A run that has done a day goes on with the others.
LEMMA DayIsDone ==
  ASSUME IInv, NEW c \in Runners, runner[c].pc \in {"running", "claimed", "planned"},
         NEW days, NEW table, runs \subseteq days, DayOf(c) \in days
  PROVE  LET r == WhatIsLeft(runner[c].basis, runner[c].dates \ {DayOf(c)})
         IN  r \in RunnerRows /\ RunFits(r, days, latest, bases, table)
<1> DEFINE dates == runner[c].dates
           left == dates \ {DayOf(c)}
<1>1. runner[c].basis \in Bases /\ dates \in SUBSET Days
  BY AtWork DEF Running
<1>2. \A x \in dates : \A d \in Days \ (runs \union dates) :
        latest <= d /\ d < x => MayBeSkipped(d, bases)
  BY AtWork DEF RunFits
<1>3. \A x \in left : \A d \in Days \ (days \union left) :
        latest <= d /\ d < x => MayBeSkipped(d, bases)
  BY <1>2
<1> HIDE DEF left
<1> QED
  BY <1>1, <1>3, GoesOn DEF left

LEMMA ClaimIInv == ASSUME IInv, NEW c \in Runners, Claim(c) PROVE IInv'
<1>1. runner[c].pc = "running" /\ failures' \in 0 .. MaxFailures
  BY DEF Claim, IInv, TypeOK
<1>2. CASE DayOf(c) \in runs
  <2>1. runner' = [runner EXCEPT ![c] = WhatIsLeft(runner[c].basis, runner[c].dates \ {DayOf(c)})]
    BY <1>2 DEF Claim, Continue, WhatIsLeft
  <2> QED
    BY <1>1, <1>2, <2>1, DayIsDone, RunMoves DEF Claim
<1>3. CASE DayOf(c) \notin runs
  <2> DEFINE r == [runner[c] EXCEPT !.pc = "claimed"]
  <2>1. runner' = [runner EXCEPT ![c] = r]
    BY <1>3 DEF Claim
  <2>2. runner[c] \in Running /\ RunFits(runner[c], runs, latest, bases, grants)
    BY <1>1, AtWork
  <2>3. r \in Running /\ r.pc = "claimed" /\ r.dates = runner[c].dates
    BY <2>2 DEF Running
  <2> HIDE DEF r
  <2>4. RunFits(r, runs, latest, bases, grants)
    BY <1>1, <2>2, <2>3 DEF RunFits
  <2> QED
    BY <1>1, <2>1, <2>3, <2>4, RunMoves DEF Claim, RunnerRows
<1> QED
  BY <1>2, <1>3

\* Whoever earns a grant on the day has one or is planned for.
LEMMA ReadPlanIInv == ASSUME IInv, NEW c \in Runners, ReadPlan(c) PROVE IInv'
<1> DEFINE day == DayOf(c)
           all == Plan(runner[c].basis, day, rules, Employees)
           plan == {g \in all : g.employee \notin AlreadyGranted(day)}
           r == [runner[c] EXCEPT !.pc = "planned", !.plan = plan]
<1>1. runner[c].pc = "claimed" /\ failures' \in 0 .. MaxFailures
  BY DEF ReadPlan, IInv, TypeOK
<1>2. /\ runner[c] \in Running /\ RunFits(runner[c], runs, latest, bases, grants)
      /\ day \in Days
  BY <1>1, AtWork
<1>3. runner' = [runner EXCEPT ![c] = r]
  BY DEF ReadPlan
<1>4. rules \in SUBSET GrantRuleRows /\ FirstRule \in rules
  BY GrantsAssumption DEF IInv, TypeOK, SettingsFit
<1>5. \A g \in plan : g \in GrantRows /\ g.day = day
  <2> HIDE DEF day
  <2> QED
    BY <1>2, <1>4, PlannedRows
<1>6. ASSUME NEW e \in Employees, Earns(e, day)
      PROVE  Has(grants, e, day) \/ \E g \in plan : g.employee = e
  <2>1. PICK g \in all : g.employee = e
    <3> HIDE DEF day
    <3> QED
      BY <1>2, <1>4, <1>6, EarnedIsPlanned
  <2> QED
    BY <2>1, HasIsGranted
<1> HIDE DEF plan
<1>7. r \in Running /\ r.pc = "planned" /\ r.dates = runner[c].dates /\ r.plan = plan
  <2>1. plan \in SUBSET GrantRows
    BY <1>5
  <2> QED
    BY <1>2, <2>1 DEF Running
<1> HIDE DEF r
<1>8. RunFits(r, runs, latest, bases, grants)
  <2>1. day = Min(r.dates)
    BY <1>7 DEF DayOf
  <2>2. \A x \in r.dates : \A d \in Days \ (runs \union r.dates) :
          latest <= d /\ d < x => MayBeSkipped(d, bases)
    BY <1>1, <1>2, <1>7 DEF RunFits
  <2> HIDE DEF day
  <2> QED
    BY <1>5, <1>6, <1>7, <2>1, <2>2 DEF RunFits
<1> QED
  BY <1>1, <1>3, <1>7, <1>8, RunMoves DEF ReadPlan, RunnerRows

\* The smallest of the days that are left leaves no gap, and nobody is missing on it.
LEMMA CommitDayIInv == ASSUME IInv, NEW c \in Runners, CommitDay(c) PROVE IInv'
<1> DEFINE r == WhatIsLeft(runner[c].basis, runner[c].dates \ {DayOf(c)})
<1>1. PICK d : d = DayOf(c)
  OBVIOUS
<1>2. /\ runner[c].pc = "planned" /\ runner[c] \in Running /\ d \in runner[c].dates /\ d \in Days
      /\ RunFits(runner[c], runs, latest, bases, grants)
      /\ \A x \in runner[c].dates : d <= x
  BY <1>1, AtWork DEF CommitDay
<1>3. /\ grants' = grants \union runner[c].plan /\ runs' = runs \union {d}
      /\ runner' = [runner EXCEPT ![c] = r]
      /\ UNCHANGED <<today, type, rules, byHand, failures, bases, latest>>
  BY <1>1 DEF CommitDay, Record, Continue, WhatIsLeft, histories
<1>4. r \in RunnerRows /\ RunFits(r, runs', latest, bases, grants')
  <2>1. runner[c].pc \in {"running", "claimed", "planned"}
    BY <1>2
  <2>2. runs \subseteq runs'
    BY <1>3
  <2>3. DayOf(c) \in runs'
    BY <1>1, <1>3
  <2> QED
    BY <2>1, <2>2, <2>3, DayIsDone
<1> HIDE DEF r
<1>5. runner[c].plan \in SUBSET GrantRows
  BY <1>2 DEF Running
<1>6. runner' \in [Runners -> RunnerRows] /\ runner'[c] = r
      /\ \A x \in Runners \ {c} : runner'[x] = runner[x]
  BY <1>3, <1>4 DEF IInv, TypeOK, RunnerRows
<1>7. TypeOK'
  BY <1>2, <1>3, <1>5, <1>6 DEF IInv, TypeOK, RunnerRows
<1>8. RunsFit'
  <2>1. ASSUME NEW x \in Runners \ {c} PROVE RunFits(runner[x], runs', latest, bases, grants')
    <3>1. latest \in Nat /\ latest <= latest /\ runs \subseteq runs' /\ grants \subseteq grants'
      BY <1>3 DEF IInv, TypeOK
    <3>2. runner[x] \in RunnerRows /\ RunFits(runner[x], runs, latest, bases, grants)
      BY DEF IInv, TypeOK, RunnerRows, RunsFit
    <3> QED
      BY <3>1, <3>2, FitsStill
  <2> QED
    BY <1>3, <1>4, <1>6, <2>1 DEF RunsFit
<1>9. SettingsFit'
  BY <1>3 DEF IInv, SettingsFit
<1>10. NothingPassedOver'
  <2>1. ASSUME NEW x \in Days \ runs', latest <= x, NEW b \in runs', x < b
        PROVE  MayBeSkipped(x, bases)
    <3>1. CASE b \in runs
      BY <1>3, <2>1, <3>1 DEF IInv, NothingPassedOver, MayBeSkipped
    <3>2. CASE b = d
      <4>1. x \in Nat /\ d \in Nat /\ x \notin runs
        BY <1>2, <1>3 DEF Days
      <4>2. x \notin runner[c].dates
        BY <1>2, <2>1, <3>2, <4>1
      <4> QED
        BY <1>2, <2>1, <3>2, <4>1, <4>2 DEF RunFits
    <3> QED
      BY <1>3, <3>1, <3>2
  <2> QED
    BY <1>3, <2>1 DEF NothingPassedOver, MayBeSkipped
<1>11. AnniversaryIsGranted'
  <2>1. ASSUME NEW x \in runs', NEW e \in Employees, Earns(e, x)
        PROVE  Has(grants', e, x)
    <3>1. CASE x \in runs
      <4>1. e \in AlreadyGranted(x)
        BY <2>1, <3>1 DEF IInv, AnniversaryIsGranted, Earns
      <4> QED
        BY <1>3, <4>1, HasIsGranted DEF Has
    <3>2. CASE x = d
      <4>1. d = Min(runner[c].dates)
        BY <1>1 DEF DayOf
      <4> QED
        BY <1>2, <1>3, <2>1, <3>2, <4>1 DEF RunFits, Has
    <3> QED
      BY <1>3, <3>1, <3>2
  <2>2. \A x \in runs', e \in Employees : Earns(e, x) => e \in AlreadyGranted(x)'
    BY <2>1 DEF AlreadyGranted, Has
  <2> QED
    BY <2>2 DEF AnniversaryIsGranted, Earns
<1> QED
  BY <1>7, <1>8, <1>9, <1>10, <1>11 DEF IInv

LEMMA EndsIInv ==
  ASSUME IInv, NEW c \in Runners, RefuseDay(c) \/ Fail(c) PROVE IInv'
<1>1. runner' = [runner EXCEPT ![c] = Idle] /\ UNCHANGED <<today, tableVars, byHand, histories>>
  BY DEF RefuseDay, Fail
<1>2. failures' \in 0 .. MaxFailures
  BY GrantsAssumption DEF RefuseDay, Fail, IInv, TypeOK
<1> QED
  BY <1>1, <1>2, IdleFits, RunMoves

LEMMA GrantInBulkIInv ==
  ASSUME IInv, NEW basis \in Bases, NEW day \in HandDays, NEW es \in Organizations,
         GrantInBulk(basis, day, es)
  PROVE  IInv'
<1> DEFINE more == {g \in Plan(basis, day, rules, es) : g.employee \notin AlreadyGranted(day)}
<1>1. more \in SUBSET GrantRows
  BY PlannedRows, GrantsAssumption DEF IInv, TypeOK
<1>2. byHand' \in 0 .. MaxByHand /\ grants' = grants \union more
  BY GrantsAssumption DEF GrantInBulk, IInv, TypeOK
<1> HIDE DEF more
<1> QED
  BY <1>1, <1>2, GrantsGrow DEF GrantInBulk

LEMMA ImportCsvIInv ==
  ASSUME IInv, NEW day \in HandDays, NEW es \in Organizations, ImportCsv(day, es) PROVE IInv'
<1> DEFINE more == {[employee |-> e, day |-> day, minutes |-> FirstRule.minutes,
                     source |-> "import"] : e \in es}
<1>1. more \in SUBSET GrantRows
  BY GrantsAssumption DEF GrantRows, GrantRuleRows
<1>2. byHand' \in 0 .. MaxByHand /\ grants' = grants \union more
  BY GrantsAssumption DEF ImportCsv, IInv, TypeOK
<1> HIDE DEF more
<1> QED
  BY <1>1, <1>2, GrantsGrow DEF ImportCsv

LEMMA SettingsIInv ==
  ASSUME IInv,
         (\E r \in Rules : CreateRule(r)) \/ (\E s \in Settings : UpdateLeaveType(s)) \/ NextDay
  PROVE  IInv'
<1>1. /\ UNCHANGED <<runs, grants, byHand, failures, runner>>
      /\ rules \subseteq rules' /\ rules' \subseteq rules \union Rules
      /\ today' \in Days /\ type' \in Settings
      /\ bases \subseteq bases' /\ bases' \subseteq Bases
      /\ latest' \in Nat /\ latest <= latest'
      /\ type'.basis \in bases'
      /\ runs = {} /\ type'.enabled => type'.start <= latest'
  <2>1. CASE \E r \in Rules : CreateRule(r)
    BY <2>1 DEF CreateRule, InsertGrantRule, histories, IInv, TypeOK, SettingsFit
  <2>2. CASE \E s \in Settings : UpdateLeaveType(s)
    BY <2>2, GrantsAssumption DEF UpdateLeaveType, IInv, TypeOK, SettingsFit, LeaveTypeRows, Days
  <2>3. CASE NextDay
    BY <2>3, GrantsAssumption DEF NextDay, tableVars, histories, IInv, TypeOK, SettingsFit, Days
  <2> QED
    BY <2>1, <2>2, <2>3
<1>2. TypeOK'
  BY <1>1 DEF IInv, TypeOK
<1>3. RunsFit'
  <2>1. \A x \in Runners : runner[x] \in RunnerRows
    BY DEF IInv, TypeOK, RunnerRows
  <2>2. \A x \in Runners : RunFits(runner[x], runs, latest', bases', grants)
    BY <1>1, <2>1, FitsStill DEF IInv, TypeOK, RunsFit
  <2> QED
    BY <1>1, <2>2 DEF RunsFit
<1>4. SettingsFit'
  BY <1>1 DEF IInv, SettingsFit
<1>5. NothingPassedOver'
  BY <1>1 DEF IInv, TypeOK, NothingPassedOver, Days
<1>6. AnniversaryIsGranted'
  BY <1>1 DEF IInv, AnniversaryIsGranted, AlreadyGranted
<1> QED
  BY <1>2, <1>3, <1>4, <1>5, <1>6 DEF IInv

LEMMA StepIInv == IInv /\ [Next]_vars => IInv'
<1> SUFFICES ASSUME IInv, [Next]_vars PROVE IInv'
  OBVIOUS
<1>1. CASE UNCHANGED vars
  BY <1>1 DEF vars, tableVars, histories, IInv, TypeOK, RunsFit, SettingsFit, NothingPassedOver,
              AnniversaryIsGranted, AlreadyGranted
<1>2. ASSUME NEW c \in Runners, Run(c) PROVE IInv'
  BY <1>2, StartRunIInv, PlanDatesIInv, ClaimIInv, ReadPlanIInv, CommitDayIInv, EndsIInv DEF Run
<1>3. CASE Administer
  BY <1>3, GrantInBulkIInv, ImportCsvIInv, SettingsIInv DEF Administer
<1>4. CASE NextDay
  BY <1>4, SettingsIInv
<1> QED
  BY <1>1, <1>2, <1>3, <1>4 DEF Next

\* The invariant that the others follow from.
THEOREM Invariance == Spec => []IInv
BY InitIInv, StepIInv, PTL DEF Spec

\* The tables and the runs hold the rows that the code gives them.
THEOREM GrantsTypeCorrect == Spec => []TypeOK
BY Invariance, PTL DEF IInv

\* Neither a day nor an employee is passed over, however many runs fail or overlap and
\* whatever administrators grant, import or change meanwhile.
THEOREM NoneIsMissed == Spec => []NobodyIsMissed
<1>1. IInv => NobodyIsMissed
  BY DEF IInv, NobodyIsMissed
<1> QED
  BY <1>1, Invariance, PTL

-----------------------------------------------------------------------------
(***************************************************************************)
(* Schedules: the positions of a cycle.                                    *)
(***************************************************************************)

\* The remainder is the only one there is.
LEMMA RemainderIsUnique ==
  ASSUME NEW m \in Int, NEW length \in Nat \ {0}, NEW q \in Int, NEW r \in 0 .. length - 1,
         m = q * length + r
  PROVE  m % length = r
<1> DEFINE s == m % length
           p == m \div length
<1>1. p \in Int /\ s \in 0 .. length - 1 /\ m = p * length + s
  BY Z3
<1> HIDE DEF s, p
<1>2. (q - p) * length = s - r
  BY <1>1, Z3
<1>3. -length < s - r /\ s - r < length
  BY <1>1
<1>4. CASE q - p >= 1
  <2>1. (q - p) * length >= length
    BY <1>1, <1>4, Z3
  <2> QED
    BY <1>1, <1>2, <1>3, <2>1
<1>5. CASE q - p <= -1
  <2>1. (q - p) * length <= -length
    BY <1>1, <1>5, Z3
  <2> QED
    BY <1>1, <1>2, <1>3, <2>1
<1>6. CASE q - p = 0
  <2>1. (q - p) * length = 0
    BY <1>6
  <2> QED
    BY <1>1, <1>2, <2>1 DEF s
<1> QED
  BY <1>1, <1>4, <1>5, <1>6

\* Every date has a position, also one before the anchor.
LEMMA PositionIsInCycle ==
  ASSUME NEW anchor \in Int, NEW d \in Int, NEW length \in Nat \ {0}
  PROVE  PositionOf(anchor, d, length) \in 0 .. length - 1
<1>1. \A m \in Int : m % length \in 0 .. length - 1
  BY Z3
<1>2. Remainder(d - anchor, length) \in Int
  BY <1>1 DEF Remainder
<1> QED
  BY <1>1, <1>2 DEF PositionOf

\* The remainder of the opposite number.
LEMMA OppositeRemainder ==
  ASSUME NEW length \in Nat \ {0}, NEW m \in Int, NEW n \in Int, NEW p \in 1 .. length - 1
  PROVE  m = n * length + p => (-m) % length = length - p
<1>1. ASSUME m = n * length + p PROVE (-m) % length = length - p
  <2>1. -m = (-n - 1) * length + (length - p)
    BY <1>1, Z3
  <2>2. PICK opposite, q, r : opposite = -m /\ q = -n - 1 /\ r = length - p
    OBVIOUS
  <2>3. opposite = q * length + r
    BY <2>1, <2>2
  <2>4. r \in 0 .. length - 1 /\ q \in Int /\ opposite \in Int
    BY <2>2
  <2>5. opposite % length = r
    BY <2>3, <2>4, RemainderIsUnique
  <2> QED
    BY <2>2, <2>5
<1> QED
  BY <1>1

\* It is the one from which a whole number of cycles leads to the date.
LEMMA PositionIsAt ==
  ASSUME NEW anchor \in Int, NEW d \in Int, NEW length \in Nat \ {0},
         NEW position \in 0 .. length - 1, NEW n \in Int
  PROVE  d = anchor + position + n * length => PositionOf(anchor, d, length) = position
<1> SUFFICES ASSUME NEW m \in Int, m = d - anchor
             PROVE  m = n * length + position => PositionOf(anchor, d, length) = position
  OBVIOUS
<1>1. (0 + length) % length = 0 /\ (position + length) % length = position
      /\ position % length = position
  <2>1. 0 + length = 1 * length + 0 /\ position + length = 1 * length + position
        /\ position = 0 * length + position
    OBVIOUS
  <2> QED
    BY <2>1, RemainderIsUnique
<1>2. ASSUME m = n * length + position, m >= 0 PROVE PositionOf(anchor, d, length) = position
  <2>1. m % length = position
    BY <1>2, RemainderIsUnique
  <2>2. Remainder(m, length) = position
    BY <1>2, <2>1 DEF Remainder
  <2> QED
    BY <1>1, <2>2 DEF PositionOf
<1>3. ASSUME m = n * length + position, m < 0, position = 0
      PROVE  PositionOf(anchor, d, length) = position
  <2>1. -m = (-n) * length + 0
    BY <1>3, Z3
  <2>2. (-m) % length = 0
    <3>1. PICK opposite, q : opposite = -m /\ q = -n
      OBVIOUS
    <3>2. opposite = q * length + 0
      BY <2>1, <3>1
    <3>3. q \in Int /\ opposite \in Int /\ 0 \in 0 .. length - 1
      BY <3>1
    <3>4. opposite % length = 0
      BY <3>2, <3>3, RemainderIsUnique
    <3> QED
      BY <3>1, <3>4
  <2>3. Remainder(m, length) = 0
    BY <1>3, <2>2 DEF Remainder
  <2> QED
    BY <1>1, <1>3, <2>3 DEF PositionOf
<1>4. ASSUME m = n * length + position, m < 0, position > 0
      PROVE  PositionOf(anchor, d, length) = position
  <2>1. position \in 1 .. length - 1
    BY <1>4
  <2>2. (-m) % length = length - position
    BY <1>4, <2>1, OppositeRemainder
  <2>3. Remainder(m, length) = position - length
    BY <1>4, <2>2 DEF Remainder
  <2>4. Remainder(m, length) + length = position
    BY <2>3
  <2> QED
    BY <1>1, <2>4 DEF PositionOf
<1> QED
  BY <1>2, <1>3, <1>4

-----------------------------------------------------------------------------
(***************************************************************************)
(* What holds of the settings, the rows and every generation.              *)
(***************************************************************************)

Caches == UNION {[S -> SUBSET Nat] : S \in SUBSET Cycles}

Writings == UNION {[S -> Rows] : S \in SUBSET Dates}

BegunRuns ==
  [phase : {"begun"}, from : Dates, to : Dates, overwrite : BOOLEAN,
   assignments : SUBSET Assigned, due : SUBSET Dates]

GoingRuns ==
  [phase : {"days", "writing"}, from : Dates, to : Dates, overwrite : BOOLEAN,
   assignments : SUBSET Assigned, due : SUBSET Dates, date : Nat, cached : Caches,
   existing : SUBSET Dates, written : Writings, plan : Rows \union {None}, edited : SUBSET Dates]

Runs == {NoRun} \union BegunRuns \union GoingRuns

\* What a cycle and the categories have for a date.
CategoriesOf(day, d) == IF day.category = None THEN {None} ELSE VersionsOn(day.category, d)

CycleDayOf(a, d) == a.cycle.days[PositionOf(a.anchor, d, a.cycle.length)]

Defined(row, d) ==
  /\ row.by # None /\ In(d, row.by)
  /\ \E v \in CategoriesOf(CycleDayOf(row.by, d), d) :
       row = CycleRow(row.by, CycleDayOf(row.by, d), v)

Ready(a, d) ==
  /\ cycles[a.cycle] = DOMAIN a.cycle.days
  /\ \A position \in DOMAIN a.cycle.days : CategoriesOf(a.cycle.days[position], d) # {}

Apart(S) == \A a, b \in S : a # b => ~Overlaps(a, b)

PlansFit ==
  /\ cycles \in Caches
  /\ \A c \in DOMAIN cycles : cycles[c] \subseteq DOMAIN c.days
  /\ categories \subseteq Categories
  /\ \A v, w \in categories : v # w /\ v.code = w.code => ~Overlaps(v, w)
  /\ assignments \subseteq Assigned
  /\ \A a \in assignments : a.cycle \in DOMAIN cycles
  /\ Apart(assignments)

RowsFit ==
  /\ rows \in [Dates -> Rows \union {None}]
  /\ \A d \in Dates : rows[d] # None /\ rows[d].by # None => Defined(rows[d], d)

\* What a generation has read before it goes through the dates.
ReadingFits(run) ==
  /\ Apart(run.assignments)
  /\ \A a \in run.assignments : a.cycle \in DOMAIN cycles
  /\ \A d \in run.due : /\ d \in run.from .. run.to
                        /\ \E a \in run.assignments : In(d, a) /\ Ready(a, d)

\* The dates it has been through, and what became of them.
CacheFits(run) ==
  /\ \A c \in DOMAIN run.cached : run.cached[c] \subseteq DOMAIN c.days
  /\ \A d \in run.due, a \in run.assignments :
       In(d, a) /\ a.cycle \in DOMAIN run.cached => run.cached[a.cycle] = DOMAIN a.cycle.days

ExistingFits(run) == \A d \in run.existing : rows[d] # None

WrittenFits(run) ==
  \A d \in DOMAIN run.written :
    Defined(run.written[d], d) /\ d \in run.from .. run.to /\ d \notin run.existing

DueIsCovered(run) ==
  \A d \in run.due : d < run.date => d \in run.existing \/ d \in DOMAIN run.written

\* Where there was no row when it read the dates, a row by hand was set since.
HandSetIsEdited(run) ==
  ~run.overwrite =>
    \A d \in run.from .. run.to :
      d \notin run.existing /\ rows[d] # None /\ rows[d].by = None => d \in run.edited

PlanFits(run) ==
  run.phase = "writing" =>
    /\ run.date <= run.to /\ run.date \notin run.existing
    /\ run.plan \in Rows /\ Defined(run.plan, run.date)

WorkFits(run) ==
  /\ run.from <= run.date
  /\ CacheFits(run) /\ ExistingFits(run) /\ WrittenFits(run) /\ DueIsCovered(run)
  /\ HandSetIsEdited(run) /\ PlanFits(run)

GenerationFits(run) ==
  /\ run \in Runs
  /\ run.phase # "none" => ReadingFits(run)
  /\ run.phase \in {"days", "writing"} => WorkFits(run)

SchedulesInv ==
  /\ PlansFit /\ RowsFit
  /\ \E S : generating \in [Generations -> S]
  /\ \A g \in Generations : GenerationFits(generating[g])

LEMMA PhaseTells ==
  ASSUME NEW run \in Runs
  PROVE  /\ run.phase \in {"none", "begun", "days", "writing"}
         /\ run.phase = "begun" => run \in BegunRuns
         /\ run.phase \in {"days", "writing"} => run \in GoingRuns
BY DEF Runs, NoRun, BegunRuns, GoingRuns

LEMMA CachesHold ==
  ASSUME NEW f \in Caches
  PROVE  /\ DOMAIN f \subseteq Cycles
         /\ f = [c \in DOMAIN f |-> f[c]]
         /\ \A c \in DOMAIN f : f[c] \in SUBSET Nat
BY DEF Caches

LEMMA IsCache ==
  ASSUME NEW S \in SUBSET Cycles, NEW f \in [S -> SUBSET Nat] PROVE f \in Caches
BY DEF Caches

LEMMA WritingsHold ==
  ASSUME NEW f \in Writings
  PROVE  /\ DOMAIN f \subseteq Dates
         /\ f = [d \in DOMAIN f |-> f[d]]
         /\ \A d \in DOMAIN f : f[d] \in Rows
BY DEF Writings

LEMMA IsWriting ==
  ASSUME NEW S \in SUBSET Dates, NEW f \in [S -> Rows] PROVE f \in Writings
BY DEF Writings

LEMMA DatesAreNat == Dates \subseteq Nat
BY ScheduleAssumption DEF Dates

LEMMA DateIsInt == ASSUME NEW d \in Dates PROVE d \in Int
BY DatesAreNat

\* A number from 0 to a date is a date.
LEMMA DateUpTo == ASSUME NEW d \in Nat, NEW to \in Dates, d <= to PROVE d \in Dates
BY ScheduleAssumption DEF Dates

LEMMA PositionsAreNat ==
  ASSUME NEW c \in Cycles PROVE \A position \in DOMAIN c.days : position \in Nat
<1>1. c.length \in Nat \ {0} /\ DOMAIN c.days = 0 .. c.length - 1
  BY ScheduleAssumption
<1> QED
  BY <1>1

\* A cycle's days are those of its positions.
LEMMA CycleDaysFit ==
  ASSUME NEW a \in Assigned, NEW d \in Dates
  PROVE  /\ PositionOf(a.anchor, d, a.cycle.length) \in DOMAIN a.cycle.days
         /\ DOMAIN a.cycle.days = 0 .. a.cycle.length - 1
         /\ a.cycle.length \in Nat \ {0}
         /\ CycleDayOf(a, d) \in CycleDays
<1>1. a.cycle \in Cycles /\ a.anchor \in Int /\ d \in Int
  BY DatesAreNat DEF Assigned
<1>2. a.cycle.length \in Nat \ {0} /\ DOMAIN a.cycle.days = 0 .. a.cycle.length - 1
      /\ \A position \in DOMAIN a.cycle.days : a.cycle.days[position] \in CycleDays
  BY <1>1, ScheduleAssumption
<1> QED
  BY <1>1, <1>2, PositionIsInCycle DEF CycleDayOf

LEMMA CycleRowFits ==
  ASSUME NEW a \in Assigned, NEW day \in CycleDays, NEW v \in Categories \union {None}
  PROVE  CycleRow(a, day, v) \in Rows /\ CycleRow(a, day, v).by = a
<1> DEFINE start == IF day.pattern = None THEN None ELSE day.pattern.start
           end   == IF day.pattern = None THEN None ELSE day.pattern.end
           break == IF day.pattern = None THEN 0 ELSE day.pattern.break
           kind  == IF v = None THEN day.type ELSE v.type
           from  == IF v = None THEN start ELSE Or(start, v.start)
           to    == IF v = None THEN end ELSE Or(end, v.end)
<1>1. start \in Times /\ end \in Times /\ break \in Nat
  BY DEF CycleDays, Patterns, Times
<1>2. kind \in DayTypes
  BY ScheduleAssumption DEF CycleDays
<1>3. from \in Times /\ to \in Times
  BY <1>1, ScheduleAssumption DEF Or
<1>4. CycleRow(a, day, v) = [type |-> kind, start |-> from, end |-> to, break |-> break,
        pattern |-> day.pattern, category |-> v, leave |-> None, by |-> a]
  BY DEF CycleRow
<1>5. day.pattern \in Patterns \union {None}
  BY DEF CycleDays
<1> HIDE DEF kind, from, to, break
<1> QED
  BY <1>1, <1>2, <1>3, <1>4, <1>5 DEF Rows

LEMMA CategoriesOfFit ==
  ASSUME PlansFit, NEW day, NEW d PROVE CategoriesOf(day, d) \subseteq Categories \union {None}
BY DEF PlansFit, CategoriesOf, VersionsOn

LEMMA NoneIsNoRow == None \notin Rows /\ None \notin Assigned /\ None \notin Categories
BY ScheduleAssumption

-----------------------------------------------------------------------------
\* Settings are only added, so that what was defined or ready stays so.
Grow ==
  /\ DOMAIN cycles \subseteq DOMAIN cycles'
  /\ \A c \in DOMAIN cycles : cycles[c] \subseteq cycles'[c]
  /\ categories \subseteq categories'

LEMMA CategoriesStay ==
  ASSUME Grow, NEW day, NEW d PROVE CategoriesOf(day, d) \subseteq CategoriesOf(day, d)'
BY DEF Grow, CategoriesOf, VersionsOn

LEMMA DefinedStays ==
  ASSUME Grow, NEW row, NEW d, Defined(row, d) PROVE Defined(row, d)'
BY CategoriesStay DEF Defined

LEMMA ReadyStays ==
  ASSUME Grow, PlansFit', NEW a, NEW d, a.cycle \in DOMAIN cycles, Ready(a, d)
  PROVE  Ready(a, d)'
<1>1. a.cycle \in DOMAIN cycles' /\ cycles[a.cycle] \subseteq cycles'[a.cycle]
  BY DEF Grow
<1>2. cycles'[a.cycle] = DOMAIN a.cycle.days
  BY <1>1 DEF Ready, PlansFit
<1> QED
  BY <1>2, CategoriesStay DEF Ready

LEMMA ReadingStays ==
  ASSUME Grow, PlansFit', NEW run, ReadingFits(run) PROVE ReadingFits(run)'
<1>1. \A a \in run.assignments : a.cycle \in DOMAIN cycles /\ a.cycle \in DOMAIN cycles'
  BY DEF ReadingFits, Grow
<1> QED
  BY <1>1, ReadyStays DEF ReadingFits

(***************************************************************************)
(* A generation that others run beside: rows are never deleted, and a date *)
(* that has a new row by hand is among those that are new in `edited`.     *)
(***************************************************************************)
LEMMA RunStays ==
  ASSUME Grow, PlansFit', NEW run, GenerationFits(run), NEW next \in Runs,
         next.phase = run.phase,
         run.phase # "none" =>
           /\ next.from = run.from /\ next.to = run.to /\ next.overwrite = run.overwrite
           /\ next.assignments = run.assignments /\ next.due = run.due,
         run.phase \in {"days", "writing"} =>
           /\ next.date = run.date /\ next.cached = run.cached /\ next.existing = run.existing
           /\ next.written = run.written /\ next.plan = run.plan
           /\ run.edited \subseteq next.edited
           /\ \A d \in Dates : rows'[d] # None /\ rows'[d].by = None /\ rows'[d] # rows[d] =>
                d \in next.edited,
         \A d \in Dates : rows[d] # None => rows'[d] # None
  PROVE  GenerationFits(next)'
<1>1. ASSUME run.phase # "none" PROVE ReadingFits(next)'
  <2>1. ReadingFits(run)'
    BY <1>1, ReadingStays DEF GenerationFits
  <2> QED
    BY <1>1, <2>1 DEF ReadingFits
<1>2. ASSUME run.phase \in {"days", "writing"} PROVE WorkFits(next)'
  <2>1. WorkFits(run) /\ run \in GoingRuns
    BY <1>2, PhaseTells DEF GenerationFits
  <2>2. CacheFits(next)'
    BY <1>2, <2>1 DEF WorkFits, CacheFits
  <2>3. ExistingFits(next)'
    BY <1>2, <2>1 DEF WorkFits, ExistingFits, GoingRuns
  <2>4. WrittenFits(next)'
    BY <1>2, <2>1, DefinedStays DEF WorkFits, WrittenFits
  <2>5. DueIsCovered(next)'
    BY <1>2, <2>1 DEF WorkFits, DueIsCovered
  <2>6. HandSetIsEdited(next)'
    <3> SUFFICES ASSUME ~run.overwrite, NEW d \in run.from .. run.to, d \notin run.existing,
                        rows'[d] # None, rows'[d].by = None
                 PROVE  d \in next.edited
      BY <1>2 DEF HandSetIsEdited
    <3>1. d \in Dates
      BY <2>1, ScheduleAssumption DEF GoingRuns, Dates
    <3>2. CASE rows'[d] = rows[d]
      BY <1>2, <2>1, <3>2 DEF WorkFits, HandSetIsEdited
    <3>3. CASE rows'[d] # rows[d]
      BY <1>2, <3>1, <3>3
    <3> QED
      BY <3>2, <3>3
  <2>7. PlanFits(next)'
    BY <1>2, <2>1, DefinedStays DEF WorkFits, PlanFits
  <2> QED
    BY <1>2, <2>1, <2>2, <2>3, <2>4, <2>5, <2>6, <2>7 DEF WorkFits
<1> QED
  BY <1>1, <1>2 DEF GenerationFits

\* The generations of which nothing changes.
LEMMA OtherRunsStay ==
  ASSUME Grow, PlansFit', NEW run, GenerationFits(run),
         \A d \in Dates : rows[d] # None => rows'[d] # None,
         \A d \in Dates : rows'[d] # None /\ rows'[d].by = None => rows'[d] = rows[d]
  PROVE  GenerationFits(run)'
<1>1. run \in Runs
  BY DEF GenerationFits
<1> QED
  BY <1>1, RunStays

LEMMA SettingsStay ==
  ASSUME PlansFit, UNCHANGED <<cycles, categories, assignments>> PROVE PlansFit' /\ Grow
BY DEF PlansFit, Grow, Apart

\* A step of the settings.
LEMMA SettingsGrow ==
  ASSUME SchedulesInv, PlansFit', Grow, UNCHANGED <<rows, generating>> PROVE SchedulesInv'
<1>1. RowsFit'
  BY DefinedStays DEF SchedulesInv, RowsFit
<1>2. \A g \in Generations : GenerationFits(generating[g])'
  BY OtherRunsStay DEF SchedulesInv
<1> QED
  BY <1>1, <1>2 DEF SchedulesInv

\* A step of one generation that leaves the rows as they are.
LEMMA RunMovesOn ==
  ASSUME SchedulesInv, NEW g \in Generations, NEW run, Goes(g, run), GenerationFits(run),
         UNCHANGED <<cycles, categories, assignments, rows>>
  PROVE  SchedulesInv'
<1>1. PlansFit' /\ Grow
  BY SettingsStay DEF SchedulesInv
<1>2. RowsFit'
  BY <1>1, DefinedStays DEF SchedulesInv, RowsFit
<1>3. /\ generating'[g] = run /\ \A h \in Generations \ {g} : generating'[h] = generating[h]
      /\ \E S : generating' \in [Generations -> S]
  <2>1. PICK S : generating \in [Generations -> S]
    BY DEF SchedulesInv
  <2>2. generating' \in [Generations -> S \union {run}]
    BY <2>1 DEF Goes
  <2> QED
    BY <2>1, <2>2 DEF Goes
<1>4. \A d \in Dates : rows'[d] = rows[d]
  OBVIOUS
<1>5. GenerationFits(run)'
  BY <1>1, <1>4, OtherRunsStay
<1>6. ASSUME NEW h \in Generations, h # g PROVE GenerationFits(generating[h])'
  <2> PICK r : r = generating[h]
    OBVIOUS
  <2>1. generating'[h] = r /\ GenerationFits(r)
    BY <1>3, <1>6 DEF SchedulesInv
  <2>2. GenerationFits(r)'
    BY <1>1, <1>4, <2>1, OtherRunsStay
  <2> QED
    BY <2>1, <2>2
<1>7. \A h \in Generations : GenerationFits(generating[h])'
  <2>1. GenerationFits(generating[g])'
    BY <1>3, <1>5
  <2> QED
    BY <1>6, <2>1
<1> QED
  BY <1>1, <1>2, <1>3, <1>7 DEF SchedulesInv

-----------------------------------------------------------------------------
LEMMA InitSchedulesInv == InitSchedules => SchedulesInv
<1> SUFFICES ASSUME InitSchedules PROVE SchedulesInv
  OBVIOUS
<1> DEFINE empty == [c \in {} |-> {}]
<1>1. empty \in Caches
  <2>1. empty \in [{} -> SUBSET Nat] /\ {} \in SUBSET Cycles
    OBVIOUS
  <2> QED
    BY <2>1, IsCache
<1>2. PlansFit
  BY <1>1 DEF InitSchedules, PlansFit, Apart
<1>3. RowsFit
  BY DEF InitSchedules, RowsFit
<1>4. generating \in [Generations -> {NoRun}] /\ \A g \in Generations : generating[g] = NoRun
  BY DEF InitSchedules
<1>5. GenerationFits(NoRun)
  BY DEF GenerationFits, Runs, NoRun
<1> QED
  BY <1>2, <1>3, <1>4, <1>5 DEF SchedulesInv

LEMMA CreateCycleInv == ASSUME SchedulesInv, NEW c \in Cycles, CreateCycle(c) PROVE SchedulesInv'
<1> DEFINE S == DOMAIN cycles \union {c}
           next == [x \in S |-> IF x = c THEN {} ELSE cycles[x]]
<1>1. /\ cycles \in Caches /\ c \notin DOMAIN cycles /\ cycles' = next
      /\ UNCHANGED <<categories, assignments, rows, generating>>
  BY DEF SchedulesInv, PlansFit, CreateCycle
<1>2. S \in SUBSET Cycles /\ next \in [S -> SUBSET Nat]
  BY <1>1, CachesHold
<1>3. next \in Caches
  BY <1>2, IsCache
<1>4. /\ DOMAIN next = S /\ next[c] = {}
      /\ \A x \in DOMAIN cycles : next[x] = cycles[x]
  BY <1>1
<1> HIDE DEF next
<1>5. Grow
  BY <1>1, <1>4 DEF Grow
<1>6. PlansFit'
  BY <1>1, <1>3, <1>4 DEF SchedulesInv, PlansFit, Apart
<1> QED
  BY <1>1, <1>5, <1>6, SettingsGrow

LEMMA InsertCycleDayInv ==
  ASSUME SchedulesInv, NEW c \in Cycles, InsertCycleDay(c) PROVE SchedulesInv'
<1> PICK position \in DOMAIN c.days \ cycles[c] :
       cycles' = [cycles EXCEPT ![c] = @ \union {position}]
  BY DEF InsertCycleDay
<1>1. /\ cycles \in Caches /\ c \in DOMAIN cycles
      /\ UNCHANGED <<categories, assignments, rows, generating>>
  BY DEF SchedulesInv, PlansFit, InsertCycleDay
<1>2. position \in Nat
  BY ScheduleAssumption
<1>3. DOMAIN cycles \in SUBSET Cycles /\ cycles \in [DOMAIN cycles -> SUBSET Nat]
  BY <1>1, CachesHold
<1>4. /\ cycles'[c] = cycles[c] \union {position}
      /\ \A x \in DOMAIN cycles \ {c} : cycles'[x] = cycles[x]
      /\ cycles' \in [DOMAIN cycles -> SUBSET Nat] /\ DOMAIN cycles' = DOMAIN cycles
  BY <1>1, <1>2, <1>3
<1>5. cycles' \in Caches
  BY <1>3, <1>4, IsCache
<1>6. Grow
  BY <1>1, <1>4 DEF Grow
<1>7. PlansFit'
  BY <1>1, <1>4, <1>5 DEF SchedulesInv, PlansFit, Apart
<1> QED
  BY <1>1, <1>6, <1>7, SettingsGrow

LEMMA VersionsInt ==
  \A v \in Categories : v.from \in Int /\ v.to \in Int
<1> SUFFICES ASSUME NEW v \in Categories PROVE v.from \in Int /\ v.to \in Int
  OBVIOUS
<1>1. v.from \in Dates
  BY ScheduleAssumption
<1>2. v.from \in Int
  BY <1>1, DateIsInt
<1>3. LastDate \in Nat
  BY ScheduleAssumption
<1>4. Forever \in Int
  BY <1>3 DEF Forever
<1>5. v.to \in v.from .. Forever
  BY ScheduleAssumption
<1>6. v.to \in Int
  BY <1>2, <1>4, <1>5
<1> QED
  BY <1>2, <1>6

\* What the constraint takes overlaps no version of the same code, in either order.
LEMMA ImportInv ==
  ASSUME SchedulesInv, NEW versions \in SUBSET Categories, Fits(versions),
         categories' = categories \union versions,
         UNCHANGED <<cycles, assignments, rows, generating>>
  PROVE  SchedulesInv'
<1>1. PlansFit
  BY DEF SchedulesInv
<1>2. ASSUME NEW v \in categories', NEW w \in categories', v # w, v.code = w.code
      PROVE  ~Overlaps(v, w)
  <2>1. v \in Categories /\ w \in Categories
    BY <1>1 DEF PlansFit
  <2>2. Overlaps(v, w) <=> Overlaps(w, v)
    BY <2>1, VersionsInt DEF Overlaps
  <2>3. CASE v \in versions
    BY <1>2, <2>3 DEF Fits
  <2>4. CASE w \in versions
    BY <1>2, <2>2, <2>4 DEF Fits
  <2>5. CASE v \in categories /\ w \in categories
    BY <1>1, <1>2, <2>5 DEF PlansFit
  <2> QED
    BY <2>3, <2>4, <2>5
<1>3. PlansFit'
  BY <1>1, <1>2 DEF PlansFit, Apart
<1>4. Grow
  BY <1>1 DEF PlansFit, Grow
<1> QED
  BY <1>3, <1>4, SettingsGrow

LEMMA AssignedOverlap ==
  ASSUME NEW a \in Assigned, NEW b \in Assigned PROVE Overlaps(a, b) <=> Overlaps(b, a)
BY DEF Overlaps, Assigned

LEMMA AssignmentsInv ==
  ASSUME SchedulesInv, NEW others \in SUBSET assignments, NEW a \in Assigned,
         a.cycle \in DOMAIN cycles, \A b \in others : ~Overlaps(a, b),
         assignments' = others \union {a}, UNCHANGED <<cycles, categories, rows, generating>>
  PROVE  SchedulesInv'
<1>1. PlansFit
  BY DEF SchedulesInv
<1>2. \A b \in others : ~Overlaps(b, a)
  BY <1>1, AssignedOverlap DEF PlansFit
<1>3. PlansFit'
  BY <1>1, <1>2 DEF PlansFit, Apart
<1>4. Grow
  BY DEF Grow
<1> QED
  BY <1>3, <1>4, SettingsGrow

LEMMA ConfigureInv == ASSUME SchedulesInv, Configure PROVE SchedulesInv'
<1>1. ASSUME NEW c \in Cycles, CreateCycle(c) \/ InsertCycleDay(c) PROVE SchedulesInv'
  BY <1>1, CreateCycleInv, InsertCycleDayInv
<1>2. ASSUME NEW v \in Categories, CreateCategory(v) PROVE SchedulesInv'
  BY <1>2, ImportInv DEF CreateCategory
<1>3. ASSUME NEW versions \in SUBSET Categories, ImportCategories(versions) PROVE SchedulesInv'
  BY <1>3, ImportInv DEF ImportCategories
<1>4. ASSUME NEW a \in Assignable, Assign(a) PROVE SchedulesInv'
  <2>1. a \in Assigned
    BY ScheduleAssumption
  <2> QED
    BY <1>4, <2>1, AssignmentsInv DEF Assign
<1>5. ASSUME NEW a \in assignments, NEW to \in Dates, EndAssignment(a, to) PROVE SchedulesInv'
  <2> DEFINE ended == [a EXCEPT !.to = to]
  <2>1. a \in Assigned /\ a.cycle \in DOMAIN cycles /\ to \in Int
    BY DatesAreNat DEF SchedulesInv, PlansFit
  <2>2. ended \in Assigned /\ ended.cycle = a.cycle
    BY <2>1 DEF Assigned
  <2>3. /\ \A b \in assignments \ {a} : ~Overlaps(ended, b)
        /\ assignments' = (assignments \ {a}) \union {ended}
        /\ UNCHANGED <<cycles, categories, rows, generating>>
    BY <1>5 DEF EndAssignment
  <2> HIDE DEF ended
  <2> QED
    BY <2>1, <2>2, <2>3, AssignmentsInv
<1> QED
  BY <1>1, <1>2, <1>3, <1>4, <1>5 DEF Configure

-----------------------------------------------------------------------------
LEMMA HandRowFits ==
  ASSUME NEW edit \in Edits, NEW category \in Categories \union {None}
  PROVE  HandRow(edit, category) \in Rows /\ HandRow(edit, category).by = None
<1> DEFINE template == TemplateOf(edit, category)
           start == Or(edit.start, template.start)
           end   == Or(edit.end, template.end)
           kind  == Or(edit.type, IF category # None THEN category.type
                                  ELSE IF start = None THEN "non_working_day" ELSE "working_day")
           planned == kind \in PlannedTypes
           break == Or(edit.break, template.break)
<1>1. /\ edit.type \in DayTypes \union {None} /\ edit.start \in Times /\ edit.end \in Times
      /\ edit.break \in Times /\ edit.pattern \in Patterns \union {None}
      /\ edit.category \in Categories \union {None}
  BY ScheduleAssumption
<1>2. template.start \in Times /\ template.end \in Times /\ template.break \in Nat
  BY <1>1, ScheduleAssumption DEF TemplateOf, Patterns, Times
<1>3. start \in Times /\ end \in Times /\ break \in Nat
  BY <1>1, <1>2 DEF Or, Times
<1>4. kind \in DayTypes
  BY <1>1, ScheduleAssumption DEF Or, DayTypes
<1>5. HandRow(edit, category) =
        [type     |-> kind,
         start    |-> IF planned THEN start ELSE None,
         end      |-> IF planned THEN end ELSE None,
         break    |-> IF planned THEN break ELSE 0,
         pattern  |-> IF planned THEN edit.pattern ELSE None,
         category |-> edit.category,
         leave    |-> IF kind = "leave" THEN edit.leave ELSE None,
         by       |-> None]
  BY DEF HandRow
<1> HIDE DEF template, start, end, kind, planned, break
<1>6. None \in Times /\ edit.leave \in {e.leave : e \in Edits}
  BY DEF Times
<1> QED
  BY <1>1, <1>3, <1>4, <1>5, <1>6 DEF Rows

LEMMA AfterEditFits ==
  ASSUME NEW run \in Runs, NEW d \in Dates
  PROVE  LET next == AfterEdit(run, d) IN
         /\ next \in Runs /\ next.phase = run.phase
         /\ run.phase # "none" =>
              /\ next.from = run.from /\ next.to = run.to /\ next.overwrite = run.overwrite
              /\ next.assignments = run.assignments /\ next.due = run.due
         /\ run.phase \in {"days", "writing"} =>
              /\ next.date = run.date /\ next.cached = run.cached /\ next.existing = run.existing
              /\ next.written = run.written /\ next.plan = run.plan
              /\ next.edited = run.edited \union {d}
<1>1. CASE run.phase \notin {"days", "writing"}
  BY <1>1 DEF AfterEdit
<1>2. CASE run.phase \in {"days", "writing"}
  <2> DEFINE next == [run EXCEPT !.edited = @ \union {d}]
  <2>1. run \in GoingRuns /\ AfterEdit(run, d) = next
    BY <1>2, PhaseTells DEF AfterEdit
  <2>2. /\ next.phase = run.phase
        /\ next.from = run.from /\ next.to = run.to /\ next.overwrite = run.overwrite
        /\ next.assignments = run.assignments /\ next.due = run.due
        /\ next.date = run.date /\ next.cached = run.cached /\ next.existing = run.existing
        /\ next.written = run.written /\ next.plan = run.plan
        /\ next.edited = run.edited \union {d}
    BY <2>1 DEF GoingRuns
  <2>3. next \in GoingRuns
    BY <2>1 DEF GoingRuns
  <2> QED
    BY <2>1, <2>2, <2>3 DEF Runs
<1> QED
  BY <1>1, <1>2

LEMMA EditScheduleInv ==
  ASSUME SchedulesInv, NEW d \in Dates, NEW edit \in Edits, EditSchedule(d, edit)
  PROVE  SchedulesInv'
<1> DEFINE versions == IF edit.category = None THEN {None} ELSE VersionsOn(edit.category, d)
<1> PICK category \in versions :
      /\ rows' = [rows EXCEPT ![d] = HandRow(edit, category)]
      /\ generating' = [g \in Generations |-> AfterEdit(generating[g], d)]
      /\ UNCHANGED <<cycles, categories, assignments>>
  BY DEF EditSchedule
<1>1. PlansFit' /\ Grow
  BY SettingsStay DEF SchedulesInv
<1>2. category \in Categories \union {None}
  BY DEF SchedulesInv, PlansFit, VersionsOn
<1> PICK row : row = HandRow(edit, category)
  OBVIOUS
<1>3. row \in Rows /\ row.by = None /\ row # None
  BY <1>2, HandRowFits, NoneIsNoRow
<1>4. rows \in [Dates -> Rows \union {None}] /\ rows' = [rows EXCEPT ![d] = row]
  BY DEF SchedulesInv, RowsFit
<1>5. rows'[d] = row /\ \A e \in Dates \ {d} : rows'[e] = rows[e]
  BY <1>4
<1>6. RowsFit'
  <2>1. rows' \in [Dates -> Rows \union {None}]
    BY <1>3, <1>4
  <2>2. ASSUME NEW e \in Dates, rows'[e] # None, rows'[e].by # None PROVE Defined(rows[e], e)'
    <3> PICK r : r = rows[e]
      OBVIOUS
    <3>1. e # d /\ rows'[e] = r /\ Defined(r, e)
      BY <1>3, <1>5, <2>2 DEF SchedulesInv, RowsFit
    <3>2. Defined(r, e)'
      BY <1>1, <3>1, DefinedStays
    <3> QED
      BY <3>1, <3>2
  <2> QED
    BY <2>1, <2>2 DEF RowsFit
<1>7. ASSUME NEW g \in Generations PROVE GenerationFits(generating[g])'
  <2> PICK run : run = generating[g]
    OBVIOUS
  <2> PICK next : next = AfterEdit(run, d)
    OBVIOUS
  <2>1. generating'[g] = next /\ GenerationFits(run) /\ run \in Runs
    BY DEF SchedulesInv, GenerationFits
  <2>2. GenerationFits(next)'
    BY <1>1, <1>3, <1>5, <2>1, AfterEditFits, RunStays
  <2> QED
    BY <2>1, <2>2
<1>8. \E S : generating' \in [Generations -> S]
  <2>1. generating' \in [Generations -> {AfterEdit(generating[g], d) : g \in Generations}]
    OBVIOUS
  <2> QED
    BY <2>1
<1> QED
  BY <1>1, <1>6, <1>7, <1>8 DEF SchedulesInv

-----------------------------------------------------------------------------
LEMMA BeginInv ==
  ASSUME SchedulesInv, NEW g \in Generations, NEW range \in Ranges, NEW overwrite \in BOOLEAN,
         Begin(g, range, overwrite)
  PROVE  SchedulesInv'
<1> DEFINE due == {d \in UNION {Due(a) : a \in assignments} : In(d, range)}
           next == [phase |-> "begun", from |-> range.from, to |-> range.to,
                    overwrite |-> overwrite, assignments |-> assignments, due |-> due]
<1>1. PlansFit
  BY DEF SchedulesInv
<1>2. Goes(g, next) /\ UNCHANGED <<cycles, categories, assignments, rows>>
  BY DEF Begin
<1>3. /\ range.from \in Dates /\ range.to \in Dates /\ assignments \in SUBSET Assigned
      /\ due \in SUBSET Dates
  BY <1>1, ScheduleAssumption DEF PlansFit, Due
<1>4. ASSUME NEW d \in due
      PROVE  d \in range.from .. range.to /\ \E a \in assignments : In(d, a) /\ Ready(a, d)
  <2> PICK a \in assignments : d \in Due(a)
    OBVIOUS
  <2>1. d \in range.from .. range.to /\ In(d, a)
    BY DEF In, Due
  <2>2. \A position \in DOMAIN a.cycle.days : CategoriesOf(a.cycle.days[position], d) # {}
    BY DEF Due, CategoriesOf
  <2> QED
    BY <2>1, <2>2 DEF Due, Ready
<1> HIDE DEF due
<1>5. next \in BegunRuns
  BY <1>3 DEF BegunRuns
<1>6. /\ next.phase = "begun" /\ next.from = range.from /\ next.to = range.to
      /\ next.assignments = assignments /\ next.due = due
  OBVIOUS
<1> HIDE DEF next
<1>7. GenerationFits(next)
  BY <1>1, <1>4, <1>5, <1>6 DEF GenerationFits, Runs, ReadingFits, PlansFit
<1> QED
  BY <1>2, <1>7, RunMovesOn

LEMMA ReadDatesInv == ASSUME SchedulesInv, NEW g \in Generations, ReadDates(g) PROVE SchedulesInv'
<1> PICK run : run = generating[g]
  OBVIOUS
<1> DEFINE existing == IF run.overwrite THEN {} ELSE ExistingDates(run.from, run.to)
           nothing  == [c \in {} |-> {}]
           unwritten == [d \in {} |-> None]
           next == [phase |-> "days", from |-> run.from, to |-> run.to,
                    overwrite |-> run.overwrite, assignments |-> run.assignments,
                    due |-> run.due, date |-> run.from, cached |-> nothing,
                    existing |-> existing, written |-> unwritten, plan |-> None,
                    edited |-> {}]
<1>1. GenerationFits(run) /\ run.phase = "begun"
  BY DEF SchedulesInv, ReadDates
<1>2. run \in BegunRuns /\ ReadingFits(run)
  BY <1>1, PhaseTells DEF GenerationFits
<1>3. Goes(g, next) /\ UNCHANGED <<cycles, categories, assignments, rows>>
  BY DEF ReadDates
<1>4. nothing \in Caches /\ unwritten \in Writings /\ DOMAIN nothing = {} /\ DOMAIN unwritten = {}
  <2>1. nothing \in [{} -> SUBSET Nat] /\ unwritten \in [{} -> Rows]
    OBVIOUS
  <2> QED
    BY <2>1, IsCache, IsWriting
<1>5. /\ run.from \in Dates /\ run.to \in Dates /\ run.overwrite \in BOOLEAN
      /\ run.assignments \in SUBSET Assigned /\ run.due \in SUBSET Dates /\ run.from \in Nat
  BY <1>2, DatesAreNat DEF BegunRuns
<1>6. existing \in SUBSET Dates
  BY <1>5, ScheduleAssumption DEF ExistingDates, Dates
<1>7. /\ \A d \in existing : rows[d] # None
      /\ ~run.overwrite => \A d \in run.from .. run.to : d \notin existing => rows[d] = None
  BY DEF ExistingDates
<1> HIDE DEF existing, nothing, unwritten
<1>8. next \in GoingRuns
  BY <1>4, <1>5, <1>6 DEF GoingRuns
<1>9. /\ next.phase = "days" /\ next.from = run.from /\ next.to = run.to
      /\ next.overwrite = run.overwrite /\ next.assignments = run.assignments
      /\ next.due = run.due /\ next.date = run.from /\ next.cached = nothing
      /\ next.existing = existing /\ next.written = unwritten
  OBVIOUS
<1> HIDE DEF next
<1>10. ReadingFits(next)
  BY <1>2, <1>9 DEF ReadingFits
<1>11. WorkFits(next)
  <2>1. next.from <= next.date
    BY <1>5, <1>9
  <2>2. CacheFits(next) /\ ExistingFits(next) /\ WrittenFits(next)
    BY <1>4, <1>7, <1>9 DEF CacheFits, ExistingFits, WrittenFits
  <2>3. DueIsCovered(next)
    BY <1>2, <1>5, <1>9 DEF DueIsCovered, ReadingFits
  <2>4. HandSetIsEdited(next) /\ PlanFits(next)
    BY <1>7, <1>9 DEF HandSetIsEdited, PlanFits
  <2> QED
    BY <2>1, <2>2, <2>3, <2>4 DEF WorkFits
<1>12. GenerationFits(next)
  BY <1>8, <1>9, <1>10, <1>11 DEF GenerationFits, Runs
<1> QED
  BY <1>3, <1>12, RunMovesOn

\* The next date, with what was read and written so far.
LEMMA NextDateFields ==
  ASSUME NEW run \in GoingRuns
  PROVE  LET next == NextDate(run) IN
         /\ next \in GoingRuns /\ next.phase = "days" /\ next.date = run.date + 1
         /\ next.from = run.from /\ next.to = run.to /\ next.overwrite = run.overwrite
         /\ next.assignments = run.assignments /\ next.due = run.due
         /\ next.cached = run.cached /\ next.existing = run.existing
         /\ next.written = run.written /\ next.edited = run.edited
<1> DEFINE next == [run EXCEPT !.phase = "days", !.date = run.date + 1, !.plan = None]
<1>1. NextDate(run) = next
  BY DEF NextDate, GoingRuns
<1>2. run.date + 1 \in Nat
  BY DEF GoingRuns
<1>3. next \in GoingRuns
  BY <1>2 DEF GoingRuns
<1>4. /\ next.phase = "days" /\ next.date = run.date + 1
      /\ next.from = run.from /\ next.to = run.to /\ next.overwrite = run.overwrite
      /\ next.assignments = run.assignments /\ next.due = run.due
      /\ next.cached = run.cached /\ next.existing = run.existing
      /\ next.written = run.written /\ next.edited = run.edited
  BY DEF GoingRuns
<1> QED
  BY <1>1, <1>3, <1>4

\* A generation goes to the next date if the one it is at needs no row or has one.
LEMMA NextDateFits ==
  ASSUME NEW run \in GoingRuns, ReadingFits(run), run.from <= run.date,
         CacheFits(run), ExistingFits(run), WrittenFits(run), DueIsCovered(run),
         HandSetIsEdited(run),
         run.date \in run.due => run.date \in run.existing \/ run.date \in DOMAIN run.written
  PROVE  GenerationFits(NextDate(run))
<1> DEFINE next == NextDate(run)
<1>1. /\ next \in GoingRuns /\ next.phase = "days" /\ next.date = run.date + 1
      /\ next.from = run.from /\ next.to = run.to /\ next.overwrite = run.overwrite
      /\ next.assignments = run.assignments /\ next.due = run.due
      /\ next.cached = run.cached /\ next.existing = run.existing
      /\ next.written = run.written /\ next.edited = run.edited
  BY NextDateFields
<1>2. run.date \in Nat /\ run.from \in Nat /\ run.due \subseteq Nat
  BY DatesAreNat DEF GoingRuns
<1> HIDE DEF next
<1>3. ReadingFits(next)
  BY <1>1 DEF ReadingFits
<1>4. CacheFits(next) /\ ExistingFits(next) /\ WrittenFits(next) /\ HandSetIsEdited(next)
  BY <1>1 DEF CacheFits, ExistingFits, WrittenFits, HandSetIsEdited
<1>5. DueIsCovered(next)
  <2> SUFFICES ASSUME NEW d \in run.due, d < run.date + 1
               PROVE  d \in run.existing \/ d \in DOMAIN run.written
    BY <1>1 DEF DueIsCovered
  <2>1. d < run.date \/ d = run.date
    BY <1>2
  <2> QED
    BY <2>1 DEF DueIsCovered
<1>6. next.from <= next.date /\ PlanFits(next)
  BY <1>1, <1>2 DEF PlanFits
<1>7. GenerationFits(next)
  BY <1>1, <1>3, <1>4, <1>5, <1>6 DEF GenerationFits, Runs, WorkFits
<1> QED
  BY <1>7 DEF next

\* Of assignments that do not overlap one at most is selected for a date.
LEMMA SelectedIsTheOne ==
  ASSUME NEW S \in SUBSET Assigned, Apart(S), NEW d \in Int, NEW a \in S, In(d, a)
  PROVE  Selected(S, d) = {a}
<1>1. ASSUME NEW b \in S, In(d, b) PROVE b = a
  <2>1. Overlaps(a, b)
    BY <1>1 DEF In, Overlaps, Assigned
  <2> QED
    BY <1>1, <2>1 DEF Apart
<1>2. a.from <= a.from
  BY DEF Assigned
<1>3. a \in Selected(S, d)
  BY <1>1, <1>2 DEF Selected
<1> QED
  BY <1>1, <1>3 DEF Selected

LEMMA PassOverInv == ASSUME SchedulesInv, NEW g \in Generations, PassOver(g) PROVE SchedulesInv'
<1> PICK run : run = generating[g]
  OBVIOUS
<1>1. /\ GenerationFits(run) /\ run.phase = "days"
      /\ Selected(run.assignments, run.date) = {} \/ run.date \in run.existing
      /\ Goes(g, NextDate(run)) /\ UNCHANGED <<cycles, categories, assignments, rows>>
  BY DEF SchedulesInv, PassOver
<1>2. run \in GoingRuns /\ ReadingFits(run) /\ WorkFits(run)
  BY <1>1, PhaseTells DEF GenerationFits
<1>3. run.date \in run.due => run.date \in run.existing
  <2> SUFFICES ASSUME run.date \in run.due, Selected(run.assignments, run.date) = {} PROVE FALSE
    BY <1>1
  <2> PICK a \in run.assignments : In(run.date, a)
    BY <1>2 DEF ReadingFits
  <2>1. run.assignments \in SUBSET Assigned /\ run.date \in Int
    BY <1>2 DEF GoingRuns
  <2>2. Apart(run.assignments)
    BY <1>2 DEF ReadingFits
  <2> QED
    BY <2>1, <2>2, SelectedIsTheOne
<1>4. GenerationFits(NextDate(run))
  BY <1>2, <1>3, NextDateFits DEF WorkFits
<1> QED
  BY <1>1, <1>4, RunMovesOn

LEMMA RollbackInv ==
  ASSUME SchedulesInv, NEW g \in Generations, RollbackGeneration(g) PROVE SchedulesInv'
<1>1. GenerationFits(NoRun)
  BY DEF GenerationFits, Runs, NoRun
<1> QED
  BY <1>1, RunMovesOn DEF RollbackGeneration

\* The rows for a date are those that are defined for it; there is one if the cycle is ready.
LEMMA RowsForFit ==
  ASSUME PlansFit, NEW a \in Assigned, NEW d \in Dates, In(d, a),
         NEW known, known \subseteq DOMAIN a.cycle.days
  PROVE  /\ \A row \in RowsFor(a, known, d) : row \in Rows /\ Defined(row, d)
         /\ Ready(a, d) /\ known = DOMAIN a.cycle.days => RowsFor(a, known, d) # {}
<1> DEFINE position == PositionOf(a.anchor, d, a.cycle.length)
           day == CycleDayOf(a, d)
           versions == CategoriesOf(day, d)
<1>1. position \in DOMAIN a.cycle.days /\ day \in CycleDays /\ day = a.cycle.days[position]
  BY CycleDaysFit DEF CycleDayOf
<1>2. RowsFor(a, known, d) =
        IF position \notin known THEN {} ELSE {CycleRow(a, day, v) : v \in versions}
  BY DEF RowsFor, CategoriesOf, VersionFor, CycleDayOf
<1>3. versions \subseteq Categories \union {None}
  BY CategoriesOfFit
<1>4. a # None
  BY NoneIsNoRow
<1> HIDE DEF position
<1>5. ASSUME NEW row \in RowsFor(a, known, d) PROVE row \in Rows /\ Defined(row, d)
  <2> PICK v \in versions : row = CycleRow(a, day, v)
    BY <1>2
  <2>1. row \in Rows /\ row.by = a
    BY <1>1, <1>3, CycleRowFits
  <2> QED
    BY <1>4, <2>1 DEF Defined
<1>6. ASSUME Ready(a, d), known = DOMAIN a.cycle.days PROVE RowsFor(a, known, d) # {}
  <2>1. versions # {}
    BY <1>1, <1>6 DEF Ready
  <2> QED
    BY <1>1, <1>2, <1>6, <2>1
<1> QED
  BY <1>5, <1>6

LEMMA ReadDayInv == ASSUME SchedulesInv, NEW g \in Generations, ReadDay(g) PROVE SchedulesInv'
<1> PICK run : run = generating[g]
  OBVIOUS
<1>1. /\ GenerationFits(run) /\ run.phase = "days"
      /\ run.date <= run.to /\ run.date \notin run.existing
      /\ UNCHANGED <<cycles, categories, assignments, rows>> /\ PlansFit
  BY DEF SchedulesInv, ReadDay
<1>2. run \in GoingRuns /\ ReadingFits(run) /\ WorkFits(run)
  BY <1>1, PhaseTells DEF GenerationFits
<1> PICK a \in Selected(run.assignments, run.date) :
      LET known  == IF a.cycle \in DOMAIN run.cached THEN run.cached[a.cycle] ELSE cycles[a.cycle]
          cached == [c \in DOMAIN run.cached \union {a.cycle} |->
                       IF c = a.cycle THEN known ELSE run.cached[c]]
          plans  == RowsFor(a, known, run.date)
      IN  IF plans = {} THEN Goes(g, NextDate([run EXCEPT !.cached = cached]))
          ELSE \E row \in plans :
                 Goes(g, [run EXCEPT !.phase = "writing", !.cached = cached, !.plan = row])
  BY DEF ReadDay
<1> DEFINE known  == IF a.cycle \in DOMAIN run.cached THEN run.cached[a.cycle] ELSE cycles[a.cycle]
           cached == [c \in DOMAIN run.cached \union {a.cycle} |->
                        IF c = a.cycle THEN known ELSE run.cached[c]]
           plans  == RowsFor(a, known, run.date)
<1>3. IF plans = {} THEN Goes(g, NextDate([run EXCEPT !.cached = cached]))
      ELSE \E row \in plans :
             Goes(g, [run EXCEPT !.phase = "writing", !.cached = cached, !.plan = row])
  OBVIOUS
<1>4. /\ a \in run.assignments /\ In(run.date, a) /\ a \in Assigned /\ a.cycle \in DOMAIN cycles
      /\ a.cycle \in Cycles
  <2>1. a \in run.assignments /\ In(run.date, a)
    BY DEF Selected
  <2> QED
    BY <1>2, <2>1 DEF GoingRuns, ReadingFits, Assigned
<1>5. /\ run.date \in Dates /\ run.date \in Int /\ run.cached \in Caches
      /\ run.due \subseteq Dates /\ run.assignments \in SUBSET Assigned
  <2>1. /\ run.date \in Nat /\ run.to \in Dates /\ run.cached \in Caches
        /\ run.due \subseteq Dates /\ run.assignments \in SUBSET Assigned
    BY <1>2 DEF GoingRuns
  <2>2. run.date <= run.to
    BY <1>1
  <2>3. run.date \in Dates
    BY <2>1, <2>2, DateUpTo
  <2>4. run.date \in Int
    BY <2>3, DateIsInt
  <2> QED
    BY <2>1, <2>3, <2>4
<1>6. known \subseteq DOMAIN a.cycle.days /\ known \in SUBSET Nat
  <2>1. cycles[a.cycle] \subseteq DOMAIN a.cycle.days
    BY <1>1, <1>4 DEF PlansFit
  <2>2. a.cycle \in DOMAIN run.cached => run.cached[a.cycle] \subseteq DOMAIN a.cycle.days
    BY <1>2 DEF WorkFits, CacheFits
  <2>3. \A position \in DOMAIN a.cycle.days : position \in Nat
    BY <1>4, PositionsAreNat
  <2>4. known \subseteq DOMAIN a.cycle.days
    BY <2>1, <2>2, Zenon
  <2> HIDE DEF known
  <2>5. ASSUME NEW position \in known PROVE position \in Nat
    BY <2>3, <2>4, Zenon
  <2> QED
    BY <2>4, <2>5, Zenon
<1>7. /\ cached \in Caches /\ DOMAIN cached = DOMAIN run.cached \union {a.cycle}
      /\ cached[a.cycle] = known
      /\ \A c \in DOMAIN run.cached : c # a.cycle => cached[c] = run.cached[c]
  <2> PICK k, c, f : k = known /\ c = a.cycle /\ f = run.cached
    OBVIOUS
  <2> DEFINE next == [x \in DOMAIN f \union {c} |-> IF x = c THEN k ELSE f[x]]
  <2>1. k \in SUBSET Nat /\ c \in Cycles /\ f \in Caches
    <3> HIDE DEF known
    <3> QED
      BY <1>4, <1>5, <1>6
  <2>2. next = cached
    OBVIOUS
  <2>3. /\ next \in Caches /\ DOMAIN next = DOMAIN f \union {c} /\ next[c] = k
        /\ \A x \in DOMAIN f : x # c => next[x] = f[x]
    <3> DEFINE S == DOMAIN f \union {c}
    <3>1. S \in SUBSET Cycles /\ next \in [S -> SUBSET Nat]
      BY <2>1, CachesHold
    <3>2. next \in Caches
      BY <3>1, IsCache
    <3> QED
      BY <3>2
  <2> HIDE DEF known, cached, next
  <2> QED
    BY <2>2, <2>3
<1>8. ASSUME NEW d \in run.due, NEW b \in run.assignments, In(d, b), b.cycle = a.cycle
      PROVE  known = DOMAIN b.cycle.days
  <2>1. CASE a.cycle \in DOMAIN run.cached
    BY <1>2, <1>8, <2>1 DEF WorkFits, CacheFits
  <2>2. CASE a.cycle \notin DOMAIN run.cached
    <3>1. PICK x \in run.assignments : In(d, x) /\ Ready(x, d)
      BY <1>2 DEF ReadingFits
    <3>2. d \in Int
      <4>1. d \in Dates
        BY <1>5
      <4> QED
        BY <4>1, DateIsInt
    <3>3. Apart(run.assignments)
      BY <1>2 DEF ReadingFits
    <3> PICK S : S = run.assignments
      OBVIOUS
    <3>4. S \in SUBSET Assigned /\ Apart(S) /\ x \in S /\ b \in S /\ In(d, x) /\ In(d, b)
      BY <1>5, <1>8, <3>1, <3>3
    <3>5. Selected(S, d) = {x}
      BY <3>2, <3>4, SelectedIsTheOne, Zenon
    <3>6. Selected(S, d) = {b}
      BY <3>2, <3>4, SelectedIsTheOne, Zenon
    <3>7. x = b
      BY <3>5, <3>6
    <3> QED
      BY <1>8, <2>2, <3>1, <3>7 DEF Ready
  <2> QED
    BY <2>1, <2>2
<1>9. run.date \in run.due => Ready(a, run.date)
  <2> SUFFICES ASSUME run.date \in run.due PROVE Ready(a, run.date)
    OBVIOUS
  <2>1. PICK x \in run.assignments : In(run.date, x) /\ Ready(x, run.date)
    BY <1>2 DEF ReadingFits
  <2>2. Apart(run.assignments)
    BY <1>2 DEF ReadingFits
  <2>3. Selected(run.assignments, run.date) = {x} /\ Selected(run.assignments, run.date) = {a}
    BY <1>4, <1>5, <2>1, <2>2, SelectedIsTheOne
  <2>4. x = a
    BY <2>3
  <2> QED
    BY <2>1, <2>4
<1>10. \A row \in plans : row \in Rows /\ Defined(row, run.date)
  BY <1>1, <1>4, <1>5, <1>6, RowsForFit
<1>11. run.date \in run.due => plans # {}
  BY <1>1, <1>4, <1>5, <1>6, <1>8, <1>9, RowsForFit
<1> HIDE DEF known, cached, plans
\* The cache fits in whatever generation it is.
<1>12. ASSUME NEW r, r.cached = cached, r.due = run.due, r.assignments = run.assignments
       PROVE  CacheFits(r)
  <2>1. \A c \in DOMAIN cached : cached[c] \subseteq DOMAIN c.days
    BY <1>2, <1>6, <1>7 DEF WorkFits, CacheFits
  <2>2. ASSUME NEW d \in run.due, NEW b \in run.assignments, In(d, b), b.cycle \in DOMAIN cached
        PROVE  cached[b.cycle] = DOMAIN b.cycle.days
    <3>1. CASE b.cycle = a.cycle
      BY <1>7, <1>8, <2>2, <3>1
    <3>2. CASE b.cycle # a.cycle
      BY <1>2, <1>7, <2>2, <3>2 DEF WorkFits, CacheFits
    <3> QED
      BY <3>1, <3>2
  <2> QED
    BY <1>12, <2>1, <2>2 DEF CacheFits
<1>13. CASE plans = {}
  <2> DEFINE next == [run EXCEPT !.cached = cached]
  <2>1. next \in GoingRuns
    BY <1>2, <1>7 DEF GoingRuns
  <2>2. /\ next.phase = "days" /\ next.date = run.date
        /\ next.from = run.from /\ next.to = run.to /\ next.overwrite = run.overwrite
        /\ next.assignments = run.assignments /\ next.due = run.due
        /\ next.cached = cached /\ next.existing = run.existing
        /\ next.written = run.written /\ next.edited = run.edited
    BY <1>1, <1>2 DEF GoingRuns
  <2>3. Goes(g, NextDate(next))
    BY <1>3, <1>13
  <2> HIDE DEF next
  <2>4. ReadingFits(next)
    BY <1>2, <2>2 DEF ReadingFits
  <2>5. CacheFits(next)
    BY <1>12, <2>2
  <2>6. /\ next.from <= next.date /\ ExistingFits(next) /\ WrittenFits(next) /\ DueIsCovered(next)
        /\ HandSetIsEdited(next)
    BY <1>2, <2>2 DEF WorkFits, ExistingFits, WrittenFits, DueIsCovered, HandSetIsEdited
  <2>7. next.date \notin next.due
    BY <1>11, <1>13, <2>2
  <2>8. GenerationFits(NextDate(next))
    BY <2>1, <2>4, <2>5, <2>6, <2>7, NextDateFits
  <2> QED
    BY <1>1, <2>3, <2>8, RunMovesOn
<1>14. CASE plans # {}
  <2> PICK row \in plans :
        Goes(g, [run EXCEPT !.phase = "writing", !.cached = cached, !.plan = row])
    BY <1>3, <1>14
  <2> DEFINE next == [run EXCEPT !.phase = "writing", !.cached = cached, !.plan = row]
  <2>1. row \in Rows /\ Defined(row, run.date)
    BY <1>10
  <2>2. next \in GoingRuns
    BY <1>2, <1>7, <2>1 DEF GoingRuns
  <2>3. /\ next.phase = "writing" /\ next.date = run.date
        /\ next.from = run.from /\ next.to = run.to /\ next.overwrite = run.overwrite
        /\ next.assignments = run.assignments /\ next.due = run.due
        /\ next.cached = cached /\ next.existing = run.existing
        /\ next.written = run.written /\ next.edited = run.edited /\ next.plan = row
    BY <1>2 DEF GoingRuns
  <2>4. Goes(g, next)
    OBVIOUS
  <2> HIDE DEF next
  <2>5. ReadingFits(next)
    BY <1>2, <2>3 DEF ReadingFits
  <2>6. CacheFits(next)
    BY <1>12, <2>3
  <2>7. /\ next.from <= next.date /\ ExistingFits(next) /\ WrittenFits(next) /\ DueIsCovered(next)
        /\ HandSetIsEdited(next)
    BY <1>2, <2>3 DEF WorkFits, ExistingFits, WrittenFits, DueIsCovered, HandSetIsEdited
  <2>8. PlanFits(next)
    BY <1>1, <2>1, <2>3 DEF PlanFits
  <2>9. GenerationFits(next)
    BY <2>2, <2>3, <2>5, <2>6, <2>7, <2>8 DEF GenerationFits, Runs, WorkFits
  <2> QED
    BY <1>1, <2>4, <2>9, RunMovesOn
<1> QED
  BY <1>13, <1>14

LEMMA WriteDayInv == ASSUME SchedulesInv, NEW g \in Generations, WriteDay(g) PROVE SchedulesInv'
<1> PICK run : run = generating[g]
  OBVIOUS
<1> DEFINE written == [d \in DOMAIN run.written \union {run.date} |->
                         IF d = run.date THEN run.plan ELSE run.written[d]]
           next == [run EXCEPT !.written = written]
<1>1. /\ GenerationFits(run) /\ run.phase = "writing" /\ Goes(g, NextDate(next))
      /\ UNCHANGED <<cycles, categories, assignments, rows>>
  BY DEF SchedulesInv, WriteDay
<1>2. run \in GoingRuns /\ ReadingFits(run) /\ WorkFits(run) /\ PlanFits(run)
  BY <1>1, PhaseTells DEF GenerationFits, WorkFits
<1>3. /\ run.date \in run.from .. run.to /\ run.date \notin run.existing
      /\ run.plan \in Rows /\ Defined(run.plan, run.date)
      /\ run.date \in Dates /\ run.written \in Writings
  <2>1. /\ run.date <= run.to /\ run.from <= run.date /\ run.date \notin run.existing
        /\ run.plan \in Rows /\ Defined(run.plan, run.date)
    BY <1>1, <1>2 DEF PlanFits, WorkFits
  <2>2. run.from \in 0 .. LastDate /\ run.to \in 0 .. LastDate /\ run.date \in Nat
        /\ run.written \in Writings /\ LastDate \in Nat
    BY <1>2, ScheduleAssumption DEF GoingRuns, Dates
  <2> QED
    BY <2>1, <2>2 DEF Dates
<1>4. /\ written \in Writings /\ DOMAIN written = DOMAIN run.written \union {run.date}
      /\ written[run.date] = run.plan
      /\ \A d \in DOMAIN run.written : d # run.date => written[d] = run.written[d]
  <2> PICK f, at, plan : f = run.written /\ at = run.date /\ plan = run.plan
    OBVIOUS
  <2> DEFINE S == DOMAIN f \union {at}
             filled == [x \in S |-> IF x = at THEN plan ELSE f[x]]
  <2>1. S \in SUBSET Dates /\ filled \in [S -> Rows]
    BY <1>3, WritingsHold
  <2>2. filled \in Writings
    BY <2>1, IsWriting
  <2>3. filled = written
    OBVIOUS
  <2> HIDE DEF next
  <2> QED
    BY <2>2, <2>3
<1> HIDE DEF written
<1>5. next \in GoingRuns
  BY <1>2, <1>4 DEF GoingRuns
<1>6. /\ next.date = run.date
      /\ next.from = run.from /\ next.to = run.to /\ next.overwrite = run.overwrite
      /\ next.assignments = run.assignments /\ next.due = run.due
      /\ next.cached = run.cached /\ next.existing = run.existing
      /\ next.written = written /\ next.edited = run.edited
  BY <1>2 DEF GoingRuns
<1> HIDE DEF next
<1>7. ReadingFits(next)
  BY <1>2, <1>6 DEF ReadingFits
<1>8. /\ next.from <= next.date /\ ExistingFits(next) /\ CacheFits(next) /\ HandSetIsEdited(next)
  BY <1>2, <1>6 DEF WorkFits, ExistingFits, CacheFits, HandSetIsEdited
<1>9. WrittenFits(next)
  <2> SUFFICES ASSUME NEW d \in DOMAIN written
               PROVE  Defined(written[d], d) /\ d \in run.from .. run.to /\ d \notin run.existing
    BY <1>6 DEF WrittenFits
  <2>1. CASE d = run.date
    BY <1>3, <1>4, <2>1
  <2>2. CASE d # run.date
    BY <1>2, <1>4, <2>2 DEF WorkFits, WrittenFits
  <2> QED
    BY <2>1, <2>2
<1>10. DueIsCovered(next)
  BY <1>2, <1>4, <1>6 DEF WorkFits, DueIsCovered
<1>11. next.date \in DOMAIN next.written
  BY <1>4, <1>6
<1>12. GenerationFits(NextDate(next))
  BY <1>5, <1>7, <1>8, <1>9, <1>10, <1>11, NextDateFits
<1> QED
  BY <1>1, <1>12, RunMovesOn

-----------------------------------------------------------------------------
\* What a generation commits: its rows, none of them by hand.
LEMMA CommitWrites ==
  ASSUME SchedulesInv, NEW g \in Generations, CommitGeneration(g)
  PROVE  /\ generating[g] \in GoingRuns /\ WorkFits(generating[g]) /\ ReadingFits(generating[g])
         /\ rows' \in [Dates -> Rows \union {None}]
         /\ \A d \in Dates :
              /\ d \in DOMAIN generating[g].written =>
                   /\ rows'[d] = generating[g].written[d]
                   /\ rows'[d] # None /\ rows'[d].by # None /\ Defined(rows'[d], d)
              /\ d \notin DOMAIN generating[g].written => rows'[d] = rows[d]
<1> PICK run : run = generating[g]
  OBVIOUS
<1>1. /\ GenerationFits(run) /\ run.phase = "days"
      /\ rows' = [d \in Dates |-> IF d \in DOMAIN run.written THEN run.written[d] ELSE rows[d]]
      /\ rows \in [Dates -> Rows \union {None}]
  BY DEF SchedulesInv, RowsFit, CommitGeneration
<1>2. run \in GoingRuns /\ WorkFits(run) /\ ReadingFits(run)
  BY <1>1, PhaseTells DEF GenerationFits
<1>3. run.written \in Writings
  BY <1>2 DEF GoingRuns
<1>4. ASSUME NEW d \in DOMAIN run.written
      PROVE  /\ run.written[d] \in Rows /\ run.written[d] # None
             /\ run.written[d].by # None /\ Defined(run.written[d], d)
  <2>1. run.written[d] \in Rows
    BY <1>3, WritingsHold
  <2>2. Defined(run.written[d], d)
    BY <1>2 DEF WorkFits, WrittenFits
  <2> QED
    BY <2>1, <2>2, NoneIsNoRow DEF Defined
<1>5. \A d \in Dates : rows'[d] = IF d \in DOMAIN run.written THEN run.written[d] ELSE rows[d]
  BY <1>1
<1>6. rows' \in [Dates -> Rows \union {None}]
  BY <1>1, <1>4
<1> QED
  BY <1>2, <1>4, <1>5, <1>6

LEMMA CommitInv ==
  ASSUME SchedulesInv, NEW g \in Generations, CommitGeneration(g) PROVE SchedulesInv'
<1>1. PlansFit' /\ Grow
  BY SettingsStay DEF SchedulesInv, CommitGeneration
<1> PICK written : written = generating[g].written
  OBVIOUS
<1>2. /\ rows' \in [Dates -> Rows \union {None}]
      /\ \A d \in Dates :
           /\ d \in DOMAIN written => /\ rows'[d] = written[d]
                                      /\ rows'[d] # None /\ rows'[d].by # None
                                      /\ Defined(written[d], d)
           /\ d \notin DOMAIN written => rows'[d] = rows[d]
  BY CommitWrites
<1>3. RowsFit'
  <2> SUFFICES ASSUME NEW d \in Dates, rows'[d] # None, rows'[d].by # None
               PROVE  Defined(rows[d], d)'
    BY <1>2 DEF RowsFit
  <2> PICK row : row = rows'[d]
    OBVIOUS
  <2>1. CASE d \in DOMAIN written
    BY <1>1, <1>2, <2>1, DefinedStays
  <2>2. CASE d \notin DOMAIN written
    <3>1. rows[d] = row /\ Defined(row, d)
      BY <1>2, <2>2 DEF SchedulesInv, RowsFit
    <3>2. Defined(row, d)'
      BY <1>1, <3>1, DefinedStays
    <3> QED
      BY <3>2
  <2> QED
    BY <2>1, <2>2
<1>4. /\ \A d \in Dates : rows[d] # None => rows'[d] # None
      /\ \A d \in Dates : rows'[d] # None /\ rows'[d].by = None => rows'[d] = rows[d]
  BY <1>2
<1>5. Goes(g, NoRun)
  BY DEF CommitGeneration
<1>6. /\ generating'[g] = NoRun /\ \A h \in Generations \ {g} : generating'[h] = generating[h]
      /\ \E S : generating' \in [Generations -> S]
  <2>1. PICK S : generating \in [Generations -> S]
    BY DEF SchedulesInv
  <2>2. generating' \in [Generations -> S \union {NoRun}]
    BY <1>5, <2>1 DEF Goes
  <2> QED
    BY <1>5, <2>1, <2>2 DEF Goes
<1>7. GenerationFits(NoRun)'
  BY DEF GenerationFits, Runs, NoRun
<1>8. ASSUME NEW h \in Generations, h # g PROVE GenerationFits(generating[h])'
  <2> PICK r : r = generating[h]
    OBVIOUS
  <2>1. generating'[h] = r /\ GenerationFits(r)
    BY <1>6, <1>8 DEF SchedulesInv
  <2>2. GenerationFits(r)'
    BY <1>1, <1>4, <2>1, OtherRunsStay
  <2> QED
    BY <2>1, <2>2
<1>9. \A h \in Generations : GenerationFits(generating[h])'
  <2>1. GenerationFits(generating[g])'
    BY <1>6, <1>7
  <2> QED
    BY <1>8, <2>1
<1> QED
  BY <1>1, <1>3, <1>6, <1>9 DEF SchedulesInv

LEMMA StepSchedulesInv == SchedulesInv /\ [NextSchedules]_scheduleVars => SchedulesInv'
<1> SUFFICES ASSUME SchedulesInv, [NextSchedules]_scheduleVars PROVE SchedulesInv'
  OBVIOUS
<1>1. CASE UNCHANGED scheduleVars
  BY <1>1, SettingsStay, SettingsGrow DEF scheduleVars, SchedulesInv
<1>2. CASE Configure
  BY <1>2, ConfigureInv
<1>3. ASSUME NEW d \in Dates, NEW edit \in Edits, EditSchedule(d, edit) PROVE SchedulesInv'
  BY <1>3, EditScheduleInv
<1>4. ASSUME NEW g \in Generations, Generate(g) PROVE SchedulesInv'
  BY <1>4, BeginInv, ReadDatesInv, PassOverInv, ReadDayInv, WriteDayInv, RollbackInv, CommitInv
     DEF Generate
<1> QED
  BY <1>1, <1>2, <1>3, <1>4 DEF NextSchedules

LEMMA AlwaysSchedulesInv == SchedulesSpec => []SchedulesInv
BY InitSchedulesInv, StepSchedulesInv, PTL DEF SchedulesSpec

(***************************************************************************)
(* A generation that may not overwrite replaces no row that was set by     *)
(* hand before it read which dates are taken, for any settings, dates and  *)
(* number of generations ("手で直した予定を黙って上書きしない",            *)
(* generateWorkSchedules).                                                 *)
(***************************************************************************)
THEOREM HandSetSchedulesStand == SchedulesSpec => HandEditsStand
<1>1. ASSUME SchedulesInv, NEW g \in Generations, Commits(g), NEW d \in Dates,
             rows[d] # None, rows'[d] # rows[d], rows[d].by = None
      PROVE  generating[g].overwrite \/ d \in generating[g].edited
  <2>1. CommitGeneration(g)
    BY <1>1 DEF Commits
  <2>2. d \in DOMAIN generating[g].written /\ WorkFits(generating[g])
    BY <1>1, <2>1, CommitWrites
  <2> QED
    BY <1>1, <2>2 DEF WorkFits, WrittenFits, HandSetIsEdited
<1>2. SchedulesInv =>
        \A g \in Generations : Commits(g) =>
          \A d \in Dates :
            rows[d] # None /\ rows'[d] # rows[d] /\ rows[d].by = None
              => generating[g].overwrite \/ d \in generating[g].edited
  BY <1>1
<1> QED
  BY <1>2, AlwaysSchedulesInv, PTL DEF HandEditsStand

\* Two versions of one code that are in effect on a date are the same.
LEMMA OneVersionOn ==
  ASSUME PlansFit, NEW d \in Int, NEW c, NEW v \in VersionsOn(c, d), NEW w \in VersionsOn(c, d)
  PROVE  v = w
<1>1. v \in categories /\ w \in categories /\ v.code = w.code /\ In(d, v) /\ In(d, w)
  BY DEF VersionsOn
<1>2. v.from \in Int /\ v.to \in Int /\ w.from \in Int /\ w.to \in Int
  BY <1>1, VersionsInt DEF PlansFit
<1>3. Overlaps(v, w)
  BY <1>1, <1>2 DEF In, Overlaps
<1> QED
  BY <1>1, <1>3 DEF PlansFit

LEMMA RowsAreDefined == ASSUME SchedulesInv PROVE GeneratedAsDefined
<1> SUFFICES ASSUME NEW d \in Dates, rows[d] # None, rows[d].by # None
             PROVE  LET a == rows[d].by
                    IN  /\ In(d, a)
                        /\ \A position \in DOMAIN a.cycle.days : IsAt(a, d, position) =>
                             LET day == a.cycle.days[position]
                             IN  IF day.category = None THEN rows[d] = CycleRow(a, day, None)
                                 ELSE \A v \in VersionsOn(day.category, d) :
                                        rows[d] = CycleRow(a, day, v)
  BY DEF GeneratedAsDefined
<1> PICK row : row = rows[d]
  OBVIOUS
<1> DEFINE a == row.by
<1>1. row \in Rows /\ Defined(row, d) /\ PlansFit /\ row.by # None
  BY DEF SchedulesInv, RowsFit
<1>2. a \in Assigned
  BY <1>1 DEF Rows
<1>3. /\ DOMAIN a.cycle.days = 0 .. a.cycle.length - 1 /\ a.cycle.length \in Nat \ {0}
      /\ a.anchor \in Int /\ d \in Int
  BY <1>2, CycleDaysFit, DatesAreNat DEF Assigned
<1>4. ASSUME NEW position \in DOMAIN a.cycle.days, IsAt(a, d, position)
      PROVE  PositionOf(a.anchor, d, a.cycle.length) = position
  <2>1. \A n \in -LastDate .. LastDate : n \in Int
    <3>1. LastDate \in Nat
      BY ScheduleAssumption
    <3> QED
      BY <3>1
  <2>2. PICK n \in Int : d = a.anchor + position + n * a.cycle.length
    BY <1>4, <2>1 DEF IsAt
  <2>3. PICK anchor, length : anchor = a.anchor /\ length = a.cycle.length
    OBVIOUS
  <2>4. anchor \in Int /\ length \in Nat \ {0} /\ d \in Int /\ position \in 0 .. length - 1
    BY <1>3, <2>3
  <2>5. d = anchor + position + n * length
    BY <2>2, <2>3
  <2> HIDE DEF a
  <2>6. PositionOf(anchor, d, length) = position
    BY <2>4, <2>5, PositionIsAt
  <2> QED
    BY <2>3, <2>6
<1>5. ASSUME NEW position \in DOMAIN a.cycle.days, IsAt(a, d, position)
      PROVE  LET day == a.cycle.days[position]
             IN  IF day.category = None THEN row = CycleRow(a, day, None)
                 ELSE \A v \in VersionsOn(day.category, d) : row = CycleRow(a, day, v)
  <2> DEFINE day == a.cycle.days[position]
  <2>1. day = CycleDayOf(a, d)
    BY <1>4, <1>5 DEF CycleDayOf
  <2>2. PICK v \in CategoriesOf(day, d) : row = CycleRow(a, day, v)
    BY <1>1, <2>1 DEF Defined
  <2>3. CASE day.category = None
    BY <2>2, <2>3 DEF CategoriesOf
  <2>4. CASE day.category # None
    <3>1. v \in VersionsOn(day.category, d)
      BY <2>4 DEF CategoriesOf
    <3>2. \A w \in VersionsOn(day.category, d) : w = v
      BY <1>1, <1>3, <3>1, OneVersionOn
    <3> QED
      BY <2>2, <2>4, <3>2
  <2> QED
    BY <2>3, <2>4
<1>6. In(d, a)
  BY <1>1 DEF Defined
<1> QED
  BY <1>5, <1>6

LEMMA DueDatesAreCovered ==
  ASSUME SchedulesInv, NEW g \in Generations, Commits(g), NEW d \in generating[g].due
  PROVE  rows'[d] # None
<1> PICK run : run = generating[g]
  OBVIOUS
<1>1. CommitGeneration(g) /\ run.date > run.to
  BY DEF Commits
<1>2. run \in GoingRuns /\ WorkFits(run) /\ ReadingFits(run)
  BY <1>1, CommitWrites
<1>3. d \in Dates /\ d \in run.from .. run.to
  BY <1>2 DEF GoingRuns, ReadingFits
<1>4. d < run.date
  BY <1>1, <1>2, <1>3, DatesAreNat DEF GoingRuns
<1>5. d \in run.existing \/ d \in DOMAIN run.written
  BY <1>2, <1>4 DEF WorkFits, DueIsCovered
<1>6. CASE d \in DOMAIN run.written
  BY <1>1, <1>3, <1>6, CommitWrites
<1>7. CASE d \notin DOMAIN run.written
  <2>1. rows[d] # None /\ rows'[d] = rows[d]
    BY <1>1, <1>2, <1>3, <1>5, <1>7, CommitWrites DEF WorkFits, ExistingFits
  <2> QED
    BY <2>1
<1> QED
  BY <1>6, <1>7

(***************************************************************************)
(* Whatever is generated is what the cycle has on its date, in the one     *)
(* version of its category in effect then, and a generation leaves out no  *)
(* date that could be generated when it began, before the anchor or after  *)
(* it, for cycles of any length (work-cycle.ts, generateWorkSchedules).    *)
(***************************************************************************)
THEOREM GenerationsFollow == SchedulesSpec => GenerationsFollowTheCycles
<1>1. SchedulesInv => GeneratedAsDefined
  BY RowsAreDefined
<1>2. SchedulesInv =>
        \A g \in Generations : Commits(g) => \A d \in generating[g].due : rows'[d] # None
  BY DueDatesAreCovered
<1>3. SchedulesSpec => []GeneratedAsDefined
  BY <1>1, AlwaysSchedulesInv, PTL
<1>4. SchedulesSpec => CoveredDatesAreGenerated
  BY <1>2, AlwaysSchedulesInv, PTL DEF CoveredDatesAreGenerated
<1> QED
  BY <1>3, <1>4 DEF GenerationsFollowTheCycles
=============================================================================
