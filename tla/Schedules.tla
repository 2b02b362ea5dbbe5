------------------------------ MODULE Schedules ------------------------------
(***************************************************************************)
(* Work schedules of one employee: cycles, categories of work, assignments *)
(* of cycles, schedules made by hand and schedules generated from cycles   *)
(* (api/src/schedule, domain/src/schedule/work-cycle.ts).                  *)
(*                                                                         *)
(* Creating a cycle inserts its row and its days one by one, in no         *)
(* transaction.  Generating schedules is one transaction that goes through *)
(* the dates, reads cycles and categories outside of itself, and keeps the *)
(* rows it wrote locked.  The calculation of each day, which follows every *)
(* write, is in MonthTotals.  Patterns are never changed, and are data     *)
(* here; the breaks of a category matter to calculations only.             *)
(***************************************************************************)
EXTENDS Integers, FiniteSets, FiniteSetsExt

CONSTANTS LastDate,     \* the last business date, a bound
          Cycles,       \* the cycles that may be created: [length, days],
                        \* days: position -> [type, pattern, category]
          Categories,   \* the versions of categories that may be created:
                        \* [code, from, to, type, start, end]
          Assignable,   \* the assignments that may be made: [cycle, anchor, from, to]
          Edits,        \* what may be sent for a day by hand: [type, start,
                        \* end, break, pattern, category, leave]
          Ranges,       \* the dates a generation may be asked for: [from, to]
          Generations,  \* what generates schedules, one run at a time each
          None          \* null

Dates   == 0 .. LastDate
Forever == LastDate + 1       \* effective_to: null

DayTypes == {"working_day", "non_working_day", "legal_holiday", "public_holiday", "leave",
             "absence"}
Times    == Nat \union {None}
Patterns == [start : Nat, end : Nat, break : Nat]

\* employee_work_cycles and work_schedules
Assigned == [cycle : Cycles, anchor : Int, from : Int, to : Int]

Rows ==
  [type : DayTypes, start : Times, end : Times, break : Nat, pattern : Patterns \union {None},
   category : Categories \union {None}, leave : {edit.leave : edit \in Edits} \union {None},
   by : Assigned \union {None}]

CycleDays ==
  [type : DayTypes, pattern : Patterns \union {None}, category : Categories \union {None}]

ASSUME ScheduleAssumption ==
  /\ LastDate \in Nat
  /\ \A c \in Cycles : /\ c.length \in Nat \ {0} /\ DOMAIN c.days = 0 .. c.length - 1
                       /\ \A position \in DOMAIN c.days : c.days[position] \in CycleDays
  /\ \A range \in Ranges : range.from \in Dates /\ range.to \in Dates
  /\ \A v \in Categories :
       /\ v.from \in Dates /\ v.to \in v.from .. Forever
       /\ v.type \in DayTypes /\ v.start \in Times /\ v.end \in Times
  /\ Assignable \subseteq Assigned
  /\ \A edit \in Edits :
       /\ edit.type \in DayTypes \union {None} /\ edit.start \in Times /\ edit.end \in Times
       /\ edit.break \in Times /\ edit.pattern \in Patterns \union {None}
       /\ edit.category \in Categories \union {None}
  /\ None \notin Rows \union Assigned \union Categories \union Patterns \union Nat

VARIABLES
  cycles,      \* work_cycles with work_cycle_days: the positions each has so far
  categories,  \* work_categories
  assignments, \* employee_work_cycles
  rows,        \* work_schedules: a row, or None, for each date.  `by` is the
               \* assignment a row was generated from, None when it was made by
               \* hand; the table does not say
  generating   \* the generations under way

scheduleVars == <<cycles, categories, assignments, rows, generating>>

PlannedTypes == {"working_day", "leave", "absence"}

In(d, period) == d \in period.from .. period.to
Overlaps(p, q) == p.from <= q.to /\ q.from <= p.to

\* The value that was given, or else the other.
Or(given, other) == IF given = None THEN other ELSE given

-----------------------------------------------------------------------------
(* domain/src/schedule/work-cycle.ts *)

\* The remainder of JavaScript, which has the sign of what is divided.
Remainder(n, length) == IF n >= 0 THEN n % length ELSE -((-n) % length)

\* Mutant: a date before the anchor has a negative position.
PositionUnadjusted(anchor, d, length) == Remainder(d - anchor, length)

PositionOf(anchor, d, length) == (Remainder(d - anchor, length) + length) % length

\* selectAssignment: the latest of those in effect, if there are any.
Selected(list, d) ==
  LET applicable == {a \in list : In(d, a)}
  IN  {a \in applicable : \A b \in applicable : b.from <= a.from}

\* findWorkCategoryForDate: the version, of the code of the one that is named, in effect.
VersionsOn(version, d) == {v \in categories : v.code = version.code /\ In(d, v)}

\* Mutant: the version that is named.
VersionNamed(version, d) == {v \in categories : v = version /\ d \in Dates}

\* What generateWorkSchedules looks up.
VersionFor(version, d) == VersionsOn(version, d)

-----------------------------------------------------------------------------
(* Settings *)

NoRun == [phase |-> "none"]

InitSchedules ==
  /\ cycles = [c \in {} |-> {}]
  /\ categories = {}
  /\ assignments = {}
  /\ rows = [d \in Dates |-> None]
  /\ generating = [g \in Generations |-> NoRun]

\* createWorkCycle: the row (its code is unique), and then each day, unless one is refused
\* (its pattern or category is of another workspace) or the process stops: no other operation
\* adds the days that are missing.
CreateCycle(c) ==
  /\ c \notin DOMAIN cycles
  /\ cycles' = [x \in DOMAIN cycles \union {c} |-> IF x = c THEN {} ELSE cycles[x]]
  /\ UNCHANGED <<categories, assignments, rows, generating>>

InsertCycleDay(c) ==
  /\ c \in DOMAIN cycles
  /\ \E position \in DOMAIN c.days \ cycles[c] :
       cycles' = [cycles EXCEPT ![c] = @ \union {position}]
  /\ UNCHANGED <<categories, assignments, rows, generating>>

\* work_categories_no_overlap
Fits(versions) ==
  \A v \in versions, w \in versions \union categories :
    v # w /\ v.code = w.code => ~Overlaps(v, w)

CreateCategory(v) ==
  /\ (v.start = None) = (v.end = None)
  /\ v \notin categories /\ Fits({v})
  /\ categories' = categories \union {v}
  /\ UNCHANGED <<cycles, assignments, rows, generating>>

\* importWorkCategories: all or none, and one time without the other passes.
ImportCategories(versions) ==
  /\ versions # {} /\ versions \intersect categories = {} /\ Fits(versions)
  /\ categories' = categories \union versions
  /\ UNCHANGED <<cycles, assignments, rows, generating>>

\* assignWorkCycle and endWorkCycleAssignment, with employee_work_cycles_no_overlap.
Assign(a) ==
  /\ a.cycle \in DOMAIN cycles
  /\ a.from <= a.to
  /\ \A b \in assignments : ~Overlaps(a, b)
  /\ assignments' = assignments \union {a}
  /\ UNCHANGED <<cycles, categories, rows, generating>>

EndAssignment(a, to) ==
  /\ to \in a.from .. LastDate
  /\ \A b \in assignments \ {a} : ~Overlaps([a EXCEPT !.to = to], b)
  /\ assignments' = (assignments \ {a}) \union {[a EXCEPT !.to = to]}
  /\ UNCHANGED <<cycles, categories, rows, generating>>

-----------------------------------------------------------------------------
(* Schedules by hand *)

\* What the day starts from: the pattern, or else the category of the date.
TemplateOf(edit, category) ==
  IF edit.pattern # None THEN edit.pattern
  ELSE IF category # None THEN [start |-> category.start, end |-> category.end, break |-> 0]
  ELSE [start |-> None, end |-> None, break |-> 0]

\* The row upsertWorkSchedule makes of its input.
HandRow(edit, category) ==
  LET template == TemplateOf(edit, category)
      start    == Or(edit.start, template.start)
      end      == Or(edit.end, template.end)
      type     == Or(edit.type, IF category # None THEN category.type
                                ELSE IF start = None THEN "non_working_day" ELSE "working_day")
      planned  == type \in PlannedTypes
  IN  [type     |-> type,
       start    |-> IF planned THEN start ELSE None,
       end      |-> IF planned THEN end ELSE None,
       break    |-> IF planned THEN Or(edit.break, template.break) ELSE 0,
       pattern  |-> IF planned THEN edit.pattern ELSE None,
       category |-> edit.category,
       leave    |-> IF type = "leave" THEN edit.leave ELSE None,
       by       |-> None]

Paired(row)    == (row.start = None) = (row.end = None)
InOrder(row)   == row.start # None /\ row.end # None => row.start < row.end

\* work_schedules_time_pair and work_schedules_order
TableTakes(row) == Paired(row) /\ InOrder(row)

\* A row a generation has written and not committed is locked.
Unlocked(d, others) == \A g \in others : generating[g].phase \in {"days", "writing"} =>
                                           d \notin DOMAIN generating[g].written

\* A generation that has read which dates have a row does not see this one.
AfterEdit(run, d) ==
  IF run.phase \in {"days", "writing"} THEN [run EXCEPT !.edited = @ \union {d}] ELSE run

EditSchedule(d, edit) ==
  LET versions == IF edit.category = None THEN {None} ELSE VersionsOn(edit.category, d)
  IN  \E category \in versions :
        LET row == HandRow(edit, category)
        IN  /\ TableTakes(row)
            /\ Unlocked(d, Generations)
            /\ rows' = [rows EXCEPT ![d] = row]
            /\ generating' = [g \in Generations |-> AfterEdit(generating[g], d)]
            /\ UNCHANGED <<cycles, categories, assignments>>

-----------------------------------------------------------------------------
(* generateWorkSchedules *)

Goes(g, run) == generating' = [generating EXCEPT ![g] = run]
NextDate(run) == [run EXCEPT !.phase = "days", !.date = @ + 1, !.plan = None]

\* The dates of an assignment for which all that its cycle needs has been created.
Due(a) ==
  {d \in Dates :
     /\ In(d, a) /\ cycles[a.cycle] = DOMAIN a.cycle.days
     /\ \A position \in DOMAIN a.cycle.days :
          LET category == a.cycle.days[position].category
          IN  category = None \/ VersionsOn(category, d) # {}}

\* The assignments are read before the transaction begins.  `due`, which the program does not
\* keep, is what there was to generate then.
Begin(g, range, overwrite) ==
  /\ generating[g].phase = "none"
  /\ Goes(g, [phase |-> "begun", from |-> range.from, to |-> range.to,
              overwrite |-> overwrite, assignments |-> assignments,
              due |-> {d \in UNION {Due(a) : a \in assignments} : In(d, range)}])
  /\ UNCHANGED <<cycles, categories, assignments, rows>>

\* Mutant: the first of the dates is left out.
ExistingAfter(from, to) == {d \in from + 1 .. to : rows[d] # None}

ExistingDates(from, to) == {d \in from .. to : rows[d] # None}

\* `edited`, which the program does not keep: the dates set by hand since.
ReadDates(g) ==
  LET run == generating[g]
  IN  /\ run.phase = "begun"
      /\ Goes(g, [phase |-> "days", from |-> run.from, to |-> run.to,
                  overwrite |-> run.overwrite, assignments |-> run.assignments,
                  due |-> run.due, date |-> run.from, cached |-> [c \in {} |-> {}],
                  existing |-> IF run.overwrite THEN {} ELSE ExistingDates(run.from, run.to),
                  written |-> [d \in {} |-> None], plan |-> None, edited |-> {}])
      /\ UNCHANGED <<cycles, categories, assignments, rows>>

\* The row of a day of a cycle, in the version of its category if it has one.
CycleRow(a, day, category) ==
  LET start == IF day.pattern = None THEN None ELSE day.pattern.start
      end   == IF day.pattern = None THEN None ELSE day.pattern.end
  IN  [type     |-> IF category = None THEN day.type ELSE category.type,
       start    |-> IF category = None THEN start ELSE Or(start, category.start),
       end      |-> IF category = None THEN end ELSE Or(end, category.end),
       break    |-> IF day.pattern = None THEN 0 ELSE day.pattern.break,
       pattern  |-> day.pattern, category |-> category, leave |-> None, by |-> a]

\* The rows a day may get: none when the cycle as it was read lacks the day, or when no
\* version of its category is in effect.
RowsFor(a, known, d) ==
  LET position == PositionOf(a.anchor, d, a.cycle.length)
  IN  IF position \notin known THEN {}
      ELSE LET day == a.cycle.days[position]
               versions == IF day.category = None THEN {None} ELSE VersionFor(day.category, d)
           IN  {CycleRow(a, day, v) : v \in versions}

\* What is read for one date: the cycle, once in a run, and the category.
PassOver(g) ==
  LET run == generating[g]
  IN  /\ run.phase = "days" /\ run.date <= run.to
      /\ Selected(run.assignments, run.date) = {} \/ run.date \in run.existing
      /\ Goes(g, NextDate(run))
      /\ UNCHANGED <<cycles, categories, assignments, rows>>

ReadDay(g) ==
  LET run == generating[g]
  IN  /\ run.phase = "days" /\ run.date <= run.to
      /\ run.date \notin run.existing
      /\ \E a \in Selected(run.assignments, run.date) :
           LET known  == IF a.cycle \in DOMAIN run.cached THEN run.cached[a.cycle]
                         ELSE cycles[a.cycle]
               cached == [c \in DOMAIN run.cached \union {a.cycle} |->
                            IF c = a.cycle THEN known ELSE run.cached[c]]
               plans  == RowsFor(a, known, run.date)
           IN  IF plans = {} THEN Goes(g, NextDate([run EXCEPT !.cached = cached]))
               ELSE \E row \in plans :
                      Goes(g, [run EXCEPT !.phase = "writing", !.cached = cached, !.plan = row])
      /\ UNCHANGED <<cycles, categories, assignments, rows>>

\* INSERT ... ON CONFLICT DO UPDATE, which waits for a lock on the row.
WriteDay(g) ==
  LET run == generating[g]
  IN  /\ run.phase = "writing"
      /\ Unlocked(run.date, Generations \ {g})
      /\ TableTakes(run.plan)
      /\ Goes(g, NextDate([run EXCEPT !.written =
           [d \in DOMAIN run.written \union {run.date} |->
              IF d = run.date THEN run.plan ELSE run.written[d]]]))
      /\ UNCHANGED <<cycles, categories, assignments, rows>>

\* The table refuses the row, any statement fails, or the process stops: nothing is left.
RollbackGeneration(g) ==
  /\ generating[g].phase \in {"begun", "days", "writing"}
  /\ Goes(g, NoRun)
  /\ UNCHANGED <<cycles, categories, assignments, rows>>

CommitGeneration(g) ==
  LET run == generating[g]
  IN  /\ run.phase = "days" /\ run.date > run.to
      /\ rows' = [d \in Dates |-> IF d \in DOMAIN run.written THEN run.written[d] ELSE rows[d]]
      /\ Goes(g, NoRun)
      /\ UNCHANGED <<cycles, categories, assignments>>

Generate(g) ==
  \/ \E range \in Ranges, overwrite \in BOOLEAN : Begin(g, range, overwrite)
  \/ ReadDates(g) \/ PassOver(g) \/ ReadDay(g) \/ WriteDay(g)
  \/ RollbackGeneration(g) \/ CommitGeneration(g)

Configure ==
  \/ \E c \in Cycles : CreateCycle(c) \/ InsertCycleDay(c)
  \/ \E v \in Categories : CreateCategory(v)
  \/ \E versions \in SUBSET Categories : ImportCategories(versions)
  \/ \E a \in Assignable : Assign(a)
  \/ \E a \in assignments, to \in Dates : EndAssignment(a, to)

NextSchedules ==
  \/ Configure
  \/ \E d \in Dates, edit \in Edits : EditSchedule(d, edit)
  \/ \E g \in Generations : Generate(g)

SchedulesSpec == InitSchedules /\ [][NextSchedules]_scheduleVars

-----------------------------------------------------------------------------
(* Properties *)

Commits(g) ==
  generating[g].phase = "days" /\ generating[g].date > generating[g].to /\ CommitGeneration(g)

\* A schedule that was set by hand is not replaced silently ("手で直した予定を黙って上書きしない"):
\* by a generation that may not overwrite only when it was set after that generation had
\* read which dates are taken.
HandEditsStand ==
  [][\A g \in Generations : Commits(g) =>
       \A d \in Dates :
         rows[d] # None /\ rows'[d] # rows[d] /\ rows[d].by = None
           => generating[g].overwrite \/ d \in generating[g].edited]_scheduleVars

\* A date is at a position of a cycle if a whole number of cycles lies between it and the
\* date of that position that follows the anchor.
IsAt(a, d, position) ==
  \E n \in -LastDate .. LastDate : d = a.anchor + position + n * a.cycle.length

\* The same settings give the same schedules, whatever ran beside: a generated row is what
\* the cycle, repeated in both directions from its anchor, has on its date, in the one
\* version of the category that is in effect then.
GeneratedAsDefined ==
  \A d \in Dates :
    rows[d] # None /\ rows[d].by # None =>
      LET a == rows[d].by
      IN  /\ In(d, a)
          /\ \A position \in DOMAIN a.cycle.days : IsAt(a, d, position) =>
               LET day == a.cycle.days[position]
               IN  IF day.category = None THEN rows[d] = CycleRow(a, day, None)
                   ELSE \A v \in VersionsOn(day.category, d) : rows[d] = CycleRow(a, day, v)

\* A generation leaves no date uncovered that an assignment covers, before its anchor or
\* after, once the cycle has all its days and its categories a version on that date.
CoveredDatesAreGenerated ==
  [][\A g \in Generations : Commits(g) => \A d \in generating[g].due : rows'[d] # None]_scheduleVars

\* The two together: a generation gives each date the row that is defined for it.
GenerationsFollowTheCycles == []GeneratedAsDefined /\ CoveredDatesAreGenerated
=============================================================================
