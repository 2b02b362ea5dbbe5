------------------------------- MODULE Periods -------------------------------
(***************************************************************************)
(* Weeks and settlement periods (packages/domain/src/attendance/period.ts  *)
(* and packages/api/src/monthly/period-service.ts): how a range that is    *)
(* asked for is cut into periods, and which days each of them adds up.     *)
(*                                                                         *)
(* A date is an integer, date 0 being the first day of month 0.  Months    *)
(* have the lengths of MonthLengths, over and over, and a week has         *)
(* WeekLength days; both are shorter than in the calendar, so that a few   *)
(* dates hold every position of a week in a month.  What has no end ends   *)
(* on Forever, and a total stands for the set of the days it adds up.      *)
(***************************************************************************)
EXTENDS Integers, Sequences, FiniteSets, FiniteSetsExt, SequencesExt

CONSTANTS MonthLengths, \* the lengths of the months, in days
          WeekLength,   \* 7 in the code
          LastDate,     \* the last date that is asked for, a bound
          None          \* null

Dates   == 0 .. LastDate
Forever == LastDate + 1

ASSUME PeriodsAssumption ==
  /\ MonthLengths \in Seq(Nat \ {0}) /\ MonthLengths # <<>>
  /\ WeekLength \in Nat \ {0} /\ LastDate \in Nat
  /\ None \notin Nat /\ None \notin [from : Int, to : Int]

Ranges == {r \in [from : Dates, to : Dates] : r.from <= r.to}
Days(period) == period.from .. period.to
-----------------------------------------------------------------------------
(* domain/src/attendance/business-date.ts *)

LengthOf(month) == MonthLengths[(month % Len(MonthLengths)) + 1]

\* The first date of each month.
FirstOf[month \in Nat] ==
  IF month = 0 THEN 0 ELSE FirstOf[month - 1] + LengthOf(month - 1)

MonthOf(date) == Max({m \in 0 .. date : FirstOf[m] <= date})

\* The day is rounded to the last one of a month that does not have it.
AddMonths(date, months) ==
  LET month == MonthOf(date) + months
      day   == date - FirstOf[MonthOf(date)]
  IN FirstOf[month] + Min({day, LengthOf(month) - 1})
-----------------------------------------------------------------------------
(* Weeks.  A version of the rules is [effectiveFrom, weekStartsOn]. *)

WeekStartOf(date, weekStartsOn) == date - ((date - weekStartsOn) % WeekLength)

\* Versions are in effect from their date until the next one's; before the first, 0 counts.
WeekStartsOnAt(versions, date) ==
  LET begun == {v \in versions : v.effectiveFrom <= date} IN
  IF begun = {} THEN 0
  ELSE (CHOOSE v \in begun : \A w \in begun : w.effectiveFrom <= v.effectiveFrom).weekStartsOn

\* Mutant: the version at the start of the range counts for all of it.
WeekEndUnchanged(versions, cursor) ==
  WeekStartOf(cursor, WeekStartsOnAt(versions, cursor)) + WeekLength - 1

\* A week ends where those of its version end, or before the next version takes effect.
WeekEnd(versions, cursor) ==
  LET aligned == WeekStartOf(cursor, WeekStartsOnAt(versions, cursor)) + WeekLength - 1
  IN Min({aligned} \union
         {v.effectiveFrom - 1 : v \in {w \in versions : w.effectiveFrom \in cursor + 1 .. aligned}})

\* The weeks that overlap a range, oldest first.
WeeksBetween(versions, range) ==
  LET weeks[cursor \in Int] ==
        IF cursor > range.to THEN <<>>
        ELSE LET end == WeekEnd(versions, cursor)
             IN <<[from |-> cursor, to |-> end]>> \o weeks[end + 1]
  IN weeks[WeekStartOf(range.from, WeekStartsOnAt(versions, range.from))]
-----------------------------------------------------------------------------
(* Settlement periods.  A labor system is [startsOn, months, from, to]: the date from *)
(* which it is settled every so many months, or None, and the dates it is in effect. *)

\* Mutant: the quotient of the months is taken for the index.
IndexesQuotient(system, date) ==
  {(MonthOf(date) - MonthOf(system.startsOn)) \div system.months}

\* Rounded days make the quotient of the months one off.
Indexes(system, date) ==
  LET guess == (MonthOf(date) - MonthOf(system.startsOn)) \div system.months
  IN {guess - 1, guess, guess + 1} \ {-1}

SettlementStart(system, index) == AddMonths(system.startsOn, index * system.months)

SettlementOf(system, date) ==
  IF date < system.startsOn THEN None
  ELSE LET fits == {i \in Indexes(system, date) :
                      SettlementStart(system, i) <= date /\ date < SettlementStart(system, i + 1)}
       IN IF fits = {} THEN None
          ELSE LET i == Min(fits)
               IN [from |-> SettlementStart(system, i), to |-> SettlementStart(system, i + 1) - 1]

\* A period is cut to the dates the system is in effect; nothing is left of some.
Clip(period, bounds) ==
  LET clipped == [from |-> Max({period.from, bounds.from}), to |-> Min({period.to, bounds.to})]
  IN IF clipped.from > clipped.to THEN <<>> ELSE <<clipped>>

\* The settlement periods of a system that overlap a range, oldest first.
SettlementsBetween(system, range) ==
  LET periods[cursor \in Int] ==
        IF cursor > range.to THEN <<>>
        ELSE LET period == SettlementOf(system, cursor) IN
             IF period = None THEN periods[Max({system.startsOn, cursor + 1})]
             ELSE Clip(period, system) \o periods[period.to + 1]
  IN periods[range.from]

Settled(systems) == {s \in systems : s.startsOn # None /\ s.months # None}
-----------------------------------------------------------------------------
(* api/src/monthly/period-service.ts *)

\* Mutant: only the days that were asked for are read.
CoveringAsked(periods, range) == range

\* The dates that are read: those of every period, which may be outside of the range.
Covering(periods, range) ==
  IF periods = {} THEN range
  ELSE [from |-> Min({p.from : p \in periods}), to |-> Max({p.to : p \in periods})]

\* Whether a period was cut, by comparing it with the one it is cut from.
Partial(system, period) == SettlementOf(system, period.from) # period

\* What is answered for a range: of each period its bounds and the days that it adds up.
Summaries(versions, systems, range) ==
  LET weeks == ToSet(WeeksBetween(versions, range))
      settlements == UNION {{<<s, p>> : p \in ToSet(SettlementsBetween(s, range))}
                            : s \in Settled(systems)}
      read == Covering(weeks \union {sp[2] : sp \in settlements}, range)
  IN {[kind |-> "week", from |-> w.from, to |-> w.to, system |-> None, partial |-> FALSE,
       days |-> Days(w) \intersect Days(read)] : w \in weeks}
     \union
     {[kind |-> "settlement", from |-> sp[2].from, to |-> sp[2].to, system |-> sp[1],
       partial |-> Partial(sp[1], sp[2]), days |-> Days(sp[2]) \intersect Days(read)]
      : sp \in settlements}
=============================================================================
