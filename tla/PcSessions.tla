------------------------------ MODULE PcSessions ------------------------------
(***************************************************************************)
(* When a computer was used, as its observations tell, and where that      *)
(* differs from the punches of a day                                       *)
(* (packages/domain/src/attendance/session-observations.ts).               *)
(*                                                                         *)
(* A day is a sequence of observations in the order of their times, which  *)
(* are ticks of a clock that is finer than minutes (milliseconds in the    *)
(* code); a shape of a day is what its punches say.  The report counts in  *)
(* minutes and rounds what it measures, in a break each period by itself.  *)
(***************************************************************************)
EXTENDS Integers, Sequences, FiniteSets, FiniteSetsExt, SequencesExt

CONSTANTS LastTick,       \* a bound: the times of a day are 0 .. LastTick
          TicksPerMinute,
          Tolerance,      \* of minutes
          None            \* null

ASSUME PcSessionsAssumption ==
  LastTick \in Nat /\ TicksPerMinute \in Nat \ {0} /\ Tolerance \in Nat /\ None \notin Int

ObservationTypes == {"sign_in", "sign_out", "lock", "unlock"}
Starting         == {"sign_in", "unlock"}
Times            == 0 .. LastTick

Observations == [type : ObservationTypes, at : Times]

\* The first clock-in, the last clock-out and the breaks, each ended or not.
Shapes ==
  {shape \in [clockIn : Times \union {None}, clockOut : Times \union {None},
              breaks : {<<>>} \union {<<b>> : b \in [from : Times, to : Times \union {None}]}] :
     /\ shape.clockOut # None => shape.clockIn # None /\ shape.clockIn <= shape.clockOut
     /\ shape.breaks # <<>> =>
          /\ shape.clockIn # None /\ shape.clockIn <= shape.breaks[1].from
          /\ shape.breaks[1].to # None =>
               /\ shape.breaks[1].from <= shape.breaks[1].to
               /\ shape.clockOut # None => shape.breaks[1].to <= shape.clockOut}
-----------------------------------------------------------------------------
\* Mutant: a start that follows a start begins a period anew.
StepAnew(periods, o) ==
  LET last == Len(periods) IN
  IF o.type \in Starting THEN Append(periods, [from |-> o.at, to |-> None])
  ELSE IF last > 0 /\ periods[last].to = None
  THEN [periods EXCEPT ![last].to = o.at] ELSE periods

\* A start opens a period unless one is open, and what is no start closes the open one.
Step(periods, o) ==
  LET last == Len(periods)
      open == last > 0 /\ periods[last].to = None
  IN IF o.type \in Starting
     THEN IF open THEN periods ELSE Append(periods, [from |-> o.at, to |-> None])
     ELSE IF open THEN [periods EXCEPT ![last].to = o.at] ELSE periods

ActivePeriods(day) == FoldLeft(Step, <<>>, day)

\* A period that has not ended counts as its start.
EndOf(period) == IF period.to = None THEN period.from ELSE period.to

\* Math.round: half a minute counts as a minute.
Rounded(ticks) == (2 * ticks + TicksPerMinute) \div (2 * TicksPerMinute)

MinutesBetween(from, to) == Rounded(to - from)

OverlapMinutes(period, from, to) ==
  Rounded(Max({0, Min({EndOf(period), to}) - Max({period.from, from})}))

Differs(kind, from, to, minutes) == [kind |-> kind, from |-> from, to |-> to, minutes |-> minutes]

UnlessTolerated(d) == IF d.minutes > Tolerance THEN {d} ELSE {}

WithoutActivity(shape) ==
  IF shape.clockIn = None \/ shape.clockOut = None THEN {}
  ELSE UnlessTolerated(Differs("attendance_without_pc_activity", shape.clockIn, shape.clockOut,
                               MinutesBetween(shape.clockIn, shape.clockOut)))

DuringBreaks(shape, periods) ==
  UNION {UnlessTolerated(
           Differs("pc_active_during_break", b.from, b.to,
                   FoldLeft(LAMBDA n, p : n + OverlapMinutes(p, b.from, b.to), 0, periods)))
         : b \in {c \in ToSet(shape.breaks) : c.to # None}}

DetectDiscrepancies(shape, day) ==
  LET periods == ActivePeriods(day)
      first   == periods[1].from
      last    == EndOf(Last(periods))
  IN
  IF periods = <<>> THEN WithoutActivity(shape)
  ELSE IF shape.clockIn = None
  THEN {Differs("pc_active_without_attendance", first, last, MinutesBetween(first, last))}
  ELSE UnlessTolerated(Differs("pc_active_before_clock_in", first, shape.clockIn,
                               MinutesBetween(first, shape.clockIn)))
       \union
       (IF shape.clockOut = None THEN {}
        ELSE UnlessTolerated(Differs("pc_active_after_clock_out", shape.clockOut, last,
                                     MinutesBetween(shape.clockOut, last))))
       \union DuringBreaks(shape, periods)
-----------------------------------------------------------------------------
(***************************************************************************)
(* A reference, tick by tick.                                              *)
(***************************************************************************)

\* Every day with at most one observation at a time.
Observed(f) ==
  FoldLeft(LAMBDA day, t : IF f[t] = None THEN day ELSE Append(day, [type |-> f[t], at |-> t]),
           <<>>, [n \in 1 .. LastTick + 1 |-> n - 1])

DaysObserved == {Observed(f) : f \in [Times -> ObservationTypes \union {None}]}

\* The tick that begins at t: a start before it, no stop since, and a stop after it.
InUse(day, t) ==
  \E s, e \in ToSet(day) :
    /\ s.type \in Starting /\ e.type \notin Starting /\ s.at <= t /\ t < e.at
    /\ \A o \in ToSet(day) : s.at < o.at /\ o.at < e.at => o.type \in Starting

\* A start that another one precedes with no stop in between says nothing new.
Opens(day, s) ==
  /\ s.type \in Starting
  /\ \A o \in ToSet(day) : o.at < s.at /\ o.type \in Starting =>
       \E e \in ToSet(day) : e.type \notin Starting /\ o.at < e.at /\ e.at < s.at

\* The moments between which the computer was used.
Moments(day) ==
  {s.at : s \in {o \in ToSet(day) : Opens(day, o)}}
  \union {t + 1 : t \in {u \in Times : InUse(day, u)}}

TicksInUse(day, from, to) == {t \in from .. to - 1 : InUse(day, t)}

\* Where the stretches of use begin that lie between two times.
Stretches(day, from, to) ==
  {t \in TicksInUse(day, from, to) : t = from \/ ~InUse(day, t - 1)}

\* What differs and by how many ticks, in one stretch or in several.
Whole(kind, from, to) ==
  [kind |-> kind, from |-> from, to |-> to, ticks |-> to - from, stretches |-> 1]

InBreak(day, b) ==
  [kind |-> "pc_active_during_break", from |-> b.from, to |-> b.to,
   ticks |-> Cardinality(TicksInUse(day, b.from, b.to)),
   stretches |-> Cardinality(Stretches(day, b.from, b.to))]

Differences(shape, day) ==
  LET known == Moments(day) IN
  IF known = {}
  THEN IF None \in {shape.clockIn, shape.clockOut} THEN {}
       ELSE {Whole("attendance_without_pc_activity", shape.clockIn, shape.clockOut)}
  ELSE IF shape.clockIn = None
  THEN {Whole("pc_active_without_attendance", Min(known), Max(known))}
  ELSE {Whole("pc_active_before_clock_in", Min(known), shape.clockIn)}
       \union
       {Whole("pc_active_after_clock_out", t, Max(known)) : t \in {shape.clockOut} \ {None}}
       \union
       {InBreak(day, b) : b \in {c \in ToSet(shape.breaks) :
                                   c.to # None /\ TicksInUse(day, c.from, c.to) # {}}}

\* Whether the minutes of d are those of x, but for half a minute for each stretch.
Near(minutes, x) ==
  /\ 2 * (minutes * TicksPerMinute - x.ticks) <= x.stretches * TicksPerMinute
  /\ 2 * (x.ticks - minutes * TicksPerMinute) < x.stretches * TicksPerMinute

Describes(d, x) == d.kind = x.kind /\ d.from = x.from /\ d.to = x.to /\ Near(d.minutes, x)

\* Use on a day without punches is listed however short it was.
Always(kind) == kind = "pc_active_without_attendance"

\* For every day and every shape: what is listed is what differs, with its minutes to half a
\* minute for each stretch, and more of them than are tolerated; and what is not listed does
\* not differ by more than the tolerance and those halves.
ReportsAgree ==
  \A day \in DaysObserved, shape \in Shapes :
    LET listed == DetectDiscrepancies(shape, day) IN
    /\ \A d \in listed :
         /\ d.minutes > Tolerance \/ Always(d.kind)
         /\ \E x \in Differences(shape, day) : Describes(d, x)
    /\ \A x \in Differences(shape, day) :
         \/ \E d \in listed : Describes(d, x)
         \/ ~Always(x.kind) /\ 2 * x.ticks < (2 * Tolerance + x.stretches) * TicksPerMinute
=============================================================================
