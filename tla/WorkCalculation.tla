--------------------------- MODULE WorkCalculation ---------------------------
(***************************************************************************)
(* The minutes of a day and of a month:                                    *)
(* packages/domain/src/attendance/{calculation,breaks,events,monthly}.ts.  *)
(*                                                                         *)
(* Instants are counted from the local midnight that begins the day and go *)
(* on past the next one.  The code walks the day minute by minute, so the  *)
(* time of a day is a set of instants, and how long an instant lasts does  *)
(* not matter: an instance may have a day of eight.  A night band or an    *)
(* approved limit is local time and is an instant here: the days on which  *)
(* the clock changes are left out.                                         *)
(*                                                                         *)
(* The punches are the effective ones (Effective of WorkDay), in order.    *)
(***************************************************************************)
EXTENDS Integers, FiniteSets, FiniteSetsExt, WorkDay

CONSTANT DayLength   \* instants of a day

ASSUME DayAssumption == DayLength \in Nat \ {0}

\* null: what is not configured, and is never taken for 0.
Unset == -1

Least(a, b) == IF a < b THEN a ELSE b
AtLeastZero(n) == IF n > 0 THEN n ELSE 0

PlannedDays == {"working_day", "leave", "absence"}
DayTypes == PlannedDays \union {"legal_holiday", "non_working_day", "public_holiday"}

\* What a day is calculated from.
Spans == [start : Int, end : Int]
Punched == Seq([type : PunchTypes, at : Int])
WorkSchedule == [dayType : DayTypes, start : Int, end : Int, break : Nat]
WorkCategory ==
  {c \in [fixed : SUBSET Spans, automatic : SUBSET [threshold : Nat, additional : Nat],
          night : SUBSET Spans, gap : {"break", "non_working"}, prescribed : Int, deemed : Int,
          counts : BOOLEAN] : IsFiniteSet(c.automatic)}
CalculationRules ==
  [name : STRING, night : Spans, unit : Nat, mode : {"none", "down", "nearest"},
   dailyLegal : Nat \union {Unset}]
CalculationInput ==
  [events : Punched, schedule : WorkSchedule, category : WorkCategory, limit : Int,
   holidayWork : BOOLEAN, discretionary : Int, rules : CalculationRules]

Period(start, end) == [start |-> start, end |-> end]
Instants(p) == p.start .. p.end - 1

-----------------------------------------------------------------------------
\* summarizeWorkDay: a period that has not ended has the end Unset.
EndLast(periods, at) == [periods EXCEPT ![Len(periods)].end = at]

Summary(events) ==
  LET Punch(day, e) ==
        IF ~Accepts(day.state, e.type) THEN day
        ELSE [state |-> After(day.state, e.type),
              sessions |-> CASE e.type = "clock_in" -> Append(day.sessions, Period(e.at, Unset))
                             [] e.type = "clock_out" -> EndLast(day.sessions, e.at)
                             [] OTHER -> day.sessions,
              breaks |-> CASE e.type = "break_start" -> Append(day.breaks, Period(e.at, Unset))
                           [] e.type = "break_end" -> EndLast(day.breaks, e.at)
                           [] OTHER -> day.breaks]
  IN  FoldLeft(Punch, [state |-> "not_started", sessions |-> <<>>, breaks |-> <<>>], events)

\* A session that has not ended lasts until the last that is known of its breaks.
Sessions(day) ==
  LET Later(s) == {i \in DOMAIN day.breaks : day.breaks[i].start >= s.start}
      Known(b) == IF b.end # Unset THEN b.end ELSE b.start
      End(s) == IF s.end # Unset THEN s.end
                ELSE IF Later(s) = {} THEN s.start ELSE Known(day.breaks[Max(Later(s))])
      ended == [i \in DOMAIN day.sessions |->
                  Period(day.sessions[i].start, End(day.sessions[i]))]
      WithTime(kept, s) == IF s.end > s.start THEN Append(kept, s) ELSE kept
  IN  FoldLeft(WithTime, <<>>, ended)

\* A break that has not ended lasts until the end of the last session.
ActualBreaks(day, sessions) ==
  LET End(b) == IF b.end # Unset THEN b.end
                ELSE IF sessions = <<>> THEN b.start ELSE Last(sessions).end
  IN  {b \in {Period(p.start, End(p)) : p \in ToSet(day.breaks)} : b.end > b.start}

Covered(periods) == UNION {Instants(p) : p \in periods}

TotalMinutes(periods) == MapThenSumSet(LAMBDA p : p.end - p.start, periods)

\* The time between the sessions, which a category may count as a break.
Gaps(sessions) ==
  MapThenSumSet(LAMBDA i : AtLeastZero(sessions[i].start - sessions[i - 1].end),
                2 .. Len(sessions))

\* resolveBreaks: the largest break whose threshold is exceeded, not their sum.
AutomaticBreak(rules, workedMinutes, taken) ==
  LET remaining == AtLeastZero(workedMinutes - Cardinality(taken))
  IN  Max({0} \union {r.additional : r \in {x \in rules : remaining > x.threshold}})

-----------------------------------------------------------------------------
\* isNightMinute: the band may go past midnight.
IsNight(i, band) ==
  LET at == i % DayLength IN
  IF band.start <= band.end THEN band.start <= at /\ at < band.end
  ELSE band.start <= at \/ at < band.end

\* applyRounding
Rounded(minutes, rules) ==
  LET unit == rules.unit IN
  CASE unit = 0 \/ rules.mode = "none" -> minutes
    [] unit # 0 /\ rules.mode = "down" -> (minutes \div unit) * unit
    [] unit # 0 /\ rules.mode = "nearest" -> ((2 * minutes + unit) \div (2 * unit)) * unit

\* Mutant: what is not recognized is rounded on its own.
OutsideOfRecognized(minutes, rules) ==
  Rounded(AtLeastZero(minutes.outsideSchedule - minutes.recognizedOvertime), rules)

\* What is outside the schedule and not recognized, from what was rounded.
Unapproved(minutes, rules) ==
  AtLeastZero(Rounded(minutes.outsideSchedule, rules) - Rounded(minutes.recognizedOvertime, rules))

\* The n latest instants of a set.
Latest(S, n) == {i \in S : Cardinality({j \in S : j > i}) < n}

\* The instants that were worked, and what the automatic break takes away from their end.
WorkedIn(input, day, sessions) ==
  LET actual == ActualBreaks(day, sessions)
      taken == Covered(actual \union input.category.fixed)
      attended == Covered(ToSet(sessions))
      work == attended \ taken
      raw == IF sessions = <<>> THEN 0
             ELSE TotalMinutes(ToSet(sessions)) - TotalMinutes(actual)
      automatic == AutomaticBreak(input.category.automatic, raw, taken)
  IN  [sessions |-> sessions, attended |-> attended, work |-> work,
       deducted |-> Least(automatic, Cardinality(work)),
       kept |-> work \ Latest(work, automatic)]

Worked(input) ==
  LET day == Summary(input.events) IN WorkedIn(input, day, Sessions(day))

\* scheduledMinutes: what the category prescribes, or else the hours of the schedule.
ScheduledMinutes(schedule, category) ==
  CASE schedule.dayType \notin PlannedDays -> 0
    [] schedule.dayType \in PlannedDays /\ category.prescribed # Unset -> category.prescribed
    [] schedule.dayType \in PlannedDays /\ category.prescribed = Unset ->
         IF schedule.start = Unset THEN 0
         ELSE AtLeastZero(schedule.end - schedule.start - schedule.break)

\* recognizedOvertimeMinutes: the work after the schedule and before the approved limit.
RecognizedMinutes(schedule, limit, kept) ==
  IF schedule.dayType \notin PlannedDays \/ limit = Unset THEN 0
  ELSE IF schedule.start = Unset THEN Unset
  ELSE Cardinality({i \in kept : schedule.end <= i /\ i < limit})

\* The minutes of a day before they are rounded; w is Worked(input).
Minutes(input, w) ==
  LET schedule == input.schedule
      category == input.category
      rules == input.rules
      planned == schedule.dayType \in PlannedDays
      timed == schedule.start # Unset
      hours == IF timed THEN Instants(schedule) ELSE {}
      Night(S) == {i \in S : IsNight(i, IF category.night = {} THEN rules.night
                                       ELSE CHOOSE band \in category.night : TRUE)}
      worked == Cardinality(w.work) - w.deducted
      out == Cardinality(w.work \ hours)
      outside == out - Least(w.deducted, out)
      overtime == AtLeastZero(worked - rules.dailyLegal)
      legal == rules.dailyLegal # Unset
      Legal(n) == IF ~legal THEN Unset ELSE IF planned THEN n ELSE 0
      Timed(n) == IF timed /\ planned /\ w.kept # {} THEN n ELSE 0
      holiday == IF planned THEN 0 ELSE worked
  IN  [attended |-> Cardinality(w.attended),
       worked |-> worked,
       break |-> Cardinality(w.attended \ w.work) + w.deducted
                 + (IF category.gap = "break" THEN Gaps(w.sessions) ELSE 0),
       withinSchedule |-> worked - outside,
       outsideSchedule |-> outside,
       night |-> Cardinality(Night(w.work)),
       nonWorkingDay |-> holiday,
       leave |-> IF schedule.dayType = "leave" THEN ScheduledMinutes(schedule, category) ELSE 0,
       absence |-> IF schedule.dayType = "absence" THEN ScheduledMinutes(schedule, category) ELSE 0,
       legalInsideOvertime |-> Legal(AtLeastZero(outside - overtime)),
       legalOvertime |-> Legal(overtime),
       legalHoliday |-> IF schedule.dayType = "legal_holiday" THEN worked ELSE 0,
       nonLegalHoliday |->
         IF schedule.dayType \in {"non_working_day", "public_holiday"} THEN worked ELSE 0,
       nightOvertime |-> Legal(Cardinality(Night(Latest(w.kept, overtime)))),
       nightHoliday |-> IF planned THEN 0 ELSE Cardinality(Night(w.kept)),
       late |-> Timed(AtLeastZero(Min(w.kept) - schedule.start)),
       earlyLeave |-> Timed(AtLeastZero(schedule.end - Max(w.kept) - 1)),
       beforeSchedule |-> Timed(Cardinality({i \in w.kept : i < schedule.start})),
       afterSchedule |-> Timed(Cardinality({i \in w.kept : i >= schedule.end})),
       recognizedOvertime |-> RecognizedMinutes(schedule, input.limit, w.kept),
       approvedHoliday |-> IF input.holidayWork THEN holiday ELSE 0]

\* The totals of a day, of its minutes.
Totals(input, minutes) ==
  LET rounded == [k \in DOMAIN minutes |-> IF minutes[k] = Unset THEN Unset
                                           ELSE Rounded(minutes[k], input.rules)]
      planned == input.schedule.dayType \in PlannedDays
      others ==
        [unapprovedOvertime |-> IF minutes.recognizedOvertime = Unset THEN Unset
                                ELSE IF planned THEN Unapproved(minutes, input.rules) ELSE 0,
         unapprovedHoliday |-> AtLeastZero(rounded.nonWorkingDay - rounded.approvedHoliday),
         scheduled |-> ScheduledMinutes(input.schedule, input.category),
         deemed |-> IF input.discretionary # Unset THEN input.discretionary
                    ELSE input.category.deemed,
         countsAsWorkingDay |-> IF input.category.counts THEN 1 ELSE 0]
  IN  [k \in DOMAIN rounded \union DOMAIN others |->
         IF k \in DOMAIN rounded THEN rounded[k] ELSE others[k]]

\* calculateWorkDay
Calculate(input) == Totals(input, Minutes(input, Worked(input)))

\* summarizeMonth: a total of which one day is not configured is not shown.
SummarizeMonth(days, totals) ==
  LET Count(P(_)) == Cardinality({d \in days : P(totals[d])})
      Total(k) == IF \E d \in days : totals[d][k] = Unset THEN Unset
                  ELSE MapThenSumSet(LAMBDA d : totals[d][k], days)
      keys == UNION {DOMAIN totals[d] : d \in days} \ {"countsAsWorkingDay"}
  IN  [k \in keys |-> Total(k)] @@
      [workedDays |-> Count(LAMBDA t : t.worked > 0 /\ t.countsAsWorkingDay = 1),
       leaveDays |-> Count(LAMBDA t : t.leave > 0),
       countedDays |-> Cardinality(days)]
=============================================================================
