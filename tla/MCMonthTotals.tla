---------------------------- MODULE MCMonthTotals ----------------------------
(* Model-checking instances of MonthTotals: days of eight instants. *)
EXTENDS MonthTotals

Punch(type, at) == [type |-> type, at |-> at]

FullDay == <<Punch("clock_in", 1), Punch("break_start", 2), Punch("break_end", 3),
             Punch("clock_out", 7)>>
SplitDay == <<Punch("clock_in", 0), Punch("clock_out", 2), Punch("clock_in", 4),
              Punch("clock_out", 9)>>
Office == [dayType |-> "working_day", start |-> 1, end |-> 5, break |-> 1]
Holiday == [dayType |-> "legal_holiday", start |-> Unset, end |-> Unset, break |-> 0]

NoCategory == [fixed |-> {}, automatic |-> {}, night |-> {}, gap |-> "non_working",
               prescribed |-> Unset, deemed |-> Unset, counts |-> TRUE]
Shift == [NoCategory EXCEPT !.fixed = {Period(2, 4)}, !.gap = "break",
                            !.automatic = {[threshold |-> 1, additional |-> 1],
                                           [threshold |-> 3, additional |-> 2]},
                            !.night = {Period(7, 1)}]

MCRuleVersions ==
  {[name |-> "v1", night |-> Period(6, 1), unit |-> 0, mode |-> "none", dailyLegal |-> 4],
   [name |-> "v2", night |-> Period(6, 1), unit |-> 2, mode |-> "nearest", dailyLegal |-> Unset]}

MCSchedules == {<<Office, Shift>>, <<Holiday, Shift>>}

InputOf(events, s, limit, r) ==
  [events |-> events, schedule |-> s[1], category |-> s[2], limit |-> limit,
   holidayWork |-> s[1].dayType = "legal_holiday", discretionary |-> Unset, rules |-> r]

V1 == CHOOSE v \in MCRuleVersions : v.name = "v1"
V2 == CHOOSE v \in MCRuleVersions : v.name = "v2"

\* A day off follows the day.
Month(input) == [d \in Days |-> IF d = 1 THEN input
                                ELSE InputOf(<<>>, <<Holiday, NoCategory>>, Unset, input.rules)]

MCFirstInputs ==
  {Month(InputOf(FullDay, <<Office, Shift>>, Unset, V1)),
   Month(InputOf(SplitDay, <<Office, NoCategory>>, 7, V2))}

ClientSymmetry == Permutations(Clients)
=============================================================================
