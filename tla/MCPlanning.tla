------------------------------ MODULE MCPlanning ------------------------------
(***************************************************************************)
(* A model-checking instance of the two parts that plan the days of an     *)
(* employee: the leave ledger, and the schedules with their cycles.        *)
(* They share no state (LeaveLedger takes the days a schedule calls        *)
(* non-working as a constant), so that one moves while the other is as it  *)
(* was at first.                                                           *)
(***************************************************************************)
EXTENDS LeaveLedger, Schedules, TLC

Early == [start |-> 1, end |-> 3, break |-> 1]

\* Two versions of a category, and an imported one of which one time is missing.
First  == [code |-> "shift", from |-> 0, to |-> 0, type |-> "working_day", start |-> 2, end |-> 4]
Second == [First EXCEPT !.from = 1, !.to = 2, !.type = "leave"]
Half   == [code |-> "half", from |-> 0, to |-> 2, type |-> "non_working_day",
           start |-> 2, end |-> None]

MCCategories == {First, Second, Half}

Working == [type |-> "working_day", pattern |-> Early, category |-> First]
Free    == [type |-> "non_working_day", pattern |-> None, category |-> None]
Called  == [type |-> "non_working_day", pattern |-> None, category |-> Half]

TwoDays == [length |-> 2, days |-> [p \in 0 .. 1 |-> IF p = 0 THEN Working ELSE Free]]
OneDay  == [length |-> 1, days |-> [p \in 0 .. 0 |-> Called]]

MCCycles == {TwoDays, OneDay}

\* The one repeats from the second date in both directions, the other begins on it.
MCAssignable == {[cycle |-> TwoDays, anchor |-> 1, from |-> 0, to |-> 2],
                 [cycle |-> OneDay, anchor |-> 0, from |-> 1, to |-> 1]}

Nothing == [type |-> None, start |-> None, end |-> None, break |-> None, pattern |-> None,
            category |-> None, leave |-> None]

MCRanges == {[from |-> 0, to |-> 1]}

MCEdits == {[Nothing EXCEPT !.end = 4, !.pattern = Early, !.category = Second]}

MCInit == InitLedger /\ InitSchedules

MCNext ==
  \/ InitSchedules /\ NextLedger /\ UNCHANGED scheduleVars
  \/ InitLedger /\ NextSchedules /\ UNCHANGED ledgerVars

MCSpec == MCInit /\ [][MCNext]_<<ledgerVars, scheduleVars>>

ClientSymmetry == Permutations(LedgerClients)
=============================================================================
