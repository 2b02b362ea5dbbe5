------------------------------ MODULE WorkDay ------------------------------
(***************************************************************************)
(* One business day as its attendance events describe it:                  *)
(* packages/domain/src/attendance/{events,corrections}.ts.                 *)
(*                                                                         *)
(* A history is the sequence of the day's records as listEventsForDay      *)
(* returns it, by recorded_at.  A record carries an id, a type, the        *)
(* instant it occurred at, an action ("punch" for an original one, or      *)
(* "add", "adjust", "void") and the id of the record it corrects, which    *)
(* was recorded before it.                                                 *)
(***************************************************************************)
EXTENDS Naturals, Sequences, SequencesExt

DayStates == {"not_started", "working", "on_break", "finished"}

PunchTypes == {"clock_in", "clock_out", "break_start", "break_end"}

\* decidePunch: <<state, type, nextState>> of every punch that is accepted.
PunchTable ==
  {<<"not_started", "clock_in", "working">>, <<"finished", "clock_in", "working">>,
   <<"working", "clock_out", "finished">>,
   <<"working", "break_start", "on_break">>, <<"on_break", "break_end", "working">>}

Accepts(state, type) == \E next \in DayStates : <<state, type, next>> \in PunchTable

\* A punch that is not accepted is skipped and leaves the state as it is.
After(state, type) ==
  IF Accepts(state, type) THEN CHOOSE next \in DayStates : <<state, type, next>> \in PunchTable
  ELSE state

\* Mutant: the oldest correction counts.
CorrectionOldest(history, i) ==
  LET later == {j \in DOMAIN history : /\ history[j].action \in {"adjust", "void"}
                                       /\ history[j].corrects = history[i].id}
  IN  IF later = {} THEN 0 ELSE CHOOSE j \in later : \A k \in later : k >= j

\* resolveEffectiveEvents: the newest correction of a record, 0 when there is none.
Correction(history, i) ==
  LET later == {j \in DOMAIN history : /\ history[j].action \in {"adjust", "void"}
                                       /\ history[j].corrects = history[i].id}
  IN  IF later = {} THEN 0 ELSE CHOOSE j \in later : \A k \in later : k <= j

\* The record that stands for record i in the end, 0 when it was voided.
Outcome(history) ==
  LET outcome[i \in DOMAIN history] ==
        LET j == Correction(history, i) IN
        IF j = 0 THEN i ELSE IF history[j].action = "void" THEN 0 ELSE outcome[j]
  IN  outcome

\* The members of S, each behind those that are before it.
InOrder(S, Before(_, _)) ==
  [n \in 1..Cardinality(S) |-> CHOOSE i \in S : Cardinality({j \in S : Before(j, i)}) = n - 1]

\* The punches that count, by the instant they occurred at; ties stay in recorded order.
Effective(history) ==
  LET outcome == Outcome(history)
      roots == {i \in DOMAIN history : history[i].action \in {"punch", "add"} /\ outcome[i] # 0}
      At(i) == history[outcome[i]].at
      order == InOrder(roots, LAMBDA i, j : At(i) < At(j) \/ (At(i) = At(j) /\ i < j))
  IN  [n \in DOMAIN order |-> [type |-> history[outcome[order[n]]].type, at |-> At(order[n])]]

\* summarizeWorkDay
StateOf(history) ==
  FoldLeft(LAMBDA state, e : After(state, e.type), "not_started", Effective(history))

IsOpen(state) == state \in {"working", "on_break"}
=============================================================================
