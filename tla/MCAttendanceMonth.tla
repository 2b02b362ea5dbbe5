------------------------- MODULE MCAttendanceMonth -------------------------
(***************************************************************************)
(* A model-checking instance of AttendanceMonth, with Anomalies and        *)
(* AppliedRequests, that keeps the product of its choices small: three     *)
(* records and approved requests only come with what is narrow beside them. *)
(***************************************************************************)
EXTENDS AppliedRequests, TLC

IdSymmetry == Permutations(Ids) \union Permutations(Clients)

\* A correction of the first day, one that says no times and one that is for two days.
Corrects ==
  [category |-> "attendance_correction", from |-> 1, to |-> 1, start |-> 2, end |-> 3]

MCRequested ==
  {Corrects, [Corrects EXCEPT !.start = NoTime, !.end = NoTime], [Corrects EXCEPT !.to = 2]}

Open == {c \in Clients : pc[c] # "idle"}
Known == UNION {Range(history[d]) : d \in Days} \union {tx[c] : c \in Open}
Used == Cardinality({e.id : e \in Known})

\* One transaction at a time.
Alone == Cardinality(Open) <= 1

\* All that is recorded or asked for is a clock in of one instant.
Plain == \A e \in Known : e.type = "clock_in" /\ e.at = 2

\* Two records of any kind or three plain ones overlap; approved requests meet two records.
Narrow ==
  IF applied = {} THEN Alone \/ Plain \/ Used <= 2
  ELSE Alone /\ Cardinality({id \in Ids : Recorded(id) \/ \E c \in Open : tx[c].id = id}) <= 2

MCSpec == InitApplied /\ [][NextApplied /\ Narrow']_<<vars, applied>>
=============================================================================
