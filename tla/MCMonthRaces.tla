---------------------------- MODULE MCMonthRaces ----------------------------
(* A model-checking instance of MonthRaces. *)
EXTENDS MonthRaces, TLC

RaceSymmetry == Permutations(Ids) \union Permutations(Clients)

\* Nothing reads the log of transitions but to count submissions, nor older snapshots, and what a
\* step adds to them depends on nothing in them.
LastSnapshot == IF snapshots = <<>> THEN <<>> ELSE Last(snapshots)

RaceView ==
  <<attendanceVars, request, Submissions, closing, reopens, LastSnapshot, employeeLock,
    closingLock, begun, pc, tx, raceVars>>
=============================================================================
