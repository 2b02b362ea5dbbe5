--------------------------- MODULE AppliedRequests ---------------------------
(***************************************************************************)
(* What the approval of an employee's request does to the attendance:      *)
(* applyToAttendance and rewritePunches of                                 *)
(* packages/api/src/request/service.ts, beside the operations of           *)
(* AttendanceMonth.  StagedRequests says when a request is approved.       *)
(*                                                                         *)
(* Approval takes effect in one transaction.  It is one action here, so    *)
(* that this module is for one transaction at a time.                      *)
(***************************************************************************)
EXTENDS Anomalies

CONSTANTS
  Requested,  \* bound: approved requests, each [category, from, to, start, end]
  NoTime

ReflectedCategories == {"attendance_correction", "overtime", "holiday_work"}

\* Types that do not require a time range take requests without one.
HasTimes(r) == NoTime \notin {r.start, r.end}

ASSUME RequestedAssumption ==
  /\ NoTime \notin Nat
  /\ \A r \in Requested :
       /\ r.category \in ReflectedCategories
       /\ r.from \in Days /\ r.to \in Nat /\ r.from <= r.to
       /\ HasTimes(r) => /\ {r.start, r.end} \subseteq Nat
                         /\ BusinessDateOf(r.start) = r.from /\ r.start <= r.end

VARIABLE applied  \* approved requests that took effect

IsClock(type) == type \in {"clock_in", "clock_out"}

\* The records whose type, instant and day count in the end.
Standing(records) ==
  LET outcome == Outcome(records)
  IN  {outcome[i] : i \in {i \in DOMAIN records : records[i].action \in {"punch", "add"}}} \ {0}

\* Mutant: only what was punched is voided, not what a correction added or moved.
ClocksPunched(records) ==
  {i \in Standing(records) : IsClock(records[i].type) /\ records[i].action = "punch"}

\* The records of the day that rewritePunches voids: breaks stay.
ClocksToVoid(records) == {i \in Standing(records) : IsClock(records[i].type)}

\* Identifiers derive from the request's.
Void(r, record) ==
  [record EXCEPT !.id = <<r, record.id>>, !.action = "void", !.corrects = record.id]

AddedClock(r, type, at) ==
  [id |-> <<r, type>>, type |-> type, at |-> at, action |-> "add", corrects |-> NoId]

\* rewritePunches: void what stands, add what was asked for; without times, nothing.
RewritePunches(records, r) ==
  LET voided == ClocksToVoid(records)
      order  == InOrder(voided, <)
  IN  IF ~HasTimes(r) THEN records
      ELSE records \o [n \in DOMAIN order |-> Void(r, records[order[n]])]
                   \o <<AddedClock(r, "clock_in", r.start), AddedClock(r, "clock_out", r.end)>>

\* A correction of the punches of several days is a conflict.
Conflicting(r) == r.category = "attendance_correction" /\ HasTimes(r) /\ r.from # r.to

\* applyToAttendance: a closed month refuses the approval, an approved day does not.
ApplyToAttendance(r) ==
  LET dates == (r.from .. r.to) \intersect Days
      Rewritten(d) == IF r.category = "attendance_correction" THEN RewritePunches(history[d], r)
                      ELSE history[d]
  IN
  /\ r \notin applied
  /\ \A c \in Clients : pc[c] = "idle"
  /\ closing # "closed" /\ ~Conflicting(r)
  /\ history' = [d \in Days |-> IF d \in dates THEN Rewritten(d) ELSE history[d]]
  /\ version' = [d \in Days |->
       IF d \in dates /\ (version[d] = 0 \/ Effective(Rewritten(d)) # Effective(history[d]))
       THEN version[d] + 1 ELSE version[d]]
  /\ applied' = applied \union {r}
  /\ UNCHANGED <<requestVars, closingVars, employeeLock, closingLock, begun, pc, tx>>

InitApplied == Init /\ applied = {}

NextApplied ==
  \/ Next /\ UNCHANGED applied
  \/ \E r \in Requested : ApplyToAttendance(r)

SpecApplied == InitApplied /\ [][NextApplied]_<<vars, applied>>
-----------------------------------------------------------------------------
(***************************************************************************)
(* An approved correction makes the day what was asked for, whatever       *)
(* punches and corrections of corrections the day held: its clock in and   *)
(* clock out are the two that were requested, and its breaks are the ones  *)
(* it had ("休憩まで消すと、申請に書いていない記録が承認によって消える",                *)
(* service.ts:445).                                                        *)
(***************************************************************************)
Corrected(r) ==
  LET d      == r.from
      clocks == SelectSeq(Effective(history'[d]), LAMBDA e : IsClock(e.type))
      Breaks(records) == SelectSeq(Effective(records), LAMBDA e : ~IsClock(e.type))
  IN  /\ clocks = <<[type |-> "clock_in", at |-> r.start], [type |-> "clock_out", at |-> r.end]>>
      /\ Breaks(history'[d]) = Breaks(history[d])

CorrectedAsApproved ==
  [][\A r \in applied' \ applied :
       r.category = "attendance_correction" =>
         IF HasTimes(r) THEN Corrected(r) ELSE UNCHANGED history]_<<vars, applied>>
=============================================================================
