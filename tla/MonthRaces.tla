----------------------------- MODULE MonthRaces -----------------------------
(***************************************************************************)
(* What overlapping transactions may do to an approved day and to a closed *)
(* month.  In packages/api/src/approval/service.ts no operation but the    *)
(* write of the closing takes a lock, so that a decision may rest on a     *)
(* state that is gone.  History variables, which no action of              *)
(* AttendanceMonth reads, tell who decided on what had been read before.   *)
(***************************************************************************)
EXTENDS AttendanceMonth

VARIABLES
  overtaken,  \* for each day, open transactions that read its request before its last change
  early,      \* open transactions that read the closing before the month was closed
  beside,     \* for each transaction that counted, the days written to since
  raced       \* days written to beside the close: by those that count as late for it

raceVars == <<overtaken, early, beside, raced>>

\* Transactions that have read the request of day d and decide on it.
HasRead(d) == {c \in Clients : tx[c].day = d /\ pc[c] \in {"request read", "day read", "deciding"}}

Leaves(c) == IF pc'[c] = "idle" THEN {c} ELSE {}

RecordIsWritten(d) == history'[d] # history[d]
RequestIsWritten(d) == transitions'[d] # transitions[d]
Closes(c) == pc[c] = "saved" /\ pc'[c] = "idle"
Reopens(c) == pc[c] = "reopening" /\ pc'[c] = "idle"

\* Days whose request is written by c, which decided on a state that is gone, or is reopened.
Overturned(c) == {d \in Days : RequestIsWritten(d) /\ (c \in overtaken[d] \/ Reopens(c))}

\* What is remembered of a step of c.
Remembers(c) ==
  /\ overtaken' = [d \in Days |->
       (IF RequestIsWritten(d) THEN overtaken[d] \union HasRead(d) ELSE overtaken[d]) \ Leaves(c)]
  /\ early' = (IF Closes(c) THEN {x \in Clients : pc[x] = "day read"} ELSE early) \ Leaves(c)
  /\ beside' = [x \in Clients |->
       IF pc'[x] \in {"counted", "saved"}
       THEN beside[x] \union {d \in Days : RecordIsWritten(d)} \union Overturned(c)
       ELSE {}]
  /\ raced' = IF Closes(c) THEN beside[c]
              ELSE IF closing' = "open" THEN {}
              ELSE raced \union Overturned(c)
                         \union {d \in Days : RecordIsWritten(d) /\ c \in early}

InitRaces ==
  /\ Init
  /\ overtaken = [d \in Days |-> {}] /\ early = {}
  /\ beside = [c \in Clients |-> {}] /\ raced = {}

NextRaces == \E c \in Clients : (Attend(c) \/ Approve(c) \/ Month(c)) /\ Remembers(c)

SpecRaces == InitRaces /\ [][NextRaces]_<<vars, raceVars>>

-----------------------------------------------------------------------------
(***************************************************************************)
(* A closed month has no day with records that is not approved, and the    *)
(* figures it was closed with are those of its records (close,             *)
(* service.ts), apart from the days that were written to beside the close: *)
(* a punch or correction between the count and the close, or one that had  *)
(* read the open closing; a decision on a state that was gone; a reopening *)
(* between the count and the close.  Schedules may have a closed day       *)
(* calculated again, which is in MonthTotals.                              *)
(***************************************************************************)
ClosedMonthStands ==
  closing = "closed" =>
    /\ UnapprovedDays \subseteq raced
    /\ \A d \in Days \ raced : Last(snapshots)[d] = version[d]

(***************************************************************************)
(* What an approver looks at does not change (requireEditableDay), and     *)
(* what was approved only goes back by a reopening (daily-request.ts):     *)
(* while a request is submitted or approved, a record of its day is        *)
(* written, and an approval undone, only by a transaction that had read    *)
(* the request before its last change.  And but for such transactions the  *)
(* log tells the change that was made (recordTransition).                  *)
(***************************************************************************)
ApprovalStands ==
  [][\A c \in Clients, d \in Days :
       pc'[c] # pc[c] /\ c \notin overtaken[d] =>
         /\ RecordIsWritten(d) => RequestAllowsEditing(request[d])
         /\ request[d] = "approved" /\ request'[d] # "approved" =>
              Reopens(c) /\ request'[d] = "returned"
         /\ RequestIsWritten(d) => Last(transitions'[d])[1] = request[d]]_<<vars, raceVars>>
=============================================================================
