-------------------------- MODULE AttendanceMonth --------------------------
(***************************************************************************)
(* The attendance of one employee in one closing period: punches and their *)
(* corrections, the daily requests, and the closing of the month.          *)
(* packages/api/src/attendance/{record,day,service}.ts,                    *)
(* packages/api/src/approval/{service,repository}.ts and the state         *)
(* machines of packages/domain/src/approval.                               *)
(*                                                                         *)
(* Every operation is a database transaction that reads, decides and       *)
(* writes.  PostgreSQL runs them READ COMMITTED (database.ts sends a plain *)
(* BEGIN): each SELECT sees what is committed when it runs, and what a     *)
(* transaction writes shows when it commits.  So each SELECT that a        *)
(* decision rests on is an action, and the last action of a transaction    *)
(* does all its writes.  The only locks are the one punches and            *)
(* corrections take on the employee (SELECT ... FOR UPDATE) and the one    *)
(* saveClosing takes on the closing's row until its transaction ends.      *)
(*                                                                         *)
(* recorded_at is now(), the instant the transaction began.                *)
(***************************************************************************)
EXTENDS WorkDay, FiniteSets, FiniteSetsExt

CONSTANTS
  Instants,        \* the instants punches occur at
  Ids,             \* idempotency keys of punches and corrections
  NoId,
  Types,           \* the punch types people use
  Clients,         \* transactions that may be open at the same time
  Nobody,
  MaxSubmissions,  \* bound: submissions in the period
  MaxReopens       \* bound: reopenings of the period

ASSUME MonthAssumption ==
  /\ Instants \subseteq Nat
  /\ NoId \notin Ids /\ Nobody \notin Clients /\ Clients \intersect Ids = {}
  /\ Types \subseteq PunchTypes
  /\ MaxSubmissions \in Nat /\ MaxReopens \in Nat

\* businessDateOf: two instants make a day; days are consecutive numbers.
BusinessDateOf(at) == at \div 2
Days == {BusinessDateOf(at) : at \in Instants}

VARIABLES
  history,      \* attendance_events of each day, by recorded_at
  version,      \* version of each day's latest calculation, as far as its records make them
  request,      \* state of each day's request, "draft" when there is none
  transitions,  \* attendance_request_transitions of each day: <<from, event, to>>
  closing,      \* state of the closing, "open" when there is none
  reopens,      \* its count of reopenings
  snapshots,    \* monthly_closing_snapshots in order of sequence: dayVersions
  employeeLock, closingLock,  \* the client that holds the row's lock
  begun,        \* open transactions, and what was recorded since, by when they began
  pc,           \* where each client's transaction stands
  tx            \* what each open transaction was asked and has read

attendanceVars == <<history, version>>
requestVars == <<request, transitions>>
closingVars == <<closing, reopens, snapshots>>
monthVars == <<attendanceVars, requestVars, closingVars>>
vars == <<monthVars, employeeLock, closingLock, begun, pc, tx>>

RequestStates == {"draft", "submitted", "approved", "returned", "cancelled"}

\* daily-request.ts: <<from, event, to>>.
RequestTable ==
  {<<"draft", "SUBMIT", "submitted">>, <<"draft", "CANCEL", "cancelled">>,
   <<"submitted", "APPROVE", "approved">>, <<"submitted", "RETURN", "returned">>,
   <<"submitted", "CANCEL", "cancelled">>,
   <<"returned", "SUBMIT", "submitted">>, <<"returned", "CANCEL", "cancelled">>,
   <<"approved", "REOPEN", "returned">>}

RequestEvents == {"SUBMIT", "APPROVE", "RETURN", "CANCEL", "REOPEN"}

\* applyDailyRequestEvent
CanApply(state, event) == \E to \in RequestStates : <<state, event, to>> \in RequestTable
Apply(state, event) == CHOOSE to \in RequestStates : <<state, event, to>> \in RequestTable

\* allowsAttendanceEditing of daily-request.ts and of monthly-closing.ts.
RequestAllowsEditing(state) == state \in {"draft", "returned", "cancelled"}
ClosingAllowsEditing(state) == state = "open"

Blank == [day |-> 0, at |-> 0, id |-> NoId, type |-> "clock_in", action |-> "punch",
          corrects |-> NoId, events |-> <<>>, event |-> "SUBMIT", request |-> "draft",
          closing |-> "open", reopens |-> 0, versions |-> <<>>]

Init ==
  /\ history = [d \in Days |-> <<>>]
  /\ version = [d \in Days |-> 0]
  /\ request = [d \in Days |-> "draft"]
  /\ transitions = [d \in Days |-> <<>>]
  /\ closing = "open" /\ reopens = 0 /\ snapshots = <<>>
  /\ employeeLock = Nobody /\ closingLock = Nobody
  /\ begun = <<>>
  /\ pc = [c \in Clients |-> "idle"]
  /\ tx = [c \in Clients |-> Blank]

-----------------------------------------------------------------------------
(* Transactions.                                                           *)

Goes(c, from, to) == pc[c] = from /\ pc' = [pc EXCEPT ![c] = to]

\* BEGIN, with what the request asks for.
Begins(c, to, asked) ==
  /\ Goes(c, "idle", to)
  /\ tx' = [tx EXCEPT ![c] = asked]
  /\ begun' = Append(begun, c)

\* What began before every open transaction is older than all that is still to be recorded.
SinceOpen(order) ==
  LET first == SelectInSeq(order, LAMBDA x : x \in Clients)
  IN  IF first = 0 THEN <<>> ELSE SubSeq(order, first, Len(order))

\* COMMIT or ROLLBACK: what the transaction leaves in the order of recorded_at, its locks.
Ends(c, from, left) ==
  /\ Goes(c, from, "idle")
  /\ tx' = [tx EXCEPT ![c] = Blank]
  /\ begun' = SinceOpen(left)
  /\ employeeLock' = IF employeeLock = c THEN Nobody ELSE employeeLock
  /\ closingLock' = IF closingLock = c THEN Nobody ELSE closingLock

\* Where an open transaction stands in the order of recorded_at.
BeganAt(c) == CHOOSE i \in DOMAIN begun : begun[i] = c

EndsUnrecorded(c, from) == Ends(c, from, RemoveAt(begun, BeganAt(c)))

RollsBack(c, from) == EndsUnrecorded(c, from) /\ UNCHANGED monthVars

-----------------------------------------------------------------------------
(* Punches and corrections: recordAttendanceEvent and correct.             *)

Recorded(id) == \E d \in Days : \E i \in DOMAIN history[d] : history[d][i].id = id

\* Ids recorded by transactions that began after c did.
RecordedLater(c) ==
  {begun[i] : i \in {i \in DOMAIN begun : i > BeganAt(c)}} \intersect Ids

\* Where ORDER BY recorded_at puts the record of c: behind those that began before it.
InRecordedOrder(c, d, e) ==
  LET earlier == {i \in DOMAIN history[d] : history[d][i].id \notin RecordedLater(c)}
  IN  InsertAt(history[d], Cardinality(earlier) + 1, e)

\* insertEvent, then recalculateWorkDay: a new version when what counts has changed.
InsertEvent(c, d, e) ==
  LET next == InRecordedOrder(c, d, e) IN
  /\ history' = [history EXCEPT ![d] = next]
  /\ version' = [version EXCEPT ![d] =
       IF @ > 0 /\ Effective(next) = Effective(history[d]) THEN @ ELSE @ + 1]

\* resolveBusinessDate: all punches but clock_in go to the day that is still open.
ResolveBusinessDate(at, type) ==
  LET today == BusinessDateOf(at)
      open == {d \in {today, today - 1} \intersect Days : IsOpen(StateOf(history[d]))} IN
  IF type = "clock_in" \/ open = {} THEN today
  ELSE CHOOSE d \in open : \A e \in open : e <= d

\* A card whose type is decided before the employee is locked asks for any type.
Punch(c) ==
  /\ \E at \in Instants, id \in Ids, type \in Types :
       Begins(c, "punching", [Blank EXCEPT !.at = at, !.id = id, !.type = type])
  /\ UNCHANGED <<monthVars, employeeLock, closingLock>>

AddRecord(c) ==
  /\ \E at \in Instants, d \in Days, id \in Ids, type \in Types :
       Begins(c, "correcting",
              [Blank EXCEPT !.day = d, !.at = at, !.id = id, !.type = type, !.action = "add"])
  /\ UNCHANGED <<monthVars, employeeLock, closingLock>>

\* The correction of a record stays on the record's day; a void keeps its type and instant.
VoidRecord(c) ==
  /\ \E d \in Days, id \in Ids : \E target \in Range(history[d]) :
       Begins(c, "correcting",
              [Blank EXCEPT !.day = d, !.id = id, !.action = "void", !.corrects = target.id,
                            !.at = target.at, !.type = target.type])
  /\ UNCHANGED <<monthVars, employeeLock, closingLock>>

AdjustRecord(c) ==
  /\ \E d \in Days, id \in Ids, at \in Instants, type \in Types : \E target \in Range(history[d]) :
       Begins(c, "correcting",
              [Blank EXCEPT !.day = d, !.id = id, !.action = "adjust", !.corrects = target.id,
                            !.at = at, !.type = type])
  /\ UNCHANGED <<monthVars, employeeLock, closingLock>>

\* Mutant: SELECT without FOR UPDATE.
LockEmployeeShared(c) ==
  LET d == IF pc[c] = "punching" THEN ResolveBusinessDate(tx[c].at, tx[c].type) ELSE tx[c].day IN
  /\ \E from \in {"punching", "correcting"} : Goes(c, from, "locked")
  /\ ~Recorded(tx[c].id)
  /\ tx' = [tx EXCEPT ![c].day = d, ![c].events = history[d]]
  /\ UNCHANGED <<monthVars, employeeLock, closingLock, begun>>

(***************************************************************************)
(* lockEmployee.  The key is looked up, the business day is resolved and   *)
(* its events are read under the lock; who writes events holds it, so they *)
(* are read in the same step.                                              *)
(***************************************************************************)
LockEmployee(c) ==
  LET d == IF pc[c] = "punching" THEN ResolveBusinessDate(tx[c].at, tx[c].type) ELSE tx[c].day IN
  /\ \E from \in {"punching", "correcting"} : Goes(c, from, "locked")
  /\ employeeLock = Nobody /\ employeeLock' = c
  /\ ~Recorded(tx[c].id)
  /\ tx' = [tx EXCEPT ![c].day = d, ![c].events = history[d]]
  /\ UNCHANGED <<monthVars, closingLock, begun>>

\* The key is known: the first result again, nothing is written.
Duplicate(c) ==
  /\ pc[c] \in {"punching", "correcting"} /\ employeeLock = Nobody
  /\ Recorded(tx[c].id)
  /\ RollsBack(c, pc[c])

\* loadWorkDay reads the request of the day, then the closing.
ReadRequest(c) ==
  /\ Goes(c, "locked", "request read")
  /\ tx' = [tx EXCEPT ![c].request = request[tx[c].day]]
  /\ UNCHANGED <<monthVars, employeeLock, closingLock, begun>>

ReadClosing(c) ==
  /\ Goes(c, "request read", "day read")
  /\ tx' = [tx EXCEPT ![c].closing = closing]
  /\ UNCHANGED <<monthVars, employeeLock, closingLock, begun>>

\* Mutant: requireEditableDay looks at the closing only.
AllowedWhateverRequest(c) ==
  /\ ClosingAllowsEditing(tx[c].closing)
  /\ tx[c].action = "punch" => Accepts(StateOf(tx[c].events), tx[c].type)

\* requireEditableDay and, for a punch, decidePunch; a correction may make any day it likes.
Allowed(c) ==
  /\ RequestAllowsEditing(tx[c].request) /\ ClosingAllowsEditing(tx[c].closing)
  /\ tx[c].action = "punch" => Accepts(StateOf(tx[c].events), tx[c].type)

Record(c) ==
  /\ Allowed(c)
  /\ Ends(c, "day read", [begun EXCEPT ![BeganAt(c)] = tx[c].id])
  /\ InsertEvent(c, tx[c].day, [id |-> tx[c].id, type |-> tx[c].type, at |-> tx[c].at,
                                action |-> tx[c].action, corrects |-> tx[c].corrects])
  /\ UNCHANGED <<requestVars, closingVars>>

RefuseRecord(c) == ~Allowed(c) /\ RollsBack(c, "day read")

-----------------------------------------------------------------------------
(* Daily requests: submit and decide.                                      *)

Submissions ==
  MapThenSumSet(LAMBDA d : Len(SelectSeq(transitions[d], LAMBDA t : t[2] = "SUBMIT")), Days)

\* submit refuses a closed month, then reads the request.
BeginSubmit(c, d) ==
  /\ closing = "open"
  /\ Submissions < MaxSubmissions
  /\ Begins(c, "submitting", [Blank EXCEPT !.day = d])
  /\ UNCHANGED <<monthVars, employeeLock, closingLock>>

ReadRequestToSubmit(c) ==
  /\ pc[c] = "submitting"
  /\ IF CanApply(request[tx[c].day], "SUBMIT")
     THEN /\ Goes(c, "submitting", "deciding")
          /\ tx' = [tx EXCEPT ![c].request = request[tx[c].day]]
          /\ UNCHANGED <<monthVars, employeeLock, closingLock, begun>>
     ELSE RollsBack(c, "submitting")

\* decide on a request that was submitted before; a day without one has none to decide on.
BeginDecide(c, d, event) ==
  /\ transitions[d] # <<>>
  /\ CanApply(request[d], event)
  /\ Begins(c, "deciding", [Blank EXCEPT !.day = d, !.event = event, !.request = request[d]])
  /\ UNCHANGED <<monthVars, employeeLock, closingLock>>

\* saveRequest overwrites the state; recordTransition writes down what was read.
SaveRequest(c) ==
  LET d == tx[c].day
      to == Apply(tx[c].request, tx[c].event) IN
  /\ EndsUnrecorded(c, "deciding")
  /\ request' = [request EXCEPT ![d] = to]
  /\ transitions' = [transitions EXCEPT ![d] = Append(@, <<tx[c].request, tx[c].event, to>>)]
  /\ UNCHANGED <<attendanceVars, closingVars>>

-----------------------------------------------------------------------------
(* The closing: close and reopen.                                          *)

BeginClose(c) ==
  /\ closing = "open"
  /\ Begins(c, "closing", [Blank EXCEPT !.reopens = reopens])
  /\ UNCHANGED <<monthVars, employeeLock, closingLock>>

\* countUnapprovedDays counts days with a record, whatever became of the record.
UnapprovedDays == {d \in Days : history[d] # <<>> /\ request[d] # "approved"}

\* Mutant: "<> 'approved'" instead of IS DISTINCT FROM, which skips days without a request.
CountRefusedDays(c) ==
  /\ pc[c] = "closing"
  /\ IF {d \in UnapprovedDays : request[d] # "draft"} = {}
     THEN /\ Goes(c, "closing", "counted")
          /\ UNCHANGED <<monthVars, employeeLock, closingLock, begun, tx>>
     ELSE RollsBack(c, "closing")

CountUnapprovedDays(c) ==
  /\ pc[c] = "closing"
  /\ IF UnapprovedDays = {}
     THEN /\ Goes(c, "closing", "counted")
          /\ UNCHANGED <<monthVars, employeeLock, closingLock, begun, tx>>
     ELSE RollsBack(c, "closing")

\* saveClosing, which holds the row from here on, then listDailyTotals.
SaveClosing(c) ==
  /\ Goes(c, "counted", "saved")
  /\ closingLock = Nobody /\ closingLock' = c
  /\ tx' = [tx EXCEPT ![c].versions = version]
  /\ UNCHANGED <<monthVars, employeeLock, begun>>

\* nextSnapshotSequence, insertSnapshot and COMMIT.
Close(c) ==
  /\ EndsUnrecorded(c, "saved")
  /\ closing' = "closed" /\ reopens' = tx[c].reopens
  /\ snapshots' = Append(snapshots, tx[c].versions)
  /\ UNCHANGED <<attendanceVars, requestVars>>

BeginReopen(c) ==
  /\ closing = "closed" /\ reopens < MaxReopens
  /\ Begins(c, "reopening", [Blank EXCEPT !.reopens = reopens])
  /\ UNCHANGED <<monthVars, employeeLock, closingLock>>

\* saveClosing, then reopenApprovedRequests and a transition for each.
Reopen(c) ==
  /\ closingLock = Nobody
  /\ EndsUnrecorded(c, "reopening")
  /\ closing' = "open" /\ reopens' = tx[c].reopens + 1
  /\ request' = [d \in Days |-> IF request[d] = "approved" THEN "returned" ELSE request[d]]
  /\ transitions' = [d \in Days |->
       IF request[d] = "approved"
       THEN Append(transitions[d], <<"approved", "REOPEN", "returned">>)
       ELSE transitions[d]]
  /\ UNCHANGED <<attendanceVars, snapshots>>

-----------------------------------------------------------------------------
Attend(c) ==
  \/ Punch(c) \/ AddRecord(c) \/ VoidRecord(c) \/ AdjustRecord(c)
  \/ LockEmployee(c) \/ Duplicate(c) \/ ReadRequest(c) \/ ReadClosing(c)
  \/ Record(c) \/ RefuseRecord(c)

Approve(c) ==
  \/ \E d \in Days : BeginSubmit(c, d)
  \/ ReadRequestToSubmit(c)
  \/ \E d \in Days, event \in {"APPROVE", "RETURN", "CANCEL"} : BeginDecide(c, d, event)
  \/ SaveRequest(c)

Month(c) ==
  \/ BeginClose(c) \/ CountUnapprovedDays(c) \/ SaveClosing(c) \/ Close(c)
  \/ BeginReopen(c) \/ Reopen(c)

Next == \E c \in Clients : Attend(c) \/ Approve(c) \/ Month(c)

Spec == Init /\ [][Next]_vars

-----------------------------------------------------------------------------
(* What must hold.                                                         *)

Records == [id : Ids, type : Types, at : Instants,
            action : {"punch", "add", "adjust", "void"}, corrects : Ids \union {NoId}]

Steps == {"idle", "punching", "correcting", "locked", "request read", "day read",
          "submitting", "deciding", "closing", "counted", "saved", "reopening"}

\* The type of every variable.
TypeOK ==
  /\ \A d \in Days : history[d] \in Seq(Records)
  /\ version \in [Days -> 0..Cardinality(Ids)]
  /\ request \in [Days -> RequestStates]
  /\ \A d \in Days : transitions[d] \in Seq(RequestTable)
  /\ closing \in {"open", "closed"}
  /\ reopens \in 0..MaxReopens
  /\ \A n \in DOMAIN snapshots : snapshots[n] \in [Days -> 0..Cardinality(Ids)]
  /\ {employeeLock, closingLock} \subseteq Clients \union {Nobody}
  /\ Range(begun) \subseteq Clients \union Ids
  /\ pc \in [Clients -> Steps]

\* The records of one step that were not there before.
Added(d) == {e \in Range(history'[d]) : e \notin Range(history[d])}

(***************************************************************************)
(* Whoever else is punching, a punch is only recorded on a day whose state *)
(* accepts it then: the lock on the employee serialises what the code      *)
(* reads, decides and inserts (record.ts, recordAttendanceEvent).          *)
(***************************************************************************)
PunchesAreAccepted ==
  [][\A d \in Days : \A e \in Added(d) :
       e.action = "punch" => Accepts(StateOf(history[d]), e.type)]_vars

(***************************************************************************)
(* A retry never reaches the insert: when a transaction inserts, its key   *)
(* is new.  The handler of the unique violation (record.ts) is never run;  *)
(* it could not work, as PostgreSQL refuses its query in the failed        *)
(* transaction.                                                            *)
(***************************************************************************)
InsertsAreFresh == \A c \in Clients : pc[c] = "day read" => ~Recorded(tx[c].id)

(***************************************************************************)
(* Of several corrections of one record the later one counts               *)
(* (corrections.ts): a correction that is accepted is in effect, unless    *)
(* one whose transaction began after it has been recorded before it.       *)
(***************************************************************************)
OnlyOvertakenCorrectionsAreLost ==
  [][\A c \in Clients, d \in Days : \A e \in Added(d) :
       (pc[c] = "day read" /\ tx[c].id = e.id /\ e.action \in {"adjust", "void"}) =>
         \A i \in DOMAIN history'[d] :
           history'[d][i].id = e.corrects =>
             LET inEffect == history'[d][Correction(history'[d], i)] IN
             inEffect = e \/ inEffect.id \in RecordedLater(c)]_vars
=============================================================================
