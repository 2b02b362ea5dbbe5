--------------------------- MODULE StagedRequests ---------------------------
(***************************************************************************)
(* Employee requests that are approved in stages:                          *)
(* packages/api/src/request/{service,repository}.ts,                       *)
(* packages/domain/src/approval/{staged-request,approval-route}.ts and the *)
(* notifications of packages/api/src/notification.                         *)
(*                                                                         *)
(* A transaction reads the request (and its type) without a lock, decides  *)
(* from what it read, and writes the row whatever it holds by then.  The   *)
(* row's lock is held from that write on, so the writes of a transaction   *)
(* are one action; what it reads before is another.                        *)
(*                                                                         *)
(* One request type stands for all.  Users are those who may approve and   *)
(* see the employee by her employer; the employee is not one of them.      *)
(* What a request is about is left out, and that it takes effect           *)
(* (consumeLeave, or rewritePunches) is one step which may also be         *)
(* refused.  Delegations are those in effect from some day on.             *)
(***************************************************************************)
EXTENDS Naturals, FiniteSets

CONSTANTS
  Requests,
  Users,           \* who may approve
  Policies,        \* organization_manager, workspace_admin and any_approver
  Holders,         \* the users each policy admits
  Delegations,     \* <<from, to>>: those that may be created
  Proxies,         \* users who submit for the employee
  Nobody,
  Clients,         \* transactions that may run at a time
  Routes,          \* bound: the routes an administrator chooses from
  MaxSteps,        \* bound: stages of the type
  MaxSubmissions   \* bound: submissions of a request

ASSUME RequestsAssumption ==
  /\ Users \intersect Policies = {} /\ Nobody \notin Users \union Policies
  /\ Holders \in [Policies -> SUBSET Users]
  /\ Delegations \subseteq {d \in Users \X Users : d[1] # d[2]}
  /\ Proxies \subseteq Users
  /\ MaxSteps \in Nat \ {0} /\ MaxSubmissions \in Nat \ {0}

Steps == 1 .. MaxSteps
Submissions == 1 .. MaxSubmissions
Approvers == Users \union Policies

\* What a stage that has no approver has.
NoApprover == Nobody

ASSUME RoutesAssumption == Routes \subseteq [Steps -> Approvers \union {NoApprover}]

VARIABLES
  delegations,    \* approval_delegations
  approvalSteps,  \* request_types.approval_steps
  route,          \* request_type_steps: the approver of each stage
  request,        \* employee_requests
  snapshot,       \* employee_request_steps: the approver of each stage of each submission
  approvals,      \* employee_request_approvals
  reflected,      \* requests whose leave is in the ledger, or whose punches were recorded
  told,           \* <<request, submission, stage, user>>: who knows whose turn it is
  tx,             \* what each open transaction is to do and has read
  overtaken       \* history: requests written by a transaction that had read an older row

typeVars == <<delegations, approvalSteps, route>>
requestVars == <<request, snapshot, approvals, reflected, told, overtaken>>
vars == <<typeVars, requestVars, tx>>

NoRow == [state |-> "none", total |-> 0, current |-> 0, submissions |-> 0]

Rows ==
  [state : {"submitted", "approved", "returned", "cancelled"}, total : Steps,
   current : Steps, submissions : Submissions]

Approval ==
  [request : Requests, submission : Submissions, step : Steps,
   decision : {"approved", "returned"}, by : Users, onBehalfOf : Users \union {Nobody}]

Operations == {"submit", "decide", "resubmit", "cancel"}

NoTx == [op |-> "none", request |-> Nobody, row |-> NoRow, steps |-> 0]

TypeOK ==
  /\ delegations \subseteq Delegations
  /\ approvalSteps \in Steps
  /\ route \in [Steps -> Approvers \union {NoApprover}]
  /\ request \in [Requests -> Rows \union {NoRow}]
  /\ \A r \in Requests : request[r].current <= request[r].total
  /\ snapshot \in [Requests -> [Submissions -> [Steps -> Approvers \union {NoApprover}]]]
  /\ approvals \subseteq Approval
  /\ \A a, b \in approvals :
       a.request = b.request /\ a.submission = b.submission /\ a.step = b.step => a = b
  /\ reflected \subseteq Requests
  /\ told \subseteq Requests \X Submissions \X Steps \X Users
  /\ overtaken \subseteq Requests
  /\ tx \in [Clients -> {NoTx} \union
               [op : Operations, request : Requests, row : Rows \union {NoRow},
                steps : 0 .. MaxSteps]]

\* createType: with a number of stages and without a route.
CreateType ==
  /\ approvalSteps \in Steps
  /\ route = [s \in Steps |-> NoApprover]

Init ==
  /\ CreateType
  /\ delegations = {}
  /\ request = [r \in Requests |-> NoRow]
  /\ snapshot = [r \in Requests |-> [k \in Submissions |-> [s \in Steps |-> NoApprover]]]
  /\ approvals = {} /\ reflected = {} /\ told = {} /\ overtaken = {}
  /\ tx = [c \in Clients |-> NoTx]

-----------------------------------------------------------------------------
(***************************************************************************)
(* The type: its number of stages and its route change separately.         *)
(***************************************************************************)
UpdateType(n) ==
  /\ approvalSteps' = n
  /\ UNCHANGED <<delegations, route, requestVars, tx>>

\* Every stage of the type at once, and no other stage.
ReplaceRoute(approverOf) ==
  /\ \A s \in Steps : approverOf[s] # NoApprover <=> s <= approvalSteps
  /\ route' = approverOf
  /\ UNCHANGED <<delegations, approvalSteps, requestVars, tx>>

CreateDelegation(d) ==
  /\ delegations' = delegations \union {d}
  /\ UNCHANGED <<approvalSteps, route, requestVars, tx>>

\* completeRouteOf: refuse unless each of the first n stages has an approver.
CompleteRoute(n) == \A s \in 1 .. n : route[s] # NoApprover

-----------------------------------------------------------------------------
(***************************************************************************)
(* applyStagedRequestEvent.                                                *)
(***************************************************************************)
ApproveRow(row) ==
  IF row.current + 1 > row.total THEN [row EXCEPT !.state = "approved"]
  ELSE [row EXCEPT !.current = @ + 1]

ReturnRow(row) == [row EXCEPT !.state = "returned"]

\* Mutant: the stages that were approved stay approved.
ResubmitInPlace(row) == [row EXCEPT !.state = "submitted", !.submissions = @ + 1]

ResubmitRow(row) ==
  [row EXCEPT !.state = "submitted", !.current = 1, !.submissions = @ + 1]

CancelRow(row) == [row EXCEPT !.state = "cancelled"]

\* Mutant: what is approved may be cancelled.
AcceptsLateCancel(op, state) ==
  CASE op = "submit"   -> state = "none"
    [] op = "decide"   -> state = "submitted"
    [] op = "resubmit" -> state = "returned"
    [] op = "cancel"   -> state \in {"submitted", "returned", "approved"}

\* The states in which each event is accepted.
Accepts(op, state) ==
  CASE op = "submit"   -> state = "none"
    [] op = "decide"   -> state = "submitted"
    [] op = "resubmit" -> state = "returned"
    [] op = "cancel"   -> state \in {"submitted", "returned"}

-----------------------------------------------------------------------------
(***************************************************************************)
(* Transactions.                                                           *)
(***************************************************************************)
\* findRequest, and refusal unless the row as read accepts the event.
FindRequest(c, op, r) ==
  /\ tx[c] = NoTx
  /\ Accepts(op, request[r].state)
  /\ op = "resubmit" => request[r].submissions < MaxSubmissions
  /\ tx' = [tx EXCEPT ![c] = [op |-> op, request |-> r, row |-> request[r], steps |-> 0]]
  /\ UNCHANGED <<typeVars, requestVars>>

\* findRequestType in submit and resubmit.
FindType(c) ==
  /\ tx[c].op \in {"submit", "resubmit"} /\ tx[c].steps = 0
  /\ tx' = [tx EXCEPT ![c].steps = approvalSteps]
  /\ UNCHANGED <<typeVars, requestVars>>

Rollback(c) ==
  /\ tx[c] # NoTx
  /\ tx' = [tx EXCEPT ![c] = NoTx]
  /\ UNCHANGED <<typeVars, requestVars>>

\* insertRequest; the identifier is new.
InsertRequest(c, row) ==
  /\ request[tx[c].request] = NoRow
  /\ request' = [request EXCEPT ![tx[c].request] = row]
  /\ tx' = [tx EXCEPT ![c] = NoTx]
  /\ UNCHANGED overtaken

\* updateRequestState: the row is written whatever it holds.
UpdateRequestState(c, row) ==
  LET r == tx[c].request IN
  /\ request' = [request EXCEPT ![r] = row]
  /\ overtaken' = IF request[r] = tx[c].row THEN overtaken ELSE overtaken \union {r}
  /\ tx' = [tx EXCEPT ![c] = NoTx]

\* snapshotRequestSteps: a stage that is there stays as it is.
SnapshotRequestSteps(r, k, n) ==
  snapshot' = [snapshot EXCEPT ![r][k] =
                 [s \in Steps |-> IF s <= n /\ @[s] = NoApprover THEN route[s] ELSE @[s]]]

\* stageApproversOf: the user whom the stage names, none where a policy decides.
StageApprovers(approver) == {approver} \intersect Users

\* listApprovers: all who may approve, when no stage names one.
ListApprovers == Users

\* enqueue: what was told before is not told again.
Enqueue(row, r, users) ==
  told' = told \union {<<r, row.submissions, row.current, u>> : u \in users}

\* Mutant: where a policy decides, nobody is notified.
TellNamed(row, r, approver, actor) ==
  Enqueue(row, r, StageApprovers(approver) \union ({actor} \ {Nobody}))

\* notifyRequestEvent for a turn; actor, who caused it, is not notified but knows.
Tell(row, r, approver, actor) ==
  LET audience == IF StageApprovers(approver) = {} THEN ListApprovers
                  ELSE StageApprovers(approver)
  IN  Enqueue(row, r, audience \union ({actor} \ {Nobody}))

\* submit, by the employee (Nobody) or by a user for the employee.
Submit(c, actor) ==
  LET r   == tx[c].request
      n   == tx[c].steps
      row == [state |-> "submitted", total |-> n, current |-> 1, submissions |-> 1]
  IN
  /\ tx[c].op = "submit" /\ n # 0
  /\ CompleteRoute(n)
  /\ InsertRequest(c, row)
  /\ SnapshotRequestSteps(r, 1, n)
  /\ Tell(row, r, route[1], actor)
  /\ UNCHANGED <<typeVars, approvals, reflected>>

\* resubmit; it names no approver to the notification.
Resubmit(c, actor) ==
  LET r   == tx[c].request
      row == ResubmitRow(tx[c].row)
  IN
  /\ tx[c].op = "resubmit" /\ tx[c].steps # 0
  /\ CompleteRoute(tx[c].steps)
  /\ UpdateRequestState(c, row)
  /\ SnapshotRequestSteps(r, row.submissions, tx[c].steps)
  /\ Tell(row, r, Nobody, actor)
  /\ UNCHANGED <<typeVars, approvals, reflected>>

Cancel(c) ==
  /\ tx[c].op = "cancel"
  /\ UpdateRequestState(c, CancelRow(tx[c].row))
  /\ UNCHANGED <<typeVars, snapshot, approvals, reflected, told>>

ListDelegationsTo(user) == {d[1] : d \in {x \in delegations : x[2] = user}}

\* authorizeApproval: on whose behalf the user may decide, Nobody for herself.
Attributions(approver, user) ==
  IF approver \in Policies THEN {x \in {Nobody} : user \in Holders[approver]}
  ELSE IF approver = user THEN {Nobody}
  ELSE {approver} \intersect ListDelegationsTo(user)

Decided(r, k, s) == \E a \in approvals : a.request = r /\ a.submission = k /\ a.step = s

\* addApproval; the unique index refuses a second decision of the stage.
AddApproval(r, row, decision, user, onBehalfOf) ==
  /\ ~Decided(r, row.submissions, row.current)
  /\ approvals' = approvals \union
       {[request |-> r, submission |-> row.submissions, step |-> row.current,
         decision |-> decision, by |-> user, onBehalfOf |-> onBehalfOf]}

\* Mutant: the route of the type is read again.
ApproverNow(r, k, s) == route[s]

\* The approver of the stage as it was when the request was submitted.
ApproverOf(r, k, s) == snapshot[r][k][s]

Approve(c, user) ==
  LET r    == tx[c].request
      row  == tx[c].row
      next == ApproveRow(row)
      approver == ApproverOf(r, row.submissions, row.current)
  IN
  /\ tx[c].op = "decide"
  /\ \E x \in Attributions(approver, user) : AddApproval(r, row, "approved", user, x)
  /\ UpdateRequestState(c, next)
  /\ IF next.state = "approved"
       THEN r \notin reflected /\ reflected' = reflected \union {r} /\ UNCHANGED told
       ELSE UNCHANGED reflected
            /\ Tell(next, r, snapshot[r][next.submissions][next.current], user)
  /\ UNCHANGED <<typeVars, snapshot>>

Return(c, user) ==
  LET r   == tx[c].request
      row == tx[c].row
      approver == ApproverOf(r, row.submissions, row.current)
  IN
  /\ tx[c].op = "decide"
  /\ \E x \in Attributions(approver, user) : AddApproval(r, row, "returned", user, x)
  /\ UpdateRequestState(c, ReturnRow(row))
  /\ UNCHANGED <<typeVars, snapshot, reflected, told>>

\* list with awaitingMe: the requests whose current stage the user may decide.
AwaitingMe(user) ==
  {r \in Requests :
     LET row == request[r] IN
     /\ row.state = "submitted"
     /\ Attributions(ApproverOf(r, row.submissions, row.current), user) # {}}

TypeStep ==
  \/ \E d \in Delegations : CreateDelegation(d)
  \/ \E n \in Steps : UpdateType(n)
  \/ \E f \in Routes : ReplaceRoute(f)

ClientStep(c) ==
  \/ \E op \in Operations, r \in Requests : FindRequest(c, op, r)
  \/ FindType(c)
  \/ Rollback(c)
  \/ \E actor \in Proxies \union {Nobody} : Submit(c, actor) \/ Resubmit(c, actor)
  \/ Cancel(c)
  \/ \E user \in Users : Approve(c, user) \/ Return(c, user)

Next == TypeStep \/ \E c \in Clients : ClientStep(c)

Spec == Init /\ [][Next]_vars
-----------------------------------------------------------------------------
(***************************************************************************)
(* Properties.                                                             *)
(***************************************************************************)
\* Every decision was made by the approver its stage had when the request was submitted, or
\* on behalf of that approver by a delegate, whatever became of the route since
\* ("決裁済みの段の承認者が入れ替わる", service.ts:758).
DecidedByTheApprover ==
  \A a \in approvals :
    a.onBehalfOf \in Attributions(snapshot[a.request][a.submission][a.step], a.by)

\* What took effect is approved and what is approved took effect, unless a transaction wrote
\* over a row it had not read.
EffectFollowsApproval ==
  \A r \in Requests \ overtaken : r \in reflected <=> request[r].state = "approved"

\* Whoever finds a request in the list of those that await them has been told that it is their
\* turn, or stands in for someone who has ("ここで送らないと、次の承認者は自分の番になったことを
\* 知る手立てが無い", service.ts:933).
TurnIsAnnounced ==
  \A u \in Users : \A r \in AwaitingMe(u) :
    LET k == request[r].submissions
        s == request[r].current
    IN \E x \in Attributions(ApproverOf(r, k, s), u) :
         <<r, k, s, IF x = Nobody THEN u ELSE x>> \in told

Chain == INSTANCE ApprovalChain WITH
  stages <- [r \in Requests |-> request[r].total],
  decisions <- {<<a.request, a.submission, a.step, a.decision>> : a \in approvals},
  effective <- reflected

\* Whatever runs at the same time, the decisions are a chain and the request takes effect
\* with its last link.
ImplementsChain == Chain!Spec
=============================================================================
