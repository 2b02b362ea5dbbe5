--------------------------- MODULE RequestsAndLeaveProofs ---------------------------
(***************************************************************************)
(* Proofs about what employees request (StagedRequests), for any number of *)
(* requests, users, delegations, stages, submissions and transactions at a *)
(* time, and about the leave that is booked and taken (LeaveLedger), for   *)
(* any days, amounts, expiries and number of clients.  Neither part cites  *)
(* a lemma of the other.                                                   *)
(*                                                                         *)
(* Requests: what an open transaction has read stands on the decisions     *)
(* there are, for decisions are never taken back, and a decision is one of *)
(* the stage the row was at.                                               *)
(*                                                                         *)
(* The ledger: a balance is a walk over all entries, and what is granted   *)
(* or taken on an early day changes what later entries find.  Two things   *)
(* are kept of the walk: what is usable from each day on, and what is      *)
(* owed.  Granting more raises the first and does not raise the second, so *)
(* what a client has validated stays covered while others grant; nobody    *)
(* else takes until it is inserted.                                        *)
(* Any other way to take the same leave is followed through the same walk  *)
(* and never has more left that can still be used.                         *)
(***************************************************************************)
EXTENDS StagedRequests, LeaveLedger, SequenceTheorems, FiniteSetTheorems,
        WellFoundedInduction, TLAPS

-----------------------------------------------------------------------------
(***************************************************************************)
(* Requests.                                                               *)
(***************************************************************************)

\* What the decisions A say of a stage.
Was(A, r, k, s, decision) ==
  \E a \in A : a.request = r /\ a.submission = k /\ a.step = s /\ a.decision = decision

\* Whether the decisions A, of a request of n stages, have come to a stage.
Reaches(A, n, r, k, s) ==
  IF s > 1 THEN Was(A, r, k, s - 1, "approved")
  ELSE k > 1 => \E i \in 1 .. n : Was(A, r, k - 1, i, "returned")

\* A row that is or was in the table stands on decisions.
StandsOn(A, n, r, row) ==
  /\ row.state = "submitted" => Reaches(A, n, r, row.submissions, row.current)
  /\ row.state = "returned" => Was(A, r, row.submissions, row.current, "returned")

\* The stages before a decided one are approved, the submissions before it were returned,
\* and no stage has two decisions.
InOrder(A, n, r) ==
  \A a \in {x \in A : x.request = r} :
    /\ a.step <= n
    /\ \A s \in 1 .. a.step - 1 : Was(A, r, a.submission, s, "approved")
    /\ \A k \in 1 .. a.submission - 1 : \E s \in 1 .. n : Was(A, r, k, s, "returned")
    /\ \A b \in A :
         b.request = r /\ b.submission = a.submission /\ b.step = a.step => a = b

DecisionsInOrder == \A r \in Requests : InOrder(approvals, request[r].total, r)

RowsStand == \A r \in Requests : StandsOn(approvals, request[r].total, r, request[r])

\* What an open transaction t read fits what it is to do, and stands on the decisions A; the
\* number of stages n is still that of the request, which keeps it.
Fits(A, n, t) ==
  /\ Accepts(t.op, t.row.state)
  /\ t.op # "submit" => t.row \in Rows /\ t.row.current <= t.row.total /\ t.row.total = n
  /\ t.op = "resubmit" => t.row.submissions < MaxSubmissions
  /\ StandsOn(A, n, t.request, t.row)

ReadsFit ==
  \A c \in Clients : tx[c] # NoTx => Fits(approvals, request[tx[c].request].total, tx[c])

\* What took effect is what has an approval of its last stage.
EffectIsLastApproval ==
  \A r \in Requests :
    r \in reflected <=> \E k \in Submissions : Was(approvals, r, k, request[r].total, "approved")

\* The approver of the row's stage is among those who were told, all are where a policy decides.
KnowsTurn(T, approverOf, r, row) ==
  LET k == row.submissions
      s == row.current
      approver == approverOf[k][s]
  IN row.state = "submitted" =>
       /\ approver \in Users => <<r, k, s, approver>> \in T
       /\ approver \in Policies => \A u \in Users : <<r, k, s, u>> \in T

TurnIsKnown == \A r \in Requests : KnowsTurn(told, snapshot[r], r, request[r])

\* A request that was not submitted has no approvers.
FreshSnapshots ==
  \A r \in Requests : request[r] = NoRow =>
    \A k \in Submissions, s \in Steps : snapshot[r][k][s] = NoApprover

IInv ==
  /\ TypeOK
  /\ ReadsFit
  /\ DecisionsInOrder
  /\ RowsStand
  /\ EffectIsLastApproval
  /\ TurnIsKnown
  /\ FreshSnapshots
  /\ DecidedByTheApprover
  /\ EffectFollowsApproval

-----------------------------------------------------------------------------
(***************************************************************************)
(* Lemmas about decisions.                                                 *)
(***************************************************************************)
\* Decisions that are added take nothing away.
LEMMA WasStays ==
  ASSUME NEW A, NEW B, A \subseteq B, NEW r, NEW k, NEW s, NEW d, Was(A, r, k, s, d)
  PROVE  Was(B, r, k, s, d)
BY DEF Was

LEMMA StandingStays ==
  ASSUME NEW A, NEW B, A \subseteq B, NEW n, NEW r, NEW row, StandsOn(A, n, r, row)
  PROVE  StandsOn(B, n, r, row)
BY DEF StandsOn, Reaches, Was

\* What the decisions have come to is the one stage that may be decided next: after an
\* approval of the last stage there is none.
LEMMA NothingAfterTheLast ==
  ASSUME NEW A \in SUBSET Approval, NEW n \in Steps, NEW r,
         InOrder(A, n, r),
         NEW k \in Submissions, NEW s \in 1 .. n,
         Reaches(A, n, r, k, s),
         NEW last \in Submissions, Was(A, r, last, n, "approved")
  PROVE  \E a \in A : a.request = r /\ a.submission = k /\ a.step = s
<1> SUFFICES ASSUME \A a \in A : ~(a.request = r /\ a.submission = k /\ a.step = s)
             PROVE  FALSE
  OBVIOUS
<1> USE RequestsAssumption DEF Steps, Submissions
<1>1. \A i, j : ~(Was(A, r, i, j, "approved") /\ Was(A, r, i, j, "returned"))
  BY DEF Was, InOrder
<1>2. \A i, j : ~(i = k /\ j = s /\ (Was(A, r, i, j, "approved") \/ Was(A, r, i, j, "returned")))
  BY DEF Was
<1>3. ASSUME NEW i \in Submissions, NEW j \in 1 .. n, NEW h \in 1 .. j - 1, NEW d,
             Was(A, r, i, j, d)
      PROVE  Was(A, r, i, h, "approved")
  <2>1. PICK a \in A : a.request = r /\ a.submission = i /\ a.step = j
    BY <1>3 DEF Was
  <2>2. \A g \in 1 .. a.step - 1 : Was(A, r, a.submission, g, "approved")
    BY <2>1 DEF InOrder
  <2> QED
    BY <2>1, <2>2
<1>4. ASSUME NEW i \in Submissions, NEW j \in 1 .. n, NEW h \in 1 .. i - 1, NEW d,
             Was(A, r, i, j, d)
      PROVE  \E g \in 1 .. n : Was(A, r, h, g, "returned")
  BY <1>4 DEF Was, InOrder
<1>5. CASE k = last
  <2>1. s # n
    BY <1>2, <1>5
  <2>2. Was(A, r, k, s, "approved")
    BY <1>3, <1>5, <2>1
  <2> QED
    BY <1>2, <2>2
<1>6. CASE k < last
  <2>1. PICK i \in 1 .. n : Was(A, r, k, i, "returned")
    BY <1>4, <1>6
  <2>2. i # s
    BY <1>2, <2>1
  <2>3. CASE i > s
    BY <1>2, <1>3, <2>1, <2>3
  <2>4. CASE i < s
    <3>1. Was(A, r, k, s - 1, "approved")
      BY <2>4 DEF Reaches
    <3>2. CASE i = s - 1
      BY <1>1, <2>1, <3>1, <3>2
    <3>3. CASE i < s - 1
      <4>1. Was(A, r, k, i, "approved")
        BY <1>3, <3>1, <3>3
      <4> QED
        BY <1>1, <2>1, <4>1
    <3> QED
      BY <2>4, <3>2, <3>3
  <2> QED
    BY <2>2, <2>3, <2>4
<1>7. CASE k > last
  <2>1. \E i \in 1 .. n : Was(A, r, last, i, "returned")
    <3>1. CASE s > 1
      <4>1. Was(A, r, k, s - 1, "approved")
        BY <3>1 DEF Reaches
      <4> QED
        BY <1>4, <1>7, <3>1, <4>1
    <3>2. CASE s = 1
      <4>1. PICK i \in 1 .. n : Was(A, r, k - 1, i, "returned")
        BY <1>7, <3>2 DEF Reaches
      <4> QED
        BY <1>4, <1>7, <4>1
    <3> QED
      BY <3>1, <3>2
  <2>2. PICK i \in 1 .. n : Was(A, r, last, i, "returned")
    BY <2>1
  <2>3. CASE i = n
    BY <1>1, <2>2, <2>3
  <2>4. CASE i < n
    <3>1. Was(A, r, last, i, "approved")
      BY <1>3, <2>4
    <3> QED
      BY <1>1, <2>2, <3>1
  <2> QED
    BY <2>3, <2>4
<1> QED
  BY <1>5, <1>6, <1>7

\* A decision of the stage that the decisions have come to keeps them in order.
LEMMA DecisionKeepsOrder ==
  ASSUME NEW A \in SUBSET Approval, NEW n \in Steps, NEW r,
         InOrder(A, n, r),
         NEW x \in Approval, x.request = r, x.step <= n,
         Reaches(A, n, r, x.submission, x.step),
         ~\E a \in A : a.request = r /\ a.submission = x.submission /\ a.step = x.step
  PROVE  InOrder(A \union {x}, n, r)
<1> USE RequestsAssumption DEF Steps, Submissions, Approval
<1> DEFINE B == A \union {x}
<1> SUFFICES ASSUME NEW a \in B, a.request = r
             PROVE  /\ a.step <= n
                    /\ \A s \in 1 .. a.step - 1 : Was(B, r, a.submission, s, "approved")
                    /\ \A k \in 1 .. a.submission - 1 :
                         \E s \in 1 .. n : Was(B, r, k, s, "returned")
                    /\ \A b \in B :
                         b.request = r /\ b.submission = a.submission /\ b.step = a.step => a = b
  BY DEF InOrder
<1>1. \A k, s, d : Was(A, r, k, s, d) => Was(B, r, k, s, d)
  BY DEF Was
<1>2. CASE a \in A
  BY <1>1, <1>2 DEF InOrder
<1>3. CASE a = x
  <2> DEFINE k == x.submission
             s == x.step
  <2>1. \A j \in 1 .. s - 1 : Was(A, r, k, j, "approved")
    <3>1. SUFFICES ASSUME NEW j \in 1 .. s - 1 PROVE Was(A, r, k, j, "approved")
      OBVIOUS
    <3>2. Was(A, r, k, s - 1, "approved")
      BY DEF Reaches
    <3> QED
      BY <3>2 DEF Was, InOrder
  <2>2. \A h \in 1 .. k - 1 : \E j \in 1 .. n : Was(A, r, h, j, "returned")
    <3>1. SUFFICES ASSUME NEW h \in 1 .. k - 1
                   PROVE  \E j \in 1 .. n : Was(A, r, h, j, "returned")
      OBVIOUS
    <3>2. CASE s > 1
      <4>1. Was(A, r, k, s - 1, "approved")
        BY <3>2 DEF Reaches
      <4> QED
        BY <4>1 DEF Was, InOrder
    <3>3. CASE s = 1
      <4>1. PICK i \in 1 .. n : Was(A, r, k - 1, i, "returned")
        BY <3>3 DEF Reaches
      <4>2. CASE h = k - 1
        BY <4>1, <4>2
      <4>3. CASE h < k - 1
        BY <4>1, <4>3 DEF Was, InOrder
      <4> QED
        BY <4>2, <4>3
    <3> QED
      BY <3>2, <3>3
  <2> QED
    BY <1>1, <1>3, <2>1, <2>2
<1> QED
  BY <1>2, <1>3

-----------------------------------------------------------------------------
(***************************************************************************)
(* IInv is inductive.                                                      *)
(***************************************************************************)
LEMMA InitIInv == Init => IInv
<1> SUFFICES ASSUME Init PROVE IInv
  OBVIOUS
<1> USE RequestsAssumption DEF Init, CreateType, NoRow, NoTx
<1>1. TypeOK
  BY DEF TypeOK, Steps, NoApprover
<1>2. ReadsFit /\ RowsStand
  BY DEF ReadsFit, RowsStand, StandsOn
<1>3. DecisionsInOrder /\ EffectIsLastApproval /\ DecidedByTheApprover /\ EffectFollowsApproval
  BY DEF DecisionsInOrder, InOrder, EffectIsLastApproval, Was, DecidedByTheApprover,
         EffectFollowsApproval
<1>4. TurnIsKnown /\ FreshSnapshots
  BY DEF TurnIsKnown, KnowsTurn, FreshSnapshots
<1> QED
  BY <1>1, <1>2, <1>3, <1>4 DEF IInv

OpenTxs ==
  [op : Operations, request : Requests, row : Rows \union {NoRow}, steps : 0 .. MaxSteps]

LEMMA OpenTx ==
  ASSUME TypeOK, NEW c \in Clients, tx[c].op # "none" \/ tx[c] # NoTx
  PROVE  tx[c] \in OpenTxs /\ tx[c] # NoTx
BY DEF TypeOK, NoTx, OpenTxs, Operations

\* Whoever may decide a stage has been named for it.
LEMMA AttributedIsNamed ==
  ASSUME TypeOK, NEW approver, NEW user \in Users, NEW x \in Attributions(approver, user)
  PROVE  approver # NoApprover /\ x \in Users \union {Nobody}
BY RequestsAssumption DEF TypeOK, Attributions, ListDelegationsTo, NoApprover

\* The type, its route and the delegations change nothing that was decided.
LEMMA TypeStepIInv == ASSUME IInv, TypeStep PROVE IInv'
<1> USE DEF IInv
<1>1. UNCHANGED <<requestVars, tx>> /\ delegations \subseteq delegations'
  BY DEF TypeStep, CreateDelegation, UpdateType, ReplaceRoute
<1>2. TypeOK'
  <2>1. delegations' \subseteq Delegations /\ approvalSteps' \in Steps
        /\ route' \in [Steps -> Approvers \union {NoApprover}]
    BY RoutesAssumption DEF TypeStep, CreateDelegation, UpdateType, ReplaceRoute, TypeOK
  <2> QED
    BY <1>1, <2>1 DEF TypeOK, requestVars
<1>3. ReadsFit' /\ DecisionsInOrder' /\ RowsStand' /\ EffectIsLastApproval'
  BY <1>1 DEF requestVars, ReadsFit, DecisionsInOrder, RowsStand, EffectIsLastApproval
<1>4. TurnIsKnown' /\ FreshSnapshots' /\ EffectFollowsApproval'
  BY <1>1 DEF requestVars, TurnIsKnown, FreshSnapshots, EffectFollowsApproval
<1>5. DecidedByTheApprover'
  BY <1>1 DEF requestVars, DecidedByTheApprover, Attributions, ListDelegationsTo
<1> QED
  BY <1>2, <1>3, <1>4, <1>5

\* A transaction begins, reads the type, or is rolled back.
LEMMA ReadIInv ==
  ASSUME IInv, NEW c \in Clients,
         \/ \E op \in Operations, r \in Requests : FindRequest(c, op, r)
         \/ FindType(c) \/ Rollback(c)
  PROVE  IInv'
<1> USE DEF IInv
<1>1. UNCHANGED <<typeVars, requestVars>>
  BY DEF FindRequest, FindType, Rollback
<1>2. \E t \in OpenTxs \union {NoTx} :
        /\ tx' = [tx EXCEPT ![c] = t]
        /\ t # NoTx => Fits(approvals, request[t.request].total, t)
  <2>1. ASSUME NEW op \in Operations, NEW r \in Requests, FindRequest(c, op, r)
        PROVE  <1>2!:
    <3> DEFINE t == [op |-> op, request |-> r, row |-> request[r], steps |-> 0]
    <3>1. t \in OpenTxs
      BY RequestsAssumption DEF TypeOK, OpenTxs
    <3>2. op # "submit" => request[r] \in Rows
      <4>1. request[r] \in Rows \union {NoRow}
        BY DEF TypeOK
      <4>2. op # "submit" => request[r].state # "none"
        BY <2>1 DEF FindRequest, Accepts, Operations
      <4> QED
        BY <4>1, <4>2 DEF NoRow
    <3>3. StandsOn(approvals, request[r].total, r, request[r])
      BY DEF RowsStand
    <3>4. request[r].current <= request[r].total
      BY DEF TypeOK
    <3>5. Fits(approvals, request[t.request].total, t)
      BY <2>1, <3>2, <3>3, <3>4 DEF FindRequest, Fits
    <3> QED
      BY <2>1, <3>1, <3>5 DEF FindRequest
  <2>2. ASSUME FindType(c) PROVE <1>2!:
    <3> DEFINE t == [tx[c] EXCEPT !.steps = approvalSteps]
    <3>1. tx[c] \in OpenTxs /\ tx[c] # NoTx
      BY <2>2, OpenTx DEF FindType
    <3>2. /\ t \in OpenTxs
          /\ t.op = tx[c].op /\ t.request = tx[c].request /\ t.row = tx[c].row
      <4>1. approvalSteps \in 0 .. MaxSteps
        BY RequestsAssumption DEF TypeOK, Steps
      <4> QED
        BY <3>1, <4>1 DEF OpenTxs
    <3>3. tx' = [tx EXCEPT ![c] = t]
      BY <2>2 DEF FindType, TypeOK
    <3>4. Fits(approvals, request[t.request].total, t)
      BY <3>1, <3>2 DEF ReadsFit, Fits
    <3> QED
      BY <3>2, <3>3, <3>4
  <2>3. ASSUME Rollback(c) PROVE <1>2!:
    BY <2>3 DEF Rollback
  <2> QED
    BY <2>1, <2>2, <2>3
<1> PICK t \in OpenTxs \union {NoTx} :
        /\ tx' = [tx EXCEPT ![c] = t]
        /\ t # NoTx => Fits(approvals, request[t.request].total, t)
  BY <1>2
<1>3. \A d \in Clients : tx'[d] = IF d = c THEN t ELSE tx[d]
  BY DEF TypeOK
<1>4. TypeOK'
  BY <1>1 DEF TypeOK, OpenTxs, typeVars, requestVars
<1>5. ReadsFit'
  BY <1>1, <1>3 DEF ReadsFit, requestVars
<1>6. RowsStand'
  BY <1>1 DEF RowsStand, requestVars
<1>7. DecisionsInOrder' /\ EffectIsLastApproval' /\ TurnIsKnown' /\ FreshSnapshots'
      /\ EffectFollowsApproval'
  BY <1>1 DEF requestVars, DecisionsInOrder, EffectIsLastApproval, TurnIsKnown, FreshSnapshots,
              EffectFollowsApproval
<1>8. DecidedByTheApprover'
  BY <1>1 DEF requestVars, typeVars, DecidedByTheApprover, Attributions, ListDelegationsTo
<1> QED
  BY <1>4, <1>5, <1>6, <1>7, <1>8

\* What the other transactions have read still fits after a row was written.
LEMMA WriteKeepsReads ==
  ASSUME IInv, NEW c \in Clients, NEW r \in Requests, NEW row \in Rows,
         row.total = request[r].total \/ request[r] = NoRow,
         request' = [request EXCEPT ![r] = row], approvals \subseteq approvals',
         tx' = [tx EXCEPT ![c] = NoTx]
  PROVE  ReadsFit'
<1> USE DEF IInv
<1> SUFFICES ASSUME NEW d \in Clients, tx'[d] # NoTx
             PROVE  Fits(approvals', request'[tx'[d].request].total, tx'[d])
  BY DEF ReadsFit
<1> DEFINE t == tx[d]
           q == tx[d].request
<1>1. tx'[d] = t /\ t # NoTx /\ t \in OpenTxs
  BY OpenTx DEF TypeOK
<1>2. Fits(approvals, request[q].total, t)
  BY <1>1 DEF ReadsFit
<1>3. CASE q # r
  <2>1. request'[q] = request[q]
    BY <1>1, <1>3 DEF TypeOK, OpenTxs
  <2> QED
    BY <1>1, <1>2, <2>1, StandingStays DEF Fits
<1>4. CASE q = r
  <2>1. request'[q] = row
    BY <1>4 DEF TypeOK
  <2>2. CASE row.total = request[r].total
    BY <1>1, <1>2, <1>4, <2>1, <2>2, StandingStays DEF Fits
  <2>3. CASE request[r] = NoRow
    <3>1. t.op = "submit"
      BY <1>2, <1>4, <2>3, RequestsAssumption DEF Fits, Rows, NoRow, Steps
    <3>2. t.row.state = "none"
      BY <1>2, <3>1 DEF Fits, Accepts
    <3> QED
      BY <1>1, <1>2, <3>1, <3>2 DEF Fits, StandsOn
  <2> QED
    BY <2>2, <2>3
<1> QED
  BY <1>3, <1>4

\* The users who are told are users.
LEMMA AudienceIsUsers ==
  ASSUME NEW row, NEW r, NEW approver, NEW actor \in Users \union {Nobody},
         Tell(row, r, approver, actor)
  PROVE  \E told_users \in SUBSET Users :
           /\ told' = told \union {<<r, row.submissions, row.current, u>> : u \in told_users}
           /\ approver \in Users => approver \in told_users
           /\ approver \notin Users => told_users = Users
<1> DEFINE audience == IF StageApprovers(approver) = {} THEN ListApprovers
                       ELSE StageApprovers(approver)
           all == audience \union ({actor} \ {Nobody})
<1>1. all \in SUBSET Users
  BY DEF StageApprovers, ListApprovers
<1>2. told' = told \union {<<r, row.submissions, row.current, u>> : u \in all}
  BY DEF Tell, Enqueue
<1>3. approver \in Users => approver \in all
  BY DEF StageApprovers
<1>4. approver \notin Users => all = Users
  BY <1>1 DEF StageApprovers, ListApprovers
<1> QED
  BY <1>1, <1>2, <1>3, <1>4

\* submit: the row is new, so nothing was decided about the request and no stage has an
\* approver yet.
LEMMA SubmitIInv ==
  ASSUME IInv, NEW c \in Clients, NEW actor \in Proxies \union {Nobody}, Submit(c, actor)
  PROVE  IInv'
<1> USE DEF IInv
<1> DEFINE r   == tx[c].request
           n   == tx[c].steps
           row == [state |-> "submitted", total |-> n, current |-> 1, submissions |-> 1]
<1>1. tx[c] \in OpenTxs /\ tx[c] # NoTx
  BY OpenTx DEF Submit
<1>2. r \in Requests /\ n \in Steps /\ row \in Rows /\ 1 \in Submissions /\ 1 \in Steps
  BY <1>1, RequestsAssumption DEF Submit, OpenTxs, Steps, Submissions, Rows
<1>3. /\ request[r] = NoRow /\ request' = [request EXCEPT ![r] = row]
      /\ tx' = [tx EXCEPT ![c] = NoTx]
      /\ UNCHANGED <<typeVars, approvals, reflected, overtaken>>
      /\ SnapshotRequestSteps(r, 1, n) /\ Tell(row, r, route[1], actor)
  BY DEF Submit, InsertRequest
<1>4. PICK known \in SUBSET Users :
        /\ told' = told \union {<<r, 1, 1, u>> : u \in known}
        /\ route[1] \in Users => route[1] \in known
        /\ route[1] \notin Users => known = Users
  <2>1. actor \in Users \union {Nobody}
    BY RequestsAssumption
  <2> QED
    BY <1>3, <2>1, AudienceIsUsers
<1>5. /\ \A q \in Requests : q # r => request'[q] = request[q] /\ snapshot'[q] = snapshot[q]
      /\ request'[r] = row
      /\ \A s \in Steps : snapshot'[r][1][s] = IF s <= n THEN route[s] ELSE NoApprover
      /\ snapshot' \in [Requests -> [Submissions -> [Steps -> Approvers \union {NoApprover}]]]
  BY <1>2, <1>3 DEF TypeOK, SnapshotRequestSteps, FreshSnapshots
<1>6. \A a \in approvals : a.request # r
  <2> SUFFICES ASSUME NEW a \in approvals, a.request = r PROVE FALSE
    OBVIOUS
  <2>1. a.step \in Steps /\ a.step <= request[r].total
    BY <1>2 DEF DecisionsInOrder, InOrder, TypeOK, Approval
  <2> QED
    BY <1>3, <2>1, RequestsAssumption DEF NoRow, Steps
<1>7. TypeOK'
  <2>1. told' \subseteq Requests \X Submissions \X Steps \X Users
    BY <1>2, <1>4 DEF TypeOK
  <2>2. request' \in [Requests -> Rows \union {NoRow}]
        /\ \A q \in Requests : request'[q].current <= request'[q].total
    BY <1>2, <1>3, RequestsAssumption DEF TypeOK, Steps
  <2>3. tx' \in [Clients -> {NoTx} \union OpenTxs]
    BY <1>3 DEF TypeOK, OpenTxs
  <2> QED
    BY <1>3, <1>5, <2>1, <2>2, <2>3 DEF TypeOK, typeVars, OpenTxs
<1>8. ReadsFit'
  BY <1>2, <1>3, WriteKeepsReads
<1>9. DecisionsInOrder' /\ EffectIsLastApproval'
  <2>1. approvals' = approvals /\ reflected' = reflected
    BY <1>3
  <2>2. ASSUME NEW q \in Requests PROVE InOrder(approvals, request'[q].total, q)
    <3>1. CASE q = r
      BY <1>6, <3>1 DEF InOrder
    <3>2. CASE q # r
      BY <1>5, <3>2 DEF DecisionsInOrder
    <3> QED
      BY <3>1, <3>2
  <2>3. ASSUME NEW q \in Requests
        PROVE  q \in reflected
                 <=> \E k \in Submissions : Was(approvals, q, k, request'[q].total, "approved")
    <3>1. CASE q = r
      BY <1>2, <1>6, <3>1 DEF EffectIsLastApproval, Was
    <3>2. CASE q # r
      BY <1>5, <3>2 DEF EffectIsLastApproval
    <3> QED
      BY <3>1, <3>2
  <2> QED
    BY <2>1, <2>2, <2>3 DEF DecisionsInOrder, EffectIsLastApproval
<1>10. RowsStand'
  <2>1. StandsOn(approvals, n, r, row)
    BY DEF StandsOn, Reaches
  <2> QED
    BY <1>2, <1>3, <1>5, <2>1 DEF RowsStand
<1>11. TurnIsKnown'
  <2>1. snapshot'[r][1][1] = route[1]
    BY <1>2, <1>5, RequestsAssumption DEF Steps
  <2>2. /\ route[1] \in Users => <<r, 1, 1, route[1]>> \in told'
        /\ route[1] \in Policies => \A u \in Users : <<r, 1, 1, u>> \in told'
    BY <1>4, RequestsAssumption
  <2>3. KnowsTurn(told', snapshot'[r], r, row)
    BY <2>1, <2>2 DEF KnowsTurn
  <2>4. \A q \in Requests : q # r => KnowsTurn(told', snapshot'[q], q, request'[q])
    BY <1>4, <1>5, SMTT(20) DEF TurnIsKnown, KnowsTurn
  <2> QED
    BY <1>5, <2>3, <2>4 DEF TurnIsKnown
<1>12. FreshSnapshots'
  BY <1>5, SMTT(20) DEF FreshSnapshots, Rows, NoRow
<1>13. DecidedByTheApprover'
  <2>1. \A a \in approvals :
          snapshot'[a.request][a.submission][a.step] = snapshot[a.request][a.submission][a.step]
    BY <1>5, <1>6 DEF TypeOK, Approval
  <2> QED
    BY <1>3, <2>1 DEF DecidedByTheApprover, Attributions, ListDelegationsTo, typeVars
<1>14. EffectFollowsApproval'
  <2>1. r \notin reflected
    BY <1>2, <1>6 DEF EffectIsLastApproval, Was
  <2> QED
    BY <1>3, <1>5, <2>1 DEF EffectFollowsApproval
<1> QED
  BY <1>7, <1>8, <1>9, <1>10, <1>11, <1>12, <1>13, <1>14

\* resubmit: everybody is told of the new submission, and no approver of a stage is replaced.
LEMMA ResubmitIInv ==
  ASSUME IInv, NEW c \in Clients, NEW actor \in Proxies \union {Nobody}, Resubmit(c, actor)
  PROVE  IInv'
<1> USE DEF IInv
<1> DEFINE r   == tx[c].request
           old == tx[c].row
           row == ResubmitRow(old)
<1>1. tx[c] \in OpenTxs /\ tx[c] # NoTx
  BY OpenTx DEF Resubmit
<1>2. /\ r \in Requests /\ old \in Rows /\ old.state = "returned" /\ old.current <= old.total
      /\ old.total = request[r].total /\ old.submissions < MaxSubmissions
      /\ StandsOn(approvals, request[r].total, r, old)
  BY <1>1 DEF Resubmit, ReadsFit, Fits, Accepts, OpenTxs
<1>3. /\ row.state = "submitted" /\ row.total = old.total /\ row.current = 1
      /\ row.submissions = old.submissions + 1 /\ row \in Rows
  <2>1. 1 \in Steps /\ old.submissions + 1 \in Submissions /\ old.total \in Steps
    BY <1>2, RequestsAssumption DEF Rows, Steps, Submissions
  <2> QED
    BY <1>2, <2>1 DEF ResubmitRow, Rows
<1>4. /\ request' = [request EXCEPT ![r] = row] /\ tx' = [tx EXCEPT ![c] = NoTx]
      /\ UNCHANGED <<typeVars, approvals, reflected>>
      /\ overtaken' = IF request[r] = old THEN overtaken ELSE overtaken \union {r}
      /\ SnapshotRequestSteps(r, row.submissions, tx[c].steps) /\ Tell(row, r, Nobody, actor)
  BY DEF Resubmit, UpdateRequestState
<1>5. told' = told \union {<<r, row.submissions, 1, u>> : u \in Users}
  <2>1. actor \in Users \union {Nobody} /\ Nobody \notin Users
    BY RequestsAssumption
  <2>2. PICK known \in SUBSET Users :
          /\ told' = told \union {<<r, row.submissions, row.current, u>> : u \in known}
          /\ Nobody \notin Users => known = Users
    BY <1>4, <2>1, AudienceIsUsers
  <2> QED
    BY <1>3, <2>1, <2>2
<1>6. /\ \A q \in Requests : q # r => request'[q] = request[q] /\ snapshot'[q] = snapshot[q]
      /\ request'[r] = row
      /\ \A k \in Submissions, s \in Steps :
           snapshot[r][k][s] # NoApprover => snapshot'[r][k][s] = snapshot[r][k][s]
      /\ snapshot' \in [Requests -> [Submissions -> [Steps -> Approvers \union {NoApprover}]]]
  <2>1. row.submissions \in Submissions
    BY <1>3 DEF Rows
  <2>2. /\ request'[r] = row /\ \A q \in Requests : q # r => request'[q] = request[q]
    BY <1>2, <1>4 DEF TypeOK
  <2> DEFINE k == row.submissions
             stages == [s \in Steps |-> IF s <= tx[c].steps /\ snapshot[r][k][s] = NoApprover
                                        THEN route[s] ELSE snapshot[r][k][s]]
  <2>3. snapshot' = [snapshot EXCEPT ![r][k] = stages]
    BY <1>2, <1>4, <2>1 DEF TypeOK, SnapshotRequestSteps
  <2>4. stages \in [Steps -> Approvers \union {NoApprover}]
    BY <1>2, <2>1, SMTT(20) DEF TypeOK
  <2> QED
    BY <1>2, <2>1, <2>2, <2>3, <2>4 DEF TypeOK
<1>7. TypeOK'
  <2>1. told' \subseteq Requests \X Submissions \X Steps \X Users
    BY <1>2, <1>3, <1>5, RequestsAssumption DEF TypeOK, Rows, Steps
  <2>2. request' \in [Requests -> Rows \union {NoRow}]
        /\ \A q \in Requests : request'[q].current <= request'[q].total
    BY <1>2, <1>3, <1>4, RequestsAssumption DEF TypeOK, Steps, Rows
  <2>3. tx' \in [Clients -> {NoTx} \union OpenTxs] /\ overtaken' \subseteq Requests
    BY <1>2, <1>4 DEF TypeOK, OpenTxs
  <2> QED
    BY <1>4, <1>6, <2>1, <2>2, <2>3 DEF TypeOK, typeVars, OpenTxs
<1>8. ReadsFit'
  BY <1>2, <1>3, <1>4, WriteKeepsReads
<1>9. DecisionsInOrder' /\ EffectIsLastApproval'
  BY <1>2, <1>3, <1>4, <1>6 DEF DecisionsInOrder, EffectIsLastApproval
<1>10. RowsStand'
  <2>1. StandsOn(approvals, request[r].total, r, row)
    <3>1. Was(approvals, r, old.submissions, old.current, "returned")
      BY <1>2 DEF StandsOn
    <3>2. old.current \in 1 .. request[r].total
      BY <1>2, RequestsAssumption DEF Rows, Steps
    <3>3. old.submissions \in Nat
      BY <1>2 DEF Rows, Submissions
    <3> QED
      BY <1>3, <3>1, <3>2, <3>3 DEF StandsOn, Reaches
  <2> QED
    BY <1>2, <1>3, <1>4, <1>6, <2>1 DEF RowsStand
<1>11. TurnIsKnown'
  <2>1. KnowsTurn(told', snapshot'[r], r, row)
    BY <1>3, <1>5 DEF KnowsTurn
  <2>2. \A q \in Requests : q # r => KnowsTurn(told', snapshot'[q], q, request'[q])
    BY <1>5, <1>6 DEF TurnIsKnown, KnowsTurn
  <2> QED
    BY <1>6, <2>1, <2>2 DEF TurnIsKnown
<1>12. FreshSnapshots'
  BY <1>3, <1>6 DEF FreshSnapshots, NoRow
<1>13. DecidedByTheApprover'
  <2> SUFFICES ASSUME NEW a \in approvals
               PROVE  (a.onBehalfOf \in
                         Attributions(snapshot[a.request][a.submission][a.step], a.by))'
    BY <1>4 DEF DecidedByTheApprover
  <2>1. /\ a.request \in Requests /\ a.submission \in Submissions /\ a.step \in Steps
        /\ a.by \in Users
    BY DEF TypeOK, Approval
  <2>2. a.onBehalfOf \in Attributions(snapshot[a.request][a.submission][a.step], a.by)
    BY DEF DecidedByTheApprover
  <2>3. snapshot'[a.request][a.submission][a.step] = snapshot[a.request][a.submission][a.step]
    BY <1>6, <2>1, <2>2, AttributedIsNamed
  <2> QED
    BY <1>4, <2>2, <2>3 DEF Attributions, ListDelegationsTo, typeVars
<1>14. EffectFollowsApproval'
  BY <1>2, <1>3, <1>4, <1>6 DEF EffectFollowsApproval
<1> QED
  BY <1>7, <1>8, <1>9, <1>10, <1>11, <1>12, <1>13, <1>14

\* cancel: nobody's turn, and no decision.
LEMMA CancelIInv == ASSUME IInv, NEW c \in Clients, Cancel(c) PROVE IInv'
<1> USE DEF IInv
<1> DEFINE r   == tx[c].request
           old == tx[c].row
           row == CancelRow(old)
<1>1. tx[c] \in OpenTxs /\ tx[c] # NoTx
  BY OpenTx DEF Cancel
<1>2. /\ r \in Requests /\ old \in Rows /\ old.state \in {"submitted", "returned"}
      /\ old.current <= old.total /\ old.total = request[r].total
  BY <1>1 DEF Cancel, ReadsFit, Fits, Accepts, OpenTxs
<1>3. /\ row \in Rows /\ row.state = "cancelled" /\ row.total = old.total
      /\ row.current = old.current
  BY <1>2 DEF CancelRow, Rows
<1>4. /\ request' = [request EXCEPT ![r] = row] /\ tx' = [tx EXCEPT ![c] = NoTx]
      /\ UNCHANGED <<typeVars, snapshot, approvals, reflected, told>>
      /\ overtaken' = IF request[r] = old THEN overtaken ELSE overtaken \union {r}
  BY DEF Cancel, UpdateRequestState
<1>5. request'[r] = row /\ \A q \in Requests : q # r => request'[q] = request[q]
  BY <1>2, <1>4 DEF TypeOK
<1>6. TypeOK'
  <2>1. request' \in [Requests -> Rows \union {NoRow}]
        /\ \A q \in Requests : request'[q].current <= request'[q].total
    BY <1>2, <1>3, <1>4, <1>5 DEF TypeOK
  <2>2. tx' \in [Clients -> {NoTx} \union OpenTxs] /\ overtaken' \subseteq Requests
    BY <1>2, <1>4 DEF TypeOK, OpenTxs
  <2> QED
    BY <1>4, <2>1, <2>2 DEF TypeOK, typeVars, OpenTxs
<1>7. ReadsFit'
  BY <1>2, <1>3, <1>4, WriteKeepsReads
<1>8. DecisionsInOrder' /\ EffectIsLastApproval'
  <2>1. \A q \in Requests : request'[q].total = request[q].total
    BY <1>2, <1>3, <1>5
  <2>2. DecisionsInOrder'
    BY <1>4, <2>1 DEF DecisionsInOrder
  <2>3. EffectIsLastApproval'
    BY <1>4, <2>1 DEF EffectIsLastApproval
  <2> QED
    BY <2>2, <2>3
<1>9. RowsStand'
  BY <1>2, <1>3, <1>4, <1>5 DEF RowsStand, StandsOn
<1>10. TurnIsKnown'
  BY <1>3, <1>4, <1>5, SMTT(20) DEF TurnIsKnown, KnowsTurn
<1>11. FreshSnapshots'
  BY <1>3, <1>4, <1>5 DEF FreshSnapshots, NoRow
<1>12. DecidedByTheApprover'
  BY <1>4 DEF DecidedByTheApprover, Attributions, ListDelegationsTo, typeVars
<1>13. EffectFollowsApproval'
  BY <1>2, <1>3, <1>4, <1>5 DEF EffectFollowsApproval
<1> QED
  BY <1>6, <1>7, <1>8, <1>9, <1>10, <1>11, <1>12, <1>13

\* user decides the request of the transaction of c, whose row becomes row.
MakesDecision(c, user, decision, row) ==
  /\ tx[c].op = "decide" /\ row.total = tx[c].row.total
  /\ UpdateRequestState(c, row) /\ UNCHANGED <<typeVars, snapshot>>
  /\ \E x \in Attributions(ApproverOf(tx[c].request, tx[c].row.submissions, tx[c].row.current),
                          user) :
       AddApproval(tx[c].request, tx[c].row, decision, user, x)

\* The decision is the one that the decisions of the request have come to.
AddsDecision(c, decision, row) ==
  LET r   == tx[c].request
      old == tx[c].row
  IN
  /\ r \in Requests /\ old \in Rows /\ old.state = "submitted"
  /\ old.current <= old.total /\ old.total = request[r].total
  /\ ~\E a \in approvals :
       a.request = r /\ a.submission = old.submissions /\ a.step = old.current
  /\ Reaches(approvals, old.total, r, old.submissions, old.current)
  /\ \E new \in Approval :
       /\ new.request = r /\ new.submission = old.submissions /\ new.step = old.current
       /\ new.decision = decision /\ approvals' = approvals \union {new}
  /\ request'[r] = row /\ \A q \in Requests : q # r => request'[q] = request[q]
  /\ request' \in [Requests -> Rows \union {NoRow}]
  /\ approvals' \subseteq Approval
  /\ \A a, b \in approvals' :
       a.request = b.request /\ a.submission = b.submission /\ a.step = b.step => a = b
  /\ tx' \in [Clients -> {NoTx} \union OpenTxs]
  /\ overtaken' \subseteq Requests
  /\ r \notin overtaken' => request[r].state = "submitted" /\ r \notin overtaken
  /\ \A q \in Requests : q # r => (q \in overtaken' <=> q \in overtaken)
  /\ ReadsFit' /\ DecisionsInOrder' /\ FreshSnapshots' /\ DecidedByTheApprover'

\* What approve and return have in common: the decision is the one that the decisions have
\* come to, made by the approver of its stage.
LEMMA DecisionIsAdded ==
  ASSUME IInv, NEW c \in Clients, NEW user \in Users,
         NEW decision \in {"approved", "returned"}, NEW row \in Rows,
         MakesDecision(c, user, decision, row)
  PROVE  AddsDecision(c, decision, row)
<1> USE DEF IInv
<1> DEFINE r   == tx[c].request
           old == tx[c].row
           k   == old.submissions
           s   == old.current
<1> USE DEF MakesDecision
<1>1. tx[c] \in OpenTxs /\ tx[c] # NoTx
  BY OpenTx
<1>2. /\ r \in Requests /\ old \in Rows /\ old.state = "submitted" /\ s <= old.total
      /\ old.total = request[r].total
      /\ StandsOn(approvals, request[r].total, r, old)
  BY <1>1 DEF ReadsFit, Fits, Accepts, OpenTxs
<1>3. Reaches(approvals, old.total, r, k, s)
  BY <1>2 DEF StandsOn
<1>4. PICK x \in Attributions(snapshot[r][k][s], user) : AddApproval(r, old, decision, user, x)
  BY DEF ApproverOf
<1>5. PICK new \in Approval :
        /\ new.request = r /\ new.submission = k /\ new.step = s /\ new.decision = decision
        /\ new.by = user /\ new.onBehalfOf = x
        /\ approvals' = approvals \union {new}
        /\ ~\E a \in approvals : a.request = r /\ a.submission = k /\ a.step = s
  <2> DEFINE n == [request |-> r, submission |-> k, step |-> s, decision |-> decision,
                   by |-> user, onBehalfOf |-> x]
  <2>1. x \in Users \union {Nobody}
    BY <1>4, AttributedIsNamed
  <2>2. k \in Submissions /\ s \in Steps
    BY <1>2 DEF Rows
  <2>3. n \in Approval
    BY <1>2, <2>1, <2>2 DEF Approval
  <2> QED
    BY <1>4, <2>3 DEF AddApproval, Decided
<1>6. /\ request' = [request EXCEPT ![r] = row] /\ tx' = [tx EXCEPT ![c] = NoTx]
      /\ overtaken' = IF request[r] = old THEN overtaken ELSE overtaken \union {r}
  BY DEF UpdateRequestState
<1>7. /\ request'[r] = row /\ \A q \in Requests : q # r => request'[q] = request[q]
      /\ request' \in [Requests -> Rows \union {NoRow}]
  BY <1>2, <1>6 DEF TypeOK
<1>8. ReadsFit'
  BY <1>2, <1>5, <1>6, WriteKeepsReads
<1>9. DecisionsInOrder'
  <2>1. InOrder(approvals', old.total, r)
    <3>1. InOrder(approvals, old.total, r) /\ approvals \in SUBSET Approval /\ old.total \in Steps
      BY <1>2 DEF DecisionsInOrder, TypeOK, Rows
    <3> QED
      BY <1>2, <1>3, <1>5, <3>1, DecisionKeepsOrder
  <2>2. \A q \in Requests : q # r =>
          (InOrder(approvals, request[q].total, q) => InOrder(approvals', request[q].total, q))
    BY <1>5 DEF InOrder, Was
  <2> QED
    BY <1>7, <2>1, <2>2 DEF DecisionsInOrder
<1>10. FreshSnapshots'
  BY <1>7 DEF FreshSnapshots, Rows, NoRow
<1>11. DecidedByTheApprover'
  <2>1. \A a \in approvals :
          (a.onBehalfOf \in Attributions(snapshot[a.request][a.submission][a.step], a.by))'
    BY DEF DecidedByTheApprover, Attributions, ListDelegationsTo, typeVars
  <2>2. (new.onBehalfOf \in Attributions(snapshot[new.request][new.submission][new.step], new.by))'
    BY <1>4, <1>5 DEF Attributions, ListDelegationsTo, typeVars
  <2> QED
    BY <1>5, <2>1, <2>2 DEF DecidedByTheApprover
<1>12. \A a, b \in approvals' :
         a.request = b.request /\ a.submission = b.submission /\ a.step = b.step => a = b
  BY <1>5 DEF TypeOK
<1>13. /\ tx' \in [Clients -> {NoTx} \union OpenTxs] /\ overtaken' \subseteq Requests
       /\ approvals' \subseteq Approval
  BY <1>2, <1>5, <1>6 DEF TypeOK, OpenTxs
<1> QED
  BY <1>2, <1>3, <1>5, <1>6, <1>7, <1>8, <1>9, <1>10, <1>11, <1>12, <1>13 DEF AddsDecision

\* approve: the request goes to the next stage, or takes effect with the last.
LEMMA ApproveIInv ==
  ASSUME IInv, NEW c \in Clients, NEW user \in Users, Approve(c, user)
  PROVE  IInv'
<1> USE DEF IInv
<1> DEFINE r   == tx[c].request
           old == tx[c].row
           row == ApproveRow(old)
           n   == old.total
           k   == old.submissions
<1>1. tx[c].op = "decide" /\ UpdateRequestState(c, row) /\ UNCHANGED <<typeVars, snapshot>>
  BY DEF Approve
<1>2. old \in Rows /\ old.current <= n /\ old.state = "submitted"
  BY <1>1, OpenTx DEF ReadsFit, Fits, Accepts
<1>3. /\ row \in Rows /\ row.total = n /\ row.submissions = k /\ row.current <= row.total
      /\ old.current = n => row.state = "approved" /\ row.current = n
      /\ old.current # n => row.state = "submitted" /\ row.current = old.current + 1
  <2>1. old.current + 1 > n <=> old.current = n
    BY <1>2, RequestsAssumption DEF Rows, Steps
  <2>2. old.current # n => old.current + 1 \in Steps /\ old.current + 1 <= n
    BY <1>2, RequestsAssumption DEF Rows, Steps
  <2>3. CASE old.current = n
    BY <1>2, <2>1, <2>3 DEF ApproveRow, Rows
  <2>4. CASE old.current # n
    <3>1. row = [old EXCEPT !.current = @ + 1]
      BY <2>1, <2>4 DEF ApproveRow
    <3> HIDE DEF row
    <3> QED
      BY <1>2, <2>2, <2>4, <3>1 DEF Rows
  <2> QED
    BY <2>3, <2>4
<1>4. /\ r \in Requests /\ n = request[r].total
      /\ request'[r] = row /\ \A q \in Requests : q # r => request'[q] = request[q]
      /\ request' \in [Requests -> Rows \union {NoRow}]
      /\ approvals' \subseteq Approval
      /\ \A a, b \in approvals' :
           a.request = b.request /\ a.submission = b.submission /\ a.step = b.step => a = b
      /\ tx' \in [Clients -> {NoTx} \union OpenTxs]
      /\ overtaken' \subseteq Requests
      /\ r \notin overtaken' => request[r].state = "submitted" /\ r \notin overtaken
      /\ \A q \in Requests : q # r => (q \in overtaken' <=> q \in overtaken)
      /\ ReadsFit' /\ DecisionsInOrder' /\ FreshSnapshots' /\ DecidedByTheApprover'
      /\ \E new \in Approval :
           /\ new.request = r /\ new.submission = k /\ new.step = old.current
           /\ new.decision = "approved" /\ approvals' = approvals \union {new}
  <2>1. MakesDecision(c, user, "approved", row)
    BY <1>1, <1>3 DEF Approve, MakesDecision
  <2>2. AddsDecision(c, "approved", row)
    BY <1>3, <2>1, DecisionIsAdded
  <2> QED
    BY <2>2 DEF AddsDecision
<1>5. PICK new \in Approval :
        /\ new.request = r /\ new.submission = k /\ new.step = old.current
        /\ new.decision = "approved" /\ approvals' = approvals \union {new}
  BY <1>4
<1>6. /\ old.current = n => reflected' = reflected \union {r} /\ told' = told
      /\ old.current # n => /\ reflected' = reflected
                            /\ Tell(row, r, snapshot[r][k][row.current], user)
  BY <1>3 DEF Approve
<1>7. told \subseteq told' /\ told' \subseteq Requests \X Submissions \X Steps \X Users
      /\ KnowsTurn(told', snapshot[r], r, row)
  <2>1. CASE old.current = n
    BY <1>3, <1>6, <2>1 DEF KnowsTurn, TypeOK
  <2>2. CASE old.current # n
    <3> DEFINE approver == snapshot[r][k][row.current]
    <3>1. PICK known \in SUBSET Users :
            /\ told' = told \union {<<r, row.submissions, row.current, u>> : u \in known}
            /\ approver \in Users => approver \in known
            /\ approver \notin Users => known = Users
      <4>1. Tell(row, r, approver, user) /\ user \in Users \union {Nobody}
        BY <1>6, <2>2
      <4> HIDE DEF row, approver
      <4> QED
        BY <4>1, AudienceIsUsers
    <3>2. row.submissions \in Submissions /\ row.current \in Steps
      BY <1>3 DEF Rows
    <3>3. told' \subseteq Requests \X Submissions \X Steps \X Users
      BY <1>4, <3>1, <3>2 DEF TypeOK
    <3>4. approver \in Policies => approver \notin Users
      BY RequestsAssumption
    <3> QED
      BY <1>3, <3>1, <3>3, <3>4 DEF KnowsTurn
  <2> QED
    BY <2>1, <2>2
<1>8. TypeOK'
  <2>1. \A q \in Requests : request'[q].current <= request'[q].total
    BY <1>3, <1>4 DEF TypeOK
  <2>2. reflected' \subseteq Requests
    BY <1>4, <1>6 DEF TypeOK
  <2> QED
    BY <1>1, <1>4, <1>7, <2>1, <2>2 DEF TypeOK, typeVars, OpenTxs
<1>9. RowsStand'
  <2>1. StandsOn(approvals', n, r, row)
    BY <1>2, <1>3, <1>5 DEF StandsOn, Reaches, Was, Rows, Steps
  <2>2. \A q \in Requests : q # r => StandsOn(approvals', request[q].total, q, request[q])
    BY <1>5, StandingStays DEF RowsStand
  <2> QED
    BY <1>3, <1>4, <2>1, <2>2, ZenonT(30) DEF RowsStand
<1>10. EffectIsLastApproval'
  <2>1. \A q \in Requests : q # r =>
          (q \in reflected' <=>
             \E j \in Submissions : Was(approvals', q, j, request[q].total, "approved"))
    BY <1>5, <1>6 DEF EffectIsLastApproval, Was
  <2>2. r \in reflected' <=> \E j \in Submissions : Was(approvals', r, j, n, "approved")
    <3>1. CASE old.current = n
      <4>1. Was(approvals', r, k, n, "approved") /\ k \in Submissions
        BY <1>2, <1>5, <3>1 DEF Was, Rows
      <4> QED
        BY <1>6, <3>1, <4>1
    <3>2. CASE old.current # n
      <4>1. \A j : Was(approvals', r, j, n, "approved") <=> Was(approvals, r, j, n, "approved")
        BY <1>5, <3>2 DEF Was
      <4> QED
        BY <1>4, <1>6, <3>2, <4>1 DEF EffectIsLastApproval
    <3> QED
      BY <3>1, <3>2
  <2> QED
    BY <1>3, <1>4, <2>1, <2>2, ZenonT(30) DEF EffectIsLastApproval
<1>11. TurnIsKnown'
  <2>1. \A q \in Requests : q # r => KnowsTurn(told', snapshot'[q], q, request'[q])
    BY <1>1, <1>4, <1>7 DEF TurnIsKnown, KnowsTurn
  <2> QED
    BY <1>1, <1>4, <1>7, <2>1 DEF TurnIsKnown
<1>12. EffectFollowsApproval'
  <2>1. \A q \in Requests : q # r => (q \in reflected' <=> q \in reflected)
    BY <1>6
  <2>2. r \notin overtaken' => (r \in reflected' <=> row.state = "approved")
    BY <1>3, <1>4, <1>6 DEF EffectFollowsApproval
  <2> QED
    BY <1>4, <2>1, <2>2 DEF EffectFollowsApproval
<1> QED
  BY <1>4, <1>8, <1>9, <1>10, <1>11, <1>12

\* return: the submission ends with a decision of its own.
LEMMA ReturnIInv ==
  ASSUME IInv, NEW c \in Clients, NEW user \in Users, Return(c, user)
  PROVE  IInv'
<1> USE DEF IInv
<1> DEFINE r   == tx[c].request
           old == tx[c].row
           row == ReturnRow(old)
           n   == old.total
<1>1. /\ tx[c].op = "decide" /\ UpdateRequestState(c, row) /\ UNCHANGED <<typeVars, snapshot>>
      /\ UNCHANGED <<reflected, told>>
  BY DEF Return
<1>2. old \in Rows /\ old.current <= n
  BY <1>1, OpenTx DEF ReadsFit, Fits
<1>3. /\ row \in Rows /\ row.total = n /\ row.submissions = old.submissions
      /\ row.current = old.current /\ row.state = "returned"
  BY <1>2 DEF ReturnRow, Rows
<1>4. /\ r \in Requests /\ n = request[r].total
      /\ request'[r] = row /\ \A q \in Requests : q # r => request'[q] = request[q]
      /\ request' \in [Requests -> Rows \union {NoRow}]
      /\ approvals' \subseteq Approval
      /\ \A a, b \in approvals' :
           a.request = b.request /\ a.submission = b.submission /\ a.step = b.step => a = b
      /\ tx' \in [Clients -> {NoTx} \union OpenTxs]
      /\ overtaken' \subseteq Requests
      /\ r \notin overtaken' => request[r].state = "submitted" /\ r \notin overtaken
      /\ \A q \in Requests : q # r => (q \in overtaken' <=> q \in overtaken)
      /\ ReadsFit' /\ DecisionsInOrder' /\ FreshSnapshots' /\ DecidedByTheApprover'
      /\ \E new \in Approval :
           /\ new.request = r /\ new.submission = old.submissions /\ new.step = old.current
           /\ new.decision = "returned" /\ approvals' = approvals \union {new}
  <2>1. MakesDecision(c, user, "returned", row)
    BY <1>1, <1>3 DEF Return, MakesDecision
  <2>2. AddsDecision(c, "returned", row)
    BY <1>3, <2>1, DecisionIsAdded
  <2> QED
    BY <2>2 DEF AddsDecision
<1>5. PICK new \in Approval :
        /\ new.request = r /\ new.submission = old.submissions /\ new.step = old.current
        /\ new.decision = "returned" /\ approvals' = approvals \union {new}
  BY <1>4
<1>6. TypeOK'
  <2>1. \A q \in Requests : request'[q].current <= request'[q].total
    BY <1>2, <1>3, <1>4 DEF TypeOK
  <2> QED
    BY <1>1, <1>4, <2>1 DEF TypeOK, typeVars, OpenTxs
<1>7. RowsStand'
  <2>1. StandsOn(approvals', n, r, row)
    BY <1>3, <1>5 DEF StandsOn, Was
  <2>2. \A q \in Requests : q # r => StandsOn(approvals', request[q].total, q, request[q])
    BY <1>5, StandingStays DEF RowsStand
  <2> QED
    BY <1>3, <1>4, <2>1, <2>2, ZenonT(30) DEF RowsStand
<1>8. EffectIsLastApproval'
  <2>1. \A q, j, m : Was(approvals', q, j, m, "approved") <=> Was(approvals, q, j, m, "approved")
    BY <1>5 DEF Was
  <2> QED
    BY <1>1, <1>3, <1>4, <2>1, ZenonT(30) DEF EffectIsLastApproval
<1>9. TurnIsKnown'
  BY <1>1, <1>3, <1>4 DEF TurnIsKnown, KnowsTurn
<1>10. EffectFollowsApproval'
  BY <1>1, <1>3, <1>4 DEF EffectFollowsApproval
<1> QED
  BY <1>4, <1>6, <1>7, <1>8, <1>9, <1>10

LEMMA StepIInv == ASSUME IInv, [Next]_vars PROVE IInv'
<1>1. CASE TypeStep
  BY <1>1, TypeStepIInv
<1>2. ASSUME NEW c \in Clients, ClientStep(c) PROVE IInv'
  <2>1. CASE (\E op \in Operations, r \in Requests : FindRequest(c, op, r)) \/ FindType(c)
             \/ Rollback(c)
    BY <2>1, ReadIInv
  <2>2. ASSUME NEW actor \in Proxies \union {Nobody}, Submit(c, actor) \/ Resubmit(c, actor)
        PROVE  IInv'
    BY <2>2, SubmitIInv, ResubmitIInv
  <2>3. CASE Cancel(c)
    BY <2>3, CancelIInv
  <2>4. ASSUME NEW user \in Users, Approve(c, user) \/ Return(c, user) PROVE IInv'
    BY <2>4, ApproveIInv, ReturnIInv
  <2> QED
    BY <1>2, <2>1, <2>2, <2>3, <2>4 DEF ClientStep
<1>3. CASE UNCHANGED vars
  <2> USE <1>3 DEF IInv, vars, typeVars, requestVars
  <2>1. TypeOK' /\ ReadsFit' /\ RowsStand' /\ DecisionsInOrder'
    BY DEF TypeOK, ReadsFit, RowsStand, DecisionsInOrder
  <2>2. EffectIsLastApproval' /\ TurnIsKnown' /\ FreshSnapshots' /\ EffectFollowsApproval'
    BY DEF EffectIsLastApproval, TurnIsKnown, FreshSnapshots, EffectFollowsApproval
  <2>3. DecidedByTheApprover'
    BY DEF DecidedByTheApprover, Attributions, ListDelegationsTo
  <2> QED
    BY <2>1, <2>2, <2>3
<1> QED
  BY <1>1, <1>2, <1>3 DEF Next

-----------------------------------------------------------------------------
(***************************************************************************)
(* Theorems.                                                               *)
(***************************************************************************)
\* The inductive invariant holds in every state.
THEOREM Invariance == Spec => []IInv
<1>1. Init => IInv
  BY InitIInv
<1>2. IInv /\ [Next]_vars => IInv'
  BY StepIInv
<1> QED
  BY <1>1, <1>2, PTL DEF Spec

\* Rows, decisions and transactions stay what the tables can hold; in particular a stage of a
\* submission has one decision and the current stage is one of the request's.
THEOREM RequestsTypeCorrect == Spec => []TypeOK
<1>1. IInv => TypeOK
  BY DEF IInv
<1> QED
  BY <1>1, Invariance, PTL

\* Each decision is that of the stage's approver, or of a delegate for that approver.
THEOREM ApproversDecide == Spec => []DecidedByTheApprover
<1>1. IInv => DecidedByTheApprover
  BY DEF IInv
<1> QED
  BY <1>1, Invariance, PTL

\* A request takes effect exactly when it is approved, but for rows that were written over.
THEOREM ApprovalTakesEffect == Spec => []EffectFollowsApproval
<1>1. IInv => EffectFollowsApproval
  BY DEF IInv
<1> QED
  BY <1>1, Invariance, PTL

\* Whoever has to decide a request knows it: a delegate because the approver does.
THEOREM ApproversAreTold == Spec => []TurnIsAnnounced
<1>1. IInv => TurnIsAnnounced
  <2> SUFFICES ASSUME IInv, NEW u \in Users, NEW r \in AwaitingMe(u)
               PROVE  LET k == request[r].submissions
                          s == request[r].current
                      IN \E x \in Attributions(ApproverOf(r, k, s), u) :
                           <<r, k, s, IF x = Nobody THEN u ELSE x>> \in told
    BY DEF TurnIsAnnounced
  <2> DEFINE k == request[r].submissions
             s == request[r].current
             approver == snapshot[r][k][s]
  <2>1. /\ r \in Requests /\ request[r].state = "submitted" /\ Attributions(approver, u) # {}
        /\ approver \in Users => <<r, k, s, approver>> \in told
        /\ approver \in Policies => \A v \in Users : <<r, k, s, v>> \in told
    BY DEF AwaitingMe, ApproverOf, IInv, TurnIsKnown, KnowsTurn
  <2>2. PICK x \in Attributions(approver, u) : TRUE
    BY <2>1
  <2>3. CASE approver \in Policies
    BY <2>1, <2>2, <2>3 DEF Attributions, ApproverOf
  <2>4. CASE approver = u /\ approver \notin Policies
    BY <2>1, <2>2, <2>4 DEF Attributions, ApproverOf
  <2>5. CASE approver # u /\ approver \notin Policies
    <3>1. x = approver /\ approver \in Users
      BY <2>2, <2>5, RequestsAssumption DEF Attributions, ListDelegationsTo, IInv, TypeOK
    <3> QED
      BY <2>1, <2>2, <3>1, RequestsAssumption DEF ApproverOf
  <2> QED
    BY <2>3, <2>4, <2>5
<1> QED
  BY <1>1, Invariance, PTL

-----------------------------------------------------------------------------
(***************************************************************************)
(* Refinement: every decision is the next link of the chain, whatever the  *)
(* row has become since the transaction read it.                           *)
(***************************************************************************)
Totals == [r \in Requests |-> request[r].total]
Links == {<<a.request, a.submission, a.step, a.decision>> : a \in approvals}

LEMMA LinkWas ==
  ASSUME NEW r, NEW k, NEW s, NEW d
  PROVE  <<r, k, s, d>> \in Links <=> Was(approvals, r, k, s, d)
BY DEF Links, Was

LEMMA InitRefines == Init => Chain!Init
BY DEF Init, NoRow, Chain!Init

\* A decision that is added, with the effect it has, is a step of the chain.
LEMMA DecisionRefines ==
  ASSUME IInv, NEW c \in Clients, NEW user \in Users,
         NEW decision \in {"approved", "returned"}, NEW row \in Rows,
         MakesDecision(c, user, decision, row),
         reflected' = IF decision = "approved" /\ tx[c].row.current = tx[c].row.total
                      THEN reflected \union {tx[c].request} ELSE reflected
  PROVE  Chain!Next
<1> DEFINE r == tx[c].request
           k == tx[c].row.submissions
           s == tx[c].row.current
           n == tx[c].row.total
<1>1. /\ r \in Requests /\ tx[c].row \in Rows /\ s <= n /\ n = request[r].total
      /\ ~\E a \in approvals : a.request = r /\ a.submission = k /\ a.step = s
      /\ Reaches(approvals, n, r, k, s)
      /\ \E new \in Approval :
           /\ new.request = r /\ new.submission = k /\ new.step = s
           /\ new.decision = decision /\ approvals' = approvals \union {new}
      /\ request'[r] = row /\ \A q \in Requests : q # r => request'[q] = request[q]
      /\ row.total = n
  <2>1. AddsDecision(c, decision, row)
    BY DecisionIsAdded
  <2> QED
    BY <2>1 DEF AddsDecision, MakesDecision
<1>2. k \in Submissions /\ n \in Steps /\ s \in 1 .. n
  BY <1>1, RequestsAssumption DEF Rows, Steps
<1>3. r \notin reflected
  <2> SUFFICES ASSUME r \in reflected PROVE FALSE
    OBVIOUS
  <2>1. PICK last \in Submissions : Was(approvals, r, last, n, "approved")
    BY <1>1 DEF IInv, EffectIsLastApproval
  <2>2. InOrder(approvals, n, r) /\ approvals \in SUBSET Approval
    BY <1>1 DEF IInv, DecisionsInOrder, TypeOK
  <2> HIDE DEF r, k, s, n
  <2> QED
    BY <1>1, <1>2, <2>1, <2>2, NothingAfterTheLast
<1>4. Totals[r] = n /\ Totals' = Totals
  BY <1>1 DEF Totals
<1>5. Links' = Links \union {<<r, k, s, decision>>}
  BY <1>1 DEF Links
<1>6. IF s > 1 THEN <<r, k, s - 1, "approved">> \in Links
      ELSE k > 1 => \E i \in 1 .. n : <<r, k - 1, i, "returned">> \in Links
  BY <1>1, LinkWas DEF Reaches
<1>7. \A d \in {"approved", "returned"} : <<r, k, s, d>> \notin Links
  BY <1>1, LinkWas DEF Was
<1>8. Chain!Decide(r, k, s, decision)
  BY <1>3, <1>4, <1>5, <1>6, <1>7 DEF Chain!Decide, Chain!Opens, Totals, Links
<1> QED
  BY <1>1, <1>2, <1>4, <1>8 DEF Chain!Next, Totals, Submissions

LEMMA WriteRefines ==
  ASSUME IInv, NEW c \in Clients, ClientStep(c)
  PROVE  Chain!Next \/ UNCHANGED Chain!chainVars
<1>1. CASE \/ \E op \in Operations, r \in Requests : FindRequest(c, op, r)
           \/ FindType(c) \/ Rollback(c)
  BY <1>1 DEF FindRequest, FindType, Rollback, requestVars, Chain!chainVars
<1>2. ASSUME NEW actor \in Proxies \union {Nobody}, Submit(c, actor) PROVE Chain!Next
  <2>1. PICK q \in Requests, m \in 1 .. MaxSteps : q = tx[c].request /\ m = tx[c].steps
    BY <1>2, OpenTx, RequestsAssumption DEF Submit, IInv, OpenTxs, Steps
  <2>2. /\ request[q].total = 0 /\ request'[q].total = m
        /\ \A r \in Requests : r # q => request'[r] = request[r]
        /\ UNCHANGED <<approvals, reflected>>
    BY <1>2, <2>1 DEF Submit, InsertRequest, NoRow, IInv, TypeOK
  <2>3. Totals' = [Totals EXCEPT ![q] = m] /\ Totals[q] = 0 /\ Links' = Links
    BY <2>1, <2>2 DEF Totals, Links
  <2>4. Chain!Submit(q, m)
    BY <2>2, <2>3 DEF Chain!Submit, Totals, Links
  <2>5. \E n \in 1 .. MaxSteps : Chain!Submit(q, n)
    BY <2>4
  <2> QED
    BY <2>5 DEF Chain!Next
<1>3. ASSUME NEW row, row.total = tx[c].row.total, tx[c].op \in {"resubmit", "cancel"},
             UpdateRequestState(c, row), UNCHANGED <<approvals, reflected>>
      PROVE  UNCHANGED Chain!chainVars
  <2> DEFINE r == tx[c].request
  <2>1. r \in Requests /\ row.total = request[r].total
    BY <1>3, OpenTx DEF IInv, OpenTxs, ReadsFit, Fits
  <2>2. Totals' = Totals
    BY <1>3, <2>1 DEF UpdateRequestState, Totals, IInv, TypeOK
  <2> QED
    BY <1>3, <2>2 DEF Chain!chainVars, Totals
<1>4. ASSUME NEW actor \in Proxies \union {Nobody}, Resubmit(c, actor)
      PROVE  UNCHANGED Chain!chainVars
  <2>1. tx[c].row \in Rows
    BY <1>4, OpenTx DEF Resubmit, IInv, ReadsFit, Fits
  <2>2. ResubmitRow(tx[c].row).total = tx[c].row.total
    BY <2>1 DEF ResubmitRow, Rows
  <2> QED
    BY <1>3, <1>4, <2>2 DEF Resubmit
<1>5. CASE Cancel(c)
  <2>1. tx[c].row \in Rows
    BY <1>5, OpenTx DEF Cancel, IInv, ReadsFit, Fits
  <2>2. CancelRow(tx[c].row).total = tx[c].row.total
    BY <2>1 DEF CancelRow, Rows
  <2> QED
    BY <1>3, <1>5, <2>2 DEF Cancel
<1>6. ASSUME NEW user \in Users, Approve(c, user) PROVE Chain!Next
  <2> DEFINE old == tx[c].row
             row == ApproveRow(old)
  <2>1. old \in Rows /\ old.state = "submitted" /\ old.current <= old.total
    BY <1>6, OpenTx DEF Approve, IInv, ReadsFit, Fits, Accepts
  <2>2. old.current + 1 > old.total <=> old.current = old.total
    BY <2>1, RequestsAssumption DEF Rows, Steps
  <2>3. old.current # old.total => old.current + 1 \in Steps
    BY <2>1, RequestsAssumption DEF Rows, Steps
  <2>4. /\ row \in Rows /\ row.total = old.total
        /\ row.state = "approved" <=> old.current = old.total
    <3>1. CASE old.current = old.total
      BY <2>1, <2>2, <3>1 DEF ApproveRow, Rows
    <3>2. CASE old.current # old.total
      <4>1. row = [old EXCEPT !.current = @ + 1]
        BY <2>2, <3>2 DEF ApproveRow
      <4> HIDE DEF row
      <4> QED
        BY <2>1, <2>3, <3>2, <4>1 DEF Rows
    <3> QED
      BY <3>1, <3>2
  <2>5. reflected' = IF "approved" = "approved" /\ old.current = old.total
                     THEN reflected \union {tx[c].request} ELSE reflected
    BY <1>6, <2>4 DEF Approve
  <2>6. MakesDecision(c, user, "approved", row)
    BY <1>6, <2>4 DEF Approve, MakesDecision
  <2> HIDE DEF row
  <2> QED
    BY <2>4, <2>5, <2>6, DecisionRefines
<1>7. ASSUME NEW user \in Users, Return(c, user) PROVE Chain!Next
  <2> DEFINE old == tx[c].row
             row == ReturnRow(old)
  <2>1. old \in Rows
    BY <1>7, OpenTx DEF Return, IInv, ReadsFit, Fits
  <2>2. row \in Rows /\ row.total = old.total
    BY <2>1 DEF ReturnRow, Rows
  <2>3. MakesDecision(c, user, "returned", row)
    BY <1>7, <2>2 DEF Return, MakesDecision
  <2>4. reflected' = IF "returned" = "approved" /\ old.current = old.total
                     THEN reflected \union {tx[c].request} ELSE reflected
    BY <1>7 DEF Return
  <2> HIDE DEF row
  <2> QED
    BY <2>2, <2>3, <2>4, DecisionRefines
<1> QED
  BY <1>1, <1>2, <1>4, <1>5, <1>6, <1>7 DEF ClientStep

\* Whatever runs at the same time, the decisions of a request are a chain.
THEOREM RequestsKeepTheChain == Spec => ImplementsChain
<1>1. Init => Chain!Init
  BY InitRefines
<1>2. IInv /\ [Next]_vars => [Chain!Next]_Chain!chainVars
  <2> SUFFICES ASSUME IInv, [Next]_vars PROVE Chain!Next \/ UNCHANGED Chain!chainVars
    OBVIOUS
  <2>1. CASE TypeStep
    BY <2>1 DEF TypeStep, CreateDelegation, UpdateType, ReplaceRoute, requestVars, Chain!chainVars
  <2>2. CASE \E c \in Clients : ClientStep(c)
    BY <2>2, WriteRefines
  <2>3. CASE UNCHANGED vars
    BY <2>3 DEF vars, requestVars, Chain!chainVars
  <2> QED
    BY <2>1, <2>2, <2>3 DEF Next
<1> QED
  BY <1>1, <1>2, Invariance, PTL DEF Spec, ImplementsChain, Chain!Spec

-----------------------------------------------------------------------------
(***************************************************************************)
(* The leave ledger.                                                       *)
(*                                                                         *)
(* What LeaveBalance defines by recursion is reasoned about as a function  *)
(* that a CHOOSE picks: one with those steps exists, by induction over the *)
(* numbers up to which there is one, so the one that is picked has them.   *)
(***************************************************************************)

\* From 0 in steps of one to every number up to N.
LEMMA Climb ==
  ASSUME NEW N \in Nat, NEW S, 0 \in S, \A n \in Nat : n < N /\ n \in S => n + 1 \in S
  PROVE  \A n \in 0 .. N : n \in S
<1> DEFINE T == {n \in 0 .. N : n \notin S}
<1> SUFFICES ASSUME T # {} PROVE FALSE
  OBVIOUS
<1>1. T \subseteq Nat
  OBVIOUS
<1>2. PICK x \in T : \A y \in T : ~(<<y, x>> \in OpToRel(<, Nat))
  BY <1>1, NatLessThanWellFounded, WFMin
<1>3. \A y \in T : x <= y
  <2>1. \A y \in T : <<y, x>> \in Nat \X Nat /\ <<y, x>>[1] = y /\ <<y, x>>[2] = x
    BY <1>1
  <2>2. \A y \in T : ~(y < x)
    BY <1>2, <2>1 DEF OpToRel
  <2> QED
    BY <1>1, <2>2
<1>4. x \in Nat /\ x <= N /\ x # 0 /\ x \notin S
  OBVIOUS
<1>5. x - 1 \in Nat /\ x - 1 < N /\ x - 1 \notin T
  BY <1>3, <1>4
<1>6. x - 1 \in S
  BY <1>4, <1>5
<1> QED
  BY <1>4, <1>5, <1>6

\* There is a function that is first at 0 and follows step from each number to the next.
HasSteps(N, X, first, step) ==
  \E f \in [0 .. N -> X] : f[0] = first /\ \A n \in 1 .. N : f[n] = step[n][f[n - 1]]

\* What is given at 0 and from each number to the next is a function.
LEMMA StepsExist ==
  ASSUME NEW N \in Nat, NEW X, NEW first \in X, NEW step \in [1 .. N -> [X -> X]]
  PROVE  HasSteps(N, X, first, step)
<1> DEFINE FitsAt(f, k) == /\ f \in [0 .. k -> X] /\ f[0] = first
                         /\ \A n \in 1 .. k : f[n] = step[n][f[n - 1]]
           S == {k \in 0 .. N : \E f \in [0 .. k -> X] : FitsAt(f, k)}
<1>1. 0 \in S
  <2> DEFINE h == [n \in 0 .. 0 |-> first]
  <2>1. h \in [0 .. 0 -> X] /\ h[0] = first /\ 1 .. 0 = {}
    OBVIOUS
  <2> HIDE DEF h
  <2>2. FitsAt(h, 0)
    BY <2>1
  <2>3. \E f \in [0 .. 0 -> X] : FitsAt(f, 0)
    BY <2>1, <2>2
  <2> QED
    BY <2>3
<1>2. ASSUME NEW k \in Nat, k < N, k \in S PROVE k + 1 \in S
  <2> PICK f \in [0 .. k -> X] : FitsAt(f, k)
    BY <1>2
  <2> DEFINE g == [n \in 0 .. k + 1 |-> IF n = k + 1 THEN step[k + 1][f[k]] ELSE f[n]]
  <2>1. k + 1 \in 1 .. N /\ step[k + 1] \in [X -> X] /\ f[k] \in X
    BY <1>2
  <2>2. step[k + 1][f[k]] \in X
    BY <2>1
  <2>3. g \in [0 .. k + 1 -> X] /\ g[0] = first
    <3>1. \A n \in 0 .. k + 1 : n # k + 1 => n \in 0 .. k
      BY <1>2
    <3>2. \A n \in 0 .. k + 1 : (IF n = k + 1 THEN step[k + 1][f[k]] ELSE f[n]) \in X
      BY <2>2, <3>1
    <3> QED
      BY <1>2, <3>2
  <2>4. ASSUME NEW n \in 1 .. k + 1 PROVE g[n] = step[n][g[n - 1]]
    <3>1. CASE n = k + 1
      BY <1>2, <3>1
    <3>2. CASE n # k + 1
      <4>1. n \in 1 .. k /\ g[n] = f[n] /\ g[n - 1] = f[n - 1]
        BY <1>2, <3>2
      <4> QED
        BY <4>1
    <3> QED
      BY <3>1, <3>2
  <2> QED
    BY <1>2, <2>3, <2>4
<1>3. N \in S
  <2> PICK T : T = S
    OBVIOUS
  <2> HIDE DEF S
  <2>1. 0 \in T /\ \A k \in Nat : k < N /\ k \in T => k + 1 \in T
    BY <1>1, <1>2
  <2>2. \A n \in 0 .. N : n \in T
    BY <2>1, Climb
  <2> QED
    BY <2>2
<1> QED
  BY <1>3 DEF HasSteps

-----------------------------------------------------------------------------
(***************************************************************************)
(* Buckets: what the sums over them are, what an entry and a lapse do to   *)
(* them, and the balance as a walk over the entries.                       *)
(***************************************************************************)

Buckets == [left : [Expiries -> Nat], owed : Nat, lapsed : Nat]

\* What the buckets hold that expire on each day or before.
Sums(left) == CHOOSE s : s = [n \in 0 .. Never |-> IF n = 0 THEN 0 ELSE s[n - 1] + left[n]]

LEMMA DaysAreInt == Never \in Nat /\ Never > 1 /\ Expiries = 1 .. Never /\ LastLedgerDay \in Nat
BY BalanceAssumption DEF Never, Expiries

LEMMA SumsDefined ==
  ASSUME NEW left \in [Expiries -> Nat]
  PROVE  /\ \A n \in 0 .. Never : Sums(left)[n] \in Nat
         /\ Sums(left)[0] = 0
         /\ \A n \in 1 .. Never : Sums(left)[n] = Sums(left)[n - 1] + left[n]
<1> DEFINE step == [n \in 1 .. Never |-> [x \in Nat |-> x + left[n]]]
           Is(s) == s = [n \in 0 .. Never |-> IF n = 0 THEN 0 ELSE s[n - 1] + left[n]]
<1>1. \A n \in 1 .. Never : left[n] \in Nat
  BY DaysAreInt
<1>2. step \in [1 .. Never -> [Nat -> Nat]]
  BY <1>1
<1>3. \A n \in 1 .. Never : \A x \in Nat : step[n][x] = x + left[n]
  OBVIOUS
<1> HIDE DEF step
<1>4. PICK f \in [0 .. Never -> Nat] : f[0] = 0 /\ \A n \in 1 .. Never : f[n] = step[n][f[n - 1]]
  <2>1. Never \in Nat /\ 0 \in Nat
    BY DaysAreInt
  <2> QED
    <3>1. HasSteps(Never, Nat, 0, step)
      BY <1>2, <2>1, StepsExist
    <3> QED
      BY <3>1 DEF HasSteps
<1>5. \A n \in 0 .. Never : n # 0 => n \in 1 .. Never /\ n - 1 \in 0 .. Never
  BY DaysAreInt
<1>6. \A n \in 0 .. Never : f[n] = IF n = 0 THEN 0 ELSE f[n - 1] + left[n]
  BY <1>3, <1>4, <1>5
<1>7. f = [n \in 0 .. Never |-> IF n = 0 THEN 0 ELSE f[n - 1] + left[n]]
  BY <1>6
<1>8. Is(f)
  BY <1>7
<1>9. Is(CHOOSE s : Is(s))
  <2> HIDE DEF Is
  <2> QED
    BY <1>8, Zenon
<1>10. PICK s : s = Sums(left)
  OBVIOUS
<1>11. s = [n \in 0 .. Never |-> IF n = 0 THEN 0 ELSE s[n - 1] + left[n]]
  BY <1>9, <1>10 DEF Sums
<1>12. s[0] = 0 /\ \A n \in 1 .. Never : s[n] = s[n - 1] + left[n]
  <2>1. 0 \in 0 .. Never /\ \A n \in 1 .. Never : n \in 0 .. Never /\ n # 0
    BY DaysAreInt
  <2> QED
    BY <1>11, <2>1
<1>13. \A n \in 0 .. Never : s[n] \in Nat
  <2> DEFINE S == {n \in Nat : n <= Never => s[n] \in Nat}
  <2>1. 0 \in S
    BY <1>12
  <2>2. ASSUME NEW n \in Nat, n < Never, n \in S PROVE n + 1 \in S
    <3>1. n + 1 \in 1 .. Never /\ (n + 1) - 1 = n /\ s[n] \in Nat
      BY <2>2, DaysAreInt
    <3>2. s[n + 1] = s[(n + 1) - 1] + left[n + 1] /\ left[n + 1] \in Nat
      BY <1>1, <1>12, <3>1
    <3> QED
      BY <3>1, <3>2
  <2> PICK T : T = S
    OBVIOUS
  <2>3. 0 \in T /\ \A n \in Nat : n < Never /\ n \in T => n + 1 \in T
    BY <2>1, <2>2
  <2>4. \A n \in 0 .. Never : n \in T
    <3> HIDE DEF S
    <3> QED
      BY <2>3, Climb, DaysAreInt
  <2> QED
    BY <2>4, DaysAreInt
<1> QED
  BY <1>10, <1>12, <1>13

\* Sums that begin with nothing and grow by what each bucket holds are these.
LEMMA SumsAre ==
  ASSUME NEW left \in [Expiries -> Nat], NEW f, f[0] = 0,
         \A n \in 1 .. Never : f[n - 1] \in Nat => f[n] = f[n - 1] + left[n]
  PROVE  \A n \in 0 .. Never : Sums(left)[n] = f[n]
<1> PICK s : s = Sums(left)
  OBVIOUS
<1> DEFINE S == {n \in Nat : n <= Never => s[n] = f[n]}
<1>1. 0 \in S
  BY SumsDefined, DaysAreInt
<1>2. ASSUME NEW n \in Nat, n < Never, n \in S PROVE n + 1 \in S
  <2>1. n + 1 \in 1 .. Never /\ (n + 1) - 1 = n /\ n \in 0 .. Never /\ s[n] = f[n]
    BY <1>2, DaysAreInt
  <2>2. s[n] \in Nat /\ s[n + 1] = s[(n + 1) - 1] + left[n + 1]
    BY <2>1, SumsDefined
  <2>3. f[n + 1] = f[(n + 1) - 1] + left[n + 1]
    BY <2>1, <2>2
  <2> QED
    BY <2>1, <2>2, <2>3
<1> PICK T : T = S
  OBVIOUS
<1>3. 0 \in T /\ \A n \in Nat : n < Never /\ n \in T => n + 1 \in T
  BY <1>1, <1>2
<1>4. \A n \in 0 .. Never : n \in T
  <2> HIDE DEF S
  <2> QED
    BY <1>3, Climb, DaysAreInt
<1> QED
  BY <1>4, DaysAreInt

LEMMA LeftBeforeIsSum ==
  ASSUME NEW b, NEW e
  PROVE  LeftBefore(b, e) = Sums(b.left)[AtLeastZero(e - 1)]
<1> DEFINE t == CHOOSE s : s = [n \in 0 .. Never |-> IF n = 0 THEN 0 ELSE s[n - 1] + b.left[n]]
<1>1. LeftBefore(b, e) = t[AtLeastZero(e - 1)]
  BY DEF LeftBefore
<1>2. Sums(b.left) = t
  BY DEF Sums
<1> QED
  BY <1>1, <1>2

LEMMA LeftIsSum ==
  ASSUME NEW b
  PROVE  Left(b) = Sums(b.left)[Never]
<1>1. PICK v : v = Never + 1
  OBVIOUS
<1>2. AtLeastZero(v - 1) = Never
  BY <1>1, DaysAreInt DEF AtLeastZero
<1>3. LeftBefore(b, v) = Sums(b.left)[AtLeastZero(v - 1)]
  BY LeftBeforeIsSum, Zenon
<1>4. Left(b) = LeftBefore(b, v)
  BY <1>1 DEF Left
<1> QED
  BY <1>2, <1>3, <1>4

LEMMA SumsFacts ==
  ASSUME NEW b \in Buckets
  PROVE  \E s : /\ s = Sums(b.left) /\ s[0] = 0
                /\ \A n \in 0 .. Never : s[n] \in Nat
                /\ \A n \in 1 .. Never : s[n] = s[n - 1] + b.left[n] /\ b.left[n] \in Nat
<1>1. b.left \in [Expiries -> Nat]
  BY DEF Buckets
<1>2. PICK left : left = b.left
  OBVIOUS
<1>3. PICK s : s = Sums(left)
  OBVIOUS
<1>4. left \in [Expiries -> Nat]
  BY <1>1, <1>2
<1>5. s[0] = 0 /\ \A n \in 0 .. Never : s[n] \in Nat
  BY <1>3, <1>4, SumsDefined
<1>6. \A n \in 1 .. Never : s[n] = s[n - 1] + left[n] /\ left[n] \in Nat
  BY <1>3, <1>4, SumsDefined, DaysAreInt
<1> QED
  BY <1>2, <1>3, <1>5, <1>6

\* What the buckets hold is what is available, what is owed and what has lapsed.
Worth(b) == Available(b) + b.lapsed

LEMMA WorthIs ==
  ASSUME NEW b \in Buckets, NEW s, s = Sums(b.left)
  PROVE  Worth(b) = s[Never] - b.owed + b.lapsed
BY LeftIsSum DEF Worth, Available

\* What lapsing leaves in the buckets.
LEMMA LapseLeaves ==
  ASSUME NEW b \in Buckets, NEW day \in 0 .. Never
  PROVE  /\ Lapse(b, day) \in Buckets
         /\ Lapse(b, day).owed = b.owed
         /\ Lapse(b, day).lapsed = b.lapsed + Sums(b.left)[AtLeastZero(day - 1)]
         /\ \A k \in 0 .. Never :
              Sums(Lapse(b, day).left)[k]
                = IF k < day THEN 0 ELSE Sums(b.left)[k] - Sums(b.left)[AtLeastZero(day - 1)]
<1>1. PICK s : /\ s = Sums(b.left) /\ s[0] = 0
               /\ \A n \in 0 .. Never : s[n] \in Nat
               /\ \A n \in 1 .. Never : s[n] = s[n - 1] + b.left[n] /\ b.left[n] \in Nat
  BY SumsFacts
<1>2. PICK d : d = AtLeastZero(day - 1)
  OBVIOUS
<1>3. d \in 0 .. Never /\ (day = 0 => d = 0) /\ (day # 0 => d = day - 1)
  BY <1>2, DaysAreInt DEF AtLeastZero
<1>4. LeftBefore(b, day) = s[d]
  BY <1>1, <1>2, LeftBeforeIsSum
<1>5. PICK c : c = Lapse(b, day)
  OBVIOUS
<1>6. PICK left : left = [e \in Expiries |-> IF e < day THEN 0 ELSE b.left[e]]
  OBVIOUS
<1>7. c.left = left /\ c.owed = b.owed /\ c.lapsed = b.lapsed + s[d]
  BY <1>4, <1>5, <1>6 DEF Lapse, Buckets
<1>8. left \in [Expiries -> Nat] /\ \A n \in 1 .. Never : left[n] = IF n < day THEN 0 ELSE b.left[n]
  BY <1>1, <1>6, DaysAreInt
<1>9. c \in Buckets
  <2>1. c = [left |-> c.left, owed |-> c.owed, lapsed |-> c.lapsed]
    BY <1>5 DEF Lapse, Buckets
  <2>2. c.owed \in Nat /\ c.lapsed \in Nat
    BY <1>1, <1>3, <1>7 DEF Buckets
  <2> QED
    BY <2>1, <2>2, <1>7, <1>8 DEF Buckets
<1>10. PICK f : f = [k \in 0 .. Never |-> IF k < day THEN 0 ELSE s[k] - s[d]]
  OBVIOUS
<1>11. \A k \in 0 .. Never : f[k] = IF k < day THEN 0 ELSE s[k] - s[d]
  BY <1>10
<1>12. f[0] = 0
  BY <1>3, <1>11, <1>1, DaysAreInt
<1>13. ASSUME NEW n \in 1 .. Never PROVE f[n] = f[n - 1] + left[n]
  <2>1. n \in 0 .. Never /\ n - 1 \in 0 .. Never /\ n \in Int
    BY DaysAreInt
  <2>2. PICK u, v, w, x \in Nat : u = s[n] /\ v = s[n - 1] /\ w = s[d] /\ x = b.left[n]
    BY <1>1, <1>3, <2>1
  <2>3. u = v + x
    BY <1>1, <2>2
  <2>4. (n = day => v = w) /\ (day = 0 /\ n = 1 => v = w)
    BY <1>3, <2>2, <2>1
  <2>5. /\ f[n] = IF n < day THEN 0 ELSE u - w
        /\ f[n - 1] = IF n - 1 < day THEN 0 ELSE v - w
        /\ left[n] = IF n < day THEN 0 ELSE x
    BY <1>8, <1>11, <2>1, <2>2
  <2> QED
    BY <2>3, <2>4, <2>5, <2>1, <1>3
<1>14. \A n \in 0 .. Never : Sums(left)[n] = f[n]
  BY <1>8, <1>12, <1>13, SumsAre
<1> QED
  BY <1>1, <1>2, <1>5, <1>7, <1>9, <1>11, <1>14

\* Lapsing moves minutes from the buckets to what has lapsed.
LEMMA LapseKeepsWorth ==
  ASSUME NEW b \in Buckets, NEW day \in 0 .. Never
  PROVE  Lapse(b, day) \in Buckets /\ Worth(Lapse(b, day)) = Worth(b)
<1>1. PICK s : s = Sums(b.left) /\ \A n \in 0 .. Never : s[n] \in Nat
  BY SumsFacts
<1>2. PICK d : d = AtLeastZero(day - 1)
  OBVIOUS
<1>3. d \in 0 .. Never /\ Never \in 0 .. Never /\ ~(Never < day)
  BY <1>2, DaysAreInt DEF AtLeastZero
<1>4. PICK c : c = Lapse(b, day)
  OBVIOUS
<1>5. /\ c \in Buckets /\ c.owed = b.owed /\ c.lapsed = b.lapsed + s[d]
      /\ Sums(c.left)[Never] = s[Never] - s[d]
  <2>1. /\ c \in Buckets /\ c.owed = b.owed /\ c.lapsed = b.lapsed + s[AtLeastZero(day - 1)]
        /\ \A k \in 0 .. Never : Sums(c.left)[k]
                                 = IF k < day THEN 0 ELSE s[k] - s[AtLeastZero(day - 1)]
    <3>1. /\ c \in Buckets /\ c.owed = b.owed
          /\ c.lapsed = b.lapsed + Sums(b.left)[AtLeastZero(day - 1)]
          /\ \A k \in 0 .. Never :
               Sums(c.left)[k]
                 = IF k < day THEN 0 ELSE Sums(b.left)[k] - Sums(b.left)[AtLeastZero(day - 1)]
      BY <1>4, LapseLeaves
    <3> QED
      BY <1>1, <3>1
  <2> QED
    BY <1>2, <1>3, <2>1
<1>16. Worth(c) = s[Never] - s[d] - b.owed + (b.lapsed + s[d])
  BY <1>5, WorthIs
<1>17. Worth(b) = s[Never] - b.owed + b.lapsed
  BY <1>1, WorthIs
<1>18. s[Never] \in Int /\ s[d] \in Int /\ b.owed \in Int /\ b.lapsed \in Int
  BY <1>1, <1>3 DEF Buckets
<1> QED
  BY <1>4, <1>5, <1>16, <1>17, <1>18

\* What taking leaves in the buckets.
LEMMA TakeLeaves ==
  ASSUME NEW b \in Buckets, NEW n \in Nat
  PROVE  /\ Take(b, n) \in Buckets
         /\ Take(b, n).owed = b.owed + AtLeastZero(n - Sums(b.left)[Never])
         /\ Take(b, n).lapsed = b.lapsed
         /\ \A k \in 0 .. Never :
              Sums(Take(b, n).left)[k] = AtLeastZero(Sums(b.left)[k] - n)
<1>1. PICK s : /\ s = Sums(b.left) /\ s[0] = 0
               /\ \A k \in 0 .. Never : s[k] \in Nat
               /\ \A k \in 1 .. Never : s[k] = s[k - 1] + b.left[k] /\ b.left[k] \in Nat
  BY SumsFacts
<1>2. PICK c : c = Take(b, n)
  OBVIOUS
<1>3. PICK left : left = [e \in Expiries |-> AtLeastZero(b.left[e] - AtLeastZero(n - s[e - 1]))]
  OBVIOUS
<1>4. \A e \in Expiries : LeftBefore(b, e) = s[e - 1]
  <2>1. \A e \in Expiries : AtLeastZero(e - 1) = e - 1
    BY DaysAreInt DEF AtLeastZero
  <2>2. \A e \in Expiries : LeftBefore(b, e) = s[AtLeastZero(e - 1)]
    BY <1>1, LeftBeforeIsSum
  <2> QED
    BY <2>1, <2>2
<1>5. c.left = left /\ c.owed = b.owed + AtLeastZero(n - s[Never]) /\ c.lapsed = b.lapsed
  <2>1. Left(b) = s[Never]
    BY <1>1, LeftIsSum
  <2>2. c.owed = b.owed + AtLeastZero(n - s[Never]) /\ c.lapsed = b.lapsed
    BY <1>2, <2>1 DEF Take, Buckets
  <2>3. c.left = [e \in Expiries |-> AtLeastZero(b.left[e] - AtLeastZero(n - LeftBefore(b, e)))]
    BY <1>2 DEF Take, Buckets
  <2>4. c.left = left
    BY <1>3, <1>4, <2>3
  <2> QED
    BY <2>2, <2>4
<1>6. \A k \in 1 .. Never :
        left[k] = AtLeastZero(b.left[k] - AtLeastZero(n - s[k - 1])) /\ left[k] \in Nat
  <2>1. \A k \in 1 .. Never : left[k] = AtLeastZero(b.left[k] - AtLeastZero(n - s[k - 1]))
    BY <1>3, DaysAreInt
  <2>2. ASSUME NEW k \in 1 .. Never PROVE left[k] \in Nat
    <3>1. k - 1 \in 0 .. Never
      BY DaysAreInt
    <3>2. b.left[k] \in Nat /\ s[k - 1] \in Nat
      BY <1>1, <3>1
    <3> QED
      BY <2>1, <3>2 DEF AtLeastZero
  <2> QED
    BY <2>1, <2>2
<1>7. left \in [Expiries -> Nat]
  BY <1>3, <1>6, DaysAreInt
<1>8. s[Never] \in Nat
  BY <1>1, DaysAreInt
<1>9. c \in Buckets
  <2>1. c = [left |-> c.left, owed |-> c.owed, lapsed |-> c.lapsed]
    BY <1>2 DEF Take, Buckets
  <2>2. c.owed \in Nat /\ c.lapsed \in Nat
    BY <1>5, <1>8 DEF Buckets, AtLeastZero
  <2> QED
    BY <2>1, <2>2, <1>5, <1>7 DEF Buckets
<1>10. PICK f : f = [k \in 0 .. Never |-> AtLeastZero(s[k] - n)]
  OBVIOUS
<1>11. f[0] = 0
  BY <1>1, <1>10, DaysAreInt DEF AtLeastZero
<1>12. ASSUME NEW k \in 1 .. Never PROVE f[k] = f[k - 1] + left[k]
  <2>1. k \in 0 .. Never /\ k - 1 \in 0 .. Never
    BY DaysAreInt
  <2>2. PICK u, v, x \in Nat : u = s[k] /\ v = s[k - 1] /\ x = b.left[k]
    BY <1>1, <2>1
  <2>3. u = v + x
    BY <1>1, <2>2
  <2>4. f[k] = AtLeastZero(u - n) /\ f[k - 1] = AtLeastZero(v - n)
    BY <1>10, <2>1, <2>2
  <2>5. left[k] = AtLeastZero(x - AtLeastZero(n - v))
    BY <1>6, <2>2
  <2> QED
    BY <2>3, <2>4, <2>5 DEF AtLeastZero
<1>13. \A k \in 0 .. Never : Sums(left)[k] = f[k]
  BY <1>7, <1>11, <1>12, SumsAre
<1>14. \A k \in 0 .. Never : Sums(c.left)[k] = AtLeastZero(s[k] - n)
  BY <1>5, <1>10, <1>13
<1> QED
  BY <1>1, <1>2, <1>5, <1>9, <1>14

\* Taking lowers what is available by what is taken.
LEMMA TakeLowersWorth ==
  ASSUME NEW b \in Buckets, NEW n \in Nat
  PROVE  Take(b, n) \in Buckets /\ Worth(Take(b, n)) = Worth(b) - n
<1>1. PICK s : s = Sums(b.left) /\ \A k \in 0 .. Never : s[k] \in Nat
  BY SumsFacts
<1>2. PICK c : c = Take(b, n)
  OBVIOUS
<1>8. Never \in 0 .. Never /\ s[Never] \in Nat
  BY <1>1, DaysAreInt
<1>9. /\ c \in Buckets /\ c.owed = b.owed + AtLeastZero(n - s[Never]) /\ c.lapsed = b.lapsed
      /\ Sums(c.left)[Never] = AtLeastZero(s[Never] - n)
  <2>1. /\ c \in Buckets /\ c.owed = b.owed + AtLeastZero(n - s[Never]) /\ c.lapsed = b.lapsed
        /\ \A k \in 0 .. Never : Sums(c.left)[k] = AtLeastZero(s[k] - n)
    <3>1. /\ c \in Buckets /\ c.owed = b.owed + AtLeastZero(n - Sums(b.left)[Never])
          /\ c.lapsed = b.lapsed
          /\ \A k \in 0 .. Never : Sums(c.left)[k] = AtLeastZero(Sums(b.left)[k] - n)
      BY <1>2, TakeLeaves
    <3> QED
      BY <1>1, <3>1
  <2> QED
    BY <1>8, <2>1
<1>15. Worth(c) = AtLeastZero(s[Never] - n) - (b.owed + AtLeastZero(n - s[Never])) + b.lapsed
  BY <1>9, WorthIs
<1>16. Worth(b) = s[Never] - b.owed + b.lapsed
  BY <1>1, WorthIs
<1>17. b.owed \in Int /\ b.lapsed \in Int
  BY DEF Buckets
<1> QED
  BY <1>2, <1>8, <1>9, <1>15, <1>16, <1>17 DEF AtLeastZero

\* What booking a grant leaves in the buckets.
LEMMA GrantLeaves ==
  ASSUME NEW b \in Buckets, NEW x \in Entries, x.minutes > 0
  PROVE  /\ Book(b, x) \in Buckets
         /\ Book(b, x).owed = b.owed
         /\ Book(b, x).lapsed = b.lapsed
         /\ \A k \in 0 .. Never :
              Sums(Book(b, x).left)[k]
                = Sums(b.left)[k] + (IF k < x.expires THEN 0 ELSE x.minutes)
<1>1. PICK s : /\ s = Sums(b.left) /\ s[0] = 0
               /\ \A k \in 0 .. Never : s[k] \in Nat
               /\ \A k \in 1 .. Never : s[k] = s[k - 1] + b.left[k] /\ b.left[k] \in Nat
  BY SumsFacts
<1>2. PICK m \in Nat : m = x.minutes
  BY DEF Entries
<1>3. PICK e \in 1 .. Never : e = x.expires
  BY DaysAreInt DEF Entries
<1>4. PICK left : left = [b.left EXCEPT ![e] = @ + m]
  OBVIOUS
<1>5. PICK c : c = Book(b, x)
  OBVIOUS
<1>6. c = [b EXCEPT !.left[x.expires] = @ + x.minutes]
  BY <1>5 DEF Book
<1>7. c = [left |-> left, owed |-> b.owed, lapsed |-> b.lapsed]
  BY <1>2, <1>3, <1>4, <1>6 DEF Buckets
<1>8. left \in [Expiries -> Nat]
      /\ \A k \in 1 .. Never : left[k] = IF k = e THEN b.left[k] + m ELSE b.left[k]
  <2>1. b.left \in [1 .. Never -> Nat]
    <3>1. b.left \in [Expiries -> Nat] /\ Expiries = 1 .. Never
      BY DaysAreInt DEF Buckets
    <3> QED
      BY <3>1
  <2>2. \A k \in 1 .. Never : left[k] = IF k = e THEN b.left[k] + m ELSE b.left[k]
    BY <1>3, <1>4, <2>1
  <2>3. \A k \in 1 .. Never : left[k] \in Nat
    <3>1. ASSUME NEW k \in 1 .. Never PROVE left[k] \in Nat
      <4>1. PICK w \in Nat : w = b.left[k]
        BY <1>1
      <4>2. left[k] = IF k = e THEN w + m ELSE w
        BY <2>2, <4>1
      <4> QED
        BY <1>2, <4>1, <4>2
    <3> QED
      BY <3>1
  <2>4. left \in [1 .. Never -> Nat]
    BY <1>4, <2>1, <2>3
  <2>5. left \in [Expiries -> Nat]
    BY <2>4, DaysAreInt
  <2> QED
    BY <2>2, <2>5
<1>9. c \in Buckets
  <2>1. b.owed \in Nat /\ b.lapsed \in Nat
    BY DEF Buckets
  <2> QED
    BY <1>7, <1>8, <2>1 DEF Buckets
<1>10. PICK f : f = [k \in 0 .. Never |-> s[k] + (IF k < e THEN 0 ELSE m)]
  OBVIOUS
<1>11. f[0] = 0
  BY <1>1, <1>10, DaysAreInt
<1>12. ASSUME NEW k \in 1 .. Never PROVE f[k] = f[k - 1] + left[k]
  <2>1. k \in 0 .. Never /\ k - 1 \in 0 .. Never
    BY DaysAreInt
  <2>2. PICK u, v, w \in Nat : u = s[k] /\ v = s[k - 1] /\ w = b.left[k]
    BY <1>1, <2>1
  <2>3. u = v + w
    BY <1>1, <2>2
  <2>4. f[k] = s[k] + (IF k < e THEN 0 ELSE m)
        /\ f[k - 1] = s[k - 1] + (IF k - 1 < e THEN 0 ELSE m)
    BY <1>10, <2>1
  <2>6. f[k] = u + (IF k < e THEN 0 ELSE m) /\ f[k - 1] = v + (IF k - 1 < e THEN 0 ELSE m)
    BY <2>2, <2>4
  <2>5. left[k] = IF k = e THEN w + m ELSE w
    BY <1>8, <2>2
  <2> QED
    <3>1. k \in Int /\ e \in Int /\ m \in Int
      BY <1>2, <1>3, DaysAreInt
    <3>2. CASE k < e
      BY <3>1, <3>2, <2>2, <2>3, <2>5, <2>6
    <3>3. CASE k = e
      BY <3>1, <3>3, <2>2, <2>3, <2>5, <2>6
    <3>4. CASE k > e
      BY <3>1, <3>4, <2>2, <2>3, <2>5, <2>6
    <3> QED
      BY <3>1, <3>2, <3>3, <3>4
<1>13. \A k \in 0 .. Never : Sums(left)[k] = f[k]
  BY <1>8, <1>11, <1>12, SumsAre
<1>14. \A k \in 0 .. Never : Sums(c.left)[k] = s[k] + (IF k < x.expires THEN 0 ELSE x.minutes)
  BY <1>2, <1>3, <1>7, <1>10, <1>13
<1>15. c.owed = b.owed /\ c.lapsed = b.lapsed
  BY <1>7
<1> QED
  BY <1>1, <1>5, <1>9, <1>14, <1>15

\* Booking an entry adds its minutes to what the buckets are worth.
LEMMA BookAddsMinutes ==
  ASSUME NEW b \in Buckets, NEW x \in Entries
  PROVE  Book(b, x) \in Buckets /\ Worth(Book(b, x)) = Worth(b) + x.minutes
<1>1. x.minutes \in Int /\ x.minutes # 0 /\ x.on \in 0 .. Never /\ x.expires \in 1 .. Never
  BY DaysAreInt DEF Entries, LedgerDays, Never
<1>2. Worth(b) \in Int
  <2>1. PICK s : s = Sums(b.left) /\ \A n \in 0 .. Never : s[n] \in Nat
    BY SumsFacts
  <2> QED
    BY <2>1, WorthIs, DaysAreInt DEF Buckets
<1>3. CASE x.minutes < 0
  <2>1. PICK c : c = Lapse(b, x.on)
    OBVIOUS
  <2>2. c \in Buckets /\ Worth(c) = Worth(b)
    BY <1>1, <2>1, LapseKeepsWorth
  <2>3. PICK n : n = -x.minutes
    OBVIOUS
  <2>4. n \in Nat
    BY <1>1, <1>3, <2>3
  <2>5. Take(c, n) \in Buckets /\ Worth(Take(c, n)) = Worth(c) - n
    BY <2>2, <2>4, TakeLowersWorth
  <2>6. Book(b, x) = Take(c, n)
    BY <1>1, <1>3, <2>1, <2>3 DEF Book
  <2>7. Worth(Book(b, x)) = Worth(b) + x.minutes
    BY <1>1, <1>2, <2>2, <2>3, <2>5, <2>6
  <2> QED
    BY <2>5, <2>6, <2>7
<1>4. CASE x.minutes > 0
  <2>1. PICK s : s = Sums(b.left) /\ \A k \in 0 .. Never : s[k] \in Nat
    BY SumsFacts
  <2>2. PICK m \in Nat : m = x.minutes
    BY <1>1, <1>4
  <2>3. PICK c : c = Book(b, x)
    OBVIOUS
  <2>4. Never \in 0 .. Never /\ ~(Never < x.expires)
    BY <1>1, DaysAreInt
  <2>5. /\ c \in Buckets /\ c.owed = b.owed /\ c.lapsed = b.lapsed
        /\ Sums(c.left)[Never] = s[Never] + m
    <3>1. c \in Buckets /\ c.owed = b.owed /\ c.lapsed = b.lapsed
      BY <1>4, <2>3, GrantLeaves
    <3>2. \A k \in 0 .. Never :
            Sums(c.left)[k] = Sums(b.left)[k] + (IF k < x.expires THEN 0 ELSE x.minutes)
      BY <1>4, <2>3, GrantLeaves
    <3> QED
      BY <2>1, <2>2, <2>4, <3>1, <3>2
  <2>6. Worth(c) = s[Never] + m - b.owed + b.lapsed
    <3>1. Worth(c) = Sums(c.left)[Never] - c.owed + c.lapsed
      BY <2>5, WorthIs
    <3>2. s[Never] \in Int /\ b.owed \in Int
      BY <2>1, <2>4 DEF Buckets
    <3> QED
      BY <2>5, <3>1, <3>2
  <2>7. Worth(b) = s[Never] - b.owed + b.lapsed
    BY <2>1, WorthIs
  <2>8. s[Never] \in Int /\ b.owed \in Int /\ b.lapsed \in Int
    BY <2>1, <2>4 DEF Buckets
  <2>9. Worth(c) = Worth(b) + x.minutes
    BY <2>2, <2>6, <2>7, <2>8
  <2> QED
    BY <2>3, <2>5, <2>9
<1> QED
  BY <1>1, <1>3, <1>4

LEMMA EmptyHoldsNothing == Empty \in Buckets /\ Worth(Empty) = 0
<1>1. PICK left : left = [e \in Expiries |-> 0]
  OBVIOUS
<1>2. left \in [Expiries -> Nat] /\ \A n \in 1 .. Never : left[n] = 0
  BY <1>1, DaysAreInt
<1>3. Empty = [left |-> left, owed |-> 0, lapsed |-> 0]
  BY <1>1 DEF Empty
<1>4. Empty \in Buckets
  BY <1>2, <1>3 DEF Buckets
<1>5. PICK f : f = [n \in 0 .. Never |-> 0]
  OBVIOUS
<1>6. f[0] = 0 /\ \A n \in 1 .. Never : f[n] = f[n - 1] + left[n]
  <2>1. \A n \in 1 .. Never : n \in 0 .. Never /\ n - 1 \in 0 .. Never
    BY DaysAreInt
  <2> QED
    BY <1>2, <1>5, <2>1, DaysAreInt
<1>7. \A n \in 0 .. Never : Sums(left)[n] = f[n]
  BY <1>2, <1>6, SumsAre
<1>8. Sums(Empty.left)[Never] = 0
  BY <1>3, <1>5, <1>7, DaysAreInt
<1>9. Worth(Empty) = 0 - 0 + 0
  BY <1>3, <1>4, <1>8, WorthIs
<1> QED
  BY <1>4, <1>9

\* The buckets once the entries up to each place have been walked.
Walks(l, asOf, w) ==
  w = [n \in 0 .. Len(l) |->
         IF n = 0 THEN Empty
         ELSE IF l[n].reversed \/ l[n].on > asOf THEN w[n - 1]
         ELSE Book(w[n - 1], l[n])]

Walk(l, asOf) == CHOOSE w : Walks(l, asOf, w)

LEMMA WalkDefined ==
  ASSUME NEW l \in Seq(Entries), NEW asOf \in Int
  PROVE  /\ Walk(l, asOf)[0] = Empty
         /\ \A n \in 0 .. Len(l) : Walk(l, asOf)[n] \in Buckets
         /\ \A n \in 1 .. Len(l) :
              Walk(l, asOf)[n] = IF l[n].reversed \/ l[n].on > asOf THEN Walk(l, asOf)[n - 1]
                                 ELSE Book(Walk(l, asOf)[n - 1], l[n])
<1>1. PICK N : N = Len(l)
  OBVIOUS
<1>2. N \in Nat /\ \A n \in 1 .. N : l[n] \in Entries
  BY <1>1
<1> DEFINE step == [n \in 1 .. N |-> [b \in Buckets |->
                      IF l[n].reversed \/ l[n].on > asOf THEN b ELSE Book(b, l[n])]]
<1>3. \A n \in 1 .. N : \A b \in Buckets :
        (IF l[n].reversed \/ l[n].on > asOf THEN b ELSE Book(b, l[n])) \in Buckets
  BY <1>2, BookAddsMinutes
<1>4. step \in [1 .. N -> [Buckets -> Buckets]]
  BY <1>3
<1>5. \A n \in 1 .. N : \A b \in Buckets :
        step[n][b] = IF l[n].reversed \/ l[n].on > asOf THEN b ELSE Book(b, l[n])
  OBVIOUS
<1> HIDE DEF step
<1>6. HasSteps(N, Buckets, Empty, step)
  BY <1>2, <1>4, EmptyHoldsNothing, StepsExist
<1>7. PICK f \in [0 .. N -> Buckets] : f[0] = Empty /\ \A n \in 1 .. N : f[n] = step[n][f[n - 1]]
  BY <1>6 DEF HasSteps
<1>8. \A n \in 1 .. N : n \in 0 .. N /\ n - 1 \in 0 .. N /\ n # 0
  BY <1>2
<1>9. \A n \in 1 .. N : f[n] = IF l[n].reversed \/ l[n].on > asOf THEN f[n - 1]
                               ELSE Book(f[n - 1], l[n])
  BY <1>5, <1>7, <1>8
<1>10. \A n \in 0 .. N : n # 0 => n \in 1 .. N
  BY <1>2
<1>11. \A n \in 0 .. N : f[n] = IF n = 0 THEN Empty
                                ELSE IF l[n].reversed \/ l[n].on > asOf THEN f[n - 1]
                                ELSE Book(f[n - 1], l[n])
  BY <1>7, <1>9, <1>10
<1>12. Walks(l, asOf, f)
  BY <1>1, <1>11 DEF Walks
<1>13. PICK w : w = Walk(l, asOf)
  OBVIOUS
<1>14. Walks(l, asOf, w)
  BY <1>12, <1>13, Zenon DEF Walk
<1>15. \A n \in 0 .. N : w[n] = IF n = 0 THEN Empty
                                ELSE IF l[n].reversed \/ l[n].on > asOf THEN w[n - 1]
                                ELSE Book(w[n - 1], l[n])
  BY <1>1, <1>14 DEF Walks
<1>16. w[0] = Empty
  BY <1>2, <1>15
<1>17. \A n \in 1 .. N : w[n] = IF l[n].reversed \/ l[n].on > asOf THEN w[n - 1]
                                ELSE Book(w[n - 1], l[n])
  BY <1>8, <1>15
<1>18. \A n \in 0 .. N : w[n] \in Buckets
  <2>1. PICK T : T = {n \in Nat : n <= N => w[n] \in Buckets}
    OBVIOUS
  <2>2. 0 \in T
    BY <1>16, <2>1, EmptyHoldsNothing
  <2>3. ASSUME NEW n \in Nat, n < N, n \in T PROVE n + 1 \in T
    <3>1. n + 1 \in 1 .. N /\ (n + 1) - 1 = n /\ w[n] \in Buckets
      BY <1>2, <2>1, <2>3
    <3>2. l[n + 1] \in Entries
      BY <1>2, <3>1
    <3>3. Book(w[n], l[n + 1]) \in Buckets
      BY <3>1, <3>2, BookAddsMinutes
    <3>4. w[n + 1] \in Buckets
      BY <1>17, <3>1, <3>3
    <3> QED
      BY <2>1, <3>4
  <2>4. \A n \in 0 .. N : n \in T
    BY <1>2, <2>2, <2>3, Climb
  <2> QED
    BY <1>2, <2>1, <2>4
<1> QED
  BY <1>1, <1>13, <1>16, <1>17, <1>18

LEMMA BalanceIsWalk ==
  ASSUME NEW l, NEW asOf
  PROVE  Balance(l, asOf) = Lapse(Walk(l, asOf)[Len(l)], asOf)
BY DEF Balance, Walk, Walks

-----------------------------------------------------------------------------
(***************************************************************************)
(* The register.  Worth, what is available and what has lapsed, changes by *)
(* the minutes of an entry that is booked and by nothing else; the order   *)
(* in which entries are added does not matter to a sum.                    *)
(***************************************************************************)

\* The minutes of an entry that a sum counts.
Counts(x, kind, from, to) ==
  IF x.type = kind /\ ~x.reversed /\ x.on \in from .. to THEN x.minutes ELSE 0

Adds(l, kind, from, to, s) ==
  s = [n \in 0 .. Len(l) |->
         IF n = 0 THEN 0
         ELSE s[n - 1] + (IF /\ l[n].type = kind /\ ~l[n].reversed
                             /\ l[n].on \in from .. to THEN l[n].minutes ELSE 0)]

SumsTo(l, kind, from, to) == CHOOSE s : Adds(l, kind, from, to, s)

LEMMA CountsIsInt ==
  ASSUME NEW x \in Entries, NEW kind, NEW from \in Int, NEW to \in Int
  PROVE  Counts(x, kind, from, to) \in Int
BY DEF Counts, Entries

LEMMA SumsToDefined ==
  ASSUME NEW l \in Seq(Entries), NEW kind, NEW from \in Int, NEW to \in Int
  PROVE  /\ SumsTo(l, kind, from, to)[0] = 0
         /\ \A n \in 0 .. Len(l) : SumsTo(l, kind, from, to)[n] \in Int
         /\ \A n \in 1 .. Len(l) :
              SumsTo(l, kind, from, to)[n]
                = SumsTo(l, kind, from, to)[n - 1] + Counts(l[n], kind, from, to)
<1>1. PICK N : N = Len(l)
  OBVIOUS
<1>2. N \in Nat /\ \A n \in 1 .. N : l[n] \in Entries
  BY <1>1
<1>3. PICK c : c = [n \in 1 .. N |-> Counts(l[n], kind, from, to)]
  OBVIOUS
<1>4. \A n \in 1 .. N : c[n] = Counts(l[n], kind, from, to) /\ c[n] \in Int
  BY <1>2, <1>3, CountsIsInt
<1> DEFINE step == [n \in 1 .. N |-> [x \in Int |-> x + c[n]]]
<1>5. step \in [1 .. N -> [Int -> Int]]
  BY <1>4
<1>6. \A n \in 1 .. N : \A x \in Int : step[n][x] = x + c[n]
  OBVIOUS
<1> HIDE DEF step
<1>7. HasSteps(N, Int, 0, step)
  <2>1. PICK X : X = Int
    OBVIOUS
  <2>2. 0 \in X /\ step \in [1 .. N -> [X -> X]]
    BY <1>5, <2>1
  <2>3. HasSteps(N, X, 0, step)
    BY <1>2, <2>2, StepsExist
  <2> QED
    BY <2>1, <2>3
<1>8. PICK f \in [0 .. N -> Int] : f[0] = 0 /\ \A n \in 1 .. N : f[n] = step[n][f[n - 1]]
  BY <1>7 DEF HasSteps
<1>9. \A n \in 1 .. N : n \in 0 .. N /\ n - 1 \in 0 .. N /\ n # 0
  BY <1>2
<1>10. \A n \in 1 .. N : f[n] = f[n - 1] + Counts(l[n], kind, from, to)
  <2>1. \A n \in 1 .. N : f[n - 1] \in Int
    BY <1>9
  <2>2. \A n \in 1 .. N : f[n] = f[n - 1] + c[n]
    BY <1>6, <1>8, <2>1
  <2> QED
    BY <1>4, <2>2
<1>11. \A n \in 0 .. N : n # 0 => n \in 1 .. N
  BY <1>2
<1>12. \A n \in 0 .. N : f[n] = IF n = 0 THEN 0 ELSE f[n - 1] + Counts(l[n], kind, from, to)
  BY <1>8, <1>10, <1>11
<1>13. Adds(l, kind, from, to, f)
  BY <1>1, <1>8, <1>12 DEF Adds, Counts
<1>14. PICK s : s = SumsTo(l, kind, from, to)
  OBVIOUS
<1>15. Adds(l, kind, from, to, s)
  BY <1>13, <1>14, Zenon DEF SumsTo
<1>16. \A n \in 0 .. N : s[n] = IF n = 0 THEN 0 ELSE s[n - 1] + Counts(l[n], kind, from, to)
  BY <1>1, <1>15 DEF Adds, Counts
<1>17. s[0] = 0 /\ \A n \in 1 .. N : s[n] = s[n - 1] + Counts(l[n], kind, from, to)
  BY <1>2, <1>9, <1>16
<1>18. \A n \in 0 .. N : s[n] \in Int
  <2>1. PICK T : T = {n \in Nat : n <= N => s[n] \in Int}
    OBVIOUS
  <2>2. 0 \in T
    BY <1>17, <2>1
  <2>3. ASSUME NEW n \in Nat, n < N, n \in T PROVE n + 1 \in T
    <3>1. n + 1 \in 1 .. N /\ (n + 1) - 1 = n /\ s[n] \in Int
      BY <1>2, <2>1, <2>3
    <3>2. s[n + 1] = s[n] + Counts(l[n + 1], kind, from, to)
      BY <1>17, <3>1
    <3>3. Counts(l[n + 1], kind, from, to) \in Int
      BY <1>4, <3>1
    <3> QED
      BY <2>1, <3>1, <3>2, <3>3
  <2>4. \A n \in 0 .. N : n \in T
    BY <1>2, <2>2, <2>3, Climb
  <2> QED
    BY <1>2, <2>1, <2>4
<1> QED
  BY <1>1, <1>14, <1>17, <1>18

LEMMA SumOfIsSumTo ==
  ASSUME NEW l, NEW kind, NEW from, NEW to
  PROVE  SumOf(l, kind, from, to) = SumsTo(l, kind, from, to)[Len(l)]
BY DEF SumOf, SumsTo, Adds

\* What an entry adds to the buckets at the end of a period and not at its start is what the
\* sums of the period count.
LEMMA EntryAddsUp ==
  ASSUME NEW x \in Entries, NEW from \in Int, NEW to \in Int, from <= to
  PROVE  (IF x.reversed \/ x.on > to THEN 0 ELSE x.minutes)
           = (IF x.reversed \/ x.on > from - 1 THEN 0 ELSE x.minutes)
             + Counts(x, "grant", from, to) + Counts(x, "adjust", from, to)
             + Counts(x, "consume", from, to)
<1>1. x.type \in EntryTypes /\ x.minutes \in Int /\ x.on \in Int /\ x.reversed \in BOOLEAN
  BY DEF Entries, LedgerDays
<1> QED
  BY <1>1 DEF Counts, EntryTypes

LEMMA WorthIsInt ==
  ASSUME NEW b \in Buckets
  PROVE  Worth(b) \in Int
<1>1. PICK s : s = Sums(b.left) /\ \A n \in 0 .. Never : s[n] \in Nat
  BY SumsFacts
<1> QED
  BY <1>1, WorthIs, DaysAreInt DEF Buckets

LEMMA WalkAdds ==
  ASSUME NEW l \in Seq(Entries), NEW asOf \in Int, NEW n \in 1 .. Len(l)
  PROVE  Worth(Walk(l, asOf)[n])
           = Worth(Walk(l, asOf)[n - 1])
             + (IF l[n].reversed \/ l[n].on > asOf THEN 0 ELSE l[n].minutes)
<1>1. PICK w : w = Walk(l, asOf)
  OBVIOUS
<1>2. n - 1 \in 0 .. Len(l)
  OBVIOUS
<1>3. w[n - 1] \in Buckets
        /\ w[n] = IF l[n].reversed \/ l[n].on > asOf THEN w[n - 1] ELSE Book(w[n - 1], l[n])
  BY <1>1, <1>2, WalkDefined
<1>4. l[n] \in Entries
  OBVIOUS
<1>5. Worth(Book(w[n - 1], l[n])) = Worth(w[n - 1]) + l[n].minutes
  BY <1>3, <1>4, BookAddsMinutes
<1>6. Worth(w[n - 1]) \in Int
  BY <1>3, WorthIsInt
<1> QED
  BY <1>1, <1>3, <1>5, <1>6

LEMMA AddInAnyOrder ==
  ASSUME NEW a \in Int, NEW b \in Int, NEW c \in Int, NEW d \in Int,
         NEW e \in Int, NEW f \in Int, NEW g \in Int, NEW h \in Int
  PROVE  (a + b + c + d) + (e + f + g + h) = (a + e) + (b + f) + (c + g) + (d + h)
OBVIOUS

\* Between the buckets at the start of a period and at its end lies what the register sums.
LEMMA WalksAddUp ==
  ASSUME NEW l \in Seq(Entries), NEW from \in Int, NEW to \in Int, from <= to
  PROVE  Worth(Walk(l, to)[Len(l)])
           = Worth(Walk(l, from - 1)[Len(l)]) + SumOf(l, "grant", from, to)
             + SumOf(l, "adjust", from, to) + SumOf(l, "consume", from, to)
<1>1. PICK N : N = Len(l)
  OBVIOUS
<1>2. N \in Nat /\ \A n \in 1 .. N : l[n] \in Entries
  BY <1>1
<1>3. PICK c, o : c = [n \in 0 .. N |-> Worth(Walk(l, to)[n])]
                  /\ o = [n \in 0 .. N |-> Worth(Walk(l, from - 1)[n])]
  OBVIOUS
<1>4. PICK g, a, k : /\ g = SumsTo(l, "grant", from, to)
                     /\ a = SumsTo(l, "adjust", from, to)
                     /\ k = SumsTo(l, "consume", from, to)
  OBVIOUS
<1>5. c[0] = 0 /\ o[0] = 0 /\ g[0] = 0 /\ a[0] = 0 /\ k[0] = 0
  <2>1. from - 1 \in Int
    OBVIOUS
  <2>2. Walk(l, to)[0] = Empty /\ Walk(l, from - 1)[0] = Empty
    BY <2>1, WalkDefined
  <2>3. c[0] = 0 /\ o[0] = 0
    BY <1>2, <1>3, <2>2, EmptyHoldsNothing
  <2>4. g[0] = 0 /\ a[0] = 0 /\ k[0] = 0
    BY <1>4, SumsToDefined
  <2> QED
    BY <2>3, <2>4
<1>6. \A n \in 0 .. N : o[n] \in Int /\ g[n] \in Int /\ a[n] \in Int /\ k[n] \in Int
  <2>1. from - 1 \in Int
    OBVIOUS
  <2>2. \A n \in 0 .. N : Walk(l, from - 1)[n] \in Buckets
    BY <1>1, <2>1, WalkDefined
  <2>3. \A n \in 0 .. N : o[n] \in Int
    BY <1>3, <2>2, WorthIsInt
  <2>4. \A n \in 0 .. N : g[n] \in Int /\ a[n] \in Int /\ k[n] \in Int
    BY <1>1, <1>4, SumsToDefined
  <2> QED
    BY <2>3, <2>4
<1>7. PICK T : T = {n \in Nat : n <= N => c[n] = o[n] + g[n] + a[n] + k[n]}
  OBVIOUS
<1>8. 0 \in T
  BY <1>5, <1>7
<1>9. ASSUME NEW n \in Nat, n < N, n \in T PROVE n + 1 \in T
  <2>1. n + 1 \in 1 .. N /\ (n + 1) - 1 = n /\ n \in 0 .. N /\ n + 1 \in 0 .. N
    BY <1>2, <1>9
  <2>2. PICK m : m = n + 1
    OBVIOUS
  <2>3. m \in 1 .. N /\ m - 1 = n /\ m \in 0 .. N
    BY <2>1, <2>2
  <2>4. PICK x \in Entries : x = l[m]
    BY <1>2, <2>3
  <2>5. PICK cg, ca, ck : /\ cg = Counts(x, "grant", from, to) /\ ca = Counts(x, "adjust", from, to)
                          /\ ck = Counts(x, "consume", from, to)
    OBVIOUS
  <2>6. cg \in Int /\ ca \in Int /\ ck \in Int
    BY <2>4, <2>5, CountsIsInt
  <2>7. g[m] = g[n] + cg /\ a[m] = a[n] + ca /\ k[m] = k[n] + ck
    BY <1>1, <1>4, <2>3, <2>4, <2>5, SumsToDefined, ZenonT(30)
  <2>8. PICK mc, mo : /\ mc = IF x.reversed \/ x.on > to THEN 0 ELSE x.minutes
                      /\ mo = IF x.reversed \/ x.on > from - 1 THEN 0 ELSE x.minutes
    OBVIOUS
  <2>9. mc = mo + cg + ca + ck /\ mo \in Int
    <3>1. mo \in Int
      BY <2>4, <2>8 DEF Entries
    <3>2. (IF x.reversed \/ x.on > to THEN 0 ELSE x.minutes)
            = (IF x.reversed \/ x.on > from - 1 THEN 0 ELSE x.minutes)
              + Counts(x, "grant", from, to) + Counts(x, "adjust", from, to)
              + Counts(x, "consume", from, to)
      BY <2>4, EntryAddsUp
    <3>3. mc = mo + cg + ca + ck
      BY <2>5, <2>8, <3>2, Zenon
    <3> QED
      BY <3>1, <3>3
  <2>10. c[m] = c[n] + mc /\ o[m] = o[n] + mo
    <3>1. from - 1 \in Int
      OBVIOUS
    <3>2. Worth(Walk(l, to)[m]) = Worth(Walk(l, to)[m - 1]) + mc
      BY <1>1, <2>3, <2>4, <2>8, WalkAdds
    <3>3. Worth(Walk(l, from - 1)[m]) = Worth(Walk(l, from - 1)[m - 1]) + mo
      BY <1>1, <2>3, <2>4, <2>8, <3>1, WalkAdds
    <3> QED
      BY <1>3, <2>1, <2>3, <3>2, <3>3
  <2>11. c[n] = o[n] + g[n] + a[n] + k[n]
    <3>1. n \in T /\ n <= N
      BY <1>2, <1>9
    <3> QED
      BY <1>7, <3>1, Zenon
  <2>12. o[n] \in Int /\ g[n] \in Int /\ a[n] \in Int /\ k[n] \in Int
    BY <1>6, <2>1
  <2>13. c[m] = o[m] + g[m] + a[m] + k[m]
    <3>1. PICK o0, g0, a0, k0 \in Int : o0 = o[n] /\ g0 = g[n] /\ a0 = a[n] /\ k0 = k[n]
      BY <2>12
    <3>2. c[m] = (o0 + g0 + a0 + k0) + (mo + cg + ca + ck) /\ o[m] = o0 + mo
      BY <2>9, <2>10, <2>11, <3>1
    <3>3. g[m] = g0 + cg /\ a[m] = a0 + ca /\ k[m] = k0 + ck
      BY <2>7, <3>1
    <3> QED
      <4>1. o[m] + g[m] + a[m] + k[m] = (o0 + mo) + (g0 + cg) + (a0 + ca) + (k0 + ck)
        BY <3>2, <3>3
      <4>2. PICK m1, g1, a1, k1 \in Int : m1 = mo /\ g1 = cg /\ a1 = ca /\ k1 = ck
        BY <2>6, <2>9
      <4>3. (o0 + g0 + a0 + k0) + (m1 + g1 + a1 + k1)
              = (o0 + m1) + (g0 + g1) + (a0 + a1) + (k0 + k1)
        BY AddInAnyOrder
      <4> QED
        BY <3>2, <4>1, <4>2, <4>3, Zenon
  <2> QED
    BY <1>7, <2>2, <2>13
<1>10. \A n \in 0 .. N : n \in T
  BY <1>2, <1>8, <1>9, Climb
<1>11. c[N] = o[N] + g[N] + a[N] + k[N]
  BY <1>2, <1>7, <1>10
<1>12. /\ SumOf(l, "grant", from, to) = g[N] /\ SumOf(l, "adjust", from, to) = a[N]
       /\ SumOf(l, "consume", from, to) = k[N]
  BY <1>1, <1>4, SumOfIsSumTo
<1> QED
  BY <1>1, <1>2, <1>3, <1>11, <1>12

LEMMA RegisterOfAnyLedgerAddsUp ==
  ASSUME NEW l \in Seq(Entries), NEW from \in LedgerDays, NEW to \in LedgerDays, from <= to
  PROVE  LET r == Register(l, from, to) IN
         r.closing = r.opening + r.granted + r.adjusted - r.consumed - r.expired
<1>1. from \in Int /\ to \in Int /\ from - 1 \in 0 .. Never /\ to \in 0 .. Never /\ from - 1 \in Int
  BY DaysAreInt DEF LedgerDays, Never
<1>2. PICK c, o : c = Walk(l, to)[Len(l)] /\ o = Walk(l, from - 1)[Len(l)]
  OBVIOUS
<1>3. c \in Buckets /\ o \in Buckets
  <2>1. Len(l) \in 0 .. Len(l)
    OBVIOUS
  <2> QED
    BY <1>1, <1>2, <2>1, WalkDefined
<1>4. PICK d, p : d = Lapse(c, to) /\ p = Lapse(o, from - 1)
  OBVIOUS
<1>5. d \in Buckets /\ p \in Buckets /\ Worth(d) = Worth(c) /\ Worth(p) = Worth(o)
  BY <1>1, <1>3, <1>4, LapseKeepsWorth
<1>6. PICK g, a, k \in Int : /\ g = SumOf(l, "grant", from, to)
                             /\ a = SumOf(l, "adjust", from, to)
                             /\ k = SumOf(l, "consume", from, to)
  <2>1. Len(l) \in 0 .. Len(l)
    OBVIOUS
  <2> QED
    BY <1>1, <2>1, SumsToDefined, SumOfIsSumTo
<1>7. Worth(c) = Worth(o) + g + a + k
  BY <1>1, <1>2, <1>6, WalksAddUp
<1>8. PICK r : r = Register(l, from, to)
  OBVIOUS
<1>9. /\ r.opening = Available(p) /\ r.closing = Available(d)
      /\ r.granted = g /\ r.adjusted = a /\ r.consumed = -k
      /\ r.expired = d.lapsed - p.lapsed
  <2>1. Balance(l, to) = d /\ Balance(l, from - 1) = p
    BY <1>2, <1>4, BalanceIsWalk
  <2> QED
    BY <1>6, <1>8, <2>1 DEF Register, OpeningDay
<1>10. PICK wd, wp, ld, lp \in Int : /\ wd = Available(d) /\ wp = Available(p)
                                     /\ ld = d.lapsed /\ lp = p.lapsed
  <2>1. d.lapsed \in Int /\ p.lapsed \in Int
    BY <1>5 DEF Buckets
  <2>2. Left(d) \in Int /\ Left(p) \in Int
    <3>1. ASSUME NEW b \in Buckets PROVE Left(b) \in Int
      <4>1. PICK s : s = Sums(b.left) /\ \A n \in 0 .. Never : s[n] \in Nat
        BY SumsFacts
      <4> QED
        BY <4>1, LeftIsSum, DaysAreInt
    <3> QED
      BY <1>5, <3>1
  <2>3. Available(d) \in Int /\ Available(p) \in Int
    <3>1. d.owed \in Int /\ p.owed \in Int
      BY <1>5 DEF Buckets
    <3> QED
      BY <2>2, <3>1 DEF Available
  <2> QED
    BY <2>1, <2>3
<1>11. wd + ld = wp + lp + g + a + k
  <2>1. Worth(d) = wd + ld /\ Worth(p) = wp + lp
    BY <1>10 DEF Worth
  <2> QED
    BY <1>5, <1>7, <2>1
<1>12. wd = wp + g + a - (-k) - (ld - lp)
  BY <1>11
<1>13. r.closing = r.opening + r.granted + r.adjusted - r.consumed - r.expired
  BY <1>9, <1>10, <1>12
<1> QED
  BY <1>8, <1>13

Sound(x) ==
  /\ x \in Entries
  /\ x.type = "grant" => x.minutes > 0 /\ x.expires >= x.on
  /\ x.type = "consume" => x.minutes < 0
  /\ x.type # "grant" => x.expires = Never

Takes == {x \in Entries : x.minutes < 0 /\ x.type # "grant" /\ x.expires = Never}

Ledgers ==
  {l \in Seq(Entries) : /\ \A i, j \in DOMAIN l : i < j => l[i].on <= l[j].on
                        /\ \A i \in DOMAIN l : Sound(l[i])}

LEMMA TakesAreSound == \A x \in Takes : Sound(x)
BY DEF Takes, Sound

LEMMA InsertedIs ==
  ASSUME NEW S, NEW l \in Seq(S), NEW x \in S, NEW p \in 1 .. Len(l) + 1
  PROVE  /\ InsertAt(l, p, x) \in Seq(S)
         /\ Len(InsertAt(l, p, x)) = Len(l) + 1
         /\ \A i \in 1 .. Len(l) + 1 :
              InsertAt(l, p, x)[i] = IF i < p THEN l[i] ELSE IF i = p THEN x ELSE l[i - 1]
<1>1. PICK a, b, c : a = SubSeq(l, 1, p - 1) /\ b = SubSeq(l, p, Len(l)) /\ c = <<x>>
  OBVIOUS
<1>2. a \in Seq(S) /\ Len(a) = p - 1 /\ \A i \in 1 .. p - 1 : a[i] = l[i]
  BY <1>1, SubSeqProperties
<1>3. b \in Seq(S) /\ Len(b) = Len(l) - p + 1 /\ \A i \in 1 .. Len(l) - p + 1 : b[i] = l[p + i - 1]
  BY <1>1, SubSeqProperties
<1>4. c \in Seq(S) /\ Len(c) = 1 /\ c[1] = x
  BY <1>1
<1>5. PICK d : d = a \o c
  OBVIOUS
<1>6. d \in Seq(S) /\ Len(d) = p /\ \A i \in 1 .. p : d[i] = IF i < p THEN l[i] ELSE x
  <2>1. d \in Seq(S) /\ Len(d) = Len(a) + Len(c)
        /\ \A i \in 1 .. Len(a) + Len(c) : d[i] = IF i <= Len(a) THEN a[i] ELSE c[i - Len(a)]
    BY <1>2, <1>4, <1>5, ConcatProperties
  <2> QED
    BY <1>2, <1>4, <2>1
<1>7. PICK e : e = d \o b
  OBVIOUS
<1>8. e \in Seq(S) /\ Len(e) = Len(d) + Len(b)
      /\ \A i \in 1 .. Len(d) + Len(b) : e[i] = IF i <= Len(d) THEN d[i] ELSE b[i - Len(d)]
  BY <1>3, <1>6, <1>7, ConcatProperties
<1>9. Len(e) = Len(l) + 1
  BY <1>3, <1>6, <1>8
<1>10. ASSUME NEW i \in 1 .. Len(l) + 1
       PROVE  e[i] = IF i < p THEN l[i] ELSE IF i = p THEN x ELSE l[i - 1]
  <2>1. CASE i <= p
    BY <1>3, <1>6, <1>8, <2>1
  <2>2. CASE i > p
    <3>1. e[i] = b[i - p] /\ i - p \in 1 .. Len(l) - p + 1
      BY <1>3, <1>6, <1>8, <2>2
    <3>2. p + (i - p) - 1 = i - 1
      OBVIOUS
    <3> QED
      BY <1>3, <2>2, <3>1, <3>2
  <2> QED
    BY <2>1, <2>2
<1>11. InsertAt(l, p, x) = e
  BY <1>1, <1>5, <1>7 DEF InsertAt
<1> QED
  BY <1>8, <1>9, <1>10, <1>11

LEMMA InsertKeepsLedger ==
  ASSUME NEW l \in Ledgers, NEW x, Sound(x), NEW p \in Places(l, x.on)
  PROVE  InsertAt(l, p, x) \in Ledgers
<1>1. l \in Seq(Entries) /\ x \in Entries /\ p \in 1 .. Len(l) + 1
  BY DEF Ledgers, Sound, Places
<1>2. PICK k \in Seq(Entries) :
        /\ k = InsertAt(l, p, x) /\ Len(k) = Len(l) + 1
        /\ \A i \in 1 .. Len(l) + 1 : k[i] = IF i < p THEN l[i] ELSE IF i = p THEN x ELSE l[i - 1]
  BY <1>1, InsertedIs
<1>3. PICK N : N = Len(l)
  OBVIOUS
<1>4. N \in Nat /\ p \in 1 .. N + 1
  BY <1>1, <1>3
<1>5. k \in Seq(Entries) /\ DOMAIN k = 1 .. N + 1
      /\ \A i \in 1 .. N + 1 : k[i] = IF i < p THEN l[i] ELSE IF i = p THEN x ELSE l[i - 1]
  BY <1>2, <1>3
<1>6. \A i, j \in 1 .. N : i < j => l[i].on <= l[j].on
  BY <1>1, <1>3 DEF Ledgers
<1>7. \A i \in 1 .. N : Sound(l[i])
  BY <1>1, <1>3 DEF Ledgers
<1>8. \A i \in 1 .. p - 1 : l[i].on <= x.on
  BY <1>3 DEF Places
<1>9. \A i \in p .. N : l[i].on >= x.on
  BY <1>3 DEF Places
<1>10. ASSUME NEW i \in 1 .. N + 1 PROVE Sound(k[i])
  <2>1. CASE i < p
    BY <1>4, <1>5, <1>7, <2>1
  <2>2. CASE i = p
    BY <1>4, <1>5, <2>2
  <2>3. CASE i > p
    <3>1. i - 1 \in 1 .. N /\ k[i] = l[i - 1]
      BY <1>4, <1>5, <2>3
    <3> QED
      BY <1>7, <3>1
  <2> QED
    BY <1>4, <2>1, <2>2, <2>3
<1>11. ASSUME NEW i \in 1 .. N + 1, NEW j \in 1 .. N + 1, i < j PROVE k[i].on <= k[j].on
  <2>1. CASE j < p
    BY <1>4, <1>5, <1>6, <1>11, <2>1
  <2>2. CASE j = p
    <3>1. k[i] = l[i] /\ k[j] = x /\ i \in 1 .. p - 1
      BY <1>4, <1>5, <1>11, <2>2
    <3> QED
      BY <1>8, <3>1
  <2>3. CASE j > p
    <3>1. k[j] = l[j - 1] /\ j - 1 \in 1 .. N /\ j - 1 \in p .. N
      BY <1>4, <1>5, <2>3
    <3>2. CASE i < p
      <4>1. k[i] = l[i] /\ i \in 1 .. N /\ i < j - 1
        BY <1>4, <1>5, <2>3, <3>2
      <4> QED
        BY <1>6, <3>1, <4>1
    <3>3. CASE i = p
      <4>1. k[i] = x
        BY <1>4, <1>5, <3>3
      <4> QED
        BY <1>9, <3>1, <4>1
    <3>4. CASE i > p
      <4>1. k[i] = l[i - 1] /\ i - 1 \in 1 .. N /\ i - 1 < j - 1
        BY <1>4, <1>5, <1>11, <3>4
      <4> QED
        BY <1>6, <3>1, <4>1
    <3> QED
      BY <1>4, <3>2, <3>3, <3>4
  <2> QED
    BY <1>4, <2>1, <2>2, <2>3
<1>12. k \in Ledgers
  BY <1>5, <1>10, <1>11 DEF Ledgers
<1> QED
  BY <1>2, <1>12
\* The entry that is placed on a day.
EntryOf(xs, day) == CHOOSE x \in xs : x.on = day

\* Placing the entry of each day leads from each set to the next.
LeadsOn(A, xs) ==
  \A day \in 1 .. LastLedgerDay : \A k \in A[day - 1] :
    IF \E x \in xs : x.on = day
    THEN \A p \in Places(k, day) : InsertAt(k, p, EntryOf(xs, day)) \in A[day]
    ELSE k \in A[day]

LEMMA PlacementsStayIn ==
  ASSUME NEW l \in Ledgers, NEW xs, \A x \in xs : Sound(x),
         NEW A, l \in A[0], LeadsOn(A, xs)
  PROVE  Placements(l, xs) \subseteq Ledgers /\ Placements(l, xs) \subseteq A[LastLedgerDay]
<1>1. PICK N, X : N = LastLedgerDay /\ X = SUBSET Ledgers
  OBVIOUS
<1>2. N \in Nat
  BY <1>1, DaysAreInt
<1> DEFINE Placed(ls, day) ==
             UNION {IF \E x \in xs : x.on = day
                    THEN {InsertAt(k, p, CHOOSE x \in xs : x.on = day) : p \in Places(k, day)}
                    ELSE {k} : k \in ls}
           Is(f) == f = [day \in 0 .. N |-> IF day = 0 THEN {l} ELSE Placed(f[day - 1], day)]
           step == [day \in 1 .. N |-> [ls \in X |-> Placed(ls, day)]]
<1>3. ASSUME NEW ls \in X, NEW day PROVE Placed(ls, day) \in X
  <2>1. SUFFICES ASSUME NEW k \in ls,
                        NEW m \in IF \E x \in xs : x.on = day
                                  THEN {InsertAt(k, p, CHOOSE x \in xs : x.on = day)
                                          : p \in Places(k, day)}
                                  ELSE {k}
                 PROVE  m \in Ledgers
    BY <1>1
  <2>2. k \in Ledgers
    BY <1>1
  <2>3. CASE \E x \in xs : x.on = day
    <3>1. PICK x : x = CHOOSE y \in xs : y.on = day
      OBVIOUS
    <3>2. x \in xs /\ x.on = day
      BY <2>3, <3>1
    <3>3. PICK p \in Places(k, x.on) : m = InsertAt(k, p, x)
      BY <2>3, <3>1, <3>2
    <3> QED
      BY <2>2, <3>2, <3>3, InsertKeepsLedger
  <2> QED
    BY <2>2, <2>3
<1>4. step \in [1 .. N -> [X -> X]] /\ {l} \in X
  <2> HIDE DEF Placed
  <2> QED
    BY <1>1, <1>3
<1>5. \A day \in 1 .. N : \A ls \in X : step[day][ls] = Placed(ls, day)
  <2> HIDE DEF Placed
  <2> QED
    OBVIOUS
<1> HIDE DEF step
<1>6. PICK f \in [0 .. N -> X] : f[0] = {l} /\ \A n \in 1 .. N : f[n] = step[n][f[n - 1]]
  <2>1. HasSteps(N, X, {l}, step)
    BY <1>2, <1>4, StepsExist
  <2> QED
    BY <2>1 DEF HasSteps
<1>7. \A n \in 1 .. N : n \in 0 .. N /\ n - 1 \in 0 .. N /\ n # 0
  BY <1>2
<1>8. Is(f)
  <2> HIDE DEF Placed
  <2>1. \A n \in 1 .. N : f[n] = Placed(f[n - 1], n)
    BY <1>5, <1>6, <1>7
  <2>2. \A n \in 0 .. N : f[n] = IF n = 0 THEN {l} ELSE Placed(f[n - 1], n)
    <3>1. \A n \in 0 .. N : n # 0 => n \in 1 .. N
      BY <1>2
    <3> QED
      BY <1>6, <2>1, <3>1
  <2> QED
    BY <2>2
<1>9. PICK g : g = CHOOSE h : Is(h)
  OBVIOUS
<1>10. Is(g)
  <2> HIDE DEF Is
  <2> QED
    BY <1>8, <1>9, Zenon
<1>11. g[0] = {l} /\ \A n \in 1 .. N : g[n] = Placed(g[n - 1], n)
  <2> HIDE DEF Placed
  <2>1. \A n \in 0 .. N : g[n] = IF n = 0 THEN {l} ELSE Placed(g[n - 1], n)
    BY <1>10
  <2> QED
    BY <1>2, <1>7, <2>1
<1>12. \A n \in 0 .. N : g[n] \in X
  <2> HIDE DEF Placed
  <2>1. PICK T : T = {n \in Nat : n <= N => g[n] \in X}
    OBVIOUS
  <2>2. 0 \in T
    BY <1>1, <1>11, <2>1
  <2>3. ASSUME NEW n \in Nat, n < N, n \in T PROVE n + 1 \in T
    <3>1. n + 1 \in 1 .. N /\ (n + 1) - 1 = n /\ g[n] \in X
      BY <1>2, <2>1, <2>3
    <3>2. g[n + 1] \in X
      BY <1>3, <1>11, <3>1
    <3> QED
      BY <2>1, <3>2
  <2>4. \A n \in 0 .. N : n \in T
    BY <1>2, <2>2, <2>3, Climb
  <2> QED
    BY <1>2, <2>1, <2>4
<1>13. Placements(l, xs) = g[N]
  BY <1>1, <1>9 DEF Placements
<1>14. ASSUME NEW n \in 1 .. N, g[n - 1] \subseteq A[n - 1] PROVE g[n] \subseteq A[n]
  <2>1. SUFFICES ASSUME NEW k \in g[n - 1],
                        NEW m \in IF \E x \in xs : x.on = n
                                  THEN {InsertAt(k, p, CHOOSE x \in xs : x.on = n)
                                          : p \in Places(k, n)}
                                  ELSE {k}
                 PROVE  m \in A[n]
    BY <1>11
  <2>2. k \in A[n - 1]
    BY <1>14
  <2>3. IF \E x \in xs : x.on = n
        THEN \A p \in Places(k, n) : InsertAt(k, p, EntryOf(xs, n)) \in A[n]
        ELSE k \in A[n]
    BY <1>1, <2>2 DEF LeadsOn
  <2>4. CASE \E x \in xs : x.on = n
    <3>1. PICK p \in Places(k, n) : m = InsertAt(k, p, CHOOSE x \in xs : x.on = n)
      BY <2>4
    <3>2. m = InsertAt(k, p, EntryOf(xs, n))
      BY <3>1 DEF EntryOf
    <3> QED
      BY <2>3, <2>4, <3>2
  <2>5. CASE ~\E x \in xs : x.on = n
    BY <2>3, <2>5
  <2> QED
    BY <2>4, <2>5
<1>15. g[N] \subseteq A[N]
  <2> HIDE DEF Placed
  <2>1. PICK T : T = {n \in Nat : n <= N => g[n] \subseteq A[n]}
    OBVIOUS
  <2>2. 0 \in T
    BY <1>11, <2>1
  <2>3. ASSUME NEW n \in Nat, n < N, n \in T PROVE n + 1 \in T
    <3>1. n + 1 \in 1 .. N /\ (n + 1) - 1 = n /\ g[n] \subseteq A[n]
      BY <1>2, <2>1, <2>3
    <3>2. g[n + 1] \subseteq A[n + 1]
      BY <1>14, <3>1
    <3> QED
      BY <2>1, <3>2
  <2>4. \A n \in 0 .. N : n \in T
    BY <1>2, <2>2, <2>3, Climb
  <2> QED
    BY <1>2, <2>1, <2>4
<1> QED
  BY <1>1, <1>2, <1>12, <1>13, <1>15

LEMMA PlacementsAreLedgers ==
  ASSUME NEW l \in Ledgers, NEW xs, \A x \in xs : Sound(x)
  PROVE  Placements(l, xs) \subseteq Ledgers
<1>1. PICK A : A = [day \in 0 .. LastLedgerDay |-> Ledgers]
  OBVIOUS
<1>2. \A day \in 0 .. LastLedgerDay : A[day] = Ledgers
  BY <1>1
<1>3. ASSUME NEW day \in 1 .. LastLedgerDay, NEW k \in A[day - 1]
      PROVE  IF \E x \in xs : x.on = day
             THEN \A p \in Places(k, day) : InsertAt(k, p, EntryOf(xs, day)) \in A[day]
             ELSE k \in A[day]
  <2>1. day \in 0 .. LastLedgerDay /\ day - 1 \in 0 .. LastLedgerDay
    BY DaysAreInt
  <2>2. k \in Ledgers /\ A[day] = Ledgers
    BY <1>2, <1>3, <2>1
  <2>3. ASSUME NEW x \in xs, x.on = day, NEW p \in Places(k, day)
        PROVE  InsertAt(k, p, EntryOf(xs, day)) \in Ledgers
    <3>1. PICK y : y = EntryOf(xs, day)
      OBVIOUS
    <3>2. y \in xs /\ y.on = day
      BY <2>3, <3>1 DEF EntryOf
    <3> QED
      BY <2>2, <2>3, <3>1, <3>2, InsertKeepsLedger
  <2> QED
    BY <2>2, <2>3
<1>4. LeadsOn(A, xs)
  BY <1>3 DEF LeadsOn
<1>5. l \in A[0]
  BY <1>2, DaysAreInt
<1> QED
  BY <1>4, <1>5, PlacementsStayIn

LedgerInv == ledger \in Ledgers /\ plan \in [LedgerClients -> SUBSET Takes]

LEMMA InvIsTypeOK == LedgerInv => LedgerTypeOK
BY DEF LedgerInv, LedgerTypeOK, Ledgers, Sound, Takes

LEMMA DaysOfMonth == /\ LedgerDays \subseteq Int /\ Never \in Expiries
                     /\ \A m \in Amounts : m \in Nat /\ m # 0
                     /\ \A d \in LedgerDays : d <= Never
BY DaysAreInt, LedgerAssumption DEF LedgerDays, Never

LEMMA EntriesMade ==
  ASSUME NEW day \in LedgerDays, NEW m \in Amounts
  PROVE  /\ \A e \in Expiries : e >= day => Sound(Entry("grant", m, day, e))
         /\ Sound(Entry("adjust", m, day, Never))
         /\ Entry("adjust", -m, day, Never) \in Takes
         /\ Entry("consume", -m, day, Never) \in Takes
<1>1. m \in Nat /\ m # 0 /\ -m \in Int /\ -m < 0 /\ Never \in Expiries
  BY DaysOfMonth
<1>2. \A t \in EntryTypes : \A n \in Int \ {0} : \A e \in Expiries : Entry(t, n, day, e) \in Entries
  BY DEF Entry, Entries
<1>3. "grant" \in EntryTypes /\ "adjust" \in EntryTypes /\ "consume" \in EntryTypes
  BY DEF EntryTypes
<1>4. ASSUME NEW e \in Expiries, e >= day PROVE Sound(Entry("grant", m, day, e))
  <2>1. Entry("grant", m, day, e) \in Entries
    BY <1>1, <1>2, <1>3
  <2> QED
    BY <1>1, <1>4, <2>1 DEF Sound, Entry
<1>5. Sound(Entry("adjust", m, day, Never))
  <2>1. Entry("adjust", m, day, Never) \in Entries
    BY <1>1, <1>2, <1>3
  <2> QED
    BY <2>1 DEF Sound, Entry
<1>6. Entry("adjust", -m, day, Never) \in Takes
  <2>1. Entry("adjust", -m, day, Never) \in Entries
    BY <1>1, <1>2, <1>3
  <2> QED
    BY <1>1, <2>1 DEF Takes, Entry
<1>7. Entry("consume", -m, day, Never) \in Takes
  <2>1. Entry("consume", -m, day, Never) \in Entries
    BY <1>1, <1>2, <1>3
  <2> QED
    BY <1>1, <2>1 DEF Takes, Entry
<1> QED
  BY <1>4, <1>5, <1>6, <1>7

LEMMA LedgerInitially == InitLedger => LedgerInv
BY DEF InitLedger, LedgerInv, Ledgers

LEMMA LedgerStep == LedgerInv /\ [NextLedger]_ledgerVars => LedgerInv'
<1> SUFFICES ASSUME LedgerInv, [NextLedger]_ledgerVars PROVE LedgerInv'
  OBVIOUS
<1>0. ledger \in Ledgers /\ plan \in [LedgerClients -> SUBSET Takes]
  BY DEF LedgerInv
<1>1. ASSUME NEW day \in LedgerDays, NEW m \in Amounts, NEW e \in Expiries, Grant(day, m, e)
      PROVE  LedgerInv'
  <2>1. PICK xs : xs = {Entry("grant", m, day, e)}
    OBVIOUS
  <2>2. \A x \in xs : Sound(x)
    BY <1>1, <2>1, EntriesMade DEF Grant
  <2>3. ledger' \in Placements(ledger, xs) /\ plan' = plan
    BY <1>1, <2>1 DEF Grant, AddEntries
  <2> QED
    BY <1>0, <2>2, <2>3, PlacementsAreLedgers DEF LedgerInv
<1>2. ASSUME NEW day \in LedgerDays, NEW m \in Amounts, Allow(day, m) PROVE LedgerInv'
  <2>1. PICK xs : xs = {Entry("adjust", m, day, Never)}
    OBVIOUS
  <2>2. \A x \in xs : Sound(x)
    BY <2>1, EntriesMade
  <2>3. ledger' \in Placements(ledger, xs) /\ plan' = plan
    BY <1>2, <2>1 DEF Allow, AddEntries
  <2> QED
    BY <1>0, <2>2, <2>3, PlacementsAreLedgers DEF LedgerInv
<1>3. ASSUME NEW i \in DOMAIN ledger, ReverseEntry(i) PROVE LedgerInv'
  <2>1. PICK l : l = ledger
    OBVIOUS
  <2>2. PICK k : k = [l EXCEPT ![i].reversed = TRUE]
    OBVIOUS
  <2>3. l \in Seq(Entries) /\ i \in 1 .. Len(l) /\ DOMAIN l = 1 .. Len(l)
    BY <1>0, <2>1 DEF Ledgers
  <2>4. \A j \in 1 .. Len(l) : k[j] = IF j = i THEN [l[j] EXCEPT !.reversed = TRUE] ELSE l[j]
    BY <2>2, <2>3
  <2>5. \A j \in 1 .. Len(l) : Sound(l[j]) /\ l[j] \in Entries
    BY <1>0, <2>1, <2>3 DEF Ledgers
  <2>6. \A x \in Entries : Sound(x) =>
          /\ [x EXCEPT !.reversed = TRUE] \in Entries /\ Sound([x EXCEPT !.reversed = TRUE])
          /\ [x EXCEPT !.reversed = TRUE].on = x.on
    BY DEF Entries, Sound
  <2>7. \A j \in 1 .. Len(l) : k[j] \in Entries /\ Sound(k[j]) /\ k[j].on = l[j].on
    BY <2>4, <2>5, <2>6
  <2>8. k \in [1 .. Len(l) -> Entries]
    BY <2>2, <2>3, <2>7
  <2>9. k \in Seq(Entries) /\ DOMAIN k = 1 .. Len(l)
    BY <2>3, <2>8
  <2>10. \A a, b \in 1 .. Len(l) : a < b => l[a].on <= l[b].on
    BY <1>0, <2>1, <2>3 DEF Ledgers
  <2>11. k \in Ledgers
    BY <2>7, <2>9, <2>10 DEF Ledgers
  <2>12. ledger' = k /\ plan' = plan
    BY <1>3, <2>1, <2>2 DEF ReverseEntry
  <2> QED
    BY <1>0, <2>11, <2>12 DEF LedgerInv
<1>4. ASSUME NEW c \in LedgerClients, NEW day \in LedgerDays, NEW m \in Amounts, Deduct(c, day, m)
      PROVE  LedgerInv'
  <2>1. {Entry("adjust", -m, day, Never)} \in SUBSET Takes
    BY EntriesMade
  <2>2. plan' = [plan EXCEPT ![c] = {Entry("adjust", -m, day, Never)}] /\ ledger' = ledger
    BY <1>4 DEF Deduct
  <2> QED
    BY <1>0, <2>1, <2>2 DEF LedgerInv
<1>5. ASSUME NEW c \in LedgerClients, NEW from \in LedgerDays, NEW to \in from .. LastLedgerDay,
             NEW m \in Amounts, Consume(c, from, to, m)
      PROVE  LedgerInv'
  <2>1. PICK xs : xs = {Entry("consume", -m, day, Never) : day \in LeaveDatesOf(from, to)}
    OBVIOUS
  <2>2. \A day \in LeaveDatesOf(from, to) : day \in LedgerDays
    BY DaysAreInt DEF LeaveDatesOf, LedgerDays
  <2>3. xs \in SUBSET Takes
    BY <2>1, <2>2, EntriesMade
  <2>4. plan' = [plan EXCEPT ![c] = xs] /\ ledger' = ledger
    BY <1>5, <2>1 DEF Consume, Propose
  <2> QED
    BY <1>0, <2>3, <2>4 DEF LedgerInv
<1>6. ASSUME NEW c \in LedgerClients, CommitEntries(c) PROVE LedgerInv'
  <2>1. \A x \in plan[c] : Sound(x)
    BY <1>0, TakesAreSound
  <2>2. ledger' \in Placements(ledger, plan[c]) /\ plan' = [plan EXCEPT ![c] = {}]
    BY <1>6 DEF CommitEntries, AddEntries
  <2>3. ledger' \in Ledgers
    BY <1>0, <2>1, <2>2, PlacementsAreLedgers
  <2> QED
    BY <1>0, <2>2, <2>3 DEF LedgerInv
<1>7. ASSUME NEW c \in LedgerClients, RollbackEntries(c) PROVE LedgerInv'
  BY <1>0, <1>7 DEF RollbackEntries, LedgerInv
<1>8. CASE UNCHANGED ledgerVars
  BY <1>0, <1>8 DEF ledgerVars, LedgerInv
<1>9. CASE NextLedger
  BY <1>1, <1>2, <1>3, <1>4, <1>5, <1>6, <1>7, <1>9 DEF NextLedger
<1> QED
  BY <1>8, <1>9

(***************************************************************************)
(* The ledger and the plans keep their types: a ledger is in the order of  *)
(* the days, a grant is positive and does not expire before its day, what  *)
(* is taken is negative and does not expire (schema of                     *)
(* leave_ledger_entries, addEntry).                                        *)
(***************************************************************************)
THEOREM LedgerTypeCorrect == LedgerSpec => []LedgerTypeOK
<1>1. LedgerSpec => []LedgerInv
  BY LedgerInitially, LedgerStep, PTL DEF LedgerSpec
<1> QED
  BY <1>1, InvIsTypeOK, PTL

(***************************************************************************)
(* The register of any period adds up: what was there at its beginning and *)
(* what was granted and adjusted in it, less what was consumed and what    *)
(* has expired, is what is there at its end, whatever was backdated or     *)
(* reversed (summarizeLeaveRegister).                                      *)
(***************************************************************************)
THEOREM RegistersAddUp == LedgerSpec => []RegisterAddsUp
<1>1. LedgerSpec => []LedgerInv
  BY LedgerInitially, LedgerStep, PTL DEF LedgerSpec
<1>2. LedgerInv => RegisterAddsUp
  <2> SUFFICES ASSUME LedgerInv, NEW from \in LedgerDays, NEW to \in LedgerDays, from <= to
               PROVE  LET r == Register(ledger, from, to) IN
                      r.closing = r.opening + r.granted + r.adjusted - r.consumed - r.expired
    BY DEF RegisterAddsUp
  <2>1. ledger \in Seq(Entries)
    BY DEF LedgerInv, Ledgers
  <2> QED
    BY <2>1, RegisterOfAnyLedgerAddsUp
<1> QED
  BY <1>1, <1>2, PTL

-----------------------------------------------------------------------------
(***************************************************************************)
(* Overdrafts.  How buckets look to one who wants to use them on a day or  *)
(* after it: what is usable from each day on, and what is owed.  A day on  *)
(* which leave is only taken, or only granted, changes these as the sums   *)
(* of what was taken and of what was granted say, in whatever order the    *)
(* entries of the day stand.                                               *)
(***************************************************************************)

Smaller(m, n) == IF m <= n THEN m ELSE n

\* What can still be used on a day and after it.
Usable(b, e) == Sums(b.left)[Never] - Sums(b.left)[e - 1]

LEMMA UsableShrinks ==
  ASSUME NEW b \in Buckets, NEW d \in 1 .. Never, NEW e \in 1 .. Never, d <= e
  PROVE  Usable(b, d) \in Nat /\ Usable(b, e) \in Nat /\ Usable(b, e) <= Usable(b, d)
<1>1. PICK s : /\ s = Sums(b.left) /\ s[0] = 0
               /\ \A n \in 0 .. Never : s[n] \in Nat
               /\ \A n \in 1 .. Never : s[n] = s[n - 1] + b.left[n] /\ b.left[n] \in Nat
  BY SumsFacts
<1>2. PICK N \in Nat : N = Never
  BY DaysAreInt
<1>3. ASSUME NEW j \in 0 .. N, NEW k \in 0 .. N, j <= k PROVE s[j] <= s[k]
  <2>1. PICK T : T = {n \in Nat : n <= N => (j <= n => s[j] <= s[n])}
    OBVIOUS
  <2>2. 0 \in T
    <3>1. j <= 0 => j = 0
      OBVIOUS
    <3> QED
      BY <1>1, <2>1, <3>1
  <2>3. ASSUME NEW n \in Nat, n < N, n \in T PROVE n + 1 \in T
    <3>1. n + 1 \in 1 .. Never /\ n \in 0 .. Never /\ (n + 1) - 1 = n
      BY <1>2, <2>3
    <3>2. PICK u, v, w \in Nat : u = s[n] /\ v = s[n + 1] /\ w = b.left[n + 1]
      BY <1>1, <1>2, <3>1
    <3>3. v = u + w
      BY <1>1, <3>1, <3>2
    <3>4. PICK y \in Nat : y = s[j]
      BY <1>1, <1>2
    <3>5. j <= n => y <= u
      BY <2>1, <2>3, <3>2, <3>4
    <3>6. j <= n + 1 => y <= v
      <4>1. CASE j <= n
        BY <3>3, <3>5, <4>1
      <4>2. CASE j = n + 1
        BY <3>2, <3>4, <4>2
      <4> QED
        BY <4>1, <4>2
    <3> QED
      BY <2>1, <3>2, <3>4, <3>6
  <2>4. \A n \in 0 .. N : n \in T
    BY <2>2, <2>3, Climb
  <2> QED
    BY <1>3, <2>1, <2>4
<1>4. d - 1 \in 0 .. N /\ e - 1 \in 0 .. N /\ N \in 0 .. N /\ d - 1 <= e - 1 /\ e - 1 <= N
  BY <1>2
<1>5. PICK t, u, v \in Nat : t = s[N] /\ u = s[d - 1] /\ v = s[e - 1]
  BY <1>1, <1>2, <1>4
<1>6. u <= v /\ v <= t
  BY <1>3, <1>4, <1>5
<1>7. Usable(b, d) = t - u /\ Usable(b, e) = t - v
  BY <1>1, <1>2, <1>5 DEF Usable
<1> QED
  BY <1>6, <1>7

LEMMA TakeUses ==
  ASSUME NEW b \in Buckets, NEW x \in Entries, x.minutes < 0, NEW e \in 1 .. Never, x.on <= e
  PROVE  /\ Usable(Book(b, x), e)
              = Smaller(Usable(b, e), AtLeastZero(Usable(b, x.on) + x.minutes))
         /\ Book(b, x).owed = b.owed + AtLeastZero((-x.minutes) - Usable(b, x.on))
<1>1. PICK d \in 1 .. Never : d = x.on
  BY DaysAreInt DEF Entries, LedgerDays, Never
<1>2. PICK n \in Nat : n = -x.minutes /\ x.minutes = -n
  BY DEF Entries
<1>3. PICK s : s = Sums(b.left) /\ \A k \in 0 .. Never : s[k] \in Nat
  BY SumsFacts
<1>4. PICK c : c = Lapse(b, d)
  OBVIOUS
<1>5. d \in 0 .. Never /\ AtLeastZero(d - 1) = d - 1 /\ d - 1 \in 0 .. Never /\ e - 1 \in 0 .. Never
      /\ Never \in 0 .. Never
  BY DaysAreInt DEF AtLeastZero
<1>6. c \in Buckets /\ c.owed = b.owed
      /\ \A k \in 0 .. Never : Sums(c.left)[k] = IF k < d THEN 0 ELSE s[k] - s[d - 1]
  <2>1. c \in Buckets /\ c.owed = b.owed
    BY <1>4, <1>5, LapseLeaves
  <2>2. \A k \in 0 .. Never :
          Sums(c.left)[k] = IF k < d THEN 0 ELSE Sums(b.left)[k] - Sums(b.left)[AtLeastZero(d - 1)]
    BY <1>4, <1>5, LapseLeaves
  <2> QED
    BY <1>3, <1>5, <2>1, <2>2
<1>7. PICK r : r = Sums(c.left)
  OBVIOUS
<1>8. PICK f : f = Take(c, n)
  OBVIOUS
<1>9. f.owed = c.owed + AtLeastZero(n - r[Never])
      /\ \A k \in 0 .. Never : Sums(f.left)[k] = AtLeastZero(r[k] - n)
  <2>1. f.owed = c.owed + AtLeastZero(n - Sums(c.left)[Never])
    BY <1>6, <1>8, TakeLeaves
  <2>2. \A k \in 0 .. Never : Sums(f.left)[k] = AtLeastZero(Sums(c.left)[k] - n)
    BY <1>6, <1>8, TakeLeaves
  <2> QED
    BY <1>7, <2>1, <2>2
<1>10. Book(b, x) = f
  BY <1>1, <1>2, <1>4, <1>8 DEF Book, Entries
<1>11. PICK t, u, v \in Nat : t = s[Never] /\ u = s[d - 1] /\ v = s[e - 1]
  BY <1>3, <1>5
<1>12. Usable(b, d) = t - u /\ Usable(b, e) = t - v
  BY <1>3, <1>11 DEF Usable
<1>13. t - u \in Nat /\ t - v \in Nat /\ t - v <= t - u /\ d <= e
  BY <1>1, <1>12, UsableShrinks
<1>14. r[Never] = t - u /\ r[e - 1] = IF e - 1 < d THEN 0 ELSE v - u
  <2>1. ~(Never < d)
    BY DaysAreInt
  <2> QED
    BY <1>5, <1>6, <1>7, <1>11, <2>1
<1>15. e - 1 < d => v = u
  <2>1. e - 1 < d => e = d
    BY <1>13
  <2> QED
    BY <1>11, <2>1
<1>16. r[e - 1] = v - u
  BY <1>14, <1>15
<1>17. Usable(f, e) = AtLeastZero((t - u) - n) - AtLeastZero((v - u) - n)
  BY <1>5, <1>9, <1>14, <1>16 DEF Usable
<1>18. Usable(f, e) = Smaller(t - v, AtLeastZero((t - u) - n))
  BY <1>13, <1>17 DEF Smaller, AtLeastZero
<1>19. f.owed = b.owed + AtLeastZero(n - (t - u))
  BY <1>6, <1>9, <1>14
<1>20. Usable(b, x.on) = t - u /\ (t - u) + x.minutes = (t - u) - n
  BY <1>1, <1>2, <1>12
<1> QED
  BY <1>2, <1>10, <1>12, <1>18, <1>19, <1>20

LEMMA GrantAdds ==
  ASSUME NEW b \in Buckets, NEW x \in Entries, x.minutes > 0, NEW e \in 1 .. Never
  PROVE  /\ Usable(Book(b, x), e) = Usable(b, e) + (IF e <= x.expires THEN x.minutes ELSE 0)
         /\ Book(b, x).owed = b.owed
<1>1. PICK m \in Nat : m = x.minutes
  BY DEF Entries
<1>2. PICK y \in 1 .. Never : y = x.expires
  BY DaysAreInt DEF Entries
<1>3. PICK s : s = Sums(b.left) /\ \A k \in 0 .. Never : s[k] \in Nat
  BY SumsFacts
<1>4. PICK c : c = Book(b, x)
  OBVIOUS
<1>5. \A k \in 0 .. Never : Sums(c.left)[k] = s[k] + (IF k < y THEN 0 ELSE m)
  <2>1. \A k \in 0 .. Never :
          Sums(c.left)[k] = Sums(b.left)[k] + (IF k < x.expires THEN 0 ELSE x.minutes)
    BY <1>4, GrantLeaves
  <2> QED
    BY <1>1, <1>2, <1>3, <2>1
<1>6. c.owed = b.owed
  BY <1>4, GrantLeaves
<1>7. e - 1 \in 0 .. Never /\ Never \in 0 .. Never /\ ~(Never < y) /\ (e - 1 < y <=> e <= y)
  BY DaysAreInt
<1>8. PICK t, v \in Nat : t = s[Never] /\ v = s[e - 1]
  BY <1>3, <1>7
<1>9. Usable(c, e) = (t + m) - (v + (IF e <= y THEN 0 ELSE m))
  BY <1>5, <1>7, <1>8 DEF Usable
<1>10. Usable(b, e) = t - v
  BY <1>3, <1>8 DEF Usable
<1>11. Usable(c, e) = (t - v) + (IF e <= y THEN m ELSE 0)
  BY <1>9
<1> QED
  BY <1>1, <1>2, <1>4, <1>6, <1>10, <1>11

LEMMA EmptyHasNothing ==
  /\ Empty.owed = 0
  /\ \A e \in 1 .. Never : Usable(Empty, e) = 0
<1>1. PICK left : left = [e \in Expiries |-> 0]
  OBVIOUS
<1>2. left \in [Expiries -> Nat] /\ \A n \in 1 .. Never : left[n] = 0
  BY <1>1, DaysAreInt
<1>3. Empty = [left |-> left, owed |-> 0, lapsed |-> 0]
  BY <1>1 DEF Empty
<1>4. PICK f : f = [n \in 0 .. Never |-> 0]
  OBVIOUS
<1>5. f[0] = 0 /\ \A n \in 1 .. Never : f[n] = f[n - 1] + left[n]
  <2>1. \A n \in 1 .. Never : n \in 0 .. Never /\ n - 1 \in 0 .. Never
    BY DaysAreInt
  <2> QED
    BY <1>2, <1>4, <2>1, DaysAreInt
<1>6. \A n \in 0 .. Never : Sums(left)[n] = f[n]
  BY <1>2, <1>5, SumsAre
<1>7. \A e \in 1 .. Never : e - 1 \in 0 .. Never
  BY DaysAreInt
<1>8. \A e \in 1 .. Never : Sums(left)[Never] = 0 /\ Sums(left)[e - 1] = 0
  BY <1>4, <1>6, <1>7, DaysAreInt
<1> QED
  BY <1>3, <1>8 DEF Usable

\* What is available on a day is what can be used on it, less what is owed.
LEMMA AvailableIsUsable ==
  ASSUME NEW b \in Buckets, NEW day \in LedgerDays
  PROVE  Available(Lapse(b, day)) = Usable(b, day) - b.owed
<1>1. day \in 1 .. Never /\ day \in 0 .. Never /\ Never \in 0 .. Never /\ ~(Never < day)
      /\ AtLeastZero(day - 1) = day - 1
  BY DaysAreInt DEF LedgerDays, Never, AtLeastZero
<1>2. PICK s : s = Sums(b.left)
  OBVIOUS
<1>3. PICK c : c = Lapse(b, day)
  OBVIOUS
<1>4. c.owed = b.owed
  BY <1>1, <1>3, LapseLeaves
<1>5. \A k \in 0 .. Never : Sums(c.left)[k] = IF k < day THEN 0 ELSE s[k] - s[AtLeastZero(day - 1)]
  <2>1. \A k \in 0 .. Never :
          Sums(c.left)[k]
            = IF k < day THEN 0 ELSE Sums(b.left)[k] - Sums(b.left)[AtLeastZero(day - 1)]
    BY <1>1, <1>3, LapseLeaves
  <2> QED
    BY <1>2, <2>1
<1>6. Sums(c.left)[Never] = s[Never] - s[day - 1]
  BY <1>1, <1>5
<1>7. Left(c) = Sums(c.left)[Never]
  BY LeftIsSum
<1> QED
  BY <1>2, <1>3, <1>4, <1>6, <1>7 DEF Available, Usable

Weights == [Entries -> Nat]

\* What the entries up to each place weigh.
Weighs(l, g, t) == t = [n \in 0 .. Len(l) |-> IF n = 0 THEN 0 ELSE t[n - 1] + g[l[n]]]

WeightTo(l, g) == CHOOSE t : Weighs(l, g, t)

LEMMA WeightDefined ==
  ASSUME NEW l \in Seq(Entries), NEW g \in Weights
  PROVE  /\ WeightTo(l, g)[0] = 0
         /\ \A n \in 0 .. Len(l) : WeightTo(l, g)[n] \in Nat
         /\ \A n \in 1 .. Len(l) : WeightTo(l, g)[n] = WeightTo(l, g)[n - 1] + g[l[n]]
<1>1. PICK N : N = Len(l)
  OBVIOUS
<1>2. N \in Nat /\ \A n \in 1 .. N : l[n] \in Entries
  BY <1>1
<1>3. PICK c : c = [n \in 1 .. N |-> g[l[n]]]
  OBVIOUS
<1>4. \A n \in 1 .. N : c[n] = g[l[n]] /\ c[n] \in Nat
  BY <1>2, <1>3 DEF Weights
<1> DEFINE step == [n \in 1 .. N |-> [x \in Nat |-> x + c[n]]]
<1>5. step \in [1 .. N -> [Nat -> Nat]]
  BY <1>4
<1>6. \A n \in 1 .. N : \A x \in Nat : step[n][x] = x + c[n]
  OBVIOUS
<1> HIDE DEF step
<1>7. HasSteps(N, Nat, 0, step)
  <2>1. PICK X : X = Nat
    OBVIOUS
  <2>2. 0 \in X /\ step \in [1 .. N -> [X -> X]]
    BY <1>5, <2>1
  <2>3. HasSteps(N, X, 0, step)
    BY <1>2, <2>2, StepsExist
  <2> QED
    BY <2>1, <2>3
<1>8. PICK f \in [0 .. N -> Nat] : f[0] = 0 /\ \A n \in 1 .. N : f[n] = step[n][f[n - 1]]
  BY <1>7 DEF HasSteps
<1>9. \A n \in 1 .. N : n \in 0 .. N /\ n - 1 \in 0 .. N /\ n # 0
  BY <1>2
<1>10. \A n \in 1 .. N : f[n] = f[n - 1] + g[l[n]]
  <2>1. \A n \in 1 .. N : f[n - 1] \in Nat
    BY <1>9
  <2>2. \A n \in 1 .. N : f[n] = f[n - 1] + c[n]
    BY <1>6, <1>8, <2>1
  <2> QED
    BY <1>4, <2>2
<1>11. \A n \in 0 .. N : n # 0 => n \in 1 .. N
  BY <1>2
<1>12. \A n \in 0 .. N : f[n] = IF n = 0 THEN 0 ELSE f[n - 1] + g[l[n]]
  BY <1>8, <1>10, <1>11
<1>13. Weighs(l, g, f)
  BY <1>1, <1>8, <1>12 DEF Weighs
<1>14. PICK t : t = WeightTo(l, g)
  OBVIOUS
<1>15. Weighs(l, g, t)
  BY <1>13, <1>14, Zenon DEF WeightTo
<1>16. \A n \in 0 .. N : t[n] = IF n = 0 THEN 0 ELSE t[n - 1] + g[l[n]]
  BY <1>1, <1>15 DEF Weighs
<1>17. t[0] = 0 /\ \A n \in 1 .. N : t[n] = t[n - 1] + g[l[n]]
  BY <1>2, <1>9, <1>16
<1>18. \A n \in 0 .. N : t[n] \in Nat
  <2>1. PICK T : T = {n \in Nat : n <= N => t[n] \in Nat}
    OBVIOUS
  <2>2. 0 \in T
    BY <1>17, <2>1
  <2>3. ASSUME NEW n \in Nat, n < N, n \in T PROVE n + 1 \in T
    <3>1. n + 1 \in 1 .. N /\ (n + 1) - 1 = n /\ t[n] \in Nat
      BY <1>2, <2>1, <2>3
    <3>2. t[n + 1] = t[n] + c[n + 1] /\ c[n + 1] \in Nat
      BY <1>4, <1>17, <3>1
    <3> QED
      BY <2>1, <3>1, <3>2
  <2>4. \A n \in 0 .. N : n \in T
    BY <1>2, <2>2, <2>3, Climb
  <2> QED
    BY <1>2, <2>1, <2>4
<1> QED
  BY <1>1, <1>14, <1>17, <1>18

\* A weight is nothing exactly when no entry has any.
LEMMA WeighsNothing ==
  ASSUME NEW l \in Seq(Entries), NEW g \in Weights, NEW m \in 0 .. Len(l)
  PROVE  WeightTo(l, g)[m] = 0 <=> \A i \in 1 .. m : g[l[i]] = 0
<1>1. PICK N \in Nat : N = Len(l)
  OBVIOUS
<1>2. PICK t : t = WeightTo(l, g)
  OBVIOUS
<1>3. /\ t[0] = 0 /\ \A n \in 0 .. N : t[n] \in Nat
      /\ \A n \in 1 .. N : t[n] = t[n - 1] + g[l[n]]
  BY <1>1, <1>2, WeightDefined
<1>4. PICK T : T = {n \in Nat : n <= N => (t[n] = 0 <=> \A i \in 1 .. n : g[l[i]] = 0)}
  OBVIOUS
<1>5. 0 \in T
  BY <1>3, <1>4
<1>6. ASSUME NEW n \in Nat, n < N, n \in T PROVE n + 1 \in T
  <2>1. n + 1 \in 1 .. N /\ (n + 1) - 1 = n /\ n \in 0 .. N
    BY <1>6
  <2>2. PICK u, v \in Nat : u = t[n] /\ v = g[l[n + 1]]
    <3>1. l[n + 1] \in Entries
      BY <1>1, <2>1
    <3> QED
      BY <1>3, <2>1, <3>1 DEF Weights
  <2>3. t[n + 1] = u + v
    BY <1>3, <2>1, <2>2
  <2>4. t[n + 1] = 0 <=> u = 0 /\ v = 0
    BY <2>3
  <2>5. u = 0 <=> \A i \in 1 .. n : g[l[i]] = 0
    BY <1>4, <1>6, <2>2
  <2>6. (\A i \in 1 .. n + 1 : g[l[i]] = 0) <=> (\A i \in 1 .. n : g[l[i]] = 0) /\ g[l[n + 1]] = 0
    <3>1. 1 .. n + 1 = (1 .. n) \cup {n + 1}
      OBVIOUS
    <3> QED
      BY <3>1
  <2> QED
    BY <1>4, <2>2, <2>4, <2>5, <2>6
<1>7. \A n \in 0 .. N : n \in T
  BY <1>5, <1>6, Climb
<1> QED
  BY <1>1, <1>2, <1>4, <1>7

\* An entry that is inserted adds its weight.
LEMMA InsertAddsWeight ==
  ASSUME NEW l \in Seq(Entries), NEW x \in Entries, NEW p \in 1 .. Len(l) + 1, NEW g \in Weights
  PROVE  WeightTo(InsertAt(l, p, x), g)[Len(InsertAt(l, p, x))] = WeightTo(l, g)[Len(l)] + g[x]
<1>1. PICK N \in Nat : N = Len(l)
  OBVIOUS
<1>2. PICK k \in Seq(Entries) :
        /\ k = InsertAt(l, p, x) /\ Len(k) = Len(l) + 1
        /\ \A i \in 1 .. Len(l) + 1 : k[i] = IF i < p THEN l[i] ELSE IF i = p THEN x ELSE l[i - 1]
  <2>1. /\ InsertAt(l, p, x) \in Seq(Entries) /\ Len(InsertAt(l, p, x)) = Len(l) + 1
        /\ \A i \in 1 .. Len(l) + 1 :
             InsertAt(l, p, x)[i] = IF i < p THEN l[i] ELSE IF i = p THEN x ELSE l[i - 1]
    BY InsertedIs
  <2> QED
    BY <2>1
<1>3. Len(k) = N + 1 /\ p \in 1 .. N + 1
      /\ \A i \in 1 .. N + 1 : k[i] = IF i < p THEN l[i] ELSE IF i = p THEN x ELSE l[i - 1]
  BY <1>1, <1>2
<1>4. PICK t, s : t = WeightTo(l, g) /\ s = WeightTo(k, g)
  OBVIOUS
<1>5. /\ t[0] = 0 /\ \A n \in 0 .. N : t[n] \in Nat
      /\ \A n \in 1 .. N : t[n] = t[n - 1] + g[l[n]]
  BY <1>1, <1>4, WeightDefined
<1>6. /\ s[0] = 0 /\ \A n \in 0 .. N + 1 : s[n] \in Nat
      /\ \A n \in 1 .. N + 1 : s[n] = s[n - 1] + g[k[n]]
  BY <1>2, <1>3, <1>4, WeightDefined
<1>7. PICK y \in Nat : y = g[x]
  BY DEF Weights
<1>8. \A n \in 1 .. N : l[n] \in Entries /\ g[l[n]] \in Nat
  BY <1>1 DEF Weights
<1>9. PICK T : T = {n \in Nat : n <= N + 1 => s[n] = IF n < p THEN t[n] ELSE t[n - 1] + y}
  OBVIOUS
<1>10. 0 \in T
  BY <1>3, <1>5, <1>6, <1>9
<1>11. ASSUME NEW n \in Nat, n < N + 1, n \in T PROVE n + 1 \in T
  <2>1. PICK m \in Nat : m = n + 1
    OBVIOUS
  <2>2. m \in 1 .. N + 1 /\ m - 1 = n
    BY <1>11, <2>1
  <2>3. s[n] = IF n < p THEN t[n] ELSE t[n - 1] + y
    BY <1>9, <1>11
  <2>4. s[m] = s[n] + g[k[m]]
    BY <1>6, <2>2
  <2>5. CASE m < p
    <3>1. k[m] = l[m] /\ m \in 1 .. N /\ n < p
      BY <1>3, <2>1, <2>2, <2>5
    <3>2. t[m] = t[n] + g[l[m]]
      BY <1>5, <2>2, <3>1
    <3>3. s[m] = t[m]
      BY <2>3, <2>4, <3>1, <3>2
    <3> QED
      BY <1>9, <2>1, <2>5, <3>3
  <2>6. CASE m = p
    <3>1. k[m] = x /\ n < p
      BY <1>3, <2>1, <2>2, <2>6
    <3>2. s[m] = t[n] + y
      BY <1>7, <2>3, <2>4, <3>1
    <3>3. s[m] = t[m - 1] + y
      BY <2>2, <3>2
    <3> QED
      BY <1>9, <2>1, <2>6, <3>3
  <2>7. CASE m > p
    <3>1. k[m] = l[n] /\ n \in 1 .. N /\ ~(n < p)
      BY <1>3, <2>1, <2>2, <2>7
    <3>2. PICK a, w \in Nat : a = t[n - 1] /\ w = g[l[n]]
      <4>1. n - 1 \in 0 .. N
        BY <3>1
      <4> QED
        BY <1>5, <1>8, <3>1, <4>1
    <3>3. t[n] = a + w
      BY <1>5, <3>1, <3>2
    <3>4. s[n] = a + y
      BY <2>3, <3>1, <3>2
    <3>5. s[m] = (a + y) + w
      BY <2>4, <3>1, <3>2, <3>4
    <3>6. s[m] = t[m - 1] + y
      BY <2>2, <3>3, <3>5
    <3> QED
      BY <1>9, <2>1, <2>7, <3>6
  <2> QED
    BY <1>3, <2>2, <2>5, <2>6, <2>7
<1>12. \A n \in 0 .. N + 1 : n \in T
  <2>1. PICK M \in Nat : M = N + 1
    OBVIOUS
  <2>2. \A n \in Nat : n < M /\ n \in T => n + 1 \in T
    BY <1>11, <2>1
  <2>3. \A n \in 0 .. M : n \in T
    BY <1>10, <2>2, Climb
  <2> QED
    BY <2>1, <2>3
<1>13. s[N + 1] = t[N] + y
  <2>1. N + 1 \in 0 .. N + 1 /\ ~(N + 1 < p) /\ (N + 1) - 1 = N
    BY <1>3
  <2>2. N + 1 \in T
    BY <1>12, <2>1
  <2> QED
    BY <1>9, <2>1, <2>2
<1>14. WeightTo(InsertAt(l, p, x), g)[Len(InsertAt(l, p, x))] = s[N + 1]
  <2>1. WeightTo(k, g)[Len(k)] = s[N + 1]
    BY <1>3, <1>4
  <2>2. k = InsertAt(l, p, x)
    BY <1>2
  <2> QED
    BY <2>1, <2>2, Zenon
<1>15. WeightTo(l, g)[Len(l)] + g[x] = t[N] + y
  BY <1>1, <1>4, <1>7
<1> QED
  BY <1>13, <1>14, <1>15

\* The minutes that are taken on a day, and those given on it that can be used on a later one.
Taken(d) == [x \in Entries |-> IF x.on = d /\ x.minutes < 0 THEN -x.minutes ELSE 0]
Given(d, e) ==
  [x \in Entries |-> IF x.on = d /\ x.minutes > 0 /\ e <= x.expires THEN x.minutes ELSE 0]

LEMMA TheyWeigh == \A d, e : Taken(d) \in Weights /\ Given(d, e) \in Weights
<1>1. ASSUME NEW x \in Entries, NEW d
      PROVE  (IF x.on = d /\ x.minutes < 0 THEN -x.minutes ELSE 0) \in Nat
  BY DEF Entries
<1>2. ASSUME NEW x \in Entries, NEW d, NEW e
      PROVE  (IF x.on = d /\ x.minutes > 0 /\ e <= x.expires THEN x.minutes ELSE 0) \in Nat
  BY DEF Entries
<1> QED
  BY <1>1, <1>2 DEF Taken, Given, Weights

\* The buckets at the end of a day.
DayEnd(l, d) == Walk(l, d)[Len(l)]

LEMMA WalkFacts ==
  ASSUME NEW l \in Ledgers, \A i \in 1 .. Len(l) : ~l[i].reversed, NEW d \in Int
  PROVE  /\ Walk(l, d)[0] = Empty
         /\ \A n \in 0 .. Len(l) : Walk(l, d)[n] \in Buckets
         /\ \A n \in 1 .. Len(l) :
              Walk(l, d)[n] = IF l[n].on > d THEN Walk(l, d)[n - 1]
                              ELSE Book(Walk(l, d)[n - 1], l[n])
<1>1. l \in Seq(Entries)
  BY DEF Ledgers
<1>2. PICK w : w = Walk(l, d)
  OBVIOUS
<1>3. w[0] = Empty /\ (\A n \in 0 .. Len(l) : w[n] \in Buckets)
      /\ \A n \in 1 .. Len(l) : w[n] = IF l[n].reversed \/ l[n].on > d THEN w[n - 1]
                                       ELSE Book(w[n - 1], l[n])
  BY <1>1, <1>2, WalkDefined
<1>4. \A n \in 1 .. Len(l) : w[n] = IF l[n].on > d THEN w[n - 1] ELSE Book(w[n - 1], l[n])
  BY <1>3
<1> QED
  BY <1>2, <1>3, <1>4

LEMMA LedgerFacts ==
  ASSUME NEW l \in Ledgers
  PROVE  /\ l \in Seq(Entries) /\ Len(l) \in Nat
         /\ \A i \in 1 .. Len(l) : l[i] \in Entries /\ l[i].on \in Int /\ l[i].minutes \in Int
                                   /\ l[i].minutes # 0
         /\ \A i, j \in 1 .. Len(l) : i < j => l[i].on <= l[j].on
<1>1. l \in Seq(Entries) /\ Len(l) \in Nat /\ \A i \in 1 .. Len(l) : l[i] \in Entries
  BY DEF Ledgers
<1>2. \A x \in Entries : x.on \in Int /\ x.minutes \in Int /\ x.minutes # 0
  BY DaysOfMonth DEF Entries
<1>3. \A i, j \in 1 .. Len(l) : i < j => l[i].on <= l[j].on
  BY <1>1 DEF Ledgers
<1> QED
  BY <1>1, <1>2, <1>3

\* Before the entries of a day its walk is the walk of the day before.
LEMMA WalksAgreeBefore ==
  ASSUME NEW l \in Ledgers, \A i \in 1 .. Len(l) : ~l[i].reversed, NEW d \in Int,
         NEW m \in 0 .. Len(l), \A i \in 1 .. m : l[i].on < d
  PROVE  Walk(l, d)[m] = Walk(l, d - 1)[m]
<1>1. PICK c \in Int : c = d - 1
  OBVIOUS
<1>2. PICK u, v : u = Walk(l, c) /\ v = Walk(l, d)
  OBVIOUS
<1>3. PICK N \in Nat : N = Len(l)
  BY LedgerFacts
<1>4. u[0] = v[0]
  BY <1>2, WalkFacts
<1>5. \A n \in 1 .. N : u[n] = IF l[n].on > c THEN u[n - 1] ELSE Book(u[n - 1], l[n])
  BY <1>2, <1>3, WalkFacts
<1>6. \A n \in 1 .. N : v[n] = IF l[n].on > d THEN v[n - 1] ELSE Book(v[n - 1], l[n])
  BY <1>2, <1>3, WalkFacts
<1>7. PICK M \in Nat : M = m
  BY <1>3
<1>8. PICK T : T = {n \in Nat : n <= M => u[n] = v[n]}
  OBVIOUS
<1>9. 0 \in T
  BY <1>4, <1>8
<1>10. ASSUME NEW n \in Nat, n < M, n \in T PROVE n + 1 \in T
  <2>1. n + 1 \in 1 .. N /\ (n + 1) - 1 = n /\ n + 1 \in 1 .. m
    BY <1>3, <1>7, <1>10
  <2>2. l[n + 1].on \in Int /\ l[n + 1].on < d
    BY <1>3, <2>1, LedgerFacts
  <2>3. ~(l[n + 1].on > c) /\ ~(l[n + 1].on > d)
    BY <1>1, <2>2
  <2>4. u[n] = v[n]
    BY <1>8, <1>10
  <2>5. u[n + 1] = v[n + 1]
    BY <1>5, <1>6, <2>1, <2>3, <2>4
  <2> QED
    BY <1>8, <2>5
<1>11. \A n \in 0 .. M : n \in T
  BY <1>9, <1>10, Climb
<1> QED
  BY <1>1, <1>2, <1>7, <1>8, <1>11

LEMMA TakeAgain ==
  ASSUME NEW uf \in Nat, NEW ud \in Nat, uf <= ud, NEW t \in Nat, NEW k \in Nat
  PROVE  Smaller(Smaller(uf, AtLeastZero(ud - t)),
                 AtLeastZero(Smaller(ud, AtLeastZero(ud - t)) - k))
           = Smaller(uf, AtLeastZero(ud - (t + k)))
BY DEF Smaller, AtLeastZero

LEMMA OweAgain ==
  ASSUME NEW ud \in Nat, NEW t \in Nat, NEW k \in Nat, NEW o \in Nat
  PROVE  o + AtLeastZero(t - ud) + AtLeastZero(k - Smaller(ud, AtLeastZero(ud - t)))
           = o + AtLeastZero((t + k) - ud)
BY DEF Smaller, AtLeastZero

\* A day on which leave is only taken.
LEMMA DayOfTakes ==
  ASSUME NEW l \in Ledgers, \A i \in 1 .. Len(l) : ~l[i].reversed, NEW d \in LedgerDays,
         \A i \in 1 .. Len(l) : l[i].on = d => l[i].minutes < 0
  PROVE  /\ \A f \in d .. Never :
              Usable(DayEnd(l, d), f)
                = Smaller(Usable(DayEnd(l, d - 1), f),
                          AtLeastZero(Usable(DayEnd(l, d - 1), d) - WeightTo(l, Taken(d))[Len(l)]))
         /\ DayEnd(l, d).owed
              = DayEnd(l, d - 1).owed
                + AtLeastZero(WeightTo(l, Taken(d))[Len(l)] - Usable(DayEnd(l, d - 1), d))
<1>1. PICK c \in Int : c = d - 1 /\ d \in Int /\ d \in 1 .. Never /\ c < d
  BY DaysAreInt DEF LedgerDays, Never
<1>2. PICK u, v, t : u = Walk(l, c) /\ v = Walk(l, d) /\ t = WeightTo(l, Taken(d))
  OBVIOUS
<1>3. PICK N \in Nat : N = Len(l)
  BY LedgerFacts
<1>4. /\ \A i \in 1 .. N : l[i] \in Entries /\ l[i].on \in Int /\ l[i].minutes \in Int
      /\ \A i, j \in 1 .. N : i < j => l[i].on <= l[j].on
  BY <1>3, LedgerFacts
<1>5. /\ u[0] = Empty /\ \A n \in 0 .. N : u[n] \in Buckets
      /\ \A n \in 1 .. N : u[n] = IF l[n].on > c THEN u[n - 1] ELSE Book(u[n - 1], l[n])
  BY <1>2, <1>3, WalkFacts
<1>6. /\ v[0] = Empty /\ \A n \in 0 .. N : v[n] \in Buckets
      /\ \A n \in 1 .. N : v[n] = IF l[n].on > d THEN v[n - 1] ELSE Book(v[n - 1], l[n])
  BY <1>1, <1>2, <1>3, WalkFacts
<1>7. /\ t[0] = 0 /\ \A n \in 0 .. N : t[n] \in Nat
      /\ \A n \in 1 .. N : t[n] = t[n - 1] + Taken(d)[l[n]]
  BY <1>2, <1>3, LedgerFacts, TheyWeigh, WeightDefined
<1>8. \A i \in 1 .. N :
        Taken(d)[l[i]] = IF l[i].on = d /\ l[i].minutes < 0 THEN -l[i].minutes ELSE 0
  BY <1>4 DEF Taken
<1> DEFINE FitsAt(n) ==
      /\ \A f \in d .. Never :
           Usable(v[n], f) = Smaller(Usable(u[n], f), AtLeastZero(Usable(u[n], d) - t[n]))
      /\ v[n].owed = u[n].owed + AtLeastZero(t[n] - Usable(u[n], d))
<1>9. ASSUME NEW n \in 0 .. N, u[n] = v[n], t[n] = 0 PROVE FitsAt(n)
  <2>1. u[n] \in Buckets /\ u[n].owed \in Nat
    BY <1>5 DEF Buckets
  <2>2. ASSUME NEW f \in d .. Never
        PROVE  Usable(u[n], f) = Smaller(Usable(u[n], f), AtLeastZero(Usable(u[n], d) - 0))
    <3>1. f \in 1 .. Never /\ d <= f
      BY <1>1
    <3>2. Usable(u[n], d) \in Nat /\ Usable(u[n], f) \in Nat /\ Usable(u[n], f) <= Usable(u[n], d)
      BY <1>1, <2>1, <3>1, UsableShrinks
    <3> QED
      BY <3>2 DEF Smaller, AtLeastZero
  <2>3. AtLeastZero(0 - Usable(u[n], d)) = 0
    <3>1. Usable(u[n], d) \in Nat
      BY <1>1, <2>1, UsableShrinks
    <3> QED
      BY <3>1 DEF AtLeastZero
  <2>4. v[n].owed = u[n].owed + AtLeastZero(t[n] - Usable(u[n], d))
    BY <1>9, <2>1, <2>3
  <2> QED
    BY <1>9, <2>2, <2>4
<1>10. FitsAt(0)
  BY <1>5, <1>6, <1>7, <1>9
<1>11. ASSUME NEW n \in 0 .. N, n < N, FitsAt(n) PROVE FitsAt(n + 1)
  <2>1. PICK m \in 1 .. N : m = n + 1 /\ m - 1 = n /\ m \in 0 .. N
    BY <1>11
  <2>2. PICK x \in Entries : x = l[m] /\ x.on \in Int /\ x.minutes \in Int
    BY <1>4
  <2>3. CASE x.on < d
    <3>1. \A i \in 1 .. m : l[i].on < d
      <4>1. \A i \in 1 .. m : i # m => i \in 1 .. N /\ i < m
        OBVIOUS
      <4>2. \A i \in 1 .. m : i # m => l[i].on \in Int /\ l[i].on <= l[m].on
        BY <1>4, <4>1
      <4> QED
        BY <1>1, <2>2, <2>3, <4>2
    <3>2. u[m] = v[m]
      BY <1>1, <1>2, <1>3, <2>1, <3>1, WalksAgreeBefore
    <3>3. t[m] = 0
      <4>1. \A i \in 1 .. m : Taken(d)[l[i]] = 0
        <5>1. \A i \in 1 .. m : i \in 1 .. N /\ l[i].on # d
          BY <1>1, <1>4, <3>1
        <5> QED
          BY <1>8, <5>1
      <4> QED
        BY <1>2, <1>3, <2>1, <4>1, LedgerFacts, TheyWeigh, WeighsNothing
    <3>4. FitsAt(m)
      BY <1>9, <2>1, <3>2, <3>3
    <3> QED
      BY <2>1, <3>4
  <2>4. CASE x.on = d
    <3>1. x.minutes < 0
      BY <1>3, <2>1, <2>2, <2>4
    <3>2. u[m] = u[n] /\ v[m] = Book(v[n], x)
      <4>1. l[m].on > c /\ ~(l[m].on > d)
        BY <1>1, <2>2, <2>4
      <4> QED
        BY <1>5, <1>6, <2>1, <2>2, <4>1
    <3>3. PICK k \in Nat : k = -x.minutes /\ x.minutes = -k
      BY <2>2, <3>1
    <3>4. t[m] = t[n] + k
      BY <1>7, <1>8, <2>1, <2>2, <2>4, <3>1, <3>3
    <3>5. u[n] \in Buckets /\ v[n] \in Buckets /\ u[n].owed \in Nat /\ t[n] \in Nat
      BY <1>5, <1>6, <1>7 DEF Buckets
    <3>6. PICK ud, tn, o \in Nat : ud = Usable(u[n], d) /\ tn = t[n] /\ o = u[n].owed
      BY <1>1, <3>5, UsableShrinks
    <3>7. /\ Usable(v[n], d) = Smaller(ud, AtLeastZero(ud - tn))
          /\ v[n].owed = o + AtLeastZero(tn - ud)
      BY <1>1, <1>11, <3>6
    <3>8. ASSUME NEW f \in d .. Never
          PROVE  Usable(v[m], f) = Smaller(Usable(u[m], f), AtLeastZero(Usable(u[m], d) - t[m]))
      <4>1. f \in 1 .. Never /\ d <= f
        BY <1>1
      <4>2. PICK uf \in Nat : uf = Usable(u[n], f) /\ uf <= ud
        BY <1>1, <3>5, <3>6, <4>1, UsableShrinks
      <4>3. Usable(v[n], f) = Smaller(uf, AtLeastZero(ud - tn))
        BY <1>11, <3>6, <4>2
      <4>4. Usable(v[m], f) = Smaller(Usable(v[n], f), AtLeastZero(Usable(v[n], d) + x.minutes))
        BY <2>4, <3>1, <3>2, <3>5, <4>1, TakeUses
      <4>5. Usable(v[n], d) + x.minutes = Usable(v[n], d) - k
        <5>1. Smaller(ud, AtLeastZero(ud - tn)) \in Int
          BY DEF Smaller, AtLeastZero
        <5> QED
          BY <3>3, <3>7, <5>1
      <4>6. Usable(v[m], f) = Smaller(uf, AtLeastZero(ud - (tn + k)))
        <5>1. Usable(v[m], f)
                = Smaller(Smaller(uf, AtLeastZero(ud - tn)),
                          AtLeastZero(Smaller(ud, AtLeastZero(ud - tn)) - k))
          BY <3>7, <4>3, <4>4, <4>5
        <5>2. Smaller(Smaller(uf, AtLeastZero(ud - tn)),
                      AtLeastZero(Smaller(ud, AtLeastZero(ud - tn)) - k))
                = Smaller(uf, AtLeastZero(ud - (tn + k)))
          BY <4>2, TakeAgain
        <5> QED
          BY <5>1, <5>2
      <4> QED
        BY <3>2, <3>4, <3>6, <4>2, <4>6
    <3>9. v[m].owed = u[m].owed + AtLeastZero(t[m] - Usable(u[m], d))
      <4>1. v[m].owed = v[n].owed + AtLeastZero((-x.minutes) - Usable(v[n], d))
        BY <1>1, <2>4, <3>1, <3>2, <3>5, TakeUses
      <4>2. v[m].owed
              = o + AtLeastZero(tn - ud) + AtLeastZero(k - Smaller(ud, AtLeastZero(ud - tn)))
        BY <3>3, <3>7, <4>1
      <4>3. v[m].owed = o + AtLeastZero((tn + k) - ud)
        BY <4>2, OweAgain
      <4> QED
        BY <3>2, <3>4, <3>6, <4>3
    <3> QED
      BY <2>1, <3>8, <3>9
  <2>5. CASE x.on > d
    <3>1. u[m] = u[n] /\ v[m] = v[n]
      <4>1. l[m].on > c /\ l[m].on > d
        BY <1>1, <2>2, <2>5
      <4> QED
        BY <1>5, <1>6, <2>1, <4>1
    <3>2. t[m] = t[n]
      <4>1. Taken(d)[x] = 0
        BY <1>1, <1>8, <2>1, <2>2, <2>5
      <4>2. t[n] \in Nat
        BY <1>7
      <4> QED
        BY <1>7, <2>1, <2>2, <4>1, <4>2
    <3>3. FitsAt(m)
      BY <1>11, <3>1, <3>2
    <3> QED
      BY <2>1, <3>3
  <2> QED
    BY <1>1, <2>2, <2>3, <2>4, <2>5
<1>12. FitsAt(N)
  <2> PICK T : T = {n \in Nat : n <= N => FitsAt(n)}
    OBVIOUS
  <2> HIDE DEF FitsAt
  <2>1. 0 \in T
    BY <1>10
  <2>2. \A n \in Nat : n < N /\ n \in T => n + 1 \in T
    BY <1>11
  <2>3. \A n \in 0 .. N : n \in T
    BY <2>1, <2>2, Climb
  <2> QED
    BY <2>3
<1>13. DayEnd(l, d) = v[N] /\ DayEnd(l, d - 1) = u[N] /\ WeightTo(l, Taken(d))[Len(l)] = t[N]
  BY <1>1, <1>2, <1>3 DEF DayEnd
<1> QED
  BY <1>12, <1>13

\* A day on which no leave is taken.
LEMMA DayOfGrants ==
  ASSUME NEW l \in Ledgers, \A i \in 1 .. Len(l) : ~l[i].reversed, NEW d \in LedgerDays,
         \A i \in 1 .. Len(l) : l[i].on = d => l[i].minutes > 0, NEW f \in d .. Never
  PROVE  /\ Usable(DayEnd(l, d), f)
              = Usable(DayEnd(l, d - 1), f) + WeightTo(l, Given(d, f))[Len(l)]
         /\ DayEnd(l, d).owed = DayEnd(l, d - 1).owed
<1>1. PICK c \in Int : c = d - 1 /\ d \in Int /\ d \in 1 .. Never /\ c < d /\ f \in 1 .. Never
  BY DaysAreInt DEF LedgerDays, Never
<1>2. PICK u, v, t : u = Walk(l, c) /\ v = Walk(l, d) /\ t = WeightTo(l, Given(d, f))
  OBVIOUS
<1>3. PICK N \in Nat : N = Len(l)
  BY LedgerFacts
<1>4. /\ \A i \in 1 .. N : l[i] \in Entries /\ l[i].on \in Int /\ l[i].minutes \in Int
      /\ \A i, j \in 1 .. N : i < j => l[i].on <= l[j].on
  BY <1>3, LedgerFacts
<1>5. /\ u[0] = Empty /\ \A n \in 0 .. N : u[n] \in Buckets
      /\ \A n \in 1 .. N : u[n] = IF l[n].on > c THEN u[n - 1] ELSE Book(u[n - 1], l[n])
  BY <1>2, <1>3, WalkFacts
<1>6. /\ v[0] = Empty /\ \A n \in 0 .. N : v[n] \in Buckets
      /\ \A n \in 1 .. N : v[n] = IF l[n].on > d THEN v[n - 1] ELSE Book(v[n - 1], l[n])
  BY <1>1, <1>2, <1>3, WalkFacts
<1>7. /\ t[0] = 0 /\ \A n \in 0 .. N : t[n] \in Nat
      /\ \A n \in 1 .. N : t[n] = t[n - 1] + Given(d, f)[l[n]]
  BY <1>2, <1>3, LedgerFacts, TheyWeigh, WeightDefined
<1>8. \A i \in 1 .. N :
        Given(d, f)[l[i]] = IF l[i].on = d /\ l[i].minutes > 0 /\ f <= l[i].expires
                            THEN l[i].minutes ELSE 0
  BY <1>4 DEF Given
<1> DEFINE FitsAt(n) == Usable(v[n], f) = Usable(u[n], f) + t[n] /\ v[n].owed = u[n].owed
<1>9. ASSUME NEW n \in 0 .. N, u[n] = v[n], t[n] = 0 PROVE FitsAt(n)
  <2>1. Usable(u[n], f) \in Nat
    BY <1>1, <1>5, UsableShrinks
  <2> QED
    BY <1>9, <2>1
<1>10. FitsAt(0)
  BY <1>5, <1>6, <1>7, <1>9
<1>11. ASSUME NEW n \in 0 .. N, n < N, FitsAt(n) PROVE FitsAt(n + 1)
  <2>1. PICK m \in 1 .. N : m = n + 1 /\ m - 1 = n /\ m \in 0 .. N
    BY <1>11
  <2>2. PICK x \in Entries : x = l[m] /\ x.on \in Int /\ x.minutes \in Int
    BY <1>4
  <2>3. CASE x.on < d
    <3>1. \A i \in 1 .. m : l[i].on < d
      <4>1. \A i \in 1 .. m : i # m => i \in 1 .. N /\ i < m
        OBVIOUS
      <4>2. \A i \in 1 .. m : i # m => l[i].on \in Int /\ l[i].on <= l[m].on
        BY <1>4, <4>1
      <4> QED
        BY <1>1, <2>2, <2>3, <4>2
    <3>2. u[m] = v[m]
      BY <1>1, <1>2, <1>3, <2>1, <3>1, WalksAgreeBefore
    <3>3. t[m] = 0
      <4>1. \A i \in 1 .. m : Given(d, f)[l[i]] = 0
        <5>1. \A i \in 1 .. m : i \in 1 .. N /\ l[i].on # d
          BY <1>1, <1>4, <3>1
        <5> QED
          BY <1>8, <5>1
      <4> QED
        BY <1>2, <1>3, <2>1, <4>1, LedgerFacts, TheyWeigh, WeighsNothing
    <3>4. FitsAt(m)
      BY <1>9, <2>1, <3>2, <3>3
    <3> QED
      BY <2>1, <3>4
  <2>4. CASE x.on = d
    <3>1. x.minutes > 0
      BY <1>3, <2>1, <2>2, <2>4
    <3>2. u[m] = u[n] /\ v[m] = Book(v[n], x)
      <4>1. l[m].on > c /\ ~(l[m].on > d)
        BY <1>1, <2>2, <2>4
      <4> QED
        BY <1>5, <1>6, <2>1, <2>2, <4>1
    <3>3. PICK k \in Nat : k = IF f <= x.expires THEN x.minutes ELSE 0
      BY <2>2, <3>1
    <3>4. t[m] = t[n] + k
      BY <1>7, <1>8, <2>1, <2>2, <2>4, <3>1, <3>3
    <3>5. v[n] \in Buckets /\ u[n] \in Buckets /\ t[n] \in Nat
      BY <1>5, <1>6, <1>7
    <3>6. Usable(v[m], f) = Usable(v[n], f) + k /\ v[m].owed = v[n].owed
      <4>1. PICK b \in Buckets : b = v[n]
        BY <3>5
      <4>2. f \in 1 .. Never
        BY <1>1
      <4>3. /\ Usable(Book(b, x), f) = Usable(b, f) + (IF f <= x.expires THEN x.minutes ELSE 0)
            /\ Book(b, x).owed = b.owed
        BY <3>1, <4>2, GrantAdds
      <4> QED
        BY <3>2, <3>3, <4>1, <4>3
    <3>7. PICK uf, tn \in Nat : uf = Usable(u[n], f) /\ tn = t[n]
      BY <1>1, <3>5, UsableShrinks
    <3>8. Usable(v[m], f) = (uf + tn) + k /\ t[m] = tn + k /\ Usable(u[m], f) = uf
      BY <1>11, <3>2, <3>4, <3>6, <3>7
    <3>9. Usable(v[m], f) = Usable(u[m], f) + t[m]
      BY <3>8
    <3> QED
      BY <1>11, <2>1, <3>2, <3>6, <3>9
  <2>5. CASE x.on > d
    <3>1. u[m] = u[n] /\ v[m] = v[n]
      <4>1. l[m].on > c /\ l[m].on > d
        BY <1>1, <2>2, <2>5
      <4> QED
        BY <1>5, <1>6, <2>1, <4>1
    <3>2. t[m] = t[n]
      <4>1. Given(d, f)[x] = 0
        BY <1>1, <1>8, <2>1, <2>2, <2>5
      <4>2. t[n] \in Nat
        BY <1>7
      <4> QED
        BY <1>7, <2>1, <2>2, <4>1, <4>2
    <3>3. FitsAt(m)
      BY <1>11, <3>1, <3>2
    <3> QED
      BY <2>1, <3>3
  <2> QED
    BY <1>1, <2>2, <2>3, <2>4, <2>5
<1>12. FitsAt(N)
  <2> PICK T : T = {n \in Nat : n <= N => FitsAt(n)}
    OBVIOUS
  <2> HIDE DEF FitsAt
  <2>1. 0 \in T
    BY <1>10
  <2>2. \A n \in Nat : n < N /\ n \in T => n + 1 \in T
    BY <1>11
  <2>3. \A n \in 0 .. N : n \in T
    BY <2>1, <2>2, Climb
  <2> QED
    BY <2>3
<1>13. /\ DayEnd(l, d) = v[N] /\ DayEnd(l, d - 1) = u[N]
       /\ WeightTo(l, Given(d, f))[Len(l)] = t[N]
  BY <1>1, <1>2, <1>3 DEF DayEnd
<1> QED
  BY <1>12, <1>13

Unreversed(l) == \A i \in 1 .. Len(l) : ~l[i].reversed

\* On no day leave was both taken and granted.
TakesApart(l) ==
  \A i, j \in 1 .. Len(l) : l[i].minutes > 0 /\ l[j].minutes < 0 => l[i].on # l[j].on

TakenOn(l, d) == WeightTo(l, Taken(d))[Len(l)]
GivenOn(l, d, f) == WeightTo(l, Given(d, f))[Len(l)]

LEMMA WeighedIsNat ==
  ASSUME NEW l \in Ledgers, NEW d, NEW f
  PROVE  TakenOn(l, d) \in Nat /\ GivenOn(l, d, f) \in Nat
<1>1. l \in Seq(Entries) /\ Len(l) \in 0 .. Len(l)
  BY LedgerFacts
<1>2. Taken(d) \in Weights /\ Given(d, f) \in Weights
  BY TheyWeigh
<1>3. WeightTo(l, Taken(d))[Len(l)] \in Nat
  BY <1>1, <1>2, WeightDefined
<1>4. WeightTo(l, Given(d, f))[Len(l)] \in Nat
  BY <1>1, <1>2, WeightDefined
<1> QED
  BY <1>3, <1>4 DEF TakenOn, GivenOn

LEMMA NoneTakenOn ==
  ASSUME NEW l \in Ledgers, NEW d
  PROVE  TakenOn(l, d) = 0 <=> \A i \in 1 .. Len(l) : l[i].on = d => l[i].minutes > 0
<1>1. /\ l \in Seq(Entries) /\ Len(l) \in 0 .. Len(l)
      /\ \A i \in 1 .. Len(l) : l[i] \in Entries /\ l[i].minutes \in Int /\ l[i].minutes # 0
  BY LedgerFacts
<1>2. TakenOn(l, d) = 0 <=> \A i \in 1 .. Len(l) : Taken(d)[l[i]] = 0
  BY <1>1, TheyWeigh, WeighsNothing DEF TakenOn
<1>3. ASSUME NEW i \in 1 .. Len(l)
      PROVE  Taken(d)[l[i]] = 0 <=> (l[i].on = d => l[i].minutes > 0)
  BY <1>1 DEF Taken
<1> QED
  BY <1>2, <1>3

LEMMA NoneGivenOn ==
  ASSUME NEW l \in Ledgers, NEW d
  PROVE  GivenOn(l, d, 1) = 0 <=> \A i \in 1 .. Len(l) : l[i].on = d => l[i].minutes < 0
<1>1. /\ l \in Seq(Entries) /\ Len(l) \in 0 .. Len(l)
      /\ \A i \in 1 .. Len(l) : /\ l[i] \in Entries /\ l[i].minutes \in Int /\ l[i].minutes # 0
                                /\ l[i].expires \in Expiries
  <2>1. \A x \in Entries : x.expires \in Expiries
    BY DEF Entries
  <2> QED
    BY <2>1, LedgerFacts
<1>2. GivenOn(l, d, 1) = 0 <=> \A i \in 1 .. Len(l) : Given(d, 1)[l[i]] = 0
  BY <1>1, TheyWeigh, WeighsNothing DEF GivenOn
<1>3. ASSUME NEW i \in 1 .. Len(l)
      PROVE  Given(d, 1)[l[i]] = 0 <=> (l[i].on = d => l[i].minutes < 0)
  <2>1. 1 <= l[i].expires
    BY <1>1, DaysAreInt
  <2> QED
    BY <1>1, <2>1 DEF Given
<1> QED
  BY <1>2, <1>3

\* No day of a ledger that keeps takes and grants apart sees both.
LEMMA ApartIs ==
  ASSUME NEW l \in Ledgers
  PROVE  TakesApart(l) <=> \A d \in LedgerDays : TakenOn(l, d) = 0 \/ GivenOn(l, d, 1) = 0
<1>1. \A i \in 1 .. Len(l) : l[i].on \in LedgerDays /\ l[i].minutes \in Int /\ l[i].minutes # 0
  <2>1. \A x \in Entries : x.on \in LedgerDays
    BY DEF Entries
  <2> QED
    BY <2>1, LedgerFacts
<1>2. ASSUME TakesApart(l), NEW d \in LedgerDays PROVE TakenOn(l, d) = 0 \/ GivenOn(l, d, 1) = 0
  <2>1. SUFFICES ASSUME NEW i \in 1 .. Len(l), l[i].on = d, ~(l[i].minutes > 0),
                        NEW j \in 1 .. Len(l), l[j].on = d, ~(l[j].minutes < 0)
                 PROVE  FALSE
    BY NoneTakenOn, NoneGivenOn
  <2>2. l[i].minutes < 0 /\ l[j].minutes > 0
    BY <1>1, <2>1
  <2> QED
    BY <1>2, <2>1, <2>2 DEF TakesApart
<1>3. ASSUME \A d \in LedgerDays : TakenOn(l, d) = 0 \/ GivenOn(l, d, 1) = 0,
             NEW i \in 1 .. Len(l), NEW j \in 1 .. Len(l),
             l[i].minutes > 0, l[j].minutes < 0, l[i].on = l[j].on
      PROVE  FALSE
  <2>1. PICK d \in LedgerDays : d = l[i].on /\ d = l[j].on
    BY <1>1, <1>3
  <2>2. TakenOn(l, d) # 0
    BY <1>1, <1>3, <2>1, NoneTakenOn
  <2>3. GivenOn(l, d, 1) # 0
    BY <1>1, <1>3, <2>1, NoneGivenOn
  <2> QED
    BY <1>3, <2>1, <2>2, <2>3
<1> QED
  BY <1>2, <1>3 DEF TakesApart

-----------------------------------------------------------------------------
(***************************************************************************)
(* What entries that are proposed or inserted add, wherever they stand.    *)
(***************************************************************************)

LEMMA LeastExists ==
  ASSUME NEW S \in SUBSET Nat, S # {}
  PROVE  \E p \in S : \A q \in S : p <= q
<1>1. PICK x \in S : \A y \in S : ~(<<y, x>> \in OpToRel(<, Nat))
  BY NatLessThanWellFounded, WFMin
<1>2. \A y \in S : <<y, x>> \in Nat \X Nat /\ <<y, x>>[1] = y /\ <<y, x>>[2] = x
  OBVIOUS
<1>3. \A y \in S : ~(y < x)
  BY <1>1, <1>2 DEF OpToRel
<1>4. \A y \in S : y \in Nat /\ x \in Nat
  OBVIOUS
<1> QED
  BY <1>3, <1>4

\* The first place an entry of a day may come to stand at.
LEMMA FirstPlaceExists ==
  ASSUME NEW l \in Ledgers, NEW day \in LedgerDays
  PROVE  \E p \in Places(l, day) : \A q \in Places(l, day) : p <= q
<1>1. PICK N \in Nat : N = Len(l)
  BY LedgerFacts
<1>2. /\ \A i \in 1 .. N : l[i].on \in Int
      /\ \A i, j \in 1 .. N : i < j => l[i].on <= l[j].on
  BY <1>1, LedgerFacts
<1>3. day \in Int
  BY DaysOfMonth
<1>4. PICK Q : Q = {p \in 1 .. N + 1 : \A i \in p .. N : l[i].on >= day}
  OBVIOUS
<1>5. Q \in SUBSET Nat /\ N + 1 \in Q
  BY <1>4
<1>6. PICK p \in Q : \A q \in Q : p <= q
  BY <1>5, LeastExists
<1>7. p \in 1 .. N + 1 /\ \A i \in p .. N : l[i].on >= day
  BY <1>4
<1>8. \A i \in 1 .. p - 1 : l[i].on <= day
  <2>1. SUFFICES ASSUME p - 1 \in 1 .. N PROVE \A i \in 1 .. p - 1 : l[i].on <= day
    BY <1>7
  <2>2. p - 1 \notin Q
    BY <1>6, <1>7
  <2>3. PICK i \in p - 1 .. N : ~(l[i].on >= day)
    BY <1>4, <1>7, <2>1, <2>2
  <2>4. i = p - 1
    BY <1>7, <2>1, <2>3
  <2>5. l[p - 1].on \in Int /\ l[p - 1].on < day
    BY <1>2, <1>3, <2>1, <2>3, <2>4
  <2>6. ASSUME NEW j \in 1 .. p - 1 PROVE l[j].on <= day
    <3>1. j \in 1 .. N /\ (j = p - 1 \/ j < p - 1)
      BY <1>7
    <3>2. l[j].on \in Int /\ l[j].on <= l[p - 1].on
      BY <1>2, <2>1, <3>1
    <3> QED
      BY <1>3, <2>5, <3>2
  <2> QED
    BY <2>6
<1>9. p \in Places(l, day)
  BY <1>1, <1>7, <1>8 DEF Places
<1>10. ASSUME NEW q \in Places(l, day) PROVE \E r \in Places(l, day) : r \in Nat
  BY <1>7, <1>9
<1>11. Places(l, day) \in SUBSET Nat /\ Places(l, day) # {}
  BY <1>1, <1>9 DEF Places
<1> QED
  BY <1>11, LeastExists

LEMMA ProposedIsPlaced ==
  ASSUME NEW l \in Ledgers, NEW x, x.on \in LedgerDays
  PROVE  \E p \in Places(l, x.on) : PlaceProposed(l, x) = InsertAt(l, p, x)
<1>1. PICK p : p = CHOOSE r \in Places(l, x.on) : \A q \in Places(l, x.on) : r <= q
  OBVIOUS
<1>2. p \in Places(l, x.on)
  BY <1>1, FirstPlaceExists
<1>3. PlaceProposed(l, x) = InsertAt(l, p, x)
  BY <1>1 DEF PlaceProposed
<1> QED
  BY <1>2, <1>3

LEMMA ProposedStaysIn ==
  ASSUME NEW l \in Ledgers, NEW xs, \A x \in xs : Sound(x),
         NEW A, l \in A[0], LeadsOn(A, xs)
  PROVE  WithProposed(l, xs) \in Ledgers /\ WithProposed(l, xs) \in A[LastLedgerDay]
<1>1. PICK N \in Nat : N = LastLedgerDay
  BY DaysAreInt
<1> DEFINE Placed(k, day) == IF \E x \in xs : x.on = day
                             THEN PlaceProposed(k, CHOOSE x \in xs : x.on = day) ELSE k
           Is(f) == f = [day \in 0 .. N |-> IF day = 0 THEN l ELSE Placed(f[day - 1], day)]
           step == [day \in 1 .. N |-> [k \in Ledgers |-> Placed(k, day)]]
<1>2. ASSUME NEW k \in Ledgers, NEW day \in 1 .. N
      PROVE  /\ Placed(k, day) \in Ledgers
             /\ k \in A[day - 1] => Placed(k, day) \in A[day]
  <2>1. CASE \E x \in xs : x.on = day
    <3>1. PICK y : y = EntryOf(xs, day)
      OBVIOUS
    <3>2. y \in xs /\ y.on = day
      BY <2>1, <3>1 DEF EntryOf
    <3>3. Sound(y) /\ y.on \in LedgerDays
      BY <3>2 DEF Sound, Entries
    <3>4. PICK p \in Places(k, y.on) : PlaceProposed(k, y) = InsertAt(k, p, y)
      BY <3>3, ProposedIsPlaced
    <3>5. Placed(k, day) = InsertAt(k, p, y)
      BY <2>1, <3>1, <3>4 DEF EntryOf
    <3>6. InsertAt(k, p, y) \in Ledgers
      BY <3>3, <3>4, InsertKeepsLedger
    <3>7. k \in A[day - 1] => \A q \in Places(k, day) : InsertAt(k, q, EntryOf(xs, day)) \in A[day]
      BY <1>1, <2>1 DEF LeadsOn
    <3>8. k \in A[day - 1] => InsertAt(k, p, y) \in A[day]
      BY <3>1, <3>2, <3>7
    <3> QED
      BY <3>5, <3>6, <3>8
  <2>2. CASE ~\E x \in xs : x.on = day
    <3>1. k \in A[day - 1] => k \in A[day]
      BY <1>1, <2>2 DEF LeadsOn
    <3> QED
      BY <2>2, <3>1
  <2> QED
    BY <2>1, <2>2
<1>3. step \in [1 .. N -> [Ledgers -> Ledgers]]
  <2> HIDE DEF Placed
  <2> QED
    BY <1>2
<1>4. \A day \in 1 .. N : \A k \in Ledgers : step[day][k] = Placed(k, day)
  <2> HIDE DEF Placed
  <2> QED
    OBVIOUS
<1> HIDE DEF step
<1>5. PICK f \in [0 .. N -> Ledgers] : f[0] = l /\ \A n \in 1 .. N : f[n] = step[n][f[n - 1]]
  <2>1. HasSteps(N, Ledgers, l, step)
    BY <1>3, StepsExist
  <2> QED
    BY <2>1 DEF HasSteps
<1>6. \A n \in 1 .. N : n \in 0 .. N /\ n - 1 \in 0 .. N /\ n # 0
  OBVIOUS
<1>7. Is(f)
  <2> HIDE DEF Placed
  <2>1. \A n \in 1 .. N : f[n] = Placed(f[n - 1], n)
    BY <1>4, <1>5, <1>6
  <2>2. \A n \in 0 .. N : f[n] = IF n = 0 THEN l ELSE Placed(f[n - 1], n)
    <3>1. \A n \in 0 .. N : n # 0 => n \in 1 .. N
      OBVIOUS
    <3> QED
      BY <1>5, <2>1, <3>1
  <2> QED
    BY <2>2
<1>8. PICK g : g = CHOOSE h : Is(h)
  OBVIOUS
<1>9. Is(g)
  <2> HIDE DEF Is
  <2> QED
    BY <1>7, <1>8, Zenon
<1>10. g[0] = l /\ \A n \in 1 .. N : g[n] = Placed(g[n - 1], n)
  <2> HIDE DEF Placed
  <2>1. \A n \in 0 .. N : g[n] = IF n = 0 THEN l ELSE Placed(g[n - 1], n)
    BY <1>9
  <2> QED
    BY <1>6, <2>1
<1>11. g[N] \in Ledgers /\ g[N] \in A[N]
  <2> HIDE DEF Placed
  <2>1. PICK T : T = {n \in Nat : n <= N => g[n] \in Ledgers /\ g[n] \in A[n]}
    OBVIOUS
  <2>2. 0 \in T
    BY <1>10, <2>1
  <2>3. ASSUME NEW n \in Nat, n < N, n \in T PROVE n + 1 \in T
    <3>1. n + 1 \in 1 .. N /\ (n + 1) - 1 = n /\ g[n] \in Ledgers /\ g[n] \in A[n]
      BY <2>1, <2>3
    <3>2. g[n + 1] \in Ledgers /\ g[n + 1] \in A[n + 1]
      BY <1>2, <1>10, <3>1
    <3> QED
      BY <2>1, <3>2
  <2>4. \A n \in 0 .. N : n \in T
    BY <2>2, <2>3, Climb
  <2> QED
    BY <2>1, <2>4
<1>12. WithProposed(l, xs) = g[N]
  BY <1>1, <1>8 DEF WithProposed
<1> QED
  BY <1>1, <1>11, <1>12

\* What the entries that are placed up to each day weigh.
Extras(xs, g, t) ==
  t = [day \in 0 .. LastLedgerDay |->
         IF day = 0 THEN 0
         ELSE t[day - 1] + (IF \E x \in xs : x.on = day THEN g[EntryOf(xs, day)] ELSE 0)]

ExtraTo(xs, g) == CHOOSE t : Extras(xs, g, t)
Extra(xs, g) == ExtraTo(xs, g)[LastLedgerDay]

ExtraIsSum(xs, g) ==
  /\ ExtraTo(xs, g)[0] = 0
  /\ \A day \in 0 .. LastLedgerDay : ExtraTo(xs, g)[day] \in Nat
  /\ \A day \in 1 .. LastLedgerDay :
       ExtraTo(xs, g)[day] = ExtraTo(xs, g)[day - 1]
                             + (IF \E x \in xs : x.on = day THEN g[EntryOf(xs, day)] ELSE 0)
  /\ (\A x \in xs : g[x] = 0) => Extra(xs, g) = 0

LEMMA ExtraDefined ==
  ASSUME NEW xs, \A x \in xs : x \in Entries, NEW g \in Weights
  PROVE  ExtraIsSum(xs, g)
<1>1. PICK N \in Nat : N = LastLedgerDay
  BY DaysAreInt
<1>2. PICK c : c = [n \in 1 .. N |-> IF \E x \in xs : x.on = n THEN g[EntryOf(xs, n)] ELSE 0]
  OBVIOUS
<1>3. ASSUME NEW n \in 1 .. N
      PROVE  /\ c[n] = IF \E x \in xs : x.on = n THEN g[EntryOf(xs, n)] ELSE 0
             /\ c[n] \in Nat
             /\ (\A x \in xs : g[x] = 0) => c[n] = 0
  <2>1. (\E x \in xs : x.on = n) => EntryOf(xs, n) \in xs
    BY DEF EntryOf
  <2>2. \A x \in xs : g[x] \in Nat
    BY DEF Weights
  <2> QED
    BY <1>2, <2>1, <2>2
<1> DEFINE step == [n \in 1 .. N |-> [x \in Nat |-> x + c[n]]]
<1>5. step \in [1 .. N -> [Nat -> Nat]]
  BY <1>3
<1>6. \A n \in 1 .. N : \A x \in Nat : step[n][x] = x + c[n]
  OBVIOUS
<1> HIDE DEF step
<1>7. HasSteps(N, Nat, 0, step)
  <2>1. PICK X : X = Nat
    OBVIOUS
  <2>2. 0 \in X /\ step \in [1 .. N -> [X -> X]]
    BY <1>5, <2>1
  <2>3. HasSteps(N, X, 0, step)
    BY <2>2, StepsExist
  <2> QED
    BY <2>1, <2>3
<1>8. PICK f \in [0 .. N -> Nat] : f[0] = 0 /\ \A n \in 1 .. N : f[n] = step[n][f[n - 1]]
  BY <1>7 DEF HasSteps
<1>9. \A n \in 1 .. N : n \in 0 .. N /\ n - 1 \in 0 .. N /\ n # 0
  OBVIOUS
<1>10. \A n \in 1 .. N : f[n] = f[n - 1] + c[n]
  <2>1. \A n \in 1 .. N : f[n - 1] \in Nat
    BY <1>9
  <2> QED
    BY <1>6, <1>8, <2>1
<1>11. \A n \in 0 .. N : n # 0 => n \in 1 .. N
  OBVIOUS
<1>12. \A n \in 0 .. N : f[n] = IF n = 0 THEN 0
                                ELSE f[n - 1] + (IF \E x \in xs : x.on = n
                                                 THEN g[EntryOf(xs, n)] ELSE 0)
  BY <1>3, <1>8, <1>10, <1>11
<1>13. Extras(xs, g, f)
  BY <1>1, <1>8, <1>12 DEF Extras
<1>14. PICK t : t = ExtraTo(xs, g)
  OBVIOUS
<1>15. Extras(xs, g, t)
  BY <1>13, <1>14, Zenon DEF ExtraTo
<1>16. \A n \in 0 .. N : t[n] = IF n = 0 THEN 0
                                ELSE t[n - 1] + (IF \E x \in xs : x.on = n
                                                 THEN g[EntryOf(xs, n)] ELSE 0)
  BY <1>1, <1>15 DEF Extras
<1>17. t[0] = 0 /\ \A n \in 1 .. N :
         t[n] = t[n - 1] + (IF \E x \in xs : x.on = n THEN g[EntryOf(xs, n)] ELSE 0)
  BY <1>9, <1>16, SMTT(20)
<1>18. \A n \in 1 .. N : t[n] = t[n - 1] + c[n]
  BY <1>3, <1>17
<1>19. \A n \in 0 .. N : t[n] \in Nat /\ ((\A x \in xs : g[x] = 0) => t[n] = 0)
  <2>1. PICK T : T = {n \in Nat : n <= N => t[n] \in Nat /\ ((\A x \in xs : g[x] = 0) => t[n] = 0)}
    OBVIOUS
  <2>2. 0 \in T
    BY <1>17, <2>1
  <2>3. ASSUME NEW n \in Nat, n < N, n \in T PROVE n + 1 \in T
    <3>1. n + 1 \in 1 .. N /\ (n + 1) - 1 = n
      BY <2>3
    <3>2. t[n] \in Nat /\ ((\A x \in xs : g[x] = 0) => t[n] = 0)
      BY <2>1, <2>3
    <3>3. t[n + 1] = t[n] + c[n + 1]
      BY <1>18, <3>1
    <3>4. c[n + 1] \in Nat /\ ((\A x \in xs : g[x] = 0) => c[n + 1] = 0)
      BY <1>3, <3>1
    <3> QED
      BY <2>1, <3>2, <3>3, <3>4
  <2>4. \A n \in 0 .. N : n \in T
    BY <2>2, <2>3, Climb
  <2> QED
    BY <2>1, <2>4
<1> QED
  <2>1. \A day \in 1 .. LastLedgerDay :
          t[day] = t[day - 1] + (IF \E x \in xs : x.on = day THEN g[EntryOf(xs, day)] ELSE 0)
    BY <1>1, <1>17
  <2>2. (\A x \in xs : g[x] = 0) => Extra(xs, g) = 0
    BY <1>1, <1>14, <1>19 DEF Extra
  <2>3. t[0] = 0 /\ \A day \in 0 .. LastLedgerDay : t[day] \in Nat
    BY <1>1, <1>17, <1>19
  <2> QED
    BY <1>14, <2>1, <2>2, <2>3, Zenon DEF ExtraIsSum

\* However the entries come to stand, they add their weight.
LEMMA PlacedAddWeight ==
  ASSUME NEW l \in Ledgers, NEW xs, \A x \in xs : Sound(x), NEW g \in Weights
  PROVE  \A m \in Placements(l, xs) \cup {WithProposed(l, xs)} :
           /\ m \in Ledgers
           /\ WeightTo(m, g)[Len(m)] = WeightTo(l, g)[Len(l)] + Extra(xs, g)
<1>0. (\A x \in xs : x \in Entries) /\ ExtraIsSum(xs, g)
  <2>1. \A x \in xs : x \in Entries
    BY DEF Sound
  <2> QED
    BY <2>1, ExtraDefined
<1>1. PICK w : w = WeightTo(l, g)[Len(l)]
  OBVIOUS
<1>2. PICK A : A = [day \in 0 .. LastLedgerDay |->
                      {k \in Ledgers : WeightTo(k, g)[Len(k)] = w + ExtraTo(xs, g)[day]}]
  OBVIOUS
<1>3. \A day \in 0 .. LastLedgerDay :
        A[day] = {k \in Ledgers : WeightTo(k, g)[Len(k)] = w + ExtraTo(xs, g)[day]}
  BY <1>2
<1>4. w \in Nat
  BY <1>1, LedgerFacts, WeightDefined
<1>5. l \in A[0]
  <2>1. ExtraTo(xs, g)[0] = 0 /\ 0 \in 0 .. LastLedgerDay
    BY <1>0, DaysAreInt DEF ExtraIsSum
  <2>2. w = w + 0
    BY <1>4
  <2>3. A[0] = {k \in Ledgers : WeightTo(k, g)[Len(k)] = w + 0}
    BY <1>3, <2>1
  <2> QED
    BY <1>1, <2>2, <2>3, Zenon
<1>6. ASSUME NEW day \in 1 .. LastLedgerDay, NEW k \in A[day - 1]
      PROVE  IF \E x \in xs : x.on = day
             THEN \A p \in Places(k, day) : InsertAt(k, p, EntryOf(xs, day)) \in A[day]
             ELSE k \in A[day]
  <2>1. day \in 0 .. LastLedgerDay /\ day - 1 \in 0 .. LastLedgerDay
    BY DaysAreInt
  <2>2. k \in Ledgers /\ WeightTo(k, g)[Len(k)] = w + ExtraTo(xs, g)[day - 1]
    BY <1>3, <1>6, <2>1
  <2>3. PICK a \in Nat : a = ExtraTo(xs, g)[day - 1]
    BY <1>0, <2>1 DEF ExtraIsSum
  <2>4. ExtraTo(xs, g)[day] = a + (IF \E x \in xs : x.on = day THEN g[EntryOf(xs, day)] ELSE 0)
    <3>1. ExtraTo(xs, g)[day] = ExtraTo(xs, g)[day - 1]
            + (IF \E x \in xs : x.on = day THEN g[EntryOf(xs, day)] ELSE 0)
      BY <1>0 DEF ExtraIsSum
    <3> QED
      BY <2>3, <3>1
  <2>5. ASSUME NEW x \in xs, x.on = day, NEW p \in Places(k, day)
        PROVE  InsertAt(k, p, EntryOf(xs, day)) \in A[day]
    <3>1. PICK y : y = EntryOf(xs, day)
      OBVIOUS
    <3>2. y \in xs /\ y.on = day
      BY <2>5, <3>1 DEF EntryOf
    <3>3. InsertAt(k, p, y) \in Ledgers
      BY <2>2, <2>5, <3>2, InsertKeepsLedger
    <3>4. k \in Seq(Entries) /\ y \in Entries /\ p \in 1 .. Len(k) + 1
      BY <1>0, <2>2, <2>5, <3>2, LedgerFacts DEF Places
    <3>5. WeightTo(InsertAt(k, p, y), g)[Len(InsertAt(k, p, y))] = WeightTo(k, g)[Len(k)] + g[y]
      BY <3>4, InsertAddsWeight
    <3>6. g[y] \in Nat
      BY <3>4 DEF Weights
    <3>7. ExtraTo(xs, g)[day] = a + g[y]
      BY <2>4, <2>5, <3>1
    <3>8. WeightTo(InsertAt(k, p, y), g)[Len(InsertAt(k, p, y))] = w + ExtraTo(xs, g)[day]
      BY <1>4, <2>2, <2>3, <3>5, <3>6, <3>7
    <3> QED
      BY <1>3, <2>1, <3>1, <3>3, <3>8
  <2>6. ASSUME ~\E x \in xs : x.on = day PROVE k \in A[day]
    <3>1. ExtraTo(xs, g)[day] = a
      BY <2>3, <2>4, <2>6
    <3> QED
      BY <1>3, <2>1, <2>2, <2>3, <3>1
  <2> QED
    BY <2>5, <2>6
<1>7. LeadsOn(A, xs)
  BY <1>6 DEF LeadsOn
<1>8. Placements(l, xs) \subseteq A[LastLedgerDay] /\ WithProposed(l, xs) \in A[LastLedgerDay]
  BY <1>5, <1>7, PlacementsStayIn, ProposedStaysIn
<1>9. A[LastLedgerDay] = {k \in Ledgers : WeightTo(k, g)[Len(k)] = w + Extra(xs, g)}
  BY <1>3, DaysAreInt DEF Extra
<1> QED
  BY <1>1, <1>8, <1>9

-----------------------------------------------------------------------------
(***************************************************************************)
(* The walk over days: who is given at least as much owes no more.         *)
(***************************************************************************)

LEMMA DayEndIsBuckets ==
  ASSUME NEW l \in Ledgers, NEW d \in Int
  PROVE  DayEnd(l, d) \in Buckets
<1>1. l \in Seq(Entries) /\ Len(l) \in 0 .. Len(l)
  BY LedgerFacts
<1> QED
  BY <1>1, WalkDefined DEF DayEnd

LEMMA NothingOnDayZero ==
  ASSUME NEW l \in Ledgers
  PROVE  DayEnd(l, 0) = Empty
<1>1. PICK N \in Nat : N = Len(l) /\ l \in Seq(Entries)
  BY LedgerFacts
<1>2. \A i \in 1 .. N : l[i].on > 0
  <2>1. \A x \in Entries : x.on > 0
    BY DaysAreInt DEF Entries, LedgerDays
  <2> QED
    BY <1>1, <2>1, LedgerFacts
<1>3. PICK w : w = Walk(l, 0)
  OBVIOUS
<1>4. w[0] = Empty /\ \A n \in 1 .. N : w[n] = w[n - 1]
  <2>1. \A n \in 1 .. N : w[n] = IF l[n].reversed \/ l[n].on > 0 THEN w[n - 1]
                                 ELSE Book(w[n - 1], l[n])
    BY <1>1, <1>3, WalkDefined
  <2>2. w[0] = Empty
    BY <1>1, <1>3, WalkDefined
  <2> QED
    BY <1>2, <2>1, <2>2
<1>5. PICK T : T = {n \in Nat : n <= N => w[n] = Empty}
  OBVIOUS
<1>6. 0 \in T
  BY <1>4, <1>5
<1>7. ASSUME NEW n \in Nat, n < N, n \in T PROVE n + 1 \in T
  <2>1. n + 1 \in 1 .. N /\ (n + 1) - 1 = n
    BY <1>7
  <2> QED
    BY <1>4, <1>5, <1>7, <2>1
<1>8. \A n \in 0 .. N : n \in T
  BY <1>6, <1>7, Climb
<1> QED
  BY <1>1, <1>3, <1>5, <1>8 DEF DayEnd

\* What a day does to what can be used after it and to what is owed.
LEMMA DayIs ==
  ASSUME NEW l \in Ledgers, Unreversed(l), TakesApart(l), NEW d \in LedgerDays,
         NEW f \in 1 .. Never, d <= f
  PROVE  /\ TakenOn(l, d) = 0 =>
              /\ Usable(DayEnd(l, d), f) = Usable(DayEnd(l, d - 1), f) + GivenOn(l, d, f)
              /\ DayEnd(l, d).owed = DayEnd(l, d - 1).owed
         /\ TakenOn(l, d) # 0 =>
              /\ Usable(DayEnd(l, d), f)
                   = Smaller(Usable(DayEnd(l, d - 1), f),
                             AtLeastZero(Usable(DayEnd(l, d - 1), d) - TakenOn(l, d)))
              /\ DayEnd(l, d).owed
                   = DayEnd(l, d - 1).owed
                     + AtLeastZero(TakenOn(l, d) - Usable(DayEnd(l, d - 1), d))
<1>1. f \in d .. Never /\ \A i \in 1 .. Len(l) : ~l[i].reversed
  BY DaysOfMonth DEF Unreversed
<1>2. CASE TakenOn(l, d) = 0
  <2>1. \A i \in 1 .. Len(l) : l[i].on = d => l[i].minutes > 0
    BY <1>2, NoneTakenOn
  <2>2. /\ Usable(DayEnd(l, d), f) = Usable(DayEnd(l, d - 1), f) + WeightTo(l, Given(d, f))[Len(l)]
        /\ DayEnd(l, d).owed = DayEnd(l, d - 1).owed
    BY <1>1, <2>1, DayOfGrants
  <2> QED
    BY <1>2, <2>2 DEF GivenOn
<1>3. CASE TakenOn(l, d) # 0
  <2>1. GivenOn(l, d, 1) = 0
    BY <1>3, ApartIs
  <2>2. \A i \in 1 .. Len(l) : l[i].on = d => l[i].minutes < 0
    BY <2>1, NoneGivenOn
  <2>3. Usable(DayEnd(l, d), f)
          = Smaller(Usable(DayEnd(l, d - 1), f),
                    AtLeastZero(Usable(DayEnd(l, d - 1), d) - WeightTo(l, Taken(d))[Len(l)]))
    BY <1>1, <2>2, DayOfTakes
  <2>4. DayEnd(l, d).owed
          = DayEnd(l, d - 1).owed
            + AtLeastZero(WeightTo(l, Taken(d))[Len(l)] - Usable(DayEnd(l, d - 1), d))
    BY <1>1, <2>2, DayOfTakes
  <2> QED
    BY <1>3, <2>3, <2>4 DEF TakenOn
<1> QED
  BY <1>2, <1>3

\* On each day up to one, as much is taken and at least as much given.
AtLeast(k, l, d) ==
  /\ TakenOn(k, d) = TakenOn(l, d)
  /\ \A f \in 1 .. Never : GivenOn(k, d, f) >= GivenOn(l, d, f)

\* Who is given at least as much does not owe more.
LEMMA MoreGivenLessOwed ==
  ASSUME NEW k \in Ledgers, NEW l \in Ledgers,
         Unreversed(k), TakesApart(k), Unreversed(l), TakesApart(l),
         NEW D \in 0 .. LastLedgerDay, \A d \in 1 .. D : AtLeast(k, l, d)
  PROVE  DayEnd(k, D).owed <= DayEnd(l, D).owed
<1>1. PICK N \in Nat : N = D
  OBVIOUS
<1> DEFINE FitsAt(n) ==
      /\ \A f \in 1 .. Never : n <= f => Usable(DayEnd(k, n), f) >= Usable(DayEnd(l, n), f)
      /\ DayEnd(k, n).owed <= DayEnd(l, n).owed
<1>2. FitsAt(0)
  <2>1. \A f \in 1 .. Never : Usable(Empty, f) = 0
    BY EmptyHasNothing
  <2> QED
    BY <2>1, NothingOnDayZero, EmptyHasNothing
<1>3. ASSUME NEW n \in Nat, n < N, FitsAt(n) PROVE FitsAt(n + 1)
  <2>1. PICK d \in LedgerDays : d = n + 1 /\ d - 1 = n /\ d \in 1 .. D /\ d \in 1 .. Never
    BY <1>1, <1>3, DaysAreInt DEF LedgerDays, Never
  <2>2. DayEnd(k, n) \in Buckets /\ DayEnd(l, n) \in Buckets
    BY DayEndIsBuckets
  <2>3. PICK t \in Nat : t = TakenOn(k, d) /\ t = TakenOn(l, d)
    BY <2>1, WeighedIsNat DEF AtLeast
  <2>4. PICK uk, ul \in Nat : uk = Usable(DayEnd(k, n), d) /\ ul = Usable(DayEnd(l, n), d)
    BY <2>1, <2>2, UsableShrinks
  <2>5. ul <= uk
    BY <1>3, <2>1, <2>4
  <2>6. PICK ok, ol \in Nat : ok = DayEnd(k, n).owed /\ ol = DayEnd(l, n).owed
    BY <2>2 DEF Buckets
  <2>7. ok <= ol
    BY <1>3, <2>6
  <2>8. ASSUME NEW f \in 1 .. Never, d <= f
        PROVE  /\ Usable(DayEnd(k, d), f) >= Usable(DayEnd(l, d), f)
               /\ DayEnd(k, d).owed <= DayEnd(l, d).owed
    <3>1. PICK vk, vl \in Nat : vk = Usable(DayEnd(k, n), f) /\ vl = Usable(DayEnd(l, n), f)
      BY <2>2, UsableShrinks
    <3>2. vl <= vk
      <4>1. n <= f
        BY <2>1, <2>8
      <4> QED
        BY <1>3, <3>1, <4>1
    <3>3. PICK gk, gl \in Nat : gk = GivenOn(k, d, f) /\ gl = GivenOn(l, d, f) /\ gl <= gk
      BY <2>1, WeighedIsNat DEF AtLeast
    <3>4. CASE t = 0
      <4>1. Usable(DayEnd(k, d), f) = vk + gk /\ DayEnd(k, d).owed = ok
        BY <2>1, <2>3, <2>6, <2>8, <3>1, <3>3, <3>4, DayIs
      <4>2. Usable(DayEnd(l, d), f) = vl + gl /\ DayEnd(l, d).owed = ol
        BY <2>1, <2>3, <2>6, <2>8, <3>1, <3>3, <3>4, DayIs
      <4> QED
        BY <2>7, <3>2, <3>3, <4>1, <4>2
    <3>5. CASE t # 0
      <4>1. /\ Usable(DayEnd(k, d), f) = Smaller(vk, AtLeastZero(uk - t))
            /\ DayEnd(k, d).owed = ok + AtLeastZero(t - uk)
        BY <2>1, <2>3, <2>4, <2>6, <2>8, <3>1, <3>5, DayIs
      <4>2. /\ Usable(DayEnd(l, d), f) = Smaller(vl, AtLeastZero(ul - t))
            /\ DayEnd(l, d).owed = ol + AtLeastZero(t - ul)
        BY <2>1, <2>3, <2>4, <2>6, <2>8, <3>1, <3>5, DayIs
      <4> QED
        BY <2>5, <2>7, <3>2, <4>1, <4>2 DEF Smaller, AtLeastZero
    <3> QED
      BY <3>4, <3>5
  <2>9. DayEnd(k, d).owed <= DayEnd(l, d).owed
    <3>1. d \in 1 .. Never /\ d <= d
      BY <2>1
    <3> QED
      BY <2>8, <3>1
  <2> QED
    BY <2>1, <2>8, <2>9
<1>4. FitsAt(N)
  <2> PICK T : T = {n \in Nat : n <= N => FitsAt(n)}
    OBVIOUS
  <2> HIDE DEF FitsAt
  <2>1. 0 \in T
    BY <1>2
  <2>2. \A n \in Nat : n < N /\ n \in T => n + 1 \in T
    BY <1>3
  <2>3. \A n \in 0 .. N : n \in T
    BY <2>1, <2>2, Climb
  <2> QED
    BY <2>3
<1> QED
  BY <1>1, <1>4

Covered(l) == DayEnd(l, LastLedgerDay).owed = 0

\* A ledger that covers what was taken has nothing owed on any day.
LEMMA CoveredIsAvailable ==
  ASSUME NEW l \in Ledgers, Unreversed(l), TakesApart(l), Covered(l), NEW day \in LedgerDays
  PROVE  DayEnd(l, day).owed = 0 /\ AvailableOn(l, day) >= 0
<1>1. PICK N, a \in Nat : N = LastLedgerDay /\ a = day
  BY DaysAreInt DEF LedgerDays
<1>2. \A n \in 0 .. N : DayEnd(l, n) \in Buckets /\ DayEnd(l, n).owed \in Nat
  <2>1. \A n \in 0 .. N : DayEnd(l, n) \in Buckets
    BY DayEndIsBuckets
  <2> QED
    BY <2>1 DEF Buckets
<1>3. ASSUME NEW n \in Nat, n < N PROVE DayEnd(l, n).owed <= DayEnd(l, n + 1).owed
  <2>1. PICK d \in LedgerDays : d = n + 1 /\ d - 1 = n /\ d \in 1 .. Never /\ d <= d
    BY <1>1, <1>3, DaysAreInt DEF LedgerDays, Never
  <2>2. PICK u, t, o \in Nat : /\ u = Usable(DayEnd(l, n), d) /\ t = TakenOn(l, d)
                               /\ o = DayEnd(l, n).owed
    <3>1. n \in 0 .. N
      BY <1>3
    <3>2. Usable(DayEnd(l, n), d) \in Nat
      BY <1>2, <2>1, <3>1, UsableShrinks
    <3> QED
      BY <1>2, <3>1, <3>2, WeighedIsNat
  <2>3. CASE t = 0
    <3>1. DayEnd(l, d).owed = o
      BY <2>1, <2>2, <2>3, DayIs
    <3> QED
      BY <2>1, <2>2, <3>1
  <2>4. CASE t # 0
    <3>1. DayEnd(l, d).owed = o + AtLeastZero(t - u)
      BY <2>1, <2>2, <2>4, DayIs
    <3> QED
      BY <2>1, <2>2, <3>1 DEF AtLeastZero
  <2> QED
    BY <2>3, <2>4
<1>4. PICK T : T = {n \in Nat : n <= N => (a <= n => DayEnd(l, a).owed <= DayEnd(l, n).owed)}
  OBVIOUS
<1>5. a \in 1 .. N
  BY <1>1 DEF LedgerDays
<1>6. 0 \in T
  BY <1>4, <1>5
<1>7. ASSUME NEW n \in Nat, n < N, n \in T PROVE n + 1 \in T
  <2>1. PICK p, q, r \in Nat : p = DayEnd(l, n).owed /\ q = DayEnd(l, n + 1).owed
                               /\ r = DayEnd(l, a).owed
    <3>1. n \in 0 .. N /\ n + 1 \in 0 .. N /\ a \in 0 .. N
      BY <1>5, <1>7
    <3> QED
      BY <1>2, <3>1
  <2>2. p <= q
    BY <1>3, <1>7, <2>1
  <2>3. a <= n => r <= p
    BY <1>4, <1>7, <2>1
  <2>4. a <= n + 1 => r <= q
    <3>1. CASE a <= n
      BY <2>2, <2>3, <3>1
    <3>2. CASE a = n + 1
      BY <2>1, <3>2
    <3> QED
      BY <3>1, <3>2
  <2> QED
    BY <1>4, <2>1, <2>4
<1>8. \A n \in 0 .. N : n \in T
  BY <1>6, <1>7, Climb
<1>9. DayEnd(l, day).owed = 0
  <2>1. DayEnd(l, a).owed <= DayEnd(l, N).owed
    BY <1>4, <1>5, <1>8
  <2>2. DayEnd(l, N).owed = 0
    BY <1>1 DEF Covered
  <2>3. DayEnd(l, a).owed \in Nat
    BY <1>2, <1>5
  <2> QED
    BY <1>1, <2>1, <2>2, <2>3
<1>10. AvailableOn(l, day) = Usable(DayEnd(l, day), day) - DayEnd(l, day).owed
  <2>1. DayEnd(l, day) \in Buckets
    BY <1>1, DayEndIsBuckets
  <2> QED
    BY <2>1, AvailableIsUsable, BalanceIsWalk DEF AvailableOn, DayEnd
<1>11. Usable(DayEnd(l, day), day) \in Nat
  <2>1. DayEnd(l, day) \in Buckets /\ day \in 1 .. Never
    BY <1>1, DayEndIsBuckets, DaysAreInt DEF LedgerDays, Never
  <2> QED
    BY <2>1, UsableShrinks
<1> QED
  BY <1>9, <1>10, <1>11

Undone == [x \in Entries |-> IF x.reversed THEN 1 ELSE 0]

LEMMA UnreversedIs ==
  /\ Undone \in Weights
  /\ \A l \in Ledgers : Unreversed(l) <=> WeightTo(l, Undone)[Len(l)] = 0
<1>1. Undone \in Weights
  BY DEF Undone, Weights
<1>2. ASSUME NEW l \in Ledgers PROVE Unreversed(l) <=> WeightTo(l, Undone)[Len(l)] = 0
  <2>1. l \in Seq(Entries) /\ Len(l) \in 0 .. Len(l) /\ \A i \in 1 .. Len(l) : l[i] \in Entries
    BY LedgerFacts
  <2>2. WeightTo(l, Undone)[Len(l)] = 0 <=> \A i \in 1 .. Len(l) : Undone[l[i]] = 0
    BY <1>1, <2>1, WeighsNothing
  <2>3. \A i \in 1 .. Len(l) : Undone[l[i]] = 0 <=> ~l[i].reversed
    BY <2>1 DEF Undone
  <2> QED
    BY <2>2, <2>3 DEF Unreversed
<1> QED
  BY <1>1, <1>2

\* What entries add to a ledger, wherever they come to stand.
Added(m, l, xs) ==
  /\ m \in Ledgers
  /\ Unreversed(m) => Unreversed(l)
  /\ (\A x \in xs : ~x.reversed) /\ Unreversed(l) => Unreversed(m)
  /\ \A d \in LedgerDays : TakenOn(m, d) = TakenOn(l, d) + Extra(xs, Taken(d))
  /\ \A d \in LedgerDays : \A f \in 1 .. Never :
       GivenOn(m, d, f) = GivenOn(l, d, f) + Extra(xs, Given(d, f))

LEMMA ExtraIs ==
  ASSUME NEW xs, \A x \in xs : x \in Entries, NEW g \in Weights
  PROVE  Extra(xs, g) \in Nat /\ ((\A x \in xs : g[x] = 0) => Extra(xs, g) = 0)
<1>1. ExtraIsSum(xs, g) /\ LastLedgerDay \in 0 .. LastLedgerDay
  BY ExtraDefined, DaysAreInt
<1> QED
  BY <1>1 DEF ExtraIsSum, Extra

LEMMA PlacedIs ==
  ASSUME NEW l \in Ledgers, NEW xs, \A x \in xs : Sound(x),
         NEW m \in Placements(l, xs) \cup {WithProposed(l, xs)}
  PROVE  Added(m, l, xs)
<1>1. ASSUME NEW g \in Weights
      PROVE  m \in Ledgers /\ WeightTo(m, g)[Len(m)] = WeightTo(l, g)[Len(l)] + Extra(xs, g)
  BY PlacedAddWeight
<1>2. m \in Ledgers
  BY <1>1, UnreversedIs
<1>3. \A x \in xs : x \in Entries
  BY DEF Sound
<1>4. PICK u, v, e \in Nat : /\ u = WeightTo(m, Undone)[Len(m)]
                             /\ v = WeightTo(l, Undone)[Len(l)]
                             /\ e = Extra(xs, Undone)
  <2>1. ASSUME NEW k \in Ledgers PROVE WeightTo(k, Undone)[Len(k)] \in Nat
    <3>1. k \in Seq(Entries) /\ Len(k) \in 0 .. Len(k)
      BY LedgerFacts
    <3> QED
      BY <3>1, UnreversedIs, WeightDefined
  <2>2. Extra(xs, Undone) \in Nat
    BY <1>3, ExtraIs, UnreversedIs
  <2> QED
    BY <1>2, <2>1, <2>2
<1>5. u = v + e
  BY <1>1, <1>4, UnreversedIs
<1>6. (Unreversed(m) <=> u = 0) /\ (Unreversed(l) <=> v = 0)
  BY <1>2, <1>4, UnreversedIs
<1>7. (\A x \in xs : ~x.reversed) => e = 0
  <2>1. (\A x \in xs : ~x.reversed) => \A x \in xs : Undone[x] = 0
    BY <1>3 DEF Undone
  <2> QED
    BY <1>3, <1>4, <2>1, ExtraIs, UnreversedIs
<1>8. ASSUME NEW d \in LedgerDays PROVE TakenOn(m, d) = TakenOn(l, d) + Extra(xs, Taken(d))
  BY <1>1, TheyWeigh DEF TakenOn
<1>9. ASSUME NEW d \in LedgerDays, NEW f \in 1 .. Never
      PROVE  GivenOn(m, d, f) = GivenOn(l, d, f) + Extra(xs, Given(d, f))
  BY <1>1, TheyWeigh DEF GivenOn
<1> QED
  BY <1>2, <1>5, <1>6, <1>7, <1>8, <1>9 DEF Added

LEMMA ApartFrom ==
  ASSUME NEW l \in Ledgers, NEW m \in Ledgers, TakesApart(m),
         \A d \in LedgerDays :
           TakenOn(l, d) <= TakenOn(m, d) /\ GivenOn(l, d, 1) <= GivenOn(m, d, 1)
  PROVE  TakesApart(l)
<1> SUFFICES ASSUME NEW d \in LedgerDays PROVE TakenOn(l, d) = 0 \/ GivenOn(l, d, 1) = 0
  BY ApartIs
<1>1. TakenOn(m, d) = 0 \/ GivenOn(m, d, 1) = 0
  BY ApartIs
<1>2. PICK a, b, c, e \in Nat : /\ a = TakenOn(l, d) /\ b = GivenOn(l, d, 1)
                                /\ c = TakenOn(m, d) /\ e = GivenOn(m, d, 1)
  BY WeighedIsNat
<1>3. a <= c /\ b <= e
  BY <1>2
<1> QED
  BY <1>1, <1>2, <1>3

\* A ledger is covered when the one it comes of is and what was added has been validated:
\* the days before are those of the old ledger, the days from then on were looked at.
LEMMA ValidatedIsCovered ==
  ASSUME NEW l \in Ledgers, NEW w \in Ledgers,
         Unreversed(l), TakesApart(l), Unreversed(w), TakesApart(w),
         Covered(l), NEW xs,
         \A d \in LedgerDays : (\A x \in xs : d < x.on) => AtLeast(w, l, d),
         \A x \in xs : x.on \in Int,
         \A i \in 1 .. Len(w) : (\E x \in xs : w[i].on >= x.on) => AvailableOn(w, w[i].on) >= 0
  PROVE  Covered(w)
<1>1. PICK N \in Nat : N = LastLedgerDay
  BY DaysAreInt
<1>2. PICK T : T = {n \in Nat : n <= N => DayEnd(w, n).owed = 0}
  OBVIOUS
<1>3. 0 \in T
  BY <1>2, NothingOnDayZero, EmptyHasNothing
<1>4. ASSUME NEW n \in Nat, n < N, n \in T PROVE n + 1 \in T
  <2>1. PICK d \in LedgerDays : d = n + 1 /\ d - 1 = n /\ d \in 1 .. Never /\ d <= d
                                /\ d \in 0 .. LastLedgerDay /\ d \in Nat
    BY <1>1, <1>4, DaysAreInt DEF LedgerDays, Never
  <2>2. DayEnd(w, n).owed = 0
    BY <1>2, <1>4
  <2>3. CASE \A x \in xs : d < x.on
    <3>1. ASSUME NEW e \in 1 .. d PROVE AtLeast(w, l, e)
      <4>1. e \in LedgerDays /\ e <= d
        BY <1>1, <2>1 DEF LedgerDays
      <4>2. \A x \in xs : e < x.on
        BY <2>1, <2>3, <4>1
      <4> QED
        BY <4>1, <4>2
    <3>2. DayEnd(w, d).owed <= DayEnd(l, d).owed
      BY <2>1, <3>1, MoreGivenLessOwed
    <3>3. DayEnd(l, d).owed = 0
      BY CoveredIsAvailable
    <3>4. DayEnd(w, d).owed \in Nat
      <4>1. DayEnd(w, d) \in Buckets
        BY <2>1, DayEndIsBuckets
      <4> QED
        BY <4>1 DEF Buckets
    <3> QED
      BY <1>2, <2>1, <3>2, <3>3, <3>4
  <2>4. CASE ~\A x \in xs : d < x.on
    <3>1. PICK u, t \in Nat : u = Usable(DayEnd(w, n), d) /\ t = TakenOn(w, d)
      <4>1. DayEnd(w, n) \in Buckets
        BY DayEndIsBuckets
      <4>2. Usable(DayEnd(w, n), d) \in Nat
        BY <2>1, <4>1, UsableShrinks
      <4> QED
        BY <4>2, WeighedIsNat
    <3>2. CASE t = 0
      <4>1. DayEnd(w, d).owed = 0
        BY <2>1, <2>2, <3>1, <3>2, DayIs
      <4> QED
        BY <1>2, <2>1, <4>1
    <3>3. CASE t # 0
      <4>1. /\ Usable(DayEnd(w, d), d) = Smaller(u, AtLeastZero(u - t))
            /\ DayEnd(w, d).owed = 0 + AtLeastZero(t - u)
        BY <2>1, <2>2, <3>1, <3>3, DayIs
      <4>2. PICK i \in 1 .. Len(w) : w[i].on = d
        BY <3>1, <3>3, NoneTakenOn
      <4>3. AvailableOn(w, d) >= 0
        <5>1. \E x \in xs : d >= x.on
          BY <2>1, <2>4
        <5> QED
          BY <4>2, <5>1
      <4>4. AvailableOn(w, d) = Usable(DayEnd(w, d), d) - DayEnd(w, d).owed
        <5>1. DayEnd(w, d) \in Buckets
          BY <2>1, DayEndIsBuckets
        <5> QED
          BY <5>1, AvailableIsUsable, BalanceIsWalk DEF AvailableOn, DayEnd
      <4>5. AtLeastZero(t - u) = 0
        BY <4>1, <4>3, <4>4 DEF Smaller, AtLeastZero
      <4> QED
        BY <1>2, <2>1, <4>1, <4>5
    <3> QED
      BY <3>2, <3>3
  <2> QED
    BY <2>3, <2>4
<1>5. \A n \in 0 .. N : n \in T
  BY <1>3, <1>4, Climb
<1> QED
  BY <1>1, <1>2, <1>5 DEF Covered

-----------------------------------------------------------------------------
(***************************************************************************)
(* Transactions.  What a client has validated stays covered until it is    *)
(* inserted, for only grants and allowances come between.                  *)
(***************************************************************************)

\* A ledger in which at least what a plan takes has been taken, and not less given.
Outdoes(m, l, xs) ==
  \A d \in LedgerDays :
    /\ TakenOn(m, d) = TakenOn(l, d) + Extra(xs, Taken(d))
    /\ \A f \in 1 .. Never : GivenOn(m, d, f) >= GivenOn(l, d, f)

\* What is taken is covered.
Kept(l) == Unreversed(l) /\ TakesApart(l) => Covered(l)

\* A plan that has been validated stays covered, whatever is granted before it is inserted.
Promised(l, xs) ==
  Unreversed(l) =>
    \A m \in Ledgers : Unreversed(m) /\ TakesApart(m) /\ Outdoes(m, l, xs) => Covered(m)

LEMMA MoreGivenKeepsCovered ==
  ASSUME NEW l \in Ledgers, NEW m \in Ledgers, Unreversed(l), TakesApart(l), Covered(l),
         Unreversed(m), TakesApart(m), \A d \in LedgerDays : AtLeast(m, l, d)
  PROVE  Covered(m)
<1>1. LastLedgerDay \in 0 .. LastLedgerDay /\ \A d \in 1 .. LastLedgerDay : d \in LedgerDays
  BY DaysAreInt DEF LedgerDays
<1>2. DayEnd(m, LastLedgerDay).owed <= DayEnd(l, LastLedgerDay).owed
  BY <1>1, MoreGivenLessOwed
<1>3. DayEnd(m, LastLedgerDay).owed \in Nat
  <2>1. DayEnd(m, LastLedgerDay) \in Buckets
    BY DayEndIsBuckets, DaysAreInt
  <2> QED
    BY <2>1 DEF Buckets
<1> QED
  BY <1>2, <1>3 DEF Covered

LEMMA MoreGivenKeeps ==
  ASSUME NEW l \in Ledgers, NEW m \in Ledgers, Unreversed(m) => Unreversed(l),
         \A d \in LedgerDays : AtLeast(m, l, d)
  PROVE  /\ Kept(l) => Kept(m)
         /\ \A xs : Promised(l, xs) => Promised(m, xs)
<1>1. ASSUME Kept(l), Unreversed(m), TakesApart(m) PROVE Covered(m)
  <2>1. ASSUME NEW d \in LedgerDays
        PROVE  TakenOn(l, d) <= TakenOn(m, d) /\ GivenOn(l, d, 1) <= GivenOn(m, d, 1)
    <3>1. AtLeast(m, l, d) /\ 1 \in 1 .. Never
      BY DaysAreInt
    <3>2. PICK a, b, c, e \in Nat : /\ a = TakenOn(l, d) /\ b = GivenOn(l, d, 1)
                                    /\ c = TakenOn(m, d) /\ e = GivenOn(m, d, 1)
      BY WeighedIsNat
    <3>3. c = a /\ e >= b
      BY <3>1, <3>2 DEF AtLeast
    <3> QED
      BY <3>2, <3>3
  <2>2. TakesApart(l)
    BY <1>1, <2>1, ApartFrom
  <2> QED
    BY <1>1, <2>2, MoreGivenKeepsCovered DEF Kept
<1>2. ASSUME NEW xs, Promised(l, xs), Unreversed(m), NEW k \in Ledgers,
             Unreversed(k), TakesApart(k), Outdoes(k, m, xs)
      PROVE  Covered(k)
  <2>1. ASSUME NEW d \in LedgerDays
        PROVE  /\ TakenOn(k, d) = TakenOn(l, d) + Extra(xs, Taken(d))
               /\ \A f \in 1 .. Never : GivenOn(k, d, f) >= GivenOn(l, d, f)
    <3>1. TakenOn(k, d) = TakenOn(m, d) + Extra(xs, Taken(d)) /\ TakenOn(m, d) = TakenOn(l, d)
      BY <1>2 DEF Outdoes, AtLeast
    <3>2. ASSUME NEW f \in 1 .. Never PROVE GivenOn(k, d, f) >= GivenOn(l, d, f)
      <4>1. PICK a, b, c \in Nat : /\ a = GivenOn(l, d, f) /\ b = GivenOn(m, d, f)
                                   /\ c = GivenOn(k, d, f)
        BY WeighedIsNat
      <4>2. c >= b /\ b >= a
        BY <1>2, <4>1 DEF Outdoes, AtLeast
      <4> QED
        BY <4>1, <4>2
    <3> QED
      BY <3>1, <3>2
  <2>2. Outdoes(k, l, xs)
    BY <2>1 DEF Outdoes
  <2> QED
    BY <1>2, <2>2 DEF Promised
<1> QED
  BY <1>1, <1>2 DEF Kept, Promised

\* What is granted or allowed keeps what was covered covered.
LEMMA GivingKeeps ==
  ASSUME NEW l \in Ledgers, NEW x, Sound(x), x.minutes > 0,
         NEW m \in Placements(l, {x})
  PROVE  m \in Ledgers /\ (Kept(l) => Kept(m)) /\ \A xs : Promised(l, xs) => Promised(m, xs)
<1>1. PICK ys : ys = {x}
  OBVIOUS
<1>2. Added(m, l, ys)
  BY <1>1, PlacedIs
<1>3. x \in Entries /\ x.minutes \in Int
  BY DEF Sound, Entries
<1>4. \A y \in ys : y \in Entries
  BY <1>1, <1>3
<1>5. ASSUME NEW d \in LedgerDays PROVE AtLeast(m, l, d)
  <2>1. \A y \in ys : Taken(d)[y] = 0
    BY <1>1, <1>3 DEF Taken
  <2>2. Extra(ys, Taken(d)) = 0
    BY <1>4, <2>1, ExtraIs, TheyWeigh
  <2>3. TakenOn(m, d) = TakenOn(l, d)
    <3>1. TakenOn(m, d) = TakenOn(l, d) + Extra(ys, Taken(d))
      BY <1>2 DEF Added
    <3>2. TakenOn(l, d) \in Nat
      BY WeighedIsNat
    <3> QED
      BY <2>2, <3>1, <3>2
  <2>4. ASSUME NEW f \in 1 .. Never PROVE GivenOn(m, d, f) >= GivenOn(l, d, f)
    <3>1. GivenOn(m, d, f) = GivenOn(l, d, f) + Extra(ys, Given(d, f))
      BY <1>2 DEF Added
    <3>2. PICK a, e \in Nat : a = GivenOn(l, d, f) /\ e = Extra(ys, Given(d, f))
      BY <1>4, ExtraIs, TheyWeigh, WeighedIsNat
    <3> QED
      BY <3>1, <3>2
  <2> QED
    BY <2>3, <2>4 DEF AtLeast
<1>6. m \in Ledgers /\ (Unreversed(m) => Unreversed(l))
  BY <1>2 DEF Added
<1> QED
  BY <1>5, <1>6, MoreGivenKeeps

\* What has been validated under the lock is promised.
LEMMA ValidatedIsPromised ==
  ASSUME NEW l \in Ledgers, Kept(l), NEW xs, \A x \in xs : x \in Takes /\ ~x.reversed,
         ~Insufficient(l, xs)
  PROVE  Promised(l, xs)
<1> SUFFICES ASSUME Unreversed(l),
                    NEW m \in Ledgers, Unreversed(m), TakesApart(m), Outdoes(m, l, xs)
             PROVE  Covered(m)
  BY DEF Promised
<1>1. PICK w : w = WithProposed(l, xs)
  OBVIOUS
<1>2. Added(w, l, xs)
  BY <1>1, TakesAreSound, PlacedIs
<1>3. w \in Ledgers /\ Unreversed(w)
  BY <1>2 DEF Added
<1>4. \A x \in xs : x \in Entries /\ x.minutes < 0 /\ x.minutes \in Int /\ x.on \in Int
  <2>1. \A x \in Takes : x \in Entries /\ x.minutes < 0
    BY DEF Takes
  <2>2. \A x \in Entries : x.minutes \in Int /\ x.on \in Int
    BY DaysOfMonth DEF Entries
  <2> QED
    BY <2>1, <2>2
<1>5. ASSUME NEW d \in LedgerDays
      PROVE  /\ TakenOn(w, d) = TakenOn(l, d) + Extra(xs, Taken(d))
             /\ TakenOn(m, d) = TakenOn(w, d)
             /\ \A f \in 1 .. Never : GivenOn(w, d, f) = GivenOn(l, d, f)
             /\ \A f \in 1 .. Never : GivenOn(m, d, f) >= GivenOn(w, d, f)
  <2>1. TakenOn(w, d) = TakenOn(l, d) + Extra(xs, Taken(d))
    BY <1>2 DEF Added
  <2>2. TakenOn(m, d) = TakenOn(l, d) + Extra(xs, Taken(d))
    BY DEF Outdoes
  <2>3. ASSUME NEW f \in 1 .. Never PROVE GivenOn(w, d, f) = GivenOn(l, d, f)
    <3>1. \A x \in xs : Given(d, f)[x] = 0
      BY <1>4 DEF Given
    <3>2. Extra(xs, Given(d, f)) = 0
      BY <1>4, <3>1, ExtraIs, TheyWeigh
    <3>3. GivenOn(w, d, f) = GivenOn(l, d, f) + Extra(xs, Given(d, f))
      BY <1>2 DEF Added
    <3>4. GivenOn(l, d, f) \in Nat
      BY WeighedIsNat
    <3> QED
      BY <3>2, <3>3, <3>4
  <2>4. \A f \in 1 .. Never : GivenOn(m, d, f) >= GivenOn(l, d, f)
    BY DEF Outdoes
  <2> QED
    BY <2>1, <2>2, <2>3, <2>4
<1>6. TakesApart(w)
  <2>1. ASSUME NEW d \in LedgerDays
        PROVE  TakenOn(w, d) <= TakenOn(m, d) /\ GivenOn(w, d, 1) <= GivenOn(m, d, 1)
    <3>1. PICK a, b, c, e \in Nat : /\ a = TakenOn(w, d) /\ b = GivenOn(w, d, 1)
                                    /\ c = TakenOn(m, d) /\ e = GivenOn(m, d, 1)
      BY <1>3, WeighedIsNat
    <3>2. c = a /\ e >= b
      BY <1>5, <3>1, DaysAreInt
    <3> QED
      BY <3>1, <3>2
  <2> QED
    BY <1>3, <2>1, ApartFrom
<1>7. TakesApart(l)
  <2>1. ASSUME NEW d \in LedgerDays
        PROVE  TakenOn(l, d) <= TakenOn(w, d) /\ GivenOn(l, d, 1) <= GivenOn(w, d, 1)
    <3>1. PICK a, b, c \in Nat : /\ a = TakenOn(l, d) /\ b = GivenOn(l, d, 1)
                                 /\ c = Extra(xs, Taken(d))
      BY <1>4, ExtraIs, TheyWeigh, WeighedIsNat
    <3>2. TakenOn(w, d) = a + c /\ GivenOn(w, d, 1) = b
      BY <1>5, <3>1, DaysAreInt
    <3> QED
      BY <3>1, <3>2
  <2> QED
    BY <1>3, <1>6, <2>1, ApartFrom
<1>8. Covered(l)
  BY <1>7 DEF Kept
<1>9. ASSUME NEW d \in LedgerDays, \A x \in xs : d < x.on PROVE AtLeast(w, l, d)
  <2>1. \A x \in xs : Taken(d)[x] = 0
    <3>1. \A x \in xs : x.on # d
      BY <1>4, <1>9, DaysOfMonth
    <3> QED
      BY <1>4, <3>1 DEF Taken
  <2>2. Extra(xs, Taken(d)) = 0
    BY <1>4, <2>1, ExtraIs, TheyWeigh
  <2>3. TakenOn(w, d) = TakenOn(l, d)
    <3>1. TakenOn(l, d) \in Nat
      BY WeighedIsNat
    <3> QED
      BY <1>5, <2>2, <3>1
  <2>4. ASSUME NEW f \in 1 .. Never PROVE GivenOn(w, d, f) >= GivenOn(l, d, f)
    <3>1. PICK a \in Nat : a = GivenOn(l, d, f)
      BY WeighedIsNat
    <3> QED
      BY <1>5, <3>1
  <2> QED
    BY <2>3, <2>4 DEF AtLeast
<1>10. ASSUME NEW i \in 1 .. Len(w), \E x \in xs : w[i].on >= x.on
       PROVE  AvailableOn(w, w[i].on) >= 0
  <2>1. w \in Seq(Entries) /\ i \in DOMAIN w
    BY <1>3, LedgerFacts
  <2>2. ~(AvailableOn(w, w[i].on) < 0)
    BY <1>1, <1>10, <2>1 DEF Insufficient
  <2>3. AvailableOn(w, w[i].on) \in Int
    <3>1. PICK d \in LedgerDays : d = w[i].on
      <4>1. w[i] \in Entries
        BY <1>3, LedgerFacts
      <4> QED
        BY <4>1 DEF Entries
    <3>2. d \in 1 .. Never /\ d \in Int
      BY DaysAreInt DEF LedgerDays, Never
    <3>3. DayEnd(w, d) \in Buckets
      BY <1>3, <3>2, DayEndIsBuckets
    <3>4. AvailableOn(w, d) = Usable(DayEnd(w, d), d) - DayEnd(w, d).owed
      BY <3>3, AvailableIsUsable, BalanceIsWalk DEF AvailableOn, DayEnd
    <3>5. Usable(DayEnd(w, d), d) \in Nat /\ DayEnd(w, d).owed \in Nat
      BY <3>2, <3>3, UsableShrinks DEF Buckets
    <3> QED
      BY <3>1, <3>4, <3>5
  <2> QED
    BY <2>2, <2>3
<1>11. Covered(w)
  BY <1>3, <1>4, <1>6, <1>7, <1>8, <1>9, <1>10, ValidatedIsCovered
<1>12. \A d \in LedgerDays : AtLeast(m, w, d)
  BY <1>5 DEF AtLeast
<1> QED
  BY <1>3, <1>6, <1>11, <1>12, MoreGivenKeepsCovered

LEMMA PromisedIsKept ==
  ASSUME NEW l \in Ledgers, NEW xs, \A x \in xs : Sound(x), Promised(l, xs),
         NEW m \in Placements(l, xs)
  PROVE  m \in Ledgers /\ Kept(m)
<1>1. Added(m, l, xs)
  BY PlacedIs
<1>2. m \in Ledgers /\ (Unreversed(m) => Unreversed(l))
  BY <1>1 DEF Added
<1>3. \A x \in xs : x \in Entries
  BY DEF Sound
<1>4. ASSUME NEW d \in LedgerDays
      PROVE  /\ TakenOn(m, d) = TakenOn(l, d) + Extra(xs, Taken(d))
             /\ \A f \in 1 .. Never : GivenOn(m, d, f) >= GivenOn(l, d, f)
  <2>1. ASSUME NEW f \in 1 .. Never PROVE GivenOn(m, d, f) >= GivenOn(l, d, f)
    <3>1. GivenOn(m, d, f) = GivenOn(l, d, f) + Extra(xs, Given(d, f))
      BY <1>1 DEF Added
    <3>2. PICK a, e \in Nat : a = GivenOn(l, d, f) /\ e = Extra(xs, Given(d, f))
      BY <1>3, ExtraIs, TheyWeigh, WeighedIsNat
    <3> QED
      BY <3>1, <3>2
  <2> QED
    BY <1>1, <2>1 DEF Added
<1>5. Outdoes(m, l, xs)
  BY <1>4 DEF Outdoes
<1> QED
  BY <1>2, <1>5 DEF Promised, Kept

\* What is taken is covered, what is planned will be, and one plan is made at a time.
CoverInv ==
  /\ Kept(ledger)
  /\ \A c \in LedgerClients : plan[c] # {} => Promised(ledger, plan[c])
  /\ \A c1, c2 \in LedgerClients : plan[c1] # {} /\ plan[c2] # {} => c1 = c2

LEMMA CoveredInitially == InitLedger => CoverInv
<1> SUFFICES ASSUME InitLedger PROVE CoverInv
  OBVIOUS
<1>1. /\ ledger \in Ledgers /\ ledger = <<>> /\ Len(ledger) = 0
      /\ \A c \in LedgerClients : plan[c] = {}
  BY LedgerInitially DEF InitLedger, LedgerInv
<1>2. DayEnd(ledger, LastLedgerDay) = Empty
  <2>1. Walk(ledger, LastLedgerDay)[0] = Empty
    BY <1>1, DaysAreInt, LedgerFacts, WalkDefined
  <2> QED
    BY <1>1, <2>1 DEF DayEnd
<1>3. Covered(ledger)
  BY <1>2, EmptyHasNothing DEF Covered
<1> QED
  BY <1>1, <1>3 DEF CoverInv, Kept

LEMMA CoveredStep == LedgerInv /\ CoverInv /\ [NextLedger]_ledgerVars => CoverInv'
<1> SUFFICES ASSUME LedgerInv, CoverInv, [NextLedger]_ledgerVars PROVE CoverInv'
  OBVIOUS
<1>0. /\ ledger \in Ledgers /\ plan \in [LedgerClients -> SUBSET Takes] /\ Kept(ledger)
      /\ \A c \in LedgerClients : plan[c] # {} => Promised(ledger, plan[c])
      /\ \A c1, c2 \in LedgerClients : plan[c1] # {} /\ plan[c2] # {} => c1 = c2
  BY DEF LedgerInv, CoverInv
<1>1. ASSUME NEW x, Sound(x), x.minutes > 0, ledger' \in Placements(ledger, {x}), plan' = plan
      PROVE  CoverInv'
  <2>1. Kept(ledger') /\ \A xs : Promised(ledger, xs) => Promised(ledger', xs)
    BY <1>0, <1>1, GivingKeeps
  <2> QED
    BY <1>0, <1>1, <2>1 DEF CoverInv
<1>2. ASSUME NEW day \in LedgerDays, NEW m \in Amounts, NEW e \in Expiries, Grant(day, m, e)
      PROVE  CoverInv'
  <2>1. PICK x : x = Entry("grant", m, day, e)
    OBVIOUS
  <2>2. Sound(x) /\ x.minutes > 0
    <3>1. x.minutes > 0
      BY <2>1, DaysOfMonth DEF Entry
    <3> QED
      BY <1>2, <2>1, <3>1, EntriesMade DEF Grant
  <2>3. ledger' \in Placements(ledger, {x}) /\ plan' = plan
    BY <1>2, <2>1 DEF Grant, AddEntries
  <2> QED
    BY <1>1, <2>2, <2>3
<1>3. ASSUME NEW day \in LedgerDays, NEW m \in Amounts, Allow(day, m) PROVE CoverInv'
  <2>1. PICK x : x = Entry("adjust", m, day, Never)
    OBVIOUS
  <2>2. Sound(x) /\ x.minutes > 0
    <3>1. x.minutes > 0
      BY <2>1, DaysOfMonth DEF Entry
    <3> QED
      BY <2>1, <3>1, EntriesMade
  <2>3. ledger' \in Placements(ledger, {x}) /\ plan' = plan
    BY <1>3, <2>1 DEF Allow, AddEntries
  <2> QED
    BY <1>1, <2>2, <2>3
<1>4. ASSUME NEW i \in DOMAIN ledger, ReverseEntry(i) PROVE CoverInv'
  <2>1. PICK l, k : l = ledger /\ k = [l EXCEPT ![i].reversed = TRUE]
    OBVIOUS
  <2>2. ledger' = k /\ plan' = plan
    BY <1>4, <2>1 DEF ReverseEntry
  <2>3. l \in Seq(Entries) /\ i \in 1 .. Len(l) /\ l[i] \in Entries
    BY <1>0, <2>1, LedgerFacts
  <2>4. Len(k) = Len(l) /\ k[i] = [l[i] EXCEPT !.reversed = TRUE]
    BY <2>1, <2>3
  <2>5. k[i].reversed
    BY <2>3, <2>4 DEF Entries
  <2>6. ~Unreversed(k)
    BY <2>3, <2>4, <2>5 DEF Unreversed
  <2>7. Kept(k) /\ \A xs : Promised(k, xs)
    BY <2>6 DEF Kept, Promised
  <2> QED
    BY <1>0, <2>2, <2>7 DEF CoverInv
<1>5. ASSUME NEW c \in LedgerClients, NEW xs, \A x \in xs : x \in Takes /\ ~x.reversed, LockLedger,
             ~Insufficient(ledger, xs), plan' = [plan EXCEPT ![c] = xs], ledger' = ledger
      PROVE  CoverInv'
  <2>1. Promised(ledger, xs)
    BY <1>0, <1>5, ValidatedIsPromised
  <2>2. \A d \in LedgerClients : plan'[d] = IF d = c THEN xs ELSE {}
    BY <1>0, <1>5 DEF LockLedger
  <2> QED
    BY <1>0, <1>5, <2>1, <2>2 DEF CoverInv
<1>6. ASSUME NEW c \in LedgerClients, NEW day \in LedgerDays, NEW m \in Amounts, Deduct(c, day, m)
      PROVE  CoverInv'
  <2>1. PICK xs : xs = {Entry("adjust", -m, day, Never)}
    OBVIOUS
  <2>2. \A x \in xs : x \in Takes /\ ~x.reversed
    <3>1. \A x \in xs : ~x.reversed
      BY <2>1 DEF Entry
    <3> QED
      BY <2>1, <3>1, EntriesMade
  <2>3. LockLedger /\ ~Insufficient(ledger, xs) /\ plan' = [plan EXCEPT ![c] = xs]
        /\ ledger' = ledger
    BY <1>6, <2>1 DEF Deduct
  <2> QED
    BY <1>5, <2>2, <2>3
<1>7. ASSUME NEW c \in LedgerClients, NEW from \in LedgerDays, NEW to \in from .. LastLedgerDay,
             NEW m \in Amounts, Consume(c, from, to, m)
      PROVE  CoverInv'
  <2>1. PICK xs : xs = {Entry("consume", -m, day, Never) : day \in LeaveDatesOf(from, to)}
    OBVIOUS
  <2>2. \A day \in LeaveDatesOf(from, to) : day \in LedgerDays
    BY DaysAreInt DEF LeaveDatesOf, LedgerDays
  <2>3. \A x \in xs : x \in Takes /\ ~x.reversed
    <3>1. \A x \in xs : ~x.reversed
      BY <2>1 DEF Entry
    <3> QED
      BY <2>1, <2>2, <3>1, EntriesMade
  <2>4. LockLedger /\ ~Insufficient(ledger, xs) /\ plan' = [plan EXCEPT ![c] = xs]
        /\ ledger' = ledger
    BY <1>7, <2>1 DEF Consume, Propose
  <2> QED
    BY <1>5, <2>3, <2>4
<1>8. ASSUME NEW c \in LedgerClients, CommitEntries(c) PROVE CoverInv'
  <2>1. plan[c] # {} /\ ledger' \in Placements(ledger, plan[c]) /\ plan' = [plan EXCEPT ![c] = {}]
    BY <1>8 DEF CommitEntries, AddEntries
  <2>2. \A x \in plan[c] : Sound(x)
    BY <1>0, TakesAreSound
  <2>3. Kept(ledger')
    BY <1>0, <2>1, <2>2, PromisedIsKept
  <2>4. \A d \in LedgerClients : plan'[d] = {}
    BY <1>0, <2>1
  <2> QED
    BY <2>3, <2>4 DEF CoverInv
<1>9. ASSUME NEW c \in LedgerClients, RollbackEntries(c) PROVE CoverInv'
  <2>1. plan' = [plan EXCEPT ![c] = {}] /\ ledger' = ledger
    BY <1>9 DEF RollbackEntries
  <2>2. \A d \in LedgerClients : plan'[d] # {} => plan'[d] = plan[d]
    BY <1>0, <2>1
  <2> QED
    BY <1>0, <2>1, <2>2 DEF CoverInv
<1>10. CASE UNCHANGED ledgerVars
  BY <1>0, <1>10 DEF ledgerVars, CoverInv
<1>11. CASE NextLedger
  BY <1>2, <1>3, <1>4, <1>6, <1>7, <1>8, <1>9, <1>11 DEF NextLedger
<1> QED
  BY <1>10, <1>11

(***************************************************************************)
(* As long as nothing is reversed and leave is not taken on a day on which *)
(* it is granted, no day is overdrawn, for any number of clients, days,    *)
(* amounts and entries, however what is granted, allowed and taken follow  *)
(* each other and wherever entries of one day come to stand                *)
(* (validateLeaveConsumptions under lockLedgerOf).                         *)
(***************************************************************************)
THEOREM LeaveIsCovered == LedgerSpec => []OverdrawnOnlyOnAGrantDay
<1>1. LedgerSpec => [](LedgerInv /\ CoverInv)
  <2>1. InitLedger => LedgerInv /\ CoverInv
    BY LedgerInitially, CoveredInitially
  <2>2. LedgerInv /\ CoverInv /\ [NextLedger]_ledgerVars => (LedgerInv /\ CoverInv)'
    BY LedgerStep, CoveredStep
  <2> QED
    BY <2>1, <2>2, PTL DEF LedgerSpec
<1>2. LedgerInv /\ CoverInv => OverdrawnOnlyOnAGrantDay
  <2> SUFFICES ASSUME LedgerInv, CoverInv, ~TakenOnAGrantDay, NothingReversed,
                      NEW day \in LedgerDays
               PROVE  AvailableOn(ledger, day) >= 0
    BY DEF OverdrawnOnlyOnAGrantDay, NeverOverdrawn
  <2>1. ledger \in Ledgers /\ DOMAIN ledger = 1 .. Len(ledger)
    BY LedgerFacts DEF LedgerInv
  <2>2. Unreversed(ledger) /\ TakesApart(ledger)
    BY <2>1 DEF Unreversed, TakesApart, NothingReversed, TakenOnAGrantDay
  <2>3. Covered(ledger)
    BY <2>2 DEF CoverInv, Kept
  <2> QED
    BY <2>1, <2>2, <2>3, CoveredIsAvailable
<1> QED
  BY <1>1, <1>2, PTL
-----------------------------------------------------------------------------
(***************************************************************************)
(* Nothing is wasted.  Sums over finite sets come first, as the folds of   *)
(* the community modules define them, then every other way to take the     *)
(* leave that was taken: f tells how much of each grant each take gets.    *)
(* In the order in which the ledger is walked, the buckets never hold less *)
(* than such a way leaves, and never less of it that can still be used.    *)
(***************************************************************************)

\* What holds of nothing and of each set with one more element holds of a finite set.
LEMMA OneByOne ==
  ASSUME NEW S, IsFiniteSet(S), NEW Q, {} \in Q,
         \A H \in SUBSET S : \A x \in S \ H : H \in Q => H \cup {x} \in Q
  PROVE  S \in Q
<1> DEFINE T == {n \in Nat : \A H \in SUBSET S : Cardinality(H) = n => H \in Q}
<1>1. Cardinality(S) \in Nat
  BY FS_CardinalityType
<1>2. 0 \in T
  <2>1. \A H \in SUBSET S : Cardinality(H) = 0 => H = {}
    BY FS_EmptySet, FS_Subset
  <2> QED
    BY <2>1
<1>3. ASSUME NEW n \in Nat, n \in T PROVE n + 1 \in T
  <2>1. ASSUME NEW H \in SUBSET S, Cardinality(H) = n + 1 PROVE H \in Q
    <3>1. IsFiniteSet(H)
      BY FS_Subset
    <3>2. n + 1 # 0 /\ (n + 1) - 1 = n
      OBVIOUS
    <3>3. PICK x \in H : TRUE
      BY <2>1, <3>2, FS_EmptySet
    <3>4. Cardinality(H \ {x}) = n
      <4>1. Cardinality(H \ {x}) = (n + 1) - 1
        BY <2>1, <3>1, <3>3, FS_RemoveElement, Zenon
      <4> QED
        BY <3>2, <4>1
    <3>5. H \ {x} \in Q
      BY <1>3, <3>4
    <3>6. (H \ {x}) \cup {x} \in Q
      BY <3>5
    <3>7. (H \ {x}) \cup {x} = H
      OBVIOUS
    <3> QED
      BY <3>6, <3>7
  <2> QED
    BY <2>1
<1> HIDE DEF T
<1>4. \A n \in 0 .. Cardinality(S) : n \in T
  BY <1>1, <1>2, <1>3, Climb
<1>5. Cardinality(S) \in T
  BY <1>1, <1>4
<1> QED
  BY <1>5 DEF T

\* The sum of what a function gives for the elements of a set.
SumOn(f, S) == FoldFunctionOnSet(+, 0, f, S)

\* The function of subsets that the fold is defined by.
Summed(f, S, it) ==
  it = [s \in SUBSET S |-> IF s = {} THEN 0
                           ELSE f[CHOOSE x \in s : TRUE] + it[s \ {CHOOSE x \in s : TRUE}]]

LEMMA SumOnIs ==
  ASSUME NEW f, NEW S
  PROVE  SumOn(f, S) = (CHOOSE it : Summed(f, S, it))[S]
BY Zenon DEF SumOn, Summed, FoldFunctionOnSet, MapThenFoldSet

\* The sums over all subsets of a set.
SumsOf(f, S, h) ==
  /\ h \in [SUBSET S -> Int] /\ h[{}] = 0
  /\ \A s \in SUBSET S : \A x \in s : h[s] = h[s \ {x}] + f[x]

LEMMA SumsOfExist ==
  ASSUME NEW S, IsFiniteSet(S), NEW f, \A x \in S : f[x] \in Int
  PROVE  \E h : SumsOf(f, S, h)
<1> DEFINE Q == {H \in SUBSET S : \E h : SumsOf(f, H, h)}
<1>1. {} \in Q
  <2>1. SumsOf(f, {}, [s \in SUBSET {} |-> 0])
    BY DEF SumsOf
  <2> QED
    BY <2>1
<1>2. ASSUME NEW H \in SUBSET S, NEW x \in S \ H, H \in Q PROVE H \cup {x} \in Q
  <2>1. PICK h : SumsOf(f, H, h)
    BY <1>2
  <2>2. /\ h \in [SUBSET H -> Int] /\ h[{}] = 0
        /\ \A s \in SUBSET H : \A y \in s : h[s] = h[s \ {y}] + f[y]
    BY <2>1 DEF SumsOf
  <2>3. PICK g : g = [s \in SUBSET (H \cup {x}) |-> IF x \in s THEN h[s \ {x}] + f[x] ELSE h[s]]
    OBVIOUS
  <2>4. PICK fx \in Int : fx = f[x]
    OBVIOUS
  <2>5. ASSUME NEW s \in SUBSET (H \cup {x})
        PROVE  /\ s \ {x} \in SUBSET H /\ h[s \ {x}] \in Int
               /\ x \in s => g[s] = h[s \ {x}] + fx
               /\ x \notin s => s \in SUBSET H /\ g[s] = h[s]
    <3>1. s \ {x} \in SUBSET H
      OBVIOUS
    <3>2. h[s \ {x}] \in Int
      BY <2>2, <3>1
    <3> QED
      BY <2>3, <2>4, <3>1, <3>2
  <2>6. g \in [SUBSET (H \cup {x}) -> Int]
    <3>1. ASSUME NEW s \in SUBSET (H \cup {x}) PROVE g[s] \in Int
      <4>1. CASE x \in s
        <5>1. PICK a \in Int : a = h[s \ {x}]
          BY <2>5
        <5>2. g[s] = a + fx
          BY <2>5, <4>1, <5>1
        <5> QED
          BY <5>2
      <4>2. CASE x \notin s
        BY <2>2, <2>5, <4>2
      <4> QED
        BY <4>1, <4>2
    <3> QED
      BY <2>3, <3>1
  <2>7. g[{}] = 0
    BY <2>2, <2>5
  <2>8. ASSUME NEW s \in SUBSET (H \cup {x}), NEW y \in s PROVE g[s] = g[s \ {y}] + f[y]
    <3>1. s \ {y} \in SUBSET (H \cup {x})
      OBVIOUS
    <3>2. CASE y = x
      <4>1. g[s] = h[s \ {x}] + fx
        BY <2>5, <3>2
      <4>2. g[s \ {y}] = h[s \ {x}]
        BY <2>5, <3>1, <3>2
      <4> QED
        BY <2>4, <3>2, <4>1, <4>2
    <3>3. CASE y # x /\ x \in s
      <4>1. PICK u : u = s \ {x}
        OBVIOUS
      <4>2. u \in SUBSET H /\ y \in u /\ u \ {y} \in SUBSET H /\ (s \ {y}) \ {x} = u \ {y}
        BY <3>3, <4>1
      <4>3. h[u] = h[u \ {y}] + f[y] /\ h[u \ {y}] \in Int
        BY <2>2, <4>2
      <4>4. f[y] \in Int
        BY <3>3
      <4>5. g[s] = h[u] + fx
        BY <2>5, <3>3, <4>1
      <4>6. g[s \ {y}] = h[u \ {y}] + fx
        <5>1. x \in s \ {y}
          BY <3>3
        <5>2. g[s \ {y}] = h[(s \ {y}) \ {x}] + fx
          BY <2>5, <3>1, <5>1
        <5> QED
          BY <4>2, <5>2
      <4> QED
        BY <4>3, <4>4, <4>5, <4>6
    <3>4. CASE x \notin s
      <4>1. s \in SUBSET H /\ g[s] = h[s]
        BY <2>5, <3>4
      <4>2. g[s \ {y}] = h[s \ {y}]
        BY <2>5, <3>1, <3>4
      <4> QED
        BY <2>2, <4>1, <4>2
    <3> QED
      BY <3>2, <3>3, <3>4
  <2>9. SumsOf(f, H \cup {x}, g)
    BY <2>6, <2>7, <2>8 DEF SumsOf
  <2> QED
    BY <2>9
<1> HIDE DEF Q
<1>3. S \in Q
  BY <1>1, <1>2, OneByOne
<1> QED
  BY <1>3 DEF Q

LEMMA SumOnIsSumOf ==
  ASSUME NEW S, IsFiniteSet(S), NEW f, \A x \in S : f[x] \in Int, NEW h, SumsOf(f, S, h)
  PROVE  SumOn(f, S) = h[S]
<1>1. /\ h \in [SUBSET S -> Int] /\ h[{}] = 0
      /\ \A s \in SUBSET S : \A y \in s : h[s] = h[s \ {y}] + f[y]
  BY DEF SumsOf
<1>2. Summed(f, S, h)
  <2>1. ASSUME NEW s \in SUBSET S, s # {}
        PROVE  h[s] = f[CHOOSE x \in s : TRUE] + h[s \ {CHOOSE x \in s : TRUE}]
    <3>1. PICK y : y = CHOOSE x \in s : TRUE
      OBVIOUS
    <3>2. y \in s
      BY <2>1, <3>1
    <3>3. s \ {y} \in SUBSET S /\ f[y] \in Int /\ h[s \ {y}] \in Int
      BY <1>1, <3>2
    <3>4. h[s] = f[y] + h[s \ {y}]
      BY <1>1, <3>2, <3>3
    <3> QED
      BY <3>1, <3>4
  <2>2. h = [s \in SUBSET S |-> h[s]]
    BY <1>1
  <2>3. [s \in SUBSET S |-> h[s]]
          = [s \in SUBSET S |-> IF s = {} THEN 0
               ELSE f[CHOOSE x \in s : TRUE] + h[s \ {CHOOSE x \in s : TRUE}]]
    BY <1>1, <2>1
  <2> QED
    BY <2>2, <2>3, Zenon DEF Summed
<1>3. PICK it : it = CHOOSE i : Summed(f, S, i)
  OBVIOUS
<1>4. Summed(f, S, it)
  BY <1>2, <1>3, Zenon
<1>5. \A s \in SUBSET S : it[s] = IF s = {} THEN 0
                                  ELSE f[CHOOSE x \in s : TRUE] + it[s \ {CHOOSE x \in s : TRUE}]
  BY <1>4, Zenon DEF Summed
<1> DEFINE T == {n \in Nat : \A s \in SUBSET S : Cardinality(s) = n => it[s] = h[s]}
<1>6. Cardinality(S) \in Nat
  BY FS_CardinalityType
<1>7. 0 \in T
  <2>1. \A H \in SUBSET S : Cardinality(H) = 0 => H = {}
    BY FS_EmptySet, FS_Subset
  <2>2. it[{}] = 0
    BY <1>5
  <2> QED
    BY <1>1, <2>1, <2>2
<1>8. ASSUME NEW n \in Nat, n \in T PROVE n + 1 \in T
  <2>1. ASSUME NEW s \in SUBSET S, Cardinality(s) = n + 1 PROVE it[s] = h[s]
    <3>1. IsFiniteSet(s)
      BY FS_Subset
    <3>2. n + 1 # 0 /\ (n + 1) - 1 = n /\ s # {}
      <4>1. n + 1 # 0 /\ (n + 1) - 1 = n
        OBVIOUS
      <4> QED
        BY <2>1, <4>1, FS_EmptySet
    <3>3. PICK x : x = CHOOSE y \in s : TRUE
      OBVIOUS
    <3>4. x \in s
      BY <3>2, <3>3
    <3>5. Cardinality(s \ {x}) = n /\ s \ {x} \in SUBSET S
      <4>1. Cardinality(s \ {x}) = (n + 1) - 1
        BY <2>1, <3>1, <3>4, FS_RemoveElement, Zenon
      <4> QED
        BY <3>2, <4>1
    <3>6. it[s \ {x}] = h[s \ {x}]
      BY <1>8, <3>5
    <3>7. it[s] = f[x] + it[s \ {x}]
      BY <1>5, <3>2, <3>3
    <3>8. h[s] = h[s \ {x}] + f[x] /\ h[s \ {x}] \in Int /\ f[x] \in Int
      BY <1>1, <3>4, <3>5
    <3> QED
      BY <3>6, <3>7, <3>8
  <2> QED
    BY <2>1
<1> HIDE DEF T
<1>9. \A n \in 0 .. Cardinality(S) : n \in T
  BY <1>6, <1>7, <1>8, Climb
<1>10. Cardinality(S) \in T
  BY <1>6, <1>9
<1>11. it[S] = h[S]
  BY <1>10 DEF T
<1> QED
  BY <1>3, <1>11, SumOnIs

\* What is used of sums below.
SumIs(f, S) ==
  /\ SumOn(f, {}) = 0
  /\ \A s \in SUBSET S : SumOn(f, s) \in Int
  /\ \A s \in SUBSET S : \A x \in S \ s : SumOn(f, s \cup {x}) = SumOn(f, s) + f[x]

LEMMA SumDefined ==
  ASSUME NEW S, IsFiniteSet(S), NEW f, \A x \in S : f[x] \in Int
  PROVE  SumIs(f, S)
<1>1. PICK h : SumsOf(f, S, h)
  BY SumsOfExist
<1>2. /\ h \in [SUBSET S -> Int] /\ h[{}] = 0
      /\ \A s \in SUBSET S : \A y \in s : h[s] = h[s \ {y}] + f[y]
  BY <1>1 DEF SumsOf
<1>3. ASSUME NEW s \in SUBSET S PROVE SumOn(f, s) = h[s]
  <2>1. PICK g : g = [u \in SUBSET s |-> h[u]]
    OBVIOUS
  <2>2. \A u \in SUBSET s : u \in SUBSET S /\ g[u] = h[u]
    BY <2>1
  <2>3. g \in [SUBSET s -> Int]
    BY <1>2, <2>1
  <2>4. g[{}] = 0
    BY <1>2, <2>2
  <2>5. \A u \in SUBSET s : \A y \in u : g[u] = g[u \ {y}] + f[y]
    BY <1>2, <2>2
  <2>6. SumsOf(f, s, g)
    BY <2>3, <2>4, <2>5 DEF SumsOf
  <2>7. IsFiniteSet(s) /\ \A x \in s : f[x] \in Int
    BY FS_Subset
  <2>8. SumOn(f, s) = g[s]
    BY <2>6, <2>7, SumOnIsSumOf
  <2> QED
    BY <2>2, <2>8
<1>4. SumOn(f, {}) = 0
  BY <1>2, <1>3
<1>5. \A s \in SUBSET S : SumOn(f, s) \in Int
  BY <1>2, <1>3
<1>6. ASSUME NEW s \in SUBSET S, NEW x \in S \ s PROVE SumOn(f, s \cup {x}) = SumOn(f, s) + f[x]
  <2>1. s \cup {x} \in SUBSET S /\ (s \cup {x}) \ {x} = s /\ x \in s \cup {x}
    OBVIOUS
  <2>2. h[s \cup {x}] = h[s] + f[x]
    BY <1>2, <2>1
  <2> QED
    BY <1>3, <2>1, <2>2
<1> QED
  BY <1>4, <1>5, <1>6 DEF SumIs

\* Sums over sets without a common element add up.
LEMMA SumsJoin ==
  ASSUME NEW S, IsFiniteSet(S), NEW f, \A x \in S : f[x] \in Int,
         NEW A \in SUBSET S, NEW B \in SUBSET S, A \cap B = {}
  PROVE  SumOn(f, A \cup B) = SumOn(f, A) + SumOn(f, B)
<1>1. SumIs(f, S)
  BY SumDefined
<1>2. PICK a \in Int : a = SumOn(f, A)
  BY <1>1 DEF SumIs
<1> DEFINE Q == {H \in SUBSET B : SumOn(f, A \cup H) = a + SumOn(f, H)}
<1>3. {} \in Q
  <2>1. A \cup {} = A /\ SumOn(f, {}) = 0
    BY <1>1 DEF SumIs
  <2> QED
    BY <1>2, <2>1
<1>4. ASSUME NEW H \in SUBSET B, NEW x \in B \ H, H \in Q PROVE H \cup {x} \in Q
  <2>1. /\ H \in SUBSET S /\ A \cup H \in SUBSET S /\ x \in S \ H /\ x \in S \ (A \cup H)
        /\ A \cup (H \cup {x}) = (A \cup H) \cup {x}
    OBVIOUS
  <2>2. PICK b, fx \in Int : b = SumOn(f, H) /\ fx = f[x]
    BY <1>1, <2>1 DEF SumIs
  <2>3. SumOn(f, H \cup {x}) = b + fx /\ SumOn(f, (A \cup H) \cup {x}) = SumOn(f, A \cup H) + fx
    BY <1>1, <2>1, <2>2 DEF SumIs
  <2>4. SumOn(f, A \cup H) = a + b
    BY <1>4, <2>2
  <2>5. SumOn(f, A \cup (H \cup {x})) = (a + b) + fx
    BY <2>1, <2>3, <2>4
  <2>6. SumOn(f, A \cup (H \cup {x})) = a + SumOn(f, H \cup {x})
    BY <2>3, <2>5
  <2> QED
    BY <2>6
<1> HIDE DEF Q
<1>5. IsFiniteSet(B)
  BY FS_Subset
<1>6. B \in Q
  BY <1>3, <1>4, <1>5, OneByOne
<1> QED
  BY <1>2, <1>6 DEF Q

\* A sum of what is not negative is not.
LEMMA SumIsNat ==
  ASSUME NEW S, IsFiniteSet(S), NEW f, \A x \in S : f[x] \in Nat
  PROVE  /\ \A A \in SUBSET S : SumOn(f, A) \in Nat
         /\ (\A x \in S : f[x] = 0) => SumOn(f, S) = 0
<1>1. SumIs(f, S)
  BY SumDefined
<1> DEFINE Q == {H \in SUBSET S :
                   SumOn(f, H) \in Nat /\ ((\A x \in H : f[x] = 0) => SumOn(f, H) = 0)}
<1>2. {} \in Q
  BY <1>1 DEF SumIs
<1>3. ASSUME NEW H \in SUBSET S, NEW x \in S \ H, H \in Q PROVE H \cup {x} \in Q
  <2>1. PICK b, fx \in Nat : b = SumOn(f, H) /\ fx = f[x]
    BY <1>3
  <2>2. SumOn(f, H \cup {x}) = b + fx
    BY <1>1, <2>1 DEF SumIs
  <2>3. SumOn(f, H \cup {x}) \in Nat
    BY <2>2
  <2>4. (\A y \in H \cup {x} : f[y] = 0) => b + fx = 0
    BY <1>3, <2>1
  <2> QED
    BY <2>2, <2>3, <2>4
<1> HIDE DEF Q
<1>4. ASSUME NEW A \in SUBSET S PROVE A \in Q
  <2>1. IsFiniteSet(A)
    BY FS_Subset
  <2>2. \A H \in SUBSET A : \A x \in A \ H : H \in Q => H \cup {x} \in Q
    BY <1>3
  <2> QED
    BY <1>2, <2>1, <2>2, OneByOne
<1> QED
  BY <1>4 DEF Q

\* Where more is summed the sum is not less.
LEMMA SumGrows ==
  ASSUME NEW S, IsFiniteSet(S), NEW f, \A x \in S : f[x] \in Nat,
         NEW A \in SUBSET S, NEW B \in SUBSET S, A \subseteq B
  PROVE  SumOn(f, A) <= SumOn(f, B)
<1>1. B \ A \in SUBSET S /\ A \cap (B \ A) = {} /\ A \cup (B \ A) = B
  OBVIOUS
<1>2. SumOn(f, A \cup (B \ A)) = SumOn(f, A) + SumOn(f, B \ A)
  BY <1>1, SumsJoin
<1>3. PICK a, c \in Nat : a = SumOn(f, A) /\ c = SumOn(f, B \ A)
  BY <1>1, SumIsNat
<1>4. SumOn(f, B) = a + c
  BY <1>1, <1>2, <1>3, Zenon
<1> QED
  BY <1>3, <1>4

\* What buckets hold that expire in a range of days.
LEMMA BucketsOfARange ==
  ASSUME NEW left \in [Expiries -> Nat], NEW a \in Expiries, NEW c \in Expiries, a <= c,
         NEW f, \A e \in a .. c : f[e] = left[e]
  PROVE  SumOn(f, a .. c) = Sums(left)[c] - Sums(left)[a - 1]
<1>1. /\ a \in Int /\ c \in Int /\ 1 <= a /\ c <= Never /\ a .. c \subseteq Expiries
      /\ Never \in Nat /\ a - 1 \in 0 .. Never
  BY DaysAreInt DEF Expiries
<1>2. PICK s : /\ s = Sums(left) /\ \A n \in 0 .. Never : s[n] \in Nat
               /\ \A n \in 1 .. Never : s[n] = s[n - 1] + left[n]
  BY SumsDefined
<1>3. PICK S : S = a .. c
  OBVIOUS
<1>4. IsFiniteSet(S)
  <2>1. IsFiniteSet(a .. c)
    BY <1>1, FS_Interval
  <2> QED
    BY <1>3, <2>1
<1>5. \A x \in S : x \in Int /\ f[x] = left[x] /\ left[x] \in Nat
  BY <1>1, <1>3
<1>6. SumIs(f, S)
  <2>1. \A x \in S : f[x] \in Int
    BY <1>5
  <2> QED
    BY <1>4, <2>1, SumDefined
<1>7. PICK first \in Nat : first = s[a - 1]
  BY <1>1, <1>2
<1> DEFINE T == {n \in Nat : n <= c - a + 1 => SumOn(f, a .. a + n - 1) = s[a + n - 1] - first}
<1>8. 0 \in T
  <2>1. PICK z : z = a + 0 - 1
    OBVIOUS
  <2>2. a .. z = {} /\ z = a - 1
    BY <1>1, <2>1
  <2>3. SumOn(f, {}) = 0
    BY <1>6 DEF SumIs
  <2>4. s[z] - first = 0
    <3>1. s[z] = first
      BY <1>7, <2>2, Zenon
    <3> QED
      BY <1>7, <3>1
  <2>5. SumOn(f, a .. z) = s[z] - first
    BY <2>2, <2>3, <2>4, Zenon
  <2>6. SumOn(f, a .. a + 0 - 1) = s[a + 0 - 1] - first
    BY <2>1, <2>5, Zenon
  <2> QED
    BY <2>6
<1>9. ASSUME NEW n \in Nat, n < c - a + 1, n \in T PROVE n + 1 \in T
  <2>1. PICK m, z \in Int : m = a + n /\ z = m - 1
    BY <1>1
  <2>2. /\ m \in a .. c /\ m \in 1 .. Never /\ z \in 0 .. Never
    BY <1>1, <1>9, <2>1
  <2>3. a .. m = (a .. z) \cup {m} /\ a .. z \subseteq a .. c /\ m \notin a .. z
    BY <1>1, <2>1, <2>2
  <2>4. m \in S /\ a .. z \in SUBSET S /\ m \in S \ (a .. z)
    BY <1>3, <2>2, <2>3
  <2>5. SumOn(f, (a .. z) \cup {m}) = SumOn(f, a .. z) + f[m]
    BY <1>6, <2>4 DEF SumIs
  <2>6. SumOn(f, a .. z) = s[z] - first
    <3>1. n <= c - a + 1
      BY <1>1, <1>9
    <3>2. SumOn(f, a .. a + n - 1) = s[a + n - 1] - first
      BY <1>9, <3>1
    <3>3. a + n - 1 = z
      BY <1>1, <2>1
    <3> QED
      BY <3>2, <3>3, Zenon
  <2>7. PICK p \in Nat : p = s[z]
    BY <1>2, <2>2
  <2>8. PICK v \in Nat : v = f[m]
    BY <1>5, <2>4
  <2>9. s[m] = p + v
    <3>1. s[m] = s[m - 1] + left[m]
      BY <1>2, <2>2
    <3>2. left[m] = v
      BY <1>5, <2>4, <2>8
    <3> QED
      BY <2>1, <2>7, <3>1, <3>2
  <2>10. SumOn(f, a .. m) = (p - first) + v
    <3>1. SumOn(f, a .. m) = SumOn(f, a .. z) + f[m]
      BY <2>3, <2>5, Zenon
    <3> QED
      BY <2>6, <2>7, <2>8, <3>1
  <2>11. SumOn(f, a .. m) = s[m] - first
    BY <2>9, <2>10
  <2>12. a + (n + 1) - 1 = m
    BY <1>1, <2>1
  <2>13. SumOn(f, a .. a + (n + 1) - 1) = s[a + (n + 1) - 1] - first
    BY <2>11, <2>12, Zenon
  <2> QED
    BY <2>13
<1> HIDE DEF T
<1>10. PICK N \in Nat : N = c - a + 1
  BY <1>1
<1>11. \A n \in 0 .. N : n \in T
  BY <1>8, <1>9, <1>10, Climb
<1>12. a + N - 1 = c /\ N \in 0 .. N /\ N <= c - a + 1
  BY <1>1, <1>10
<1>13. SumOn(f, a .. a + N - 1) = s[a + N - 1] - first
  BY <1>11, <1>12 DEF T
<1>14. SumOn(f, a .. c) = s[c] - first
  BY <1>12, <1>13, Zenon
<1> QED
  BY <1>2, <1>7, <1>14, Zenon

\* Days of which no entry counts change no walk.
LEMMA QuietDays ==
  ASSUME NEW l \in Seq(Entries), NEW d \in Int, NEW e \in Int, d <= e,
         \A i \in 1 .. Len(l) : l[i].on \notin d + 1 .. e \/ l[i].reversed,
         NEW n \in 0 .. Len(l)
  PROVE  Walk(l, e)[n] = Walk(l, d)[n]
<1>1. PICK N \in Nat : N = Len(l)
  OBVIOUS
<1>2. PICK v, w : v = Walk(l, d) /\ w = Walk(l, e)
  OBVIOUS
<1>3. /\ v[0] = Empty
      /\ \A m \in 1 .. N :
           v[m] = IF l[m].reversed \/ l[m].on > d THEN v[m - 1] ELSE Book(v[m - 1], l[m])
  BY <1>1, <1>2, WalkDefined
<1>4. /\ w[0] = Empty
      /\ \A m \in 1 .. N :
           w[m] = IF l[m].reversed \/ l[m].on > e THEN w[m - 1] ELSE Book(w[m - 1], l[m])
  BY <1>1, <1>2, WalkDefined
<1> DEFINE T == {m \in Nat : m <= N => w[m] = v[m]}
<1>5. 0 \in T
  BY <1>3, <1>4
<1>6. ASSUME NEW m \in Nat, m < N, m \in T PROVE m + 1 \in T
  <2>1. PICK k : k = m + 1
    OBVIOUS
  <2>2. k \in 1 .. N /\ k - 1 = m
    BY <1>6, <2>1
  <2>3. l[k] \in Entries
    BY <1>1, <2>2
  <2>4. PICK o \in Int : o = l[k].on
    BY <2>3, DaysOfMonth DEF Entries
  <2>5. o \notin d + 1 .. e \/ l[k].reversed
    BY <1>1, <2>2, <2>4
  <2>6. l[k].reversed \/ (o > d <=> o > e)
    BY <2>5
  <2>7. w[m] = v[m]
    BY <1>6
  <2>8. /\ v[k] = IF l[k].reversed \/ o > d THEN v[m] ELSE Book(v[m], l[k])
        /\ w[k] = IF l[k].reversed \/ o > e THEN w[m] ELSE Book(w[m], l[k])
    BY <1>3, <1>4, <2>2, <2>4
  <2>9. w[k] = v[k]
    BY <2>6, <2>7, <2>8
  <2> QED
    BY <2>1, <2>9
<1> HIDE DEF T
<1>7. \A m \in 0 .. N : m \in T
  BY <1>1, <1>5, <1>6, Climb
<1>8. n \in T /\ n <= N /\ n \in Nat
  BY <1>1, <1>7
<1> QED
  BY <1>1, <1>2, <1>8 DEF T

\* What is announced to expire on the days up to one has expired when it comes.
LEMMA AnnouncedOfAnyLedger ==
  ASSUME NEW l \in Seq(Entries), NEW asOf \in LedgerDays, NEW through \in LedgerDays,
         asOf < through,
         \A i \in DOMAIN l : l[i].on \notin asOf + 1 .. through \/ l[i].reversed
  PROVE  FoldFunction(+, 0, Expirations(l, asOf, through - 1))
           = Register(l, asOf + 1, through).expired
<1>1. /\ asOf \in Int /\ through \in Int /\ asOf \in 0 .. Never /\ through \in 0 .. Never
      /\ asOf \in Expiries /\ through - 1 \in Expiries /\ asOf <= through - 1
      /\ through - 1 \in 0 .. Never /\ asOf - 1 \in 0 .. Never /\ (asOf + 1) - 1 = asOf
      /\ ~(through - 1 < asOf) /\ asOf - 1 < asOf
      /\ AtLeastZero(asOf - 1) = asOf - 1 /\ AtLeastZero(through - 1) = through - 1
  BY DaysAreInt DEF LedgerDays, Never, AtLeastZero, Expiries
<1>2. PICK w : w = Walk(l, asOf)[Len(l)]
  OBVIOUS
<1>3. w \in Buckets /\ w = Walk(l, through)[Len(l)]
  <2>1. Len(l) \in 0 .. Len(l) /\ DOMAIN l = 1 .. Len(l)
    OBVIOUS
  <2>2. w \in Buckets
    BY <1>1, <1>2, <2>1, WalkDefined
  <2>3. \A i \in 1 .. Len(l) : l[i].on \notin asOf + 1 .. through \/ l[i].reversed
    BY <2>1
  <2>4. Walk(l, through)[Len(l)] = Walk(l, asOf)[Len(l)]
    BY <1>1, <2>1, <2>3, QuietDays
  <2> QED
    BY <1>2, <2>2, <2>4
<1>4. PICK o, c : o = Lapse(w, asOf) /\ c = Lapse(w, through)
  OBVIOUS
<1>5. PICK s : s = Sums(w.left) /\ \A n \in 0 .. Never : s[n] \in Nat
  BY <1>3, SumsFacts
<1>6. o \in Buckets
  BY <1>1, <1>3, <1>4, LapseLeaves
<1>7. o.lapsed = w.lapsed + s[asOf - 1]
  <2>1. o.lapsed = w.lapsed + Sums(w.left)[AtLeastZero(asOf - 1)]
    BY <1>1, <1>3, <1>4, LapseLeaves
  <2> QED
    BY <1>1, <1>5, <2>1, Zenon
<1>8. \A k \in 0 .. Never : Sums(o.left)[k] = IF k < asOf THEN 0 ELSE s[k] - s[asOf - 1]
  <2>1. \A k \in 0 .. Never :
          Sums(o.left)[k]
            = IF k < asOf THEN 0 ELSE Sums(w.left)[k] - Sums(w.left)[AtLeastZero(asOf - 1)]
    BY <1>1, <1>3, <1>4, LapseLeaves
  <2> QED
    BY <1>1, <1>5, <2>1, Zenon
<1>9. c.lapsed = w.lapsed + s[through - 1]
  <2>1. c.lapsed = w.lapsed + Sums(w.left)[AtLeastZero(through - 1)]
    BY <1>1, <1>3, <1>4, LapseLeaves
  <2> QED
    BY <1>1, <1>5, <2>1, Zenon
<1>10. o.left \in [Expiries -> Nat] /\ w.lapsed \in Nat
  BY <1>3, <1>6 DEF Buckets
<1>11. PICK p, q, r \in Int : p = s[asOf - 1] /\ q = s[through - 1] /\ r = w.lapsed
  BY <1>1, <1>5, <1>10
<1>12. Register(l, asOf + 1, through).expired = q - p
  <2>1. Balance(l, through) = c
    BY <1>1, <1>3, <1>4, BalanceIsWalk
  <2>2. Balance(l, (asOf + 1) - 1) = o
    <3>1. Balance(l, asOf) = o
      BY <1>1, <1>2, <1>4, BalanceIsWalk
    <3> QED
      BY <1>1, <3>1, Zenon
  <2>3. Register(l, asOf + 1, through).expired = c.lapsed - o.lapsed
    BY <2>1, <2>2 DEF Register, OpeningDay
  <2>4. c.lapsed = r + q /\ o.lapsed = r + p
    BY <1>7, <1>9, <1>11
  <2> QED
    BY <1>11, <2>3, <2>4
<1>13. PICK f : f = [e \in asOf .. through - 1 |-> o.left[e]]
  OBVIOUS
<1>14. Expirations(l, asOf, through - 1) = f
  <2>1. Balance(l, asOf) = o
    BY <1>1, <1>2, <1>4, BalanceIsWalk
  <2> QED
    BY <1>13, <2>1, Zenon DEF Expirations
<1>15. SumOn(f, asOf .. through - 1) = Sums(o.left)[through - 1] - Sums(o.left)[asOf - 1]
  <2>1. \A e \in asOf .. through - 1 : f[e] = o.left[e]
    BY <1>13
  <2> QED
    BY <1>1, <1>10, <2>1, BucketsOfARange
<1>16. Sums(o.left)[through - 1] = q - p /\ Sums(o.left)[asOf - 1] = 0
  BY <1>1, <1>8, <1>11
<1>17. FoldFunction(+, 0, f) = SumOn(f, DOMAIN f)
  BY Zenon DEF FoldFunction, SumOn
<1>18. DOMAIN f = asOf .. through - 1
  BY <1>13
<1>19. FoldFunction(+, 0, f) = q - p
  <2>1. FoldFunction(+, 0, f) = (q - p) - 0
    BY <1>15, <1>16, <1>17, <1>18, Zenon
  <2>2. (q - p) - 0 = q - p
    BY <1>11
  <2> QED
    BY <2>1, <2>2, Zenon
<1> QED
  BY <1>12, <1>14, <1>19, Zenon

\* Sums add up term by term.
LEMMA SumsAdd ==
  ASSUME NEW S, IsFiniteSet(S), NEW a, NEW b, NEW c,
         \A x \in S : b[x] \in Int /\ c[x] \in Int /\ a[x] = b[x] + c[x]
  PROVE  SumOn(a, S) = SumOn(b, S) + SumOn(c, S)
<1>1. \A x \in S : a[x] \in Int /\ b[x] \in Int /\ c[x] \in Int
  OBVIOUS
<1>2. SumIs(a, S) /\ SumIs(b, S) /\ SumIs(c, S)
  BY <1>1, SumDefined
<1> DEFINE Q == {H \in SUBSET S : SumOn(a, H) = SumOn(b, H) + SumOn(c, H)}
<1>3. {} \in Q
  BY <1>2 DEF SumIs
<1>4. ASSUME NEW H \in SUBSET S, NEW x \in S \ H, H \in Q PROVE H \cup {x} \in Q
  <2>1. PICK p, q \in Int : p = SumOn(b, H) /\ q = SumOn(c, H)
    BY <1>2 DEF SumIs
  <2>2. PICK u, v \in Int : u = b[x] /\ v = c[x]
    BY <1>1
  <2>3. a[x] = u + v /\ SumOn(a, H) = p + q
    BY <1>4, <2>1, <2>2
  <2>4. /\ SumOn(a, H \cup {x}) = SumOn(a, H) + a[x]
        /\ SumOn(b, H \cup {x}) = p + u
        /\ SumOn(c, H \cup {x}) = q + v
    BY <1>2, <2>1, <2>2 DEF SumIs
  <2>5. SumOn(a, H \cup {x}) = (p + q) + (u + v)
    BY <2>3, <2>4
  <2>6. SumOn(a, H \cup {x}) = SumOn(b, H \cup {x}) + SumOn(c, H \cup {x})
    BY <2>4, <2>5
  <2> QED
    BY <2>6
<1> HIDE DEF Q
<1>5. S \in Q
  BY <1>3, <1>4, OneByOne
<1> QED
  BY <1>5 DEF Q

\* A table is summed column by column.
Column(f, A, x) == SumOn(f, A \X {x})

LEMMA SumByColumn ==
  ASSUME NEW A, IsFiniteSet(A), NEW B, IsFiniteSet(B), NEW f,
         \A z \in A \X B : f[z] \in Int, NEW c, \A x \in B : c[x] = Column(f, A, x)
  PROVE  SumOn(f, A \X B) = SumOn(c, B)
<1>1. PICK S : S = A \X B
  OBVIOUS
<1>2. IsFiniteSet(S)
  <2>1. IsFiniteSet(A \X B)
    BY FS_Product
  <2> QED
    BY <1>1, <2>1
<1>3. \A z \in S : f[z] \in Int
  BY <1>1
<1>4. SumIs(f, S)
  BY <1>2, <1>3, SumDefined
<1>5. ASSUME NEW x \in B PROVE A \X {x} \in SUBSET S /\ c[x] \in Int
  <2>1. A \X {x} \in SUBSET S
    BY <1>1
  <2> QED
    BY <1>4, <2>1 DEF SumIs, Column
<1>6. SumIs(c, B)
  BY <1>5, SumDefined
<1> DEFINE Q == {H \in SUBSET B : SumOn(f, A \X H) = SumOn(c, H)}
<1>7. {} \in Q
  <2>1. A \X {} = {}
    OBVIOUS
  <2>2. SumOn(f, A \X {}) = SumOn(c, {})
    BY <1>4, <1>6, <2>1 DEF SumIs
  <2> QED
    BY <2>2
<1>8. ASSUME NEW H \in SUBSET B, NEW x \in B \ H, H \in Q PROVE H \cup {x} \in Q
  <2>1. PICK K, L : K = A \X H /\ L = A \X {x}
    OBVIOUS
  <2>2. K \in SUBSET S /\ L \in SUBSET S /\ K \cap L = {} /\ A \X (H \cup {x}) = K \cup L
    BY <1>1, <2>1
  <2>3. SumOn(f, K \cup L) = SumOn(f, K) + SumOn(f, L)
    BY <1>2, <1>3, <2>2, SumsJoin
  <2>4. SumOn(f, K) = SumOn(c, H) /\ SumOn(f, L) = c[x]
    BY <1>8, <2>1 DEF Column
  <2>5. SumOn(c, H \cup {x}) = SumOn(c, H) + c[x]
    BY <1>6 DEF SumIs
  <2>6. SumOn(f, A \X (H \cup {x})) = SumOn(c, H \cup {x})
    BY <2>2, <2>3, <2>4, <2>5, Zenon
  <2> QED
    BY <2>6
<1> HIDE DEF Q
<1>9. B \in Q
  BY <1>7, <1>8, OneByOne
<1> QED
  BY <1>9 DEF Q

LEMMA SumOfOne ==
  ASSUME NEW f, NEW x, f[x] \in Int
  PROVE  SumOn(f, {x}) = f[x]
<1>1. IsFiniteSet({x}) /\ \A z \in {x} : f[z] \in Int
  BY FS_Singleton
<1>2. SumIs(f, {x})
  BY <1>1, SumDefined
<1>3. SumOn(f, {} \cup {x}) = SumOn(f, {}) + f[x]
  BY <1>2 DEF SumIs
<1>4. SumOn(f, {}) = 0 /\ {} \cup {x} = {x}
  BY <1>2 DEF SumIs
<1> QED
  BY <1>3, <1>4

\* A row of a table is summed cell by cell.
IsRow(f, t, B, r) == \A x \in B : f[<<t, x>>] \in Int /\ r[x] = f[<<t, x>>]

LEMMA SumOfRow ==
  ASSUME NEW t, NEW B, IsFiniteSet(B), NEW f, NEW r, IsRow(f, t, B, r)
  PROVE  SumOn(f, {t} \X B) = SumOn(r, B)
<1>0. \A x \in B : f[<<t, x>>] \in Int /\ r[x] = f[<<t, x>>]
  BY DEF IsRow
<1>1. IsFiniteSet({t})
  BY FS_Singleton
<1>3. \A z \in {t} \X B : f[z] \in Int
  <2>1. ASSUME NEW z \in {t} \X B PROVE f[z] \in Int
    <3>1. PICK x \in B : z = <<t, x>>
      OBVIOUS
    <3> QED
      BY <1>0, <3>1
  <2> QED
    BY <2>1
<1>2. ASSUME NEW x \in B PROVE r[x] = Column(f, {t}, x)
  <2>1. {t} \X {x} = {<<t, x>>}
    OBVIOUS
  <2>2. SumOn(f, {<<t, x>>}) = f[<<t, x>>]
    BY <1>0, SumOfOne
  <2> QED
    BY <1>0, <2>1, <2>2, Zenon DEF Column
<1>4. PICK A : A = {t}
  OBVIOUS
<1>5. SumOn(f, A \X B) = SumOn(r, B)
  <2>1. \A x \in B : r[x] = Column(f, A, x)
    BY <1>2, <1>4
  <2>2. IsFiniteSet(A) /\ \A z \in A \X B : f[z] \in Int
    BY <1>1, <1>3, <1>4
  <2> QED
    BY <2>1, <2>2, SumByColumn
<1> QED
  BY <1>4, <1>5

-----------------------------------------------------------------------------
\* A way to take the leave that was taken: f tells how much of a grant in P a take in Q gets.
Shares(l, P, Q, f) ==
  /\ P = {i \in 1 .. Len(l) : ~l[i].reversed /\ l[i].minutes > 0}
  /\ Q = {i \in 1 .. Len(l) : ~l[i].reversed /\ l[i].minutes < 0}
  /\ \A z \in Q \X P : f[z] \in Nat
  /\ \A t \in Q : SumOn(f, {t} \X P) = -l[t].minutes
  /\ \A g \in P : SumOn(f, Q \X {g}) <= l[g].minutes
  /\ \A t \in Q, g \in P : f[<<t, g>>] > 0 => g < t /\ l[g].expires >= l[t].on

Upto(Q, n) == {t \in Q : t <= n}

\* What this way leaves of a grant after the first n entries.
RestOf(l, Q, f, n, g) == (IF g <= n THEN l[g].minutes ELSE 0) - Column(f, Upto(Q, n), g)

Rest(l, P, Q, f, n) == [g \in P |-> RestOf(l, Q, f, n, g)]

\* The grants that can be used on a day and after it.
Lasting(l, P, e) == {g \in P : l[g].expires >= e}

LEMMA SharesFacts ==
  ASSUME NEW l \in Ledgers, NEW P, NEW Q, NEW f, Shares(l, P, Q, f)
  PROVE  /\ IsFiniteSet(P) /\ IsFiniteSet(Q) /\ P \cap Q = {}
         /\ \A i \in P \cup Q : i \in 1 .. Len(l) /\ i \in Nat /\ l[i].minutes \in Int
         /\ \A i \in P : l[i].minutes > 0
         /\ \A i \in Q : l[i].minutes < 0
<1>1. Len(l) \in Nat /\ \A i \in 1 .. Len(l) : l[i].minutes \in Int
  BY LedgerFacts
<1>2. /\ P = {i \in 1 .. Len(l) : ~l[i].reversed /\ l[i].minutes > 0}
      /\ Q = {i \in 1 .. Len(l) : ~l[i].reversed /\ l[i].minutes < 0}
  BY DEF Shares
<1>3. IsFiniteSet(1 .. Len(l))
  <2>1. PICK N \in Nat : N = Len(l)
    BY <1>1
  <2>2. IsFiniteSet(1 .. N)
    BY FS_Interval
  <2> QED
    BY <2>1, <2>2
<1>4. IsFiniteSet(P) /\ IsFiniteSet(Q)
  BY <1>2, <1>3, FS_Subset
<1>5. \A i \in P \cup Q : i \in 1 .. Len(l)
  BY <1>2
<1>6. \A i \in P : l[i].minutes > 0
  BY <1>2
<1>7. \A i \in Q : l[i].minutes < 0
  BY <1>2
<1>8. \A i \in P \cup Q : i \in Nat /\ l[i].minutes \in Int
  BY <1>1, <1>5
<1>9. P \cap Q = {}
  BY <1>6, <1>7, <1>8
<1> QED
  BY <1>4, <1>5, <1>6, <1>7, <1>8, <1>9

LEMMA ColumnFacts ==
  ASSUME NEW l \in Ledgers, NEW P, NEW Q, NEW f, Shares(l, P, Q, f), NEW g \in P, NEW n \in Nat
  PROVE  /\ IsFiniteSet(Q \X {g}) /\ Upto(Q, n) \X {g} \in SUBSET (Q \X {g})
         /\ \A z \in Q \X {g} : f[z] \in Nat
         /\ Column(f, Upto(Q, n), g) \in Nat
<1>1. IsFiniteSet(Q \X {g})
  <2>1. IsFiniteSet(Q) /\ IsFiniteSet({g})
    BY SharesFacts, FS_Singleton
  <2> QED
    BY <2>1, FS_Product
<1>2. Upto(Q, n) \X {g} \in SUBSET (Q \X {g})
  BY DEF Upto
<1>3. \A z \in Q \X {g} : f[z] \in Nat
  BY DEF Shares
<1>4. Column(f, Upto(Q, n), g) \in Nat
  BY <1>1, <1>2, <1>3, SumIsNat DEF Column
<1> QED
  BY <1>1, <1>2, <1>3, <1>4

LEMMA RestIsNat ==
  ASSUME NEW l \in Ledgers, NEW P, NEW Q, NEW f, Shares(l, P, Q, f), NEW g \in P, NEW n \in Nat
  PROVE  RestOf(l, Q, f, n, g) \in Nat /\ (n < g => RestOf(l, Q, f, n, g) = 0)
<1>1. PICK C : C = Upto(Q, n) \X {g}
  OBVIOUS
<1>2. /\ IsFiniteSet(Q \X {g}) /\ C \in SUBSET (Q \X {g}) /\ \A z \in Q \X {g} : f[z] \in Nat
      /\ Column(f, Upto(Q, n), g) \in Nat
  BY <1>1, ColumnFacts
<1>3. PICK c \in Nat : c = Column(f, Upto(Q, n), g)
  BY <1>2
<1>4. PICK m \in Nat : m = l[g].minutes
  BY SharesFacts
<1>5. g \in Nat
  BY SharesFacts
<1>6. CASE g <= n
  <2>1. SumOn(f, C) <= SumOn(f, Q \X {g})
    BY <1>2, SumGrows
  <2>2. SumOn(f, Q \X {g}) <= m
    BY <1>4 DEF Shares
  <2>3. SumOn(f, C) = c /\ SumOn(f, Q \X {g}) \in Nat
    BY <1>1, <1>2, <1>3, SumIsNat DEF Column
  <2>4. c <= m
    BY <2>1, <2>2, <2>3
  <2>5. RestOf(l, Q, f, n, g) = m - c
    BY <1>3, <1>4, <1>6 DEF RestOf
  <2> QED
    BY <1>5, <1>6, <2>4, <2>5
<1>7. CASE n < g
  <2>1. \A z \in C : f[z] = 0
    <3>1. ASSUME NEW t \in Upto(Q, n) PROVE f[<<t, g>>] = 0
      <4>1. t \in Q /\ t <= n /\ t \in Nat
        BY SharesFacts DEF Upto
      <4>2. f[<<t, g>>] \in Nat /\ (f[<<t, g>>] > 0 => g < t)
        BY <4>1 DEF Shares
      <4> QED
        BY <1>5, <1>7, <4>1, <4>2
    <3> QED
      BY <1>1, <3>1
  <2>2. IsFiniteSet(C) /\ \A z \in C : f[z] \in Nat
    BY <1>2, FS_Subset
  <2>3. SumOn(f, C) = 0
    BY <2>1, <2>2, SumIsNat
  <2>4. c = 0
    BY <1>1, <1>3, <2>3 DEF Column
  <2>5. RestOf(l, Q, f, n, g) = 0 - c
    BY <1>3, <1>5, <1>7 DEF RestOf
  <2> QED
    BY <2>4, <2>5
<1> QED
  BY <1>5, <1>6, <1>7

\* A take leaves the less of each grant it gets something of.
LEMMA RestAfterTake ==
  ASSUME NEW l \in Ledgers, NEW P, NEW Q, NEW f, Shares(l, P, Q, f), NEW g \in P, NEW n \in Q
  PROVE  RestOf(l, Q, f, n - 1, g) = RestOf(l, Q, f, n, g) + f[<<n, g>>]
<1>1. n \in Nat /\ n >= 1 /\ g \in Nat /\ g # n /\ n - 1 \in Nat
  BY SharesFacts
<1>2. PICK C : C = Upto(Q, n - 1) \X {g}
  OBVIOUS
<1>3. Upto(Q, n) \X {g} = C \cup {<<n, g>>}
  <2>1. \A t \in Q : t \in Nat
    BY SharesFacts
  <2>2. Upto(Q, n) = Upto(Q, n - 1) \cup {n}
    <3>1. \A t \in Q : t <= n <=> t <= n - 1 \/ t = n
      BY <1>1, <2>1
    <3> QED
      BY <3>1 DEF Upto
  <2> QED
    BY <1>2, <2>2
<1>4. <<n, g>> \notin C /\ <<n, g>> \in Q \X {g}
  BY <1>1, <1>2 DEF Upto
<1>5. /\ IsFiniteSet(Q \X {g}) /\ C \in SUBSET (Q \X {g}) /\ \A z \in Q \X {g} : f[z] \in Nat
      /\ Column(f, Upto(Q, n - 1), g) \in Nat
  BY <1>1, <1>2, ColumnFacts
<1>6. SumIs(f, Q \X {g})
  <2>1. \A z \in Q \X {g} : f[z] \in Int
    BY <1>5
  <2> QED
    BY <1>5, <2>1, SumDefined
<1>7. SumOn(f, C \cup {<<n, g>>}) = SumOn(f, C) + f[<<n, g>>]
  BY <1>4, <1>5, <1>6 DEF SumIs
<1>8. PICK c, k \in Nat : c = Column(f, Upto(Q, n - 1), g) /\ k = f[<<n, g>>]
  BY <1>4, <1>5
<1>9. Column(f, Upto(Q, n), g) = c + k
  BY <1>2, <1>3, <1>7, <1>8, Zenon DEF Column
<1>10. PICK m \in Int : m = IF g <= n THEN l[g].minutes ELSE 0
  BY SharesFacts
<1>11. m = IF g <= n - 1 THEN l[g].minutes ELSE 0
  BY <1>1, <1>10
<1>12. RestOf(l, Q, f, n - 1, g) = m - c /\ RestOf(l, Q, f, n, g) = m - (c + k)
  BY <1>8, <1>9, <1>10, <1>11, Zenon DEF RestOf
<1> QED
  BY <1>8, <1>12

\* An entry that takes nothing leaves of every grant what there was, and all of itself.
LEMMA RestAfterOther ==
  ASSUME NEW l \in Ledgers, NEW P, NEW Q, NEW f, Shares(l, P, Q, f), NEW g \in P,
         NEW n \in 1 .. Len(l), n \notin Q
  PROVE  RestOf(l, Q, f, n, g)
           = RestOf(l, Q, f, n - 1, g) + (IF g = n THEN l[n].minutes ELSE 0)
<1>1. n \in Nat /\ n >= 1 /\ g \in Nat /\ n - 1 \in Nat
  BY SharesFacts, LedgerFacts
<1>2. Upto(Q, n) = Upto(Q, n - 1)
  <2>1. \A t \in Q : t \in Nat
    BY SharesFacts
  <2> QED
    BY <1>1, <2>1 DEF Upto
<1>3. PICK c \in Nat : c = Column(f, Upto(Q, n - 1), g)
  BY <1>1, ColumnFacts
<1>4. PICK m \in Int : m = l[g].minutes
  BY SharesFacts
<1>5. /\ RestOf(l, Q, f, n - 1, g) = (IF g <= n - 1 THEN m ELSE 0) - c
      /\ RestOf(l, Q, f, n, g) = (IF g <= n THEN m ELSE 0) - c
  BY <1>2, <1>3, <1>4, Zenon DEF RestOf
<1>6. g = n => l[n].minutes = m
  BY <1>4
<1> QED
  BY <1>1, <1>3, <1>4, <1>5, <1>6

\* What is left, after the first n entries, of the grants that can be used on a day and after it.
Spare(l, P, Q, f, n, e) == SumOn(Rest(l, P, Q, f, n), Lasting(l, P, e))

LEMMA LastingFacts ==
  ASSUME NEW l \in Ledgers, NEW P, NEW Q, NEW f, Shares(l, P, Q, f)
  PROVE  /\ IsFiniteSet(P)
         /\ \A e \in Int : Lasting(l, P, e) \in SUBSET P /\ IsFiniteSet(Lasting(l, P, e))
         /\ \A d, e \in Int : d <= e => Lasting(l, P, e) \subseteq Lasting(l, P, d)
         /\ Lasting(l, P, 1) = P
<1>1. IsFiniteSet(P)
  BY SharesFacts
<1>2. \A g \in P : l[g].expires \in Int /\ l[g].expires >= 1
  <2>1. ASSUME NEW g \in P PROVE l[g].expires \in Int /\ l[g].expires >= 1
    <3>1. l[g] \in Entries
      BY SharesFacts, LedgerFacts
    <3>2. l[g].expires \in 1 .. Never
      BY <3>1 DEF Entries, Expiries
    <3> QED
      BY <3>2, DaysAreInt
  <2> QED
    BY <2>1
<1>3. ASSUME NEW e \in Int
      PROVE  Lasting(l, P, e) \in SUBSET P /\ IsFiniteSet(Lasting(l, P, e))
  <2>1. Lasting(l, P, e) \in SUBSET P
    BY DEF Lasting
  <2> QED
    BY <1>1, <2>1, FS_Subset
<1>4. \A d, e \in Int : d <= e => Lasting(l, P, e) \subseteq Lasting(l, P, d)
  BY <1>2 DEF Lasting
<1>5. Lasting(l, P, 1) = P
  BY <1>2 DEF Lasting
<1> QED
  BY <1>1, <1>3, <1>4, <1>5

LEMMA SpareIsNat ==
  ASSUME NEW l \in Ledgers, NEW P, NEW Q, NEW f, Shares(l, P, Q, f), NEW n \in Nat
  PROVE  /\ \A e \in Int : Spare(l, P, Q, f, n, e) \in Nat
         /\ \A d, e \in Int : d <= e => Spare(l, P, Q, f, n, e) <= Spare(l, P, Q, f, n, d)
         /\ n = 0 => \A e \in Int : Spare(l, P, Q, f, n, e) = 0
<1>1. PICK r : r = Rest(l, P, Q, f, n)
  OBVIOUS
<1>2. \A g \in P : r[g] \in Nat
  BY <1>1, RestIsNat DEF Rest
<1>3. IsFiniteSet(P)
  BY LastingFacts
<1>4. ASSUME NEW e \in Int PROVE Spare(l, P, Q, f, n, e) \in Nat
  <2>1. Lasting(l, P, e) \in SUBSET P
    BY LastingFacts
  <2>2. SumOn(r, Lasting(l, P, e)) \in Nat
    BY <1>2, <1>3, <2>1, SumIsNat
  <2> QED
    BY <1>1, <2>2 DEF Spare
<1>5. ASSUME NEW d \in Int, NEW e \in Int, d <= e
      PROVE  Spare(l, P, Q, f, n, e) <= Spare(l, P, Q, f, n, d)
  <2>1. /\ Lasting(l, P, e) \in SUBSET P /\ Lasting(l, P, d) \in SUBSET P
        /\ Lasting(l, P, e) \subseteq Lasting(l, P, d)
    BY <1>5, LastingFacts
  <2>2. SumOn(r, Lasting(l, P, e)) <= SumOn(r, Lasting(l, P, d))
    BY <1>2, <1>3, <2>1, SumGrows
  <2> QED
    BY <1>1, <2>2 DEF Spare
<1>6. ASSUME n = 0, NEW e \in Int PROVE Spare(l, P, Q, f, n, e) = 0
  <2>1. ASSUME NEW g \in P PROVE r[g] = 0
    <3>1. g \in Nat /\ g >= 1
      BY SharesFacts, LedgerFacts
    <3>2. n < g
      BY <1>6, <3>1
    <3>3. RestOf(l, Q, f, n, g) = 0
      BY <3>2, RestIsNat
    <3> QED
      BY <1>1, <3>3 DEF Rest
  <2>2. PICK S : S = Lasting(l, P, e)
    OBVIOUS
  <2>3. S \in SUBSET P /\ IsFiniteSet(S)
    BY <2>2, LastingFacts
  <2>4. \A g \in S : r[g] \in Nat /\ r[g] = 0
    BY <1>2, <2>1, <2>3
  <2>5. SumOn(r, S) = 0
    BY <2>3, <2>4, SumIsNat
  <2> QED
    BY <1>1, <2>2, <2>5 DEF Spare
<1> QED
  BY <1>4, <1>5, <1>6

\* What a take gets of the grants that can still be used on its day is all that it takes.
LEMMA TakenOfLasting ==
  ASSUME NEW l \in Ledgers, NEW P, NEW Q, NEW f, Shares(l, P, Q, f), NEW n \in Q,
         NEW r, IsRow(f, n, P, r), NEW e \in Int
  PROVE  /\ \A g \in P : r[g] \in Nat
         /\ SumOn(r, Lasting(l, P, e)) \in Nat
         /\ e <= l[n].on => SumOn(r, Lasting(l, P, e)) = -l[n].minutes
<1>1. \A g \in P : r[g] = f[<<n, g>>] /\ r[g] \in Nat
  BY DEF Shares, IsRow
<1>2. PICK A : A = Lasting(l, P, e)
  OBVIOUS
<1>3. IsFiniteSet(P) /\ A \in SUBSET P
  BY <1>2, LastingFacts
<1>4. SumOn(r, A) \in Nat
  BY <1>1, <1>3, SumIsNat
<1>5. ASSUME e <= l[n].on PROVE SumOn(r, A) = -l[n].minutes
  <2>1. SumOn(f, {n} \X P) = SumOn(r, P)
    BY <1>3, SumOfRow
  <2>2. SumOn(f, {n} \X P) = -l[n].minutes
    BY DEF Shares
  <2>3. PICK B : B = P \ A
    OBVIOUS
  <2>4. B \in SUBSET P /\ A \cap B = {} /\ A \cup B = P /\ IsFiniteSet(B)
    <3>1. B \in SUBSET P /\ A \cap B = {} /\ A \cup B = P
      BY <1>3, <2>3
    <3> QED
      BY <1>3, <3>1, FS_Subset
  <2>5. SumOn(r, A \cup B) = SumOn(r, A) + SumOn(r, B)
    <3>1. \A g \in P : r[g] \in Int
      <4>1. \A g \in P : r[g] \in Nat
        BY <1>1
      <4> QED
        BY <4>1
    <3> QED
      BY <1>3, <2>4, <3>1, SumsJoin
  <2>6. ASSUME NEW g \in B PROVE r[g] = 0
    <3>1. g \in P /\ ~(l[g].expires >= e)
      BY <1>2, <2>3 DEF Lasting
    <3>2. l[n].on \in Int
      BY SharesFacts, LedgerFacts
    <3>3. l[g].expires \in Int
      <4>1. l[g] \in Entries
        BY <3>1, SharesFacts, LedgerFacts
      <4> QED
        BY <4>1, DaysAreInt DEF Entries, Expiries
    <3>4. f[<<n, g>>] > 0 => l[g].expires >= l[n].on
      BY <3>1 DEF Shares
    <3>5. ~(f[<<n, g>>] > 0)
      BY <1>5, <3>1, <3>2, <3>3, <3>4
    <3> QED
      BY <1>1, <3>1, <3>5
  <2>7. SumOn(r, B) = 0
    <3>1. \A g \in B : r[g] \in Nat /\ r[g] = 0
      BY <1>1, <2>4, <2>6
    <3> QED
      BY <2>4, <3>1, SumIsNat
  <2>8. SumOn(r, P) = SumOn(r, A) + 0
    BY <2>4, <2>5, <2>7, Zenon
  <2>9. SumOn(r, P) = SumOn(r, A)
    BY <1>4, <2>8
  <2> QED
    BY <2>1, <2>2, <2>9
<1> QED
  BY <1>1, <1>2, <1>4, <1>5

LEMMA SpareAfterTake ==
  ASSUME NEW l \in Ledgers, NEW P, NEW Q, NEW f, Shares(l, P, Q, f), NEW n \in Q, NEW e \in Int
  PROVE  /\ Spare(l, P, Q, f, n, e) <= Spare(l, P, Q, f, n - 1, e)
         /\ e <= l[n].on => Spare(l, P, Q, f, n - 1, e) = Spare(l, P, Q, f, n, e) - l[n].minutes
<1>1. PICK r : r = [g \in P |-> f[<<n, g>>]]
  OBVIOUS
<1>2. PICK A : A = Lasting(l, P, e)
  OBVIOUS
<1>3. /\ \A g \in P : r[g] \in Nat
      /\ SumOn(r, A) \in Nat
      /\ e <= l[n].on => SumOn(r, A) = -l[n].minutes
  <2>1. \A g \in P : f[<<n, g>>] \in Int
    BY DEF Shares
  <2>2. IsRow(f, n, P, r)
    BY <1>1, <2>1 DEF IsRow
  <2> QED
    BY <1>2, <2>2, TakenOfLasting
<1>4. n \in Nat /\ n - 1 \in Nat /\ l[n].minutes \in Int
  BY SharesFacts, LedgerFacts
<1>5. PICK before, after : before = Rest(l, P, Q, f, n - 1) /\ after = Rest(l, P, Q, f, n)
  OBVIOUS
<1>6. A \in SUBSET P /\ IsFiniteSet(A)
  BY <1>2, LastingFacts
<1>7. ASSUME NEW g \in A
      PROVE  after[g] \in Int /\ r[g] \in Int /\ before[g] = after[g] + r[g]
  <2>1. g \in P
    BY <1>6
  <2>2. RestOf(l, Q, f, n - 1, g) = RestOf(l, Q, f, n, g) + f[<<n, g>>]
    BY <2>1, RestAfterTake
  <2>3. RestOf(l, Q, f, n, g) \in Nat
    BY <1>4, <2>1, RestIsNat
  <2>4. /\ before[g] = RestOf(l, Q, f, n - 1, g) /\ after[g] = RestOf(l, Q, f, n, g)
        /\ r[g] = f[<<n, g>>] /\ r[g] \in Nat
    BY <1>1, <1>3, <1>5, <2>1 DEF Rest
  <2> QED
    BY <2>2, <2>3, <2>4
<1>8. SumOn(before, A) = SumOn(after, A) + SumOn(r, A)
  BY <1>6, <1>7, SumsAdd
<1>9. PICK u, v \in Nat : u = SumOn(before, A) /\ v = SumOn(after, A)
  BY <1>2, <1>4, <1>5, SpareIsNat DEF Spare
<1>10. Spare(l, P, Q, f, n - 1, e) = u /\ Spare(l, P, Q, f, n, e) = v
  BY <1>2, <1>5, <1>9 DEF Spare
<1> QED
  BY <1>3, <1>4, <1>8, <1>9, <1>10

LEMMA SpareAfterOther ==
  ASSUME NEW l \in Ledgers, NEW P, NEW Q, NEW f, Shares(l, P, Q, f),
         NEW n \in 1 .. Len(l), n \notin Q, NEW e \in Int
  PROVE  Spare(l, P, Q, f, n, e)
           = Spare(l, P, Q, f, n - 1, e)
             + (IF n \in P /\ e <= l[n].expires THEN l[n].minutes ELSE 0)
<1>1. n \in Nat /\ n - 1 \in Nat /\ l[n].minutes \in Int /\ l[n].expires \in Int
  <2>1. l[n] \in Entries /\ n \in Nat /\ n - 1 \in Nat /\ l[n].minutes \in Int
    BY LedgerFacts
  <2> QED
    BY <2>1, DaysAreInt DEF Entries, Expiries
<1>2. PICK A : A = Lasting(l, P, e)
  OBVIOUS
<1>3. A \in SUBSET P /\ IsFiniteSet(A) /\ (n \in A <=> n \in P /\ e <= l[n].expires)
  <2>1. n \in A <=> n \in P /\ e <= l[n].expires
    BY <1>1, <1>2 DEF Lasting
  <2> QED
    BY <1>2, <2>1, LastingFacts
<1>4. PICK before, after : before = Rest(l, P, Q, f, n - 1) /\ after = Rest(l, P, Q, f, n)
  OBVIOUS
<1>5. PICK m \in Int : m = l[n].minutes
  BY <1>1
<1>6. PICK r : r = [g \in P |-> IF g = n THEN m ELSE 0]
  OBVIOUS
<1>7. ASSUME NEW g \in A
      PROVE  before[g] \in Int /\ r[g] \in Int /\ after[g] = before[g] + r[g]
  <2>1. g \in P
    BY <1>3
  <2>2. RestOf(l, Q, f, n, g)
          = RestOf(l, Q, f, n - 1, g) + (IF g = n THEN l[n].minutes ELSE 0)
    BY <2>1, RestAfterOther
  <2>3. RestOf(l, Q, f, n - 1, g) \in Nat
    BY <1>1, <2>1, RestIsNat
  <2>4. /\ before[g] = RestOf(l, Q, f, n - 1, g) /\ after[g] = RestOf(l, Q, f, n, g)
        /\ r[g] = (IF g = n THEN m ELSE 0)
    BY <1>4, <1>6, <2>1 DEF Rest
  <2> QED
    BY <1>5, <2>2, <2>3, <2>4
<1>8. SumOn(after, A) = SumOn(before, A) + SumOn(r, A)
  BY <1>3, <1>7, SumsAdd
<1>9. SumOn(r, A) = IF n \in A THEN m ELSE 0
  <2>1. \A g \in A : r[g] = (IF g = n THEN m ELSE 0)
    BY <1>3, <1>6
  <2>2. CASE n \notin A
    <3>1. \A g \in A : r[g] \in Nat /\ r[g] = 0
      BY <2>1, <2>2
    <3>2. SumOn(r, A) = 0
      BY <1>3, <3>1, SumIsNat
    <3> QED
      BY <2>2, <3>2
  <2>3. CASE n \in A
    <3>1. PICK B : B = A \ {n}
      OBVIOUS
    <3>2. B \in SUBSET A /\ B \cup {n} = A /\ n \in A \ B /\ IsFiniteSet(B)
      <4>1. B \in SUBSET A /\ B \cup {n} = A /\ n \in A \ B
        BY <2>3, <3>1
      <4> QED
        BY <1>3, <4>1, FS_Subset
    <3>3. \A g \in B : r[g] \in Nat /\ r[g] = 0
      BY <2>1, <3>1
    <3>4. SumOn(r, B) = 0
      BY <3>2, <3>3, SumIsNat
    <3>5. SumIs(r, A)
      <4>1. \A g \in A : r[g] \in Int
        BY <1>7
      <4> QED
        BY <1>3, <4>1, SumDefined
    <3>6. SumOn(r, B \cup {n}) = SumOn(r, B) + r[n]
      BY <3>2, <3>5 DEF SumIs
    <3>7. r[n] = m
      BY <2>1, <2>3
    <3>8. SumOn(r, A) = 0 + m
      BY <3>2, <3>4, <3>6, <3>7, Zenon
    <3> QED
      BY <2>3, <3>8
  <2> QED
    BY <2>2, <2>3
<1>10. Spare(l, P, Q, f, n - 1, e) = SumOn(before, A) /\ Spare(l, P, Q, f, n, e) = SumOn(after, A)
  BY <1>2, <1>4 DEF Spare
<1> QED
  BY <1>3, <1>5, <1>8, <1>9, <1>10

\* The buckets hold at least what another way to take the same leave leaves, and as much of it
\* can be used on a day that is not past, and after it.
Ahead(l, P, Q, f, b, n) ==
  /\ b.owed = 0
  /\ Worth(b) = Spare(l, P, Q, f, n, 1)
  /\ \A e \in 1 .. Never :
       (\A i \in 1 .. n : l[i].reversed \/ l[i].on <= e) => Spare(l, P, Q, f, n, e) <= Usable(b, e)

LEMMA AheadInitially ==
  ASSUME NEW l \in Ledgers, NEW P, NEW Q, NEW f, Shares(l, P, Q, f)
  PROVE  Ahead(l, P, Q, f, Empty, 0)
<1>1. \A e \in Int : Spare(l, P, Q, f, 0, e) = 0
  BY SpareIsNat
<1>2. Empty.owed = 0 /\ Worth(Empty) = 0 /\ \A e \in 1 .. Never : Usable(Empty, e) = 0
  BY EmptyHasNothing, EmptyHoldsNothing
<1>3. \A e \in 1 .. Never : e \in Int
  BY DaysAreInt
<1> QED
  BY <1>1, <1>2, <1>3 DEF Ahead

LEMMA AheadAfterOther ==
  ASSUME NEW l \in Ledgers, NEW P, NEW Q, NEW f, Shares(l, P, Q, f),
         NEW n \in 1 .. Len(l), NEW b \in Buckets, Ahead(l, P, Q, f, b, n - 1),
         l[n].reversed
  PROVE  Ahead(l, P, Q, f, b, n)
<1>1. n \notin P /\ n \notin Q
  BY DEF Shares
<1>2. n \in Nat /\ n - 1 \in Nat /\ n >= 1
  BY LedgerFacts
<1>3. ASSUME NEW e \in Int PROVE Spare(l, P, Q, f, n, e) = Spare(l, P, Q, f, n - 1, e)
  <2>1. Spare(l, P, Q, f, n, e)
          = Spare(l, P, Q, f, n - 1, e)
            + (IF n \in P /\ e <= l[n].expires THEN l[n].minutes ELSE 0)
    BY <1>1, SpareAfterOther
  <2>2. Spare(l, P, Q, f, n - 1, e) \in Nat
    BY <1>2, SpareIsNat
  <2> QED
    BY <1>1, <2>1, <2>2
<1>4. ASSUME NEW e \in 1 .. Never, \A i \in 1 .. n : l[i].reversed \/ l[i].on <= e
      PROVE  Spare(l, P, Q, f, n, e) <= Usable(b, e)
  <2>1. \A i \in 1 .. n - 1 : l[i].reversed \/ l[i].on <= e
    BY <1>2, <1>4
  <2>2. Spare(l, P, Q, f, n - 1, e) <= Usable(b, e)
    BY <2>1 DEF Ahead
  <2> QED
    BY <1>3, <2>2, DaysAreInt
<1>5. b.owed = 0 /\ Worth(b) = Spare(l, P, Q, f, n, 1)
  BY <1>3 DEF Ahead
<1> QED
  BY <1>4, <1>5 DEF Ahead

LEMMA AheadAfterGrant ==
  ASSUME NEW l \in Ledgers, NEW P, NEW Q, NEW f, Shares(l, P, Q, f),
         NEW n \in P, NEW b \in Buckets, Ahead(l, P, Q, f, b, n - 1)
  PROVE  Ahead(l, P, Q, f, Book(b, l[n]), n)
<1>1. n \notin Q /\ n \in 1 .. Len(l) /\ n \in Nat /\ l[n].minutes > 0
  BY SharesFacts
<1>2. n - 1 \in Nat /\ n >= 1
  BY <1>1
<1>3. PICK x \in Entries : x = l[n]
  BY <1>1, LedgerFacts
<1>4. PICK m \in Nat : m = x.minutes
  BY <1>1, <1>3 DEF Entries
<1>5. x.minutes > 0
  BY <1>1, <1>3
<1>6. PICK y \in 1 .. Never : y = x.expires
  BY DEF Entries, Expiries
<1>7. PICK c : c = Book(b, x)
  OBVIOUS
<1>8. c \in Buckets /\ Worth(c) = Worth(b) + m
  BY <1>4, <1>7, BookAddsMinutes
<1>9. c.owed = 0
  <2>1. 1 \in 1 .. Never
    BY DaysAreInt
  <2>2. c.owed = b.owed
    BY <1>5, <1>7, <2>1, GrantAdds
  <2> QED
    BY <2>2 DEF Ahead
<1>10. ASSUME NEW e \in Int
       PROVE  Spare(l, P, Q, f, n, e) = Spare(l, P, Q, f, n - 1, e) + (IF e <= y THEN m ELSE 0)
  <2>1. Spare(l, P, Q, f, n, e)
          = Spare(l, P, Q, f, n - 1, e)
            + (IF n \in P /\ e <= l[n].expires THEN l[n].minutes ELSE 0)
    BY <1>1, SpareAfterOther
  <2> QED
    BY <1>3, <1>4, <1>6, <2>1
<1>11. ASSUME NEW e \in 1 .. Never, \A i \in 1 .. n : l[i].reversed \/ l[i].on <= e
       PROVE  Spare(l, P, Q, f, n, e) <= Usable(c, e)
  <2>1. \A i \in 1 .. n - 1 : l[i].reversed \/ l[i].on <= e
    BY <1>1, <1>2, <1>11
  <2>2. Spare(l, P, Q, f, n - 1, e) <= Usable(b, e)
    BY <2>1 DEF Ahead
  <2>3. Usable(c, e) = Usable(b, e) + (IF e <= x.expires THEN x.minutes ELSE 0)
    BY <1>5, <1>7, GrantAdds
  <2>4. e \in Int /\ y \in Int
    BY DaysAreInt
  <2>5. PICK u, v \in Nat : u = Spare(l, P, Q, f, n - 1, e) /\ v = Usable(b, e)
    <3>1. Spare(l, P, Q, f, n - 1, e) \in Nat
      BY <1>2, <2>4, SpareIsNat
    <3>2. Usable(b, e) \in Nat
      BY <2>4, UsableShrinks
    <3> QED
      BY <3>1, <3>2
  <2>6. Spare(l, P, Q, f, n, e) = u + (IF e <= y THEN m ELSE 0)
    BY <1>10, <2>4, <2>5
  <2>7. Usable(c, e) = v + (IF e <= y THEN m ELSE 0)
    BY <1>4, <1>6, <2>3, <2>5
  <2> QED
    BY <2>2, <2>4, <2>5, <2>6, <2>7
<1>12. Worth(c) = Spare(l, P, Q, f, n, 1)
  <2>1. 1 <= y
    BY DaysAreInt
  <2>2. Worth(b) = Spare(l, P, Q, f, n - 1, 1)
    BY DEF Ahead
  <2> QED
    BY <1>8, <1>10, <2>1, <2>2
<1>13. Ahead(l, P, Q, f, c, n)
  BY <1>9, <1>11, <1>12 DEF Ahead
<1> QED
  BY <1>3, <1>7, <1>13

\* Enough is usable on the day of a take, and no less is left than the other way leaves.
LEMMA TakeStaysAhead ==
  ASSUME NEW m \in Nat, NEW ud \in Nat, NEW ue \in Nat,
         NEW sd \in Nat, NEW se \in Nat, NEW rd \in Nat, NEW re \in Nat,
         sd <= ud, se <= ue, sd = rd + m, re <= se, re <= rd
  PROVE  /\ AtLeastZero(m - ud) = 0
         /\ re <= Smaller(ue, AtLeastZero(ud - m))
<1>1. m <= ud /\ re <= ud - m
  OBVIOUS
<1> QED
  BY <1>1 DEF AtLeastZero, Smaller

LEMMA AheadAfterTake ==
  ASSUME NEW l \in Ledgers, NEW P, NEW Q, NEW f, Shares(l, P, Q, f),
         NEW n \in Q, NEW b \in Buckets, Ahead(l, P, Q, f, b, n - 1)
  PROVE  Ahead(l, P, Q, f, Book(b, l[n]), n)
<1>1. n \in 1 .. Len(l) /\ n \in Nat /\ l[n].minutes < 0 /\ l[n].minutes \in Int
  BY SharesFacts
<1>2. n - 1 \in Nat /\ n >= 1
  BY <1>1
<1>3. PICK x \in Entries : x = l[n]
  BY <1>1, LedgerFacts
<1>4. PICK m \in Nat : m = -x.minutes /\ x.minutes = -m
  BY <1>1, <1>3
<1>5. PICK d \in 1 .. Never : d = x.on
  BY DaysAreInt DEF Entries, LedgerDays, Never
<1>6. x.minutes < 0 /\ d \in Int
  BY <1>1, <1>3, DaysAreInt
<1>7. PICK c : c = Book(b, x)
  OBVIOUS
<1>8. c \in Buckets /\ Worth(c) = Worth(b) - m
  <2>1. c \in Buckets /\ Worth(c) = Worth(b) + x.minutes
    BY <1>7, BookAddsMinutes
  <2>2. Worth(b) \in Int
    BY WorthIsInt
  <2> QED
    BY <1>4, <2>1, <2>2
<1>9. ASSUME NEW e \in Int
      PROVE  /\ Spare(l, P, Q, f, n, e) \in Nat /\ Spare(l, P, Q, f, n - 1, e) \in Nat
             /\ Spare(l, P, Q, f, n, e) <= Spare(l, P, Q, f, n - 1, e)
             /\ e <= d => Spare(l, P, Q, f, n - 1, e) = Spare(l, P, Q, f, n, e) + m
  <2>1. Spare(l, P, Q, f, n, e) \in Nat /\ Spare(l, P, Q, f, n - 1, e) \in Nat
    BY <1>1, <1>2, SpareIsNat
  <2>2. /\ Spare(l, P, Q, f, n, e) <= Spare(l, P, Q, f, n - 1, e)
        /\ e <= l[n].on => Spare(l, P, Q, f, n - 1, e) = Spare(l, P, Q, f, n, e) - l[n].minutes
    BY SpareAfterTake
  <2> QED
    BY <1>3, <1>4, <1>5, <2>1, <2>2
<1>10. PICK ud \in Nat : ud = Usable(b, d)
  BY UsableShrinks
<1>11. PICK sd, rd \in Nat : sd = Spare(l, P, Q, f, n - 1, d) /\ rd = Spare(l, P, Q, f, n, d)
  BY <1>6, <1>9
<1>12. sd = rd + m /\ sd <= ud
  <2>1. sd = rd + m
    BY <1>6, <1>9, <1>11
  <2>2. \A i \in 1 .. n - 1 : l[i].on <= d
    <3>1. ASSUME NEW i \in 1 .. n - 1 PROVE l[i].on <= d
      <4>1. i \in 1 .. Len(l) /\ i < n
        BY <1>1, LedgerFacts
      <4> QED
        BY <1>1, <1>3, <1>5, <4>1, LedgerFacts
    <3> QED
      BY <3>1
  <2>3. sd <= ud
    BY <1>10, <1>11, <2>2 DEF Ahead
  <2> QED
    BY <2>1, <2>3
<1>13. b.owed = 0
  BY DEF Ahead
<1>14. c.owed = 0
  <2>1. d <= d
    BY <1>6
  <2>2. c.owed = b.owed + AtLeastZero((-x.minutes) - Usable(b, x.on))
    BY <1>5, <1>6, <1>7, <2>1, TakeUses
  <2>3. AtLeastZero(m - ud) = 0
    BY <1>12 DEF AtLeastZero
  <2> QED
    BY <1>4, <1>5, <1>10, <1>13, <2>2, <2>3
<1>15. ASSUME NEW e \in 1 .. Never, \A i \in 1 .. n : l[i].reversed \/ l[i].on <= e
       PROVE  Spare(l, P, Q, f, n, e) <= Usable(c, e)
  <2>1. \A i \in 1 .. n - 1 : l[i].reversed \/ l[i].on <= e
    BY <1>1, <1>2, <1>15
  <2>2. d <= e
    <3>1. n \in 1 .. n /\ ~l[n].reversed
      BY <1>2 DEF Shares
    <3> QED
      BY <1>3, <1>5, <1>15, <3>1
  <2>3. e \in Int
    BY DaysAreInt
  <2>4. PICK ue \in Nat : ue = Usable(b, e)
    BY UsableShrinks
  <2>5. PICK se, re \in Nat : se = Spare(l, P, Q, f, n - 1, e) /\ re = Spare(l, P, Q, f, n, e)
    BY <1>9, <2>3
  <2>6. se <= ue /\ re <= se
    BY <1>9, <2>1, <2>3, <2>4, <2>5 DEF Ahead
  <2>7. re <= rd
    <3>1. Spare(l, P, Q, f, n, e) <= Spare(l, P, Q, f, n, d)
      BY <1>1, <1>6, <2>2, <2>3, SpareIsNat
    <3> QED
      BY <1>11, <2>5, <3>1
  <2>8. re <= Smaller(ue, AtLeastZero(ud - m))
    BY <1>12, <2>6, <2>7, TakeStaysAhead
  <2>9. Usable(c, e) = Smaller(Usable(b, e), AtLeastZero(Usable(b, x.on) + x.minutes))
    BY <1>5, <1>6, <1>7, <2>2, TakeUses
  <2>10. Usable(b, x.on) + x.minutes = ud - m
    BY <1>4, <1>5, <1>10
  <2>11. Usable(c, e) = Smaller(ue, AtLeastZero(ud - m))
    BY <2>4, <2>9, <2>10, Zenon
  <2> QED
    BY <2>5, <2>8, <2>11
<1>16. Worth(c) = Spare(l, P, Q, f, n, 1)
  <2>1. 1 <= d
    BY DaysAreInt
  <2>2. Worth(b) = Spare(l, P, Q, f, n - 1, 1)
    BY DEF Ahead
  <2>3. Spare(l, P, Q, f, n - 1, 1) = Spare(l, P, Q, f, n, 1) + m /\ Spare(l, P, Q, f, n, 1) \in Nat
    BY <1>9, <2>1
  <2> QED
    BY <1>8, <2>2, <2>3
<1>17. Ahead(l, P, Q, f, c, n)
  BY <1>14, <1>15, <1>16 DEF Ahead
<1> QED
  BY <1>3, <1>7, <1>17

LEMMA WalkStaysAhead ==
  ASSUME NEW l \in Ledgers, NEW P, NEW Q, NEW f, Shares(l, P, Q, f)
  PROVE  Ahead(l, P, Q, f, Walk(l, LastLedgerDay)[Len(l)], Len(l))
<1>1. PICK N \in Nat : N = Len(l)
  BY LedgerFacts
<1>2. PICK w : w = Walk(l, LastLedgerDay)
  OBVIOUS
<1>3. /\ w[0] = Empty
      /\ \A n \in 0 .. N : w[n] \in Buckets
      /\ \A n \in 1 .. N :
           w[n] = IF l[n].reversed \/ l[n].on > LastLedgerDay THEN w[n - 1]
                  ELSE Book(w[n - 1], l[n])
  <2>1. l \in Seq(Entries) /\ LastLedgerDay \in Int
    BY LedgerFacts, DaysAreInt
  <2> QED
    BY <1>1, <1>2, <2>1, WalkDefined
<1> DEFINE T == {n \in Nat : n <= N => Ahead(l, P, Q, f, w[n], n)}
<1>4. 0 \in T
  BY <1>3, AheadInitially
<1>5. ASSUME NEW k \in Nat, k < N, k \in T PROVE k + 1 \in T
  <2>1. PICK n \in Nat : n = k + 1
    OBVIOUS
  <2>2. n \in 1 .. N /\ n - 1 = k /\ k \in 0 .. N
    BY <1>5, <2>1
  <2>3. n \in 1 .. Len(l) /\ ~(l[n].on > LastLedgerDay)
    <3>1. n \in 1 .. Len(l)
      BY <1>1, <2>2
    <3>2. l[n] \in Entries
      BY <3>1, LedgerFacts
    <3>3. l[n].on \in 1 .. LastLedgerDay
      BY <3>2 DEF Entries, LedgerDays
    <3> QED
      BY <3>1, <3>3, DaysAreInt
  <2>4. PICK b \in Buckets : b = w[k]
    BY <1>3, <2>2
  <2>5. Ahead(l, P, Q, f, b, n - 1)
    BY <1>5, <2>2, <2>4
  <2>6. w[n] = IF l[n].reversed THEN b ELSE Book(b, l[n])
    BY <1>3, <2>2, <2>3, <2>4
  <2>7. Ahead(l, P, Q, f, w[n], n)
    <3>1. CASE l[n].reversed
      <4>1. Ahead(l, P, Q, f, b, n)
        BY <2>3, <2>5, <3>1, AheadAfterOther
      <4> QED
        BY <2>6, <3>1, <4>1
    <3>2. CASE ~l[n].reversed
      <4>1. n \in P \/ n \in Q
        <5>1. l[n].minutes \in Int /\ l[n].minutes # 0
          BY <2>3, LedgerFacts
        <5>2. l[n].minutes > 0 \/ l[n].minutes < 0
          BY <5>1
        <5> QED
          BY <2>3, <3>2, <5>2 DEF Shares
      <4>2. Ahead(l, P, Q, f, Book(b, l[n]), n)
        BY <2>5, <4>1, AheadAfterGrant, AheadAfterTake
      <4> QED
        BY <2>6, <3>2, <4>2
    <3> QED
      BY <3>1, <3>2
  <2> QED
    BY <2>1, <2>7
<1> HIDE DEF T
<1>6. \A n \in 0 .. N : n \in T
  BY <1>1, <1>4, <1>5, Climb
<1>7. N \in T /\ N <= N
  BY <1>1, <1>6
<1> QED
  BY <1>1, <1>2, <1>7 DEF T

LEMMA NoneIsNegative == \A m : \A n \in 0 .. m : n \in Nat
OBVIOUS

LEMMA AllocationsShare ==
  ASSUME ledger \in Ledgers, NEW f \in Allocations
  PROVE  Shares(ledger, Counted(TRUE), Counted(FALSE), f)
<1>1. PICK P, Q : P = Counted(TRUE) /\ Q = Counted(FALSE)
  OBVIOUS
<1>2. PICK most : f \in [Q \X P -> 0 .. most]
  BY <1>1, Zenon DEF Allocations
<1>3. /\ DOMAIN ledger = 1 .. Len(ledger)
      /\ \A i \in 1 .. Len(ledger) : ledger[i].minutes \in Int /\ ledger[i].minutes # 0
  BY LedgerFacts
<1>4. P = {i \in 1 .. Len(ledger) : ~ledger[i].reversed /\ ledger[i].minutes > 0}
  BY <1>1, <1>3 DEF Counted
<1>5. Q = {i \in 1 .. Len(ledger) : ~ledger[i].reversed /\ ledger[i].minutes < 0}
  BY <1>1, <1>3 DEF Counted
<1>6. \A z \in Q \X P : f[z] \in Nat
  BY <1>2, NoneIsNegative
<1>7. \A t \in Q : SumOn(f, {t} \X P) = -ledger[t].minutes
  BY <1>1, Zenon DEF Allocations, SumOn
<1>8. \A g \in P : SumOn(f, Q \X {g}) <= ledger[g].minutes
  BY <1>1, Zenon DEF Allocations, SumOn
<1>9. \A t \in Q, g \in P : f[<<t, g>>] > 0 => g < t /\ ledger[g].expires >= ledger[t].on
  BY <1>1, Zenon DEF Allocations
<1>10. Shares(ledger, P, Q, f)
  BY <1>4, <1>5, <1>6, <1>7, <1>8, <1>9, Zenon DEF Shares
<1> QED
  BY <1>1, <1>10

\* What lapses in this way is what it leaves of the grants that expire.
LEMMA LapsedUnderIs ==
  ASSUME NEW l \in Ledgers, NEW P, NEW Q, NEW f, Shares(l, P, Q, f), NEW e \in Int,
         NEW m, \A g \in P : m[g] = l[g].minutes
  PROVE  SumOn(m, P \ Lasting(l, P, e)) - SumOn(f, Q \X (P \ Lasting(l, P, e)))
           = Spare(l, P, Q, f, Len(l), 1) - Spare(l, P, Q, f, Len(l), e)
<1>1. PICK N \in Nat : N = Len(l)
  BY LedgerFacts
<1>2. PICK A, E : A = Lasting(l, P, e) /\ E = P \ A
  OBVIOUS
<1>3. /\ A \in SUBSET P /\ E \in SUBSET P /\ A \cap E = {} /\ A \cup E = P
      /\ IsFiniteSet(P) /\ IsFiniteSet(E) /\ IsFiniteSet(Q)
  <2>1. A \in SUBSET P /\ IsFiniteSet(P) /\ IsFiniteSet(Q)
    BY <1>2, LastingFacts, SharesFacts
  <2>2. E \in SUBSET P /\ A \cap E = {} /\ A \cup E = P
    BY <1>2, <2>1
  <2> QED
    BY <2>1, <2>2, FS_Subset
<1>4. PICK r : r = Rest(l, P, Q, f, N)
  OBVIOUS
<1>5. PICK c : c = [g \in P |-> Column(f, Q, g)]
  OBVIOUS
<1>6. Upto(Q, N) = Q
  <2>1. \A t \in Q : t <= N
    BY <1>1, SharesFacts
  <2> QED
    BY <2>1 DEF Upto
<1>7. ASSUME NEW g \in P PROVE r[g] \in Nat /\ c[g] \in Nat /\ m[g] = r[g] + c[g]
  <2>1. Column(f, Q, g) \in Nat
    BY <1>6, ColumnFacts
  <2>2. g <= N /\ l[g].minutes \in Int
    BY <1>1, SharesFacts
  <2>3. RestOf(l, Q, f, N, g) = l[g].minutes - Column(f, Q, g)
    BY <1>6, <2>2 DEF RestOf
  <2>4. RestOf(l, Q, f, N, g) \in Nat
    BY RestIsNat
  <2>5. r[g] = RestOf(l, Q, f, N, g) /\ c[g] = Column(f, Q, g)
    BY <1>4, <1>5 DEF Rest
  <2> QED
    BY <2>1, <2>2, <2>3, <2>4, <2>5
<1>8. SumOn(m, E) = SumOn(r, E) + SumOn(c, E)
  <2>1. \A g \in E : r[g] \in Int /\ c[g] \in Int /\ m[g] = r[g] + c[g]
    BY <1>3, <1>7
  <2> QED
    BY <1>3, <2>1, SumsAdd
<1>9. SumOn(f, Q \X E) = SumOn(c, E)
  <2>1. \A g \in E : c[g] = Column(f, Q, g)
    BY <1>3, <1>5
  <2>2. \A z \in Q \X P : f[z] \in Nat
    BY DEF Shares
  <2>3. \A z \in Q \X E : f[z] \in Int
    BY <1>3, <2>2
  <2> QED
    BY <1>3, <2>1, <2>3, SumByColumn
<1>10. SumOn(r, A \cup E) = SumOn(r, A) + SumOn(r, E)
  <2>1. \A g \in P : r[g] \in Int
    BY <1>7
  <2> QED
    BY <1>3, <2>1, SumsJoin
<1>11. PICK p, q \in Nat : p = SumOn(r, E) /\ q = SumOn(c, E)
  <2>1. (\A g \in E : r[g] \in Nat) /\ (\A g \in E : c[g] \in Nat)
    BY <1>3, <1>7
  <2>2. SumOn(r, E) \in Nat
    BY <1>3, <2>1, SumIsNat
  <2>3. SumOn(c, E) \in Nat
    BY <1>3, <2>1, SumIsNat
  <2> QED
    BY <2>2, <2>3
<1>12. PICK u \in Nat : u = SumOn(r, A)
  <2>1. \A g \in P : r[g] \in Nat
    BY <1>7
  <2> QED
    BY <1>3, <2>1, SumIsNat
<1>13. Spare(l, P, Q, f, N, e) = u
  BY <1>2, <1>4, <1>12 DEF Spare
<1>14. Spare(l, P, Q, f, N, 1) = u + p
  <2>1. Lasting(l, P, 1) = P
    BY LastingFacts
  <2>2. Spare(l, P, Q, f, N, 1) = SumOn(r, P)
    BY <1>4, <2>1, Zenon DEF Spare
  <2> QED
    BY <1>3, <1>10, <1>11, <1>12, <2>2, Zenon
<1>15. SumOn(m, E) - SumOn(f, Q \X E) = (p + q) - q
  BY <1>8, <1>9, <1>11, Zenon
<1>16. (p + q) - q = (u + p) - u
  OBVIOUS
<1> QED
  BY <1>1, <1>2, <1>13, <1>14, <1>15, <1>16, Zenon

LEMMA NothingIsWastedHere ==
  ASSUME ledger \in Ledgers PROVE NothingIsWasted
<1>1. PICK last : last = Balance(ledger, LastLedgerDay)
  OBVIOUS
<1>2. ASSUME NEW f \in Allocations PROVE last.owed = 0 /\ last.lapsed <= LapsedUnder(f)
  <2>1. PICK P, Q : P = Counted(TRUE) /\ Q = Counted(FALSE)
    OBVIOUS
  <2>2. PICK l : l = ledger
    OBVIOUS
  <2>3. l \in Ledgers /\ Shares(l, P, Q, f)
    BY <1>2, <2>1, <2>2, AllocationsShare
  <2>4. PICK w : w = Walk(l, LastLedgerDay)[Len(l)]
    OBVIOUS
  <2>5. w \in Buckets /\ LastLedgerDay \in 0 .. Never /\ LastLedgerDay \in 1 .. Never
        /\ LastLedgerDay \in LedgerDays /\ LastLedgerDay \in Int
    <3>1. LastLedgerDay \in 0 .. Never /\ LastLedgerDay \in 1 .. Never
          /\ LastLedgerDay \in LedgerDays /\ LastLedgerDay \in Int
      BY DaysAreInt DEF Never, LedgerDays
    <3>2. l \in Seq(Entries) /\ Len(l) \in 0 .. Len(l)
      BY <2>3, LedgerFacts
    <3> QED
      BY <2>4, <3>1, <3>2, WalkDefined
  <2>6. last = Lapse(w, LastLedgerDay)
    BY <1>1, <2>2, <2>4, BalanceIsWalk
  <2>7. last \in Buckets /\ last.owed = w.owed /\ Worth(last) = Worth(w)
    BY <2>5, <2>6, LapseLeaves, LapseKeepsWorth
  <2>8. Available(last) = Usable(w, LastLedgerDay) - w.owed
    BY <2>5, <2>6, AvailableIsUsable
  <2>9. Ahead(l, P, Q, f, w, Len(l))
    BY <2>3, <2>4, WalkStaysAhead
  <2>10. w.owed = 0 /\ Worth(w) = Spare(l, P, Q, f, Len(l), 1)
    BY <2>9 DEF Ahead
  <2>11. Spare(l, P, Q, f, Len(l), LastLedgerDay) <= Usable(w, LastLedgerDay)
    <3>1. ASSUME NEW i \in 1 .. Len(l) PROVE l[i].on <= LastLedgerDay
      <4>1. l[i] \in Entries
        BY <2>3, LedgerFacts
      <4> QED
        BY <4>1, DaysAreInt DEF Entries, LedgerDays
    <3> QED
      BY <2>5, <2>9, <3>1 DEF Ahead
  <2>12. PICK s, t, u \in Nat : /\ s = Spare(l, P, Q, f, Len(l), 1)
                                /\ t = Spare(l, P, Q, f, Len(l), LastLedgerDay)
                                /\ u = Usable(w, LastLedgerDay)
    <3>1. Len(l) \in Nat
      BY <2>3, LedgerFacts
    <3>2. \A e \in Int : Spare(l, P, Q, f, Len(l), e) \in Nat
      BY <2>3, <3>1, SpareIsNat
    <3>3. Usable(w, LastLedgerDay) \in Nat
      BY <2>5, UsableShrinks
    <3>4. 1 \in Int
      OBVIOUS
    <3>5. Spare(l, P, Q, f, Len(l), 1) \in Nat
      BY <3>2, <3>4, Zenon
    <3>6. Spare(l, P, Q, f, Len(l), LastLedgerDay) \in Nat
      BY <2>5, <3>2, Zenon
    <3> QED
      BY <3>3, <3>5, <3>6, Zenon
  <2>13. last.lapsed = s - u
    <3>1. last.lapsed \in Int
      BY <2>7 DEF Buckets
    <3>2. Available(last) = u
      BY <2>8, <2>10, <2>12
    <3>3. Available(last) + last.lapsed = s
      BY <2>7, <2>10, <2>12 DEF Worth
    <3> QED
      BY <3>1, <3>2, <3>3
  <2>14. LapsedUnder(f) = s - t
    <3>1. PICK m : m = [g \in DOMAIN ledger |-> ledger[g].minutes]
      OBVIOUS
    <3>2. \A g \in P : m[g] = l[g].minutes
      BY <2>1, <2>2, <3>1 DEF Counted
    <3>3. PICK E : E = P \ Lasting(l, P, LastLedgerDay)
      OBVIOUS
    <3>4. SumOn(m, E) - SumOn(f, Q \X E) = s - t
      <4>1. SumOn(m, P \ Lasting(l, P, LastLedgerDay))
              - SumOn(f, Q \X (P \ Lasting(l, P, LastLedgerDay)))
              = Spare(l, P, Q, f, Len(l), 1) - Spare(l, P, Q, f, Len(l), LastLedgerDay)
        BY <2>3, <2>5, <3>2, LapsedUnderIs
      <4> QED
        BY <2>12, <3>3, <4>1, Zenon
    <3>5. E = {g \in P : ledger[g].expires < LastLedgerDay}
      <4>1. ASSUME NEW g \in P PROVE ledger[g].expires \in Int
        <5>1. l[g] \in Entries
          BY <2>3, SharesFacts, LedgerFacts
        <5> QED
          BY <2>2, <5>1, DaysAreInt DEF Entries, Expiries
      <4> QED
        BY <2>2, <2>5, <3>3, <4>1 DEF Lasting
    <3>6. LapsedUnder(f) = SumOn(m, E) - SumOn(f, Q \X E)
      BY <2>1, <3>1, <3>5, Zenon DEF LapsedUnder, SumOn
    <3> QED
      BY <3>4, <3>6
  <2> QED
    BY <2>7, <2>10, <2>11, <2>12, <2>13, <2>14
<1> QED
  BY <1>1, <1>2 DEF NothingIsWasted

-----------------------------------------------------------------------------
(***************************************************************************)
(* Every minute of leave is accounted for: the register of any period adds *)
(* up; no other way to take the leave that was taken, from grants that had *)
(* been walked before and had not expired, would have let fewer minutes    *)
(* lapse, and where there is any such way nothing is owed; and what the    *)
(* list of expirations announces is what the register then says has        *)
(* expired, unless an entry takes effect before (take, lapseBefore,        *)
(* listExpirations and summarizeLeaveRegister of ledger.ts).               *)
(***************************************************************************)
THEOREM LeaveIsAccounted == LedgerSpec => []EveryMinuteIsAccounted
<1>1. LedgerSpec => []LedgerInv
  BY LedgerInitially, LedgerStep, PTL DEF LedgerSpec
<1>2. LedgerInv => EveryMinuteIsAccounted
  <2> SUFFICES ASSUME LedgerInv PROVE EveryMinuteIsAccounted
    OBVIOUS
  <2>1. ledger \in Ledgers /\ ledger \in Seq(Entries)
    BY DEF LedgerInv, Ledgers
  <2>2. RegisterAddsUp
    BY <2>1, RegisterOfAnyLedgerAddsUp DEF RegisterAddsUp
  <2>3. NothingIsWasted
    BY <2>1, NothingIsWastedHere
  <2>4. AnnouncedIsLost
    BY <2>1, AnnouncedOfAnyLedger DEF AnnouncedIsLost
  <2> QED
    BY <2>2, <2>3, <2>4 DEF EveryMinuteIsAccounted
<1> QED
  BY <1>1, <1>2, PTL
=============================================================================
