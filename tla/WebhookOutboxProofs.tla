------------------------ MODULE WebhookOutboxProofs ------------------------
(***************************************************************************)
(* Proofs about WebhookOutbox, for any number of events, endpoints and     *)
(* workers, any lease, any retry policy and any number of faults.          *)
(***************************************************************************)
EXTENDS WebhookOutbox, FiniteSetTheorems, TLAPS

\* A row nobody published was never claimed nor tried.
FreshRows == \A r \in Rows \ rows : token[r] = NoToken /\ attempts[r] = 0

\* A busy worker carries a delivery of a published row, counted below the maximum,
\* and when it is about to settle it, that attempt is in the history.
WorkersCarry ==
  \A w \in Workers : Busy(w) =>
    /\ entry[w] \in Entries
    /\ entry[w].row \in rows
    /\ entry[w].attempts < MaxAttempts
    /\ pc[w] = "settling" =>
         <<entry[w].row, entry[w].attempts + 1, result[w]>> \in deliveries

\* No two workers carry the same claim.
ClaimsDiffer ==
  \A v, w \in Workers :
    Busy(v) /\ Busy(w) /\ entry[v].token = entry[w].token => v = w

IInv ==
  /\ TypeOK
  /\ FreshRows
  /\ WorkersCarry
  /\ ClaimsDiffer
  /\ CopyIsCurrent
  /\ EndedRowsAreFree
  /\ HistoryExplainsRows

-----------------------------------------------------------------------------
\* The token a claim writes is a token, and nobody has it.
LEMMA NewTokenIsFresh ==
  ASSUME \E t \in Tokens : t \notin LiveTokens
  PROVE  /\ NewToken \in Tokens
         /\ \A r \in Rows : token[r] # NewToken
         /\ \A w \in Workers : Busy(w) => entry[w].token # NewToken
<1>1. NewToken \in Tokens /\ NewToken \notin LiveTokens
  BY DEF NewToken
<1> QED
  BY <1>1 DEF LiveTokens

\* The retry policy never asks for a time in the past.
LEMMA RetryDelaysAreTimes ==
  ASSUME NEW n \in Nat \ {0}, NEW d \in RetryDelays(n)
  PROVE  d \in Int
  BY DEF RetryDelays

\* The rank of an overdue row is a number.
LEMMA OverdueRankIsNat ==
  ASSUME TypeOK, NEW r \in Rows
  PROVE  OverdueRank(r) \in Nat
<1> DEFINE P == {q \in Waiting : due[r] < due[q] /\ due[q] <= 0}
<1>1. IsFiniteSet(Rows)
  BY OutboxAssumption, FS_Product DEF Rows
<1>2. IsFiniteSet(P)
  BY <1>1, FS_Subset DEF Waiting, TypeOK
<1>3. Cardinality(P) \in Nat
  BY <1>2, FS_CardinalityType
<1> QED
  BY <1>3 DEF OverdueRank

-----------------------------------------------------------------------------
(***************************************************************************)
(* IInv is inductive: it holds at first, and each step of a business       *)
(* transaction, a person, a worker and the clock keeps it.                 *)
(***************************************************************************)
LEMMA InitIInv == Init => IInv
<1> SUFFICES ASSUME Init PROVE IInv
  OBVIOUS
<1> USE DEF Init
<1>1. TypeOK
  BY OutboxAssumption DEF TypeOK, Steps, Outcomes, SendOutcomes
<1>2. FreshRows /\ EndedRowsAreFree
  BY DEF FreshRows, EndedRowsAreFree
<1>3. WorkersCarry /\ ClaimsDiffer /\ CopyIsCurrent
  BY DEF WorkersCarry, ClaimsDiffer, CopyIsCurrent, Holds, Busy
<1>4. HistoryExplainsRows
  BY DEF HistoryExplainsRows
<1> QED
  BY <1>1, <1>2, <1>3, <1>4 DEF IInv

\* Publishing: only new rows, untouched since they were created, join the queue.
LEMMA PublishIInv == ASSUME IInv, NEW e \in Events, Publish(e) PROVE IInv'
<1> USE DEF Publish, IInv, dbVars, workerVars
<1>1. TypeOK'
  BY DEF TypeOK, Rows
<1>2. FreshRows'
  BY DEF TypeOK, FreshRows, Rows
<1>3. WorkersCarry' /\ ClaimsDiffer'
  BY DEF WorkersCarry, ClaimsDiffer, Busy
<1>4. CopyIsCurrent'
  BY DEF CopyIsCurrent, Holds, Busy, Waiting
<1>5. EndedRowsAreFree'
  BY DEF EndedRowsAreFree
<1>6. HistoryExplainsRows'
  <2>1. \A r \in rows' \ rows : r \in Rows \ rows
    BY DEF TypeOK, Rows
  <2>2. \A r \in rows' \ rows : attempts[r] = 0
    BY <2>1 DEF FreshRows
  <2>3. \A q \in rows' : \A n \in 1 .. attempts'[q] : <<q, n, "transient">> \in deliveries'
    <3> SUFFICES ASSUME NEW q \in rows', NEW n \in 1 .. attempts[q]
                 PROVE  <<q, n, "transient">> \in deliveries
      OBVIOUS
    <3>1. q \in rows
      BY <2>2
    <3> QED
      BY <3>1 DEF HistoryExplainsRows
  <2>4. \A q \in rows' \ abandoned' : attempts'[q] < MaxAttempts
    BY <2>2, OutboxAssumption DEF HistoryExplainsRows
  <2> QED
    BY <2>3, <2>4 DEF HistoryExplainsRows
<1> QED
  BY <1>1, <1>2, <1>3, <1>4, <1>5, <1>6

LEMMA RequeueIInv == ASSUME IInv, NEW r \in Rows, Requeue(r) PROVE IInv'
<1> USE DEF Requeue, IInv, dbVars, workerVars
<1>1. TypeOK'
  BY DEF TypeOK
<1>2. FreshRows' /\ WorkersCarry' /\ ClaimsDiffer'
  BY DEF TypeOK, FreshRows, WorkersCarry, ClaimsDiffer, Busy
<1>3. token[r] = NoToken
  BY DEF EndedRowsAreFree
<1>4. CopyIsCurrent'
  BY <1>3, OutboxAssumption DEF CopyIsCurrent, WorkersCarry, Entries, Holds, Busy, Waiting, TypeOK
<1>5. EndedRowsAreFree'
  BY DEF EndedRowsAreFree
<1>6. HistoryExplainsRows'
  <2>1. r \in rows /\ r \notin completed /\ attempts'[r] = 0
    BY DEF EndedRowsAreFree, TypeOK
  <2>2. \A q \in rows : q # r => attempts'[q] = attempts[q]
    BY DEF TypeOK
  <2>3. \A q \in completed' : \E o \in Verdicts : <<q, attempts'[q] + 1, o>> \in deliveries'
    BY <2>1, <2>2 DEF HistoryExplainsRows, TypeOK
  <2>4. \A q \in rows' : \A n \in 1 .. attempts'[q] : <<q, n, "transient">> \in deliveries'
    <3> SUFFICES ASSUME NEW q \in rows, NEW n \in 1 .. attempts'[q]
                 PROVE  <<q, n, "transient">> \in deliveries
      OBVIOUS
    <3>1. q # r
      BY <2>1
    <3> QED
      BY <2>2, <3>1 DEF HistoryExplainsRows
  <2>5. /\ \A q \in abandoned' : attempts'[q] = MaxAttempts
        /\ \A q \in rows' \ abandoned' : attempts'[q] < MaxAttempts
    BY <2>1, <2>2, OutboxAssumption DEF HistoryExplainsRows, TypeOK
  <2> QED
    BY <2>3, <2>4, <2>5 DEF HistoryExplainsRows
<1> QED
  BY <1>1, <1>2, <1>4, <1>5, <1>6

\* A claim only takes a row that waits, and copies attempts as they are.
LEMMA ClaimIInv == ASSUME IInv, NEW w \in Workers, Claim(w) PROVE IInv'
<1> USE DEF IInv
<1>1. PICK r \in Rows :
        /\ Claimable(r)
        /\ token' = [token EXCEPT ![r] = NewToken]
        /\ lease' = [lease EXCEPT ![r] = Lease]
        /\ entry' = [entry EXCEPT ![w] =
             [row |-> r, token |-> NewToken, attempts |-> attempts[r], active |-> r[2] \in active]]
        /\ pc' = [pc EXCEPT ![w] = "sending"]
  BY DEF Claim
<1>2. /\ pc[w] = "idle"
      /\ UNCHANGED <<active, rows, due, attempts, completed, abandoned, deliveries, running,
                     result, faults>>
  BY DEF Claim
<1>3. /\ NewToken \in Tokens
      /\ \A v \in Workers : Busy(v) => entry[v].token # NewToken
  BY NewTokenIsFresh DEF Claim
<1>4. r \in Waiting /\ r \in rows \ abandoned
  BY <1>1 DEF Claimable, Waiting
<1>5. entry'[w] \in Entries /\ entry'[w].row = r /\ entry'[w].attempts = attempts[r]
      /\ entry'[w].token = NewToken
  BY <1>1, <1>3 DEF TypeOK, Entries
<1>6. \A v \in Workers \ {w} : entry'[v] = entry[v] /\ pc'[v] = pc[v]
  BY <1>1 DEF TypeOK
<1>7. TypeOK'
  BY <1>1, <1>2, <1>3, <1>5, OutboxAssumption DEF TypeOK, Steps
<1>8. FreshRows'
  BY <1>1, <1>2, <1>4 DEF FreshRows, TypeOK
<1>9. WorkersCarry'
  <2>1. attempts[r] < MaxAttempts
    BY <1>4 DEF HistoryExplainsRows
  <2>2. pc'[w] = "sending"
    BY <1>1 DEF TypeOK
  <2> QED
    BY <1>2, <1>4, <1>5, <1>6, <2>1, <2>2 DEF WorkersCarry, Busy, Waiting
<1>10. ClaimsDiffer'
  BY <1>3, <1>5, <1>6 DEF ClaimsDiffer, Busy
<1>11. CopyIsCurrent'
  <2> SUFFICES ASSUME NEW v \in Workers, Holds(v)'
               PROVE  entry'[v].row \in Waiting' /\ entry'[v].attempts = attempts[entry'[v].row]
    BY <1>2 DEF CopyIsCurrent
  <2>1. CASE v = w
    BY <1>2, <1>4, <1>5, <2>1 DEF Waiting
  <2>2. CASE v # w
    <3>1. Busy(v) /\ entry'[v] = entry[v] /\ entry[v].row \in Rows
      BY <1>6, <2>2 DEF Holds, Busy, WorkersCarry, Entries
    <3>2. entry[v].row # r
      BY <1>1, <1>3, <3>1 DEF Holds, TypeOK
    <3>3. Holds(v)
      BY <1>1, <3>1, <3>2 DEF Holds, TypeOK
    <3> QED
      BY <1>2, <3>1, <3>3 DEF CopyIsCurrent, Waiting
  <2> QED
    BY <2>1, <2>2
<1>12. EndedRowsAreFree'
  BY <1>1, <1>2, <1>4 DEF EndedRowsAreFree, Waiting, TypeOK
<1>13. HistoryExplainsRows'
  BY <1>2 DEF HistoryExplainsRows
<1> QED
  BY <1>7, <1>8, <1>9, <1>10, <1>11, <1>12, <1>13

\* Steps that leave the rows, the history and every delivery in progress alone.
LEMMA QuietIInv ==
  ASSUME IInv,
         UNCHANGED <<rows, token, attempts, completed, abandoned, deliveries, entry>>,
         UNCHANGED result,
         \A w \in Workers : pc'[w] = pc[w] \/ (pc'[w] # pc[w] /\ ~Busy(w)'),
         TypeOK'
  PROVE  IInv'
<1> USE DEF IInv
<1>1. FreshRows' /\ EndedRowsAreFree' /\ HistoryExplainsRows'
  BY DEF FreshRows, EndedRowsAreFree, HistoryExplainsRows
<1>2. \A w \in Workers : Busy(w)' => Busy(w) /\ pc'[w] = pc[w]
  BY DEF Busy
<1>3. WorkersCarry' /\ ClaimsDiffer'
  BY <1>2 DEF WorkersCarry, ClaimsDiffer
<1>4. CopyIsCurrent'
  BY <1>2 DEF CopyIsCurrent, Holds, Waiting
<1> QED
  BY <1>1, <1>3, <1>4

LEMMA TickIInv == ASSUME IInv, Tick PROVE IInv'
<1> USE DEF IInv
<1>1. \A r \in Rows : OverdueRank(r) \in Nat
  BY OverdueRankIsNat
<1>2. due' \in [Rows -> Int] /\ lease' \in [Rows -> Nat]
  BY <1>1 DEF Tick, TypeOK
<1>3. faults' \in 0 .. MaxFaults
  BY OutboxAssumption DEF Tick, TypeOK
<1>4. TypeOK'
  BY <1>2, <1>3 DEF Tick, TypeOK, workerVars
<1> QED
  BY <1>4, QuietIInv DEF Tick, workerVars

LEMMA LoopIInv ==
  ASSUME IInv, NEW w \in Workers, Stop(w) \/ Exit(w) \/ Start(w)
  PROVE  IInv'
<1> USE DEF IInv, dbVars
<1>1. CASE Stop(w)
  <2>1. TypeOK'
    BY <1>1 DEF Stop, TypeOK
  <2> QED
    BY <1>1, <2>1, QuietIInv DEF Stop
<1>2. CASE Exit(w) \/ Start(w)
  <2>1. TypeOK'
    BY <1>2 DEF Exit, Start, TypeOK, Steps
  <2>2. \A v \in Workers : pc'[v] = pc[v] \/ (pc'[v] # pc[v] /\ ~Busy(v)')
    BY <1>2 DEF Exit, Start, TypeOK, Busy
  <2> QED
    BY <1>2, <2>1, <2>2, QuietIInv DEF Exit, Start
<1> QED
  BY <1>1, <1>2

LEMMA SetActiveIInv == ASSUME IInv, NEW p \in Endpoints, SetActive(p) PROVE IInv'
<1>1. TypeOK'
  BY DEF SetActive, IInv, TypeOK, workerVars
<1> QED
  BY <1>1, QuietIInv DEF SetActive, workerVars

\* Send keeps the delivery in hand and says nothing about the history yet.
LEMMA SendIInv == ASSUME IInv, NEW w \in Workers, Send(w) PROVE IInv'
<1> USE DEF IInv, Send, dbVars
<1>1. TypeOK'
  BY DEF TypeOK, Steps, Outcomes
<1>2. FreshRows' /\ EndedRowsAreFree' /\ HistoryExplainsRows'
  BY DEF FreshRows, EndedRowsAreFree, HistoryExplainsRows
<1>3. \A v \in Workers : Busy(v)' => Busy(v) /\ (v # w => pc'[v] = pc[v] /\ result'[v] = result[v])
  BY DEF TypeOK, Busy
<1>4. pc'[w] # "settling"
  BY DEF TypeOK
<1>5. WorkersCarry' /\ ClaimsDiffer'
  BY <1>3, <1>4 DEF WorkersCarry, ClaimsDiffer
<1>6. CopyIsCurrent'
  BY <1>3 DEF CopyIsCurrent, Holds, Waiting
<1> QED
  BY <1>1, <1>2, <1>5, <1>6

\* recordDelivery adds the attempt to the history before it is settled.
LEMMA RecordIInv == ASSUME IInv, NEW w \in Workers, RecordDelivery(w) PROVE IInv'
<1> USE DEF IInv, RecordDelivery
<1>1. Busy(w) /\ entry[w] \in Entries /\ entry[w].row \in Rows /\ entry[w].attempts \in Nat
  BY DEF Busy, WorkersCarry, Entries
<1>2. <<entry[w].row, entry[w].attempts + 1, result[w]>> \in Rows \X (Nat \ {0}) \X Outcomes
  BY <1>1 DEF TypeOK
<1>3. TypeOK'
  BY <1>2 DEF TypeOK, Steps
<1>4. FreshRows' /\ EndedRowsAreFree'
  BY DEF FreshRows, EndedRowsAreFree
<1>5. HistoryExplainsRows'
  BY DEF HistoryExplainsRows
<1>6. \A v \in Workers : Busy(v)' => Busy(v) /\ (v # w => pc'[v] = pc[v])
  BY DEF TypeOK, Busy
<1>7. WorkersCarry' /\ ClaimsDiffer'
  BY <1>6 DEF WorkersCarry, ClaimsDiffer
<1>8. CopyIsCurrent'
  BY <1>6 DEF CopyIsCurrent, Holds, Waiting
<1> QED
  BY <1>3, <1>4, <1>5, <1>7, <1>8

\* A worker that goes back to its loop drops one delivery; the others stay.
LEMMA BackToLoopKeepsOthers ==
  ASSUME IInv, NEW w \in Workers, BackToLoop(w), rows' = rows, deliveries' = deliveries
  PROVE  /\ WorkersCarry' /\ ClaimsDiffer'
         /\ \A v \in Workers :
              Busy(v)' => v # w /\ Busy(v) /\ entry'[v] = entry[v] /\ entry[v] \in Entries
         /\ pc' \in [Workers -> Steps]
         /\ entry' \in [Workers -> Entries \union {NoEntry}]
         /\ result' \in [Workers -> Outcomes]
<1> USE DEF IInv, BackToLoop
<1>1. \A v \in Workers :
        Busy(v)' => /\ v # w /\ Busy(v) /\ pc'[v] = pc[v] /\ entry'[v] = entry[v]
                    /\ result'[v] = result[v] /\ entry[v] \in Entries
  BY DEF TypeOK, Busy, WorkersCarry
<1>2. WorkersCarry' /\ ClaimsDiffer'
  BY <1>1 DEF WorkersCarry, ClaimsDiffer
<1>3. /\ pc' \in [Workers -> Steps]
      /\ entry' \in [Workers -> Entries \union {NoEntry}]
      /\ result' \in [Workers -> Outcomes]
  BY DEF TypeOK, Steps, Outcomes, SendOutcomes
<1> QED
  BY <1>1, <1>2, <1>3

\* A worker that gives up its delivery without touching the row.
LEMMA DropIInv ==
  ASSUME IInv, NEW w \in Workers, BackToLoop(w), UNCHANGED <<dbVars, running>>,
         faults' \in 0 .. MaxFaults
  PROVE  IInv'
<1> USE DEF IInv, dbVars
<1>1. TypeOK'
  BY BackToLoopKeepsOthers DEF TypeOK
<1>2. FreshRows' /\ EndedRowsAreFree' /\ HistoryExplainsRows'
  BY DEF FreshRows, EndedRowsAreFree, HistoryExplainsRows
<1>3. CopyIsCurrent'
  BY BackToLoopKeepsOthers DEF CopyIsCurrent, Holds, Waiting
<1> QED
  BY <1>1, <1>2, <1>3, BackToLoopKeepsOthers

LEMMA RejectedIInv == ASSUME IInv, NEW w \in Workers, Rejected(w) PROVE IInv'
BY DropIInv DEF Rejected, IInv, TypeOK

LEMMA InterruptedIInv == ASSUME IInv, NEW w \in Workers, Interrupted(w) PROVE IInv'
<1>1. faults' \in 0 .. MaxFaults
  BY OutboxAssumption DEF Interrupted, IInv, TypeOK
<1> QED
  BY <1>1, DropIInv DEF Interrupted

\* When the holder of a row settles it, the row loses its token: what any other
\* worker still holds is another row.
LEMMA SettlingFreesOneRow ==
  ASSUME IInv, NEW w \in Workers, Busy(w), Holds(w), BackToLoop(w), ReleaseClaim(entry[w].row),
         rows' = rows, deliveries' = deliveries
  PROVE  /\ entry[w] \in Entries /\ entry[w].row \in Waiting
         /\ entry[w].attempts = attempts[entry[w].row]
         /\ token' \in [Rows -> Tokens \union {NoToken}] /\ lease' \in [Rows -> Nat]
         /\ token'[entry[w].row] = NoToken
         /\ \A r \in Rows : token'[r] # NoToken => token'[r] = token[r] /\ r # entry[w].row
         /\ \A v \in Workers : Holds(v)' =>
              /\ Holds(v) /\ entry'[v] = entry[v] /\ entry[v] \in Entries
              /\ entry[v].row # entry[w].row
<1> USE DEF IInv, ReleaseClaim
<1>1. entry[w] \in Entries /\ entry[w].row \in Rows
  BY DEF WorkersCarry, Entries
<1>2. entry[w].row \in Waiting /\ entry[w].attempts = attempts[entry[w].row]
  BY DEF CopyIsCurrent
<1>3. /\ token' \in [Rows -> Tokens \union {NoToken}] /\ lease' \in [Rows -> Nat]
      /\ token'[entry[w].row] = NoToken
      /\ \A r \in Rows : token'[r] # NoToken => token'[r] = token[r] /\ r # entry[w].row
  BY <1>1 DEF TypeOK
<1>4. ASSUME NEW v \in Workers, Holds(v)'
      PROVE  /\ Holds(v) /\ entry'[v] = entry[v] /\ entry[v] \in Entries
             /\ entry[v].row # entry[w].row
  <2>1. Busy(v)' /\ Busy(v) /\ entry'[v] = entry[v] /\ entry[v] \in Entries
    BY <1>4, BackToLoopKeepsOthers DEF Holds
  <2>2. token'[entry[v].row] = entry[v].token /\ entry[v].row \in Rows /\ entry[v].token \in Tokens
    BY <1>4, <2>1 DEF Holds, Entries
  <2>3. token'[entry[v].row] # NoToken
    BY <2>2, OutboxAssumption
  <2> QED
    BY <1>3, <2>1, <2>2, <2>3 DEF Holds
<1> QED
  BY <1>1, <1>2, <1>3, <1>4

LEMMA ScheduleRetryIInv == ASSUME IInv, NEW w \in Workers, ScheduleRetry(w) PROVE IInv'
<1> DEFINE r == entry[w].row
<1> USE DEF IInv
<1>1. /\ BackToLoop(w) /\ ReleaseClaim(r) /\ Holds(w) /\ r \in Waiting
      /\ attempts' = [attempts EXCEPT ![r] = @ + 1]
      /\ pc[w] = "settling" /\ result[w] = "transient"
      /\ UNCHANGED <<active, rows, completed, abandoned, deliveries, running, faults>>
  BY DEF ScheduleRetry
<1>2. /\ entry[w] \in Entries /\ entry[w].attempts = attempts[r] /\ r \in Rows
      /\ token' \in [Rows -> Tokens \union {NoToken}] /\ lease' \in [Rows -> Nat]
      /\ \A q \in Rows : token'[q] # NoToken => token'[q] = token[q] /\ q # r
      /\ \A v \in Workers : Holds(v)' =>
           Holds(v) /\ entry'[v] = entry[v] /\ entry[v] \in Entries /\ entry[v].row # r
  BY <1>1, SettlingFreesOneRow DEF Waiting, TypeOK, Holds
<1>3. /\ attempts' \in [Rows -> Nat] /\ attempts'[r] = attempts[r] + 1
      /\ \A q \in Rows : q # r => attempts'[q] = attempts[q]
  BY <1>1, <1>2 DEF TypeOK
<1>4. /\ attempts[r] + 1 < MaxAttempts
      /\ <<r, attempts[r] + 1, "transient">> \in deliveries
  <2>1. ~(entry[w].attempts + 1 >= MaxAttempts)
    BY DEF ScheduleRetry, ShouldAbandon
  <2>2. Busy(w)
    BY <1>1 DEF Busy
  <2> QED
    BY <1>1, <1>2, <2>1, <2>2, OutboxAssumption DEF WorkersCarry, TypeOK
<1>5. due' \in [Rows -> Int]
  <2>1. PICK d \in RetryDelays(entry[w].attempts + 1) : due' = [due EXCEPT ![r] = d]
    BY DEF ScheduleRetry
  <2>2. entry[w].attempts + 1 \in Nat \ {0}
    BY <1>2 DEF Entries
  <2>3. d \in Int
    BY <2>2, RetryDelaysAreTimes
  <2> QED
    BY <2>1, <2>3 DEF TypeOK
<1>6. TypeOK'
  BY <1>1, <1>2, <1>3, <1>5, BackToLoopKeepsOthers DEF TypeOK
<1>7. FreshRows'
  BY <1>1, <1>2, <1>3 DEF FreshRows, Waiting
<1>8. WorkersCarry' /\ ClaimsDiffer'
  BY <1>1, BackToLoopKeepsOthers
<1>9. CopyIsCurrent'
  BY <1>1, <1>2, <1>3 DEF CopyIsCurrent, Entries, Waiting
<1>10. EndedRowsAreFree'
  BY <1>1, <1>2 DEF EndedRowsAreFree, TypeOK
<1>11. HistoryExplainsRows'
  <2>1. \A q \in completed : \E o \in Verdicts : <<q, attempts'[q] + 1, o>> \in deliveries
    BY <1>1, <1>3 DEF HistoryExplainsRows, Waiting, TypeOK
  <2>2. \A q \in rows : \A n \in 1 .. attempts'[q] : <<q, n, "transient">> \in deliveries
    <3> SUFFICES ASSUME NEW q \in rows, NEW n \in 1 .. attempts'[q]
                 PROVE  <<q, n, "transient">> \in deliveries
      OBVIOUS
    <3>1. CASE q = r /\ n = attempts[r] + 1
      BY <1>4, <3>1
    <3>2. CASE ~(q = r /\ n = attempts[r] + 1)
      <4>1. n \in 1 .. attempts[q]
        BY <1>3, <3>2 DEF TypeOK
      <4> QED
        BY <4>1 DEF HistoryExplainsRows
    <3> QED
      BY <3>1, <3>2
  <2>3. /\ \A q \in abandoned : attempts'[q] = MaxAttempts
        /\ \A q \in rows \ abandoned : attempts'[q] < MaxAttempts
    BY <1>1, <1>3, <1>4 DEF HistoryExplainsRows, Waiting, TypeOK
  <2> QED
    BY <1>1, <2>1, <2>2, <2>3 DEF HistoryExplainsRows
<1> QED
  BY <1>6, <1>7, <1>8, <1>9, <1>10, <1>11

LEMMA AbandonIInv == ASSUME IInv, NEW w \in Workers, Abandon(w) PROVE IInv'
<1> DEFINE r == entry[w].row
<1> USE DEF IInv
<1>1. /\ BackToLoop(w) /\ ReleaseClaim(r) /\ Holds(w) /\ r \in Waiting
      /\ attempts' = [attempts EXCEPT ![r] = @ + 1]
      /\ abandoned' = abandoned \union {r}
      /\ pc[w] = "settling" /\ result[w] = "transient"
      /\ UNCHANGED <<active, rows, due, completed, deliveries, running, faults>>
  BY DEF Abandon
<1>2. /\ entry[w] \in Entries /\ entry[w].attempts = attempts[r] /\ r \in Rows
      /\ token' \in [Rows -> Tokens \union {NoToken}] /\ lease' \in [Rows -> Nat]
      /\ token'[r] = NoToken
      /\ \A q \in Rows : token'[q] # NoToken => token'[q] = token[q] /\ q # r
      /\ \A v \in Workers : Holds(v)' =>
           Holds(v) /\ entry'[v] = entry[v] /\ entry[v] \in Entries /\ entry[v].row # r
  BY <1>1, SettlingFreesOneRow DEF Waiting, TypeOK, Holds
<1>3. /\ attempts' \in [Rows -> Nat] /\ attempts'[r] = attempts[r] + 1
      /\ \A q \in Rows : q # r => attempts'[q] = attempts[q]
  BY <1>1, <1>2 DEF TypeOK
<1>4. /\ attempts[r] + 1 = MaxAttempts
      /\ <<r, attempts[r] + 1, "transient">> \in deliveries
  <2>1. entry[w].attempts + 1 >= MaxAttempts
    BY DEF Abandon, ShouldAbandon
  <2>2. Busy(w)
    BY <1>1 DEF Busy
  <2> QED
    BY <1>1, <1>2, <2>1, <2>2, OutboxAssumption DEF WorkersCarry, TypeOK
<1>5. TypeOK'
  BY <1>1, <1>2, <1>3, BackToLoopKeepsOthers DEF TypeOK, Waiting
<1>6. FreshRows'
  BY <1>1, <1>2, <1>3 DEF FreshRows, Waiting
<1>7. WorkersCarry' /\ ClaimsDiffer'
  BY <1>1, BackToLoopKeepsOthers
<1>8. CopyIsCurrent'
  BY <1>1, <1>2, <1>3 DEF CopyIsCurrent, Entries, Waiting
<1>9. EndedRowsAreFree'
  BY <1>1, <1>2 DEF EndedRowsAreFree, Waiting, TypeOK
<1>10. HistoryExplainsRows'
  <2>1. \A q \in completed : \E o \in Verdicts : <<q, attempts'[q] + 1, o>> \in deliveries
    BY <1>1, <1>3 DEF HistoryExplainsRows, Waiting, TypeOK
  <2>2. \A q \in rows : \A n \in 1 .. attempts'[q] : <<q, n, "transient">> \in deliveries
    <3> SUFFICES ASSUME NEW q \in rows, NEW n \in 1 .. attempts'[q]
                 PROVE  <<q, n, "transient">> \in deliveries
      OBVIOUS
    <3>1. CASE q = r /\ n = attempts[r] + 1
      BY <1>4, <3>1
    <3>2. CASE ~(q = r /\ n = attempts[r] + 1)
      <4>1. n \in 1 .. attempts[q]
        BY <1>3, <3>2 DEF TypeOK
      <4> QED
        BY <4>1 DEF HistoryExplainsRows
    <3> QED
      BY <3>1, <3>2
  <2>3. /\ \A q \in abandoned' : attempts'[q] = MaxAttempts
        /\ \A q \in rows \ abandoned' : attempts'[q] < MaxAttempts
    BY <1>1, <1>3, <1>4 DEF HistoryExplainsRows, Waiting, TypeOK
  <2> QED
    BY <1>1, <2>1, <2>2, <2>3 DEF HistoryExplainsRows
<1> QED
  BY <1>5, <1>6, <1>7, <1>8, <1>9, <1>10

LEMMA CompleteIInv == ASSUME IInv, NEW w \in Workers, Complete(w) PROVE IInv'
<1> DEFINE r == entry[w].row
<1> USE DEF IInv
<1>1. /\ BackToLoop(w) /\ ReleaseClaim(r) /\ Holds(w)
      /\ completed' = completed \union {r}
      /\ pc[w] = "settling" /\ result[w] # "transient"
      /\ UNCHANGED <<active, rows, due, attempts, abandoned, deliveries, running, faults>>
  BY DEF Complete
<1>2. /\ entry[w] \in Entries /\ entry[w].attempts = attempts[r]
      /\ r \in Waiting /\ r \in Rows
      /\ token' \in [Rows -> Tokens \union {NoToken}] /\ lease' \in [Rows -> Nat]
      /\ token'[r] = NoToken
      /\ \A q \in Rows : token'[q] # NoToken => token'[q] = token[q] /\ q # r
      /\ \A v \in Workers : Holds(v)' =>
           Holds(v) /\ entry'[v] = entry[v] /\ entry[v] \in Entries /\ entry[v].row # r
  BY <1>1, SettlingFreesOneRow DEF Waiting, TypeOK, Holds
<1>3. TypeOK'
  BY <1>1, <1>2, BackToLoopKeepsOthers DEF TypeOK, Waiting
<1>4. FreshRows'
  BY <1>1, <1>2 DEF FreshRows, Waiting
<1>5. WorkersCarry' /\ ClaimsDiffer'
  BY <1>1, BackToLoopKeepsOthers
<1>6. CopyIsCurrent'
  BY <1>1, <1>2 DEF CopyIsCurrent, Entries, Waiting
<1>7. EndedRowsAreFree'
  BY <1>1, <1>2 DEF EndedRowsAreFree, Waiting, TypeOK
<1>8. HistoryExplainsRows'
  <2>1. result[w] \in Verdicts
    BY <1>1 DEF TypeOK, Verdicts
  <2>2. <<r, attempts[r] + 1, result[w]>> \in deliveries
    BY <1>1, <1>2 DEF WorkersCarry, Busy
  <2> QED
    BY <1>1, <2>1, <2>2 DEF HistoryExplainsRows
<1> QED
  BY <1>3, <1>4, <1>5, <1>6, <1>7, <1>8

LEMMA NextIInv == IInv /\ [Next]_vars => IInv'
<1> SUFFICES ASSUME IInv, [Next]_vars PROVE IInv'
  OBVIOUS
<1>1. ASSUME NEW w \in Workers, WorkerStep(w) PROVE IInv'
  BY <1>1, ClaimIInv, SendIInv, RecordIInv, ScheduleRetryIInv, AbandonIInv, CompleteIInv,
     RejectedIInv DEF WorkerStep, Settle
<1>2. CASE UNCHANGED vars
  <2>1. TypeOK'
    BY <1>2 DEF vars, dbVars, workerVars, IInv, TypeOK
  <2> QED
    BY <1>2, <2>1, QuietIInv DEF vars, dbVars, workerVars
<1> QED
  BY <1>1, <1>2, PublishIInv, SetActiveIInv, RequeueIInv, LoopIInv, InterruptedIInv, TickIInv
     DEF Next

-----------------------------------------------------------------------------
(***************************************************************************)
(* The theorems.                                                           *)
(***************************************************************************)
\* Every reachable state satisfies the strengthened invariant.
THEOREM Invariance == Spec => []IInv
<1>1. Init => IInv
  BY InitIInv
<1>2. IInv /\ [Next]_vars => IInv'
  BY NextIInv
<1> QED
  BY <1>1, <1>2, PTL DEF Spec

\* Every variable keeps its type.
THEOREM TypeCorrect == Spec => []TypeOK
<1>1. IInv => TypeOK
  BY DEF IInv
<1> QED
  BY <1>1, Invariance, PTL

\* What a worker copied at its claim is true for as long as it holds the row.
THEOREM CopyStaysCurrent == Spec => []CopyIsCurrent
<1>1. IInv => CopyIsCurrent
  BY DEF IInv
<1> QED
  BY <1>1, Invariance, PTL

\* Rows end in one way only, and an ended row has no owner.
THEOREM EndsOnce == Spec => []EndedRowsAreFree
<1>1. IInv => EndedRowsAreFree
  BY DEF IInv
<1> QED
  BY <1>1, Invariance, PTL

\* The delivery history explains every count and every end.
THEOREM HistoryComplete == Spec => []HistoryExplainsRows
<1>1. IInv => HistoryExplainsRows
  BY DEF IInv
<1> QED
  BY <1>1, Invariance, PTL

-----------------------------------------------------------------------------
(***************************************************************************)
(* The lease as an action property: a step that is not the worker's own    *)
(* leaves it the row, because claims need the lease to be over, late       *)
(* workers carry another token, and a person only touches ended rows.      *)
(***************************************************************************)
LEMMA StepKeepsHolder ==
  ASSUME IInv, [Next]_vars, NEW w \in Workers, Holds(w), lease[entry[w].row] > 0, pc'[w] # "idle"
  PROVE  Holds(w)'
<1> USE DEF IInv
<1> DEFINE r == entry[w].row
<1>1. Busy(w) /\ entry[w] \in Entries /\ r \in Waiting /\ r \in Rows /\ entry[w].token \in Tokens
      /\ token[r] = entry[w].token
  BY DEF Holds, WorkersCarry, CopyIsCurrent, Entries
<1>2. token[r] # NoToken /\ token[r] \in Tokens
  BY <1>1, OutboxAssumption
<1>3. ASSUME token' = token, entry' = entry, Busy(w)' PROVE Holds(w)'
  BY <1>1, <1>3 DEF Holds
<1>4. CASE \E e \in Events : Publish(e)
  BY <1>1, <1>3, <1>4 DEF Publish, workerVars, Busy
<1>5. CASE \E p \in Endpoints : SetActive(p)
  BY <1>1, <1>3, <1>5 DEF SetActive, workerVars, Busy
<1>6. CASE \E q \in Rows : Requeue(q)
  BY <1>1, <1>3, <1>6 DEF Requeue, workerVars, Busy
<1>7. ASSUME NEW v \in Workers, Claim(v) PROVE Holds(w)'
  <2>1. v # w
    BY <1>1, <1>7 DEF Claim, Busy
  <2>2. PICK q \in Rows :
          /\ Claimable(q)
          /\ token' = [token EXCEPT ![q] = NewToken]
          /\ entry' = [entry EXCEPT ![v] =
               [row |-> q, token |-> NewToken, attempts |-> attempts[q],
                active |-> q[2] \in active]]
          /\ pc' = [pc EXCEPT ![v] = "sending"]
    BY <1>7 DEF Claim
  <2>3. q # r
    BY <1>2, <2>2 DEF Claimable
  <2> QED
    BY <1>1, <2>1, <2>2, <2>3 DEF Holds, Busy, TypeOK
<1>8. ASSUME NEW v \in Workers, Send(v) \/ RecordDelivery(v) PROVE Holds(w)'
  <2>1. Busy(w)' /\ entry' = entry /\ token' = token
    BY <1>1, <1>8 DEF Send, RecordDelivery, dbVars, Busy, TypeOK
  <2> QED
    BY <1>3, <2>1
<1>9. ASSUME NEW v \in Workers, Settle(v) PROVE Holds(w)'
  <2>1. BackToLoop(v)
    BY <1>9 DEF Settle, ScheduleRetry, Abandon, Complete, Rejected
  <2>2. v # w
    BY <2>1 DEF BackToLoop, TypeOK
  <2>3. entry'[w] = entry[w] /\ Busy(w)'
    BY <1>1, <2>1, <2>2 DEF BackToLoop, TypeOK, Busy
  <2>4. CASE Rejected(v)
    BY <1>1, <2>3, <2>4 DEF Rejected, dbVars, Holds
  <2>5. CASE ~Rejected(v)
    <3>1. Holds(v) /\ ReleaseClaim(entry[v].row)
      BY <1>9, <2>5 DEF Settle, ScheduleRetry, Abandon, Complete
    <3>2. entry[v].row \in Rows /\ entry[v].row # r
      BY <1>1, <2>2, <3>1 DEF Holds, ClaimsDiffer, WorkersCarry, Entries
    <3> QED
      BY <1>1, <2>3, <3>1, <3>2 DEF ReleaseClaim, TypeOK, Holds
  <2> QED
    BY <2>4, <2>5
<1>10. ASSUME NEW v \in Workers, Stop(v) \/ Exit(v) \/ Start(v) PROVE Holds(w)'
  <2>1. Busy(w)' /\ entry' = entry /\ token' = token
    BY <1>1, <1>10 DEF Stop, Exit, Start, dbVars, Busy, TypeOK
  <2> QED
    BY <1>3, <2>1
<1>11. ASSUME NEW v \in Workers, Interrupted(v) PROVE Holds(w)'
  <2>1. v # w /\ token' = token
    BY <1>11 DEF Interrupted, BackToLoop, dbVars, TypeOK
  <2> QED
    BY <1>1, <1>11, <2>1 DEF Interrupted, BackToLoop, Holds, Busy, TypeOK
<1>12. CASE Tick
  BY <1>1, <1>3, <1>12 DEF Tick, workerVars, Busy
<1>13. CASE UNCHANGED vars
  BY <1>1, <1>3, <1>13 DEF vars, dbVars, workerVars, Busy
<1> QED
  BY <1>4, <1>5, <1>6, <1>7, <1>8, <1>9, <1>10, <1>11, <1>12, <1>13 DEF Next, WorkerStep

\* Whoever holds a row under a running lease keeps it until its own step lets go.
THEOREM LeaseExcludes == Spec => LeaseIsExclusive
<1>1. IInv /\ [Next]_vars =>
        [\A w \in Workers :
           Holds(w) /\ lease[entry[w].row] > 0 /\ pc'[w] # "idle" => Holds(w)']_vars
  BY StepKeepsHolder
<1> QED
  BY <1>1, Invariance, PTL DEF Spec, LeaseIsExclusive

-----------------------------------------------------------------------------
(***************************************************************************)
(* Refinement: each step of the outbox is a step of WebhookDelivery or     *)
(* changes nothing a reader of the promise can see.                        *)
(***************************************************************************)
LEMMA InitRefines == Init => Promise!Init
BY DEF Init, Promise!Init, Status

LEMMA PublishRefines == ASSUME IInv, NEW e \in Events, Publish(e) PROVE Promise!Next
<1> DEFINE R == {e} \X active
<1>1. R \in SUBSET Rows
  BY DEF IInv, TypeOK, Rows
<1>2. \A r \in R : r \notin rows /\ r \notin completed /\ r \notin abandoned
  BY <1>1 DEF Publish, IInv, TypeOK, Rows
<1>3. Promise!Publish(R)
  BY <1>1, <1>2 DEF Publish, Promise!Publish, Status
<1> QED
  BY <1>1, <1>3 DEF Promise!Next

LEMMA RequeueRefines == ASSUME IInv, NEW r \in Rows, Requeue(r) PROVE Promise!PutBack(r)
BY DEF Requeue, Promise!PutBack, Status, IInv, TypeOK, EndedRowsAreFree

LEMMA RecordRefines ==
  ASSUME IInv, NEW w \in Workers, RecordDelivery(w)
  PROVE  Promise!Next
<1>1. /\ entry[w].row \in Rows /\ entry[w].row \in rows
      /\ entry[w].attempts + 1 \in 1 .. MaxAttempts /\ result[w] \in Outcomes
  <2>1. Busy(w) /\ result[w] \in Outcomes
    BY DEF RecordDelivery, Busy, IInv, TypeOK
  <2>2. /\ entry[w] \in Entries /\ entry[w].row \in rows
        /\ entry[w].attempts < MaxAttempts
    BY <2>1 DEF IInv, WorkersCarry
  <2> QED
    BY <2>1, <2>2, OutboxAssumption DEF Entries
<1>2. Promise!Record(entry[w].row, entry[w].attempts + 1, result[w])
  BY <1>1 DEF RecordDelivery, Promise!Record, Status
<1> QED
  BY <1>1, <1>2 DEF Promise!Next

LEMMA SettleRefines ==
  ASSUME IInv, NEW w \in Workers, Settle(w)
  PROVE  Promise!Next \/ UNCHANGED Promise!abstractVars
<1> DEFINE r == entry[w].row
<1>1. CASE Rejected(w)
  BY <1>1 DEF Rejected, dbVars, Promise!abstractVars, Status
<1>2. CASE ~Rejected(w)
  <2>1. Holds(w) /\ Busy(w) /\ pc[w] = "settling" /\ rows' = rows /\ deliveries' = deliveries
    BY <1>2 DEF Settle, ScheduleRetry, Abandon, Complete, Busy
  <2>2. /\ r \in Rows /\ r \in Waiting /\ entry[w].attempts = attempts[r]
        /\ <<r, attempts[r] + 1, result[w]>> \in deliveries /\ result[w] \in Outcomes
        /\ attempts[r] \in Nat /\ attempts[r] < MaxAttempts
    BY <2>1 DEF IInv, WorkersCarry, CopyIsCurrent, Entries, TypeOK, Holds
  <2>3. CASE ScheduleRetry(w)
    <3>1. attempts[r] + 1 < MaxAttempts
      BY <2>2, <2>3, OutboxAssumption DEF ScheduleRetry, ShouldAbandon
    <3>2. Promise!CountFailure(r)
      BY <2>1, <2>2, <2>3, <3>1 DEF ScheduleRetry, Promise!CountFailure, Status, Waiting
    <3> QED
      BY <2>2, <3>2 DEF Promise!Next
  <2>4. CASE Abandon(w)
    <3>1. attempts[r] + 1 = MaxAttempts
      BY <2>2, <2>4, OutboxAssumption DEF Abandon, ShouldAbandon
    <3>2. Promise!GiveUp(r)
      BY <2>1, <2>2, <2>4, <3>1 DEF Abandon, Promise!GiveUp, Status, Waiting
    <3> QED
      BY <2>2, <3>2 DEF Promise!Next
  <2>5. CASE Complete(w)
    <3>1. result[w] \in Verdicts
      BY <2>2, <2>5 DEF Complete, Verdicts
    <3>2. Promise!End(r)
      BY <2>1, <2>2, <2>5, <3>1 DEF Complete, Promise!End, Status, Waiting
    <3> QED
      BY <2>2, <3>2 DEF Promise!Next
  <2> QED
    BY <1>2, <2>3, <2>4, <2>5 DEF Settle
<1> QED
  BY <1>1, <1>2

LEMMA NextRefines == IInv /\ [Next]_vars => [Promise!Next]_(Promise!abstractVars)
<1> SUFFICES ASSUME IInv, [Next]_vars
             PROVE  Promise!Next \/ UNCHANGED Promise!abstractVars
  OBVIOUS
<1>1. ASSUME UNCHANGED <<rows, attempts, completed, abandoned, deliveries>>
      PROVE  UNCHANGED Promise!abstractVars
  BY <1>1 DEF Promise!abstractVars, Status
<1>2. ASSUME NEW r \in Rows, Requeue(r) PROVE Promise!Next
  BY <1>2, RequeueRefines DEF Promise!Next
<1>3. ASSUME NEW w \in Workers,
             Claim(w) \/ Send(w) \/ Stop(w) \/ Exit(w) \/ Start(w) \/ Interrupted(w)
      PROVE  UNCHANGED Promise!abstractVars
  BY <1>1, <1>3 DEF Claim, Send, Stop, Exit, Start, Interrupted, dbVars
<1>4. CASE \E p \in Endpoints : SetActive(p)
  BY <1>1, <1>4 DEF SetActive
<1>5. CASE Tick \/ UNCHANGED vars
  BY <1>1, <1>5 DEF Tick, vars, dbVars
<1> QED
  BY <1>2, <1>3, <1>4, <1>5, PublishRefines, RecordRefines, SettleRefines DEF Next, WorkerStep

\* The outbox implements the promise.
THEOREM OutboxKeepsPromise == Spec => PromiseKept
<1>1. Init => Promise!Init
  BY InitRefines
<1>2. IInv /\ [Next]_vars => [Promise!Next]_(Promise!abstractVars)
  BY NextRefines
<1> QED
  BY <1>1, <1>2, Invariance, PTL DEF Spec, PromiseKept, Promise!Spec
=============================================================================
