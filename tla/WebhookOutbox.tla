--------------------------- MODULE WebhookOutbox ---------------------------
(***************************************************************************)
(* The transactional outbox of webhook notifications and the workers that  *)
(* drain it: packages/api/src/integration/{outbox-repository,              *)
(* outbox-writer, delivery-processor, delivery-worker, sender}.ts and the  *)
(* retry policy of packages/domain/src/integration/retry.ts.               *)
(*                                                                         *)
(* A row of webhook_outbox is a pair <<event, endpoint>>, which is what    *)
(* the UNIQUE key of migration 0014 identifies.  Each SQL statement is one *)
(* action: every statement of the repository runs in autocommit, its       *)
(* condition and its assignment are atomic.  A worker is between two       *)
(* statements (or in an await) between two of its actions, where other     *)
(* workers, time, a crash or an administrator may step in.                 *)
(*                                                                         *)
(* Time is PostgreSQL's clock.  Only differences matter, so the columns    *)
(* available_at and claim_expires_at are kept relative to now: due[r] is   *)
(* the ticks until r may be taken (negative: its rank among the overdue),  *)
(* lease[r] the ticks until its claim expires.                             *)
(***************************************************************************)
EXTENDS Integers, FiniteSets

CONSTANTS
  Events,        \* business events that get published
  Endpoints,     \* registered webhook endpoints
  Workers,       \* webhook-worker processes
  Tokens,        \* values of gen_random_uuid()
  NoToken,       \* claim_token IS NULL
  NoEntry,       \* a worker that holds no delivery
  Lease,         \* WEBHOOK_CLAIM_LEASE_MS, in ticks
  InitialDelay, Multiplier, MaximumDelay,  \* RetryPolicy, in ticks
  MaxAttempts,   \* RetryPolicy.maximumAttempts
  MaxFaults      \* bound: crashes, failed recordings and lease overruns

ASSUME OutboxAssumption ==
  /\ Lease \in Nat \ {0}
  /\ MaxAttempts \in Nat \ {0}
  /\ InitialDelay \in Nat /\ Multiplier \in Nat \ {0} /\ MaximumDelay \in Nat
  /\ MaxFaults \in Nat
  /\ NoToken \notin Tokens
  /\ IsFiniteSet(Events) /\ IsFiniteSet(Endpoints)

Rows == Events \X Endpoints

(***************************************************************************)
(* What deps.send reports, folded by isRetryable: "transient" is a failure *)
(* with no answer, 408, 429 or 5xx; "final" is a delivery or any other     *)
(* failure, an oversized 2xx answer included, for neither is sent again.   *)
(* "skipped" is the outcome for an inactive endpoint.                      *)
(***************************************************************************)
SendOutcomes == {"final", "transient"}
Outcomes == SendOutcomes \union {"skipped"}
Verdicts == Outcomes \ {"transient"}

Entries == [row : Rows, token : Tokens, attempts : Nat, active : BOOLEAN]

VARIABLES
  active,      \* webhook_endpoints.active: the set of active endpoints
  rows,        \* the rows that exist
  due, lease, token, attempts,      \* columns of webhook_outbox
  completed, abandoned,             \* completed_at, abandoned_at IS NOT NULL
  deliveries,  \* webhook_deliveries: <<row, attempt, outcome>>
  running,     \* workers whose loop has not been asked to stop
  pc, entry, result,                \* where each worker stands in deliver()
  faults       \* faults so far

dbVars == <<active, rows, due, lease, token, attempts, completed, abandoned, deliveries>>
workerVars == <<running, pc, entry, result>>
vars == <<dbVars, workerVars, faults>>

Steps == {"idle", "sending", "recording", "settling", "stopped"}

TypeOK ==
  /\ active \subseteq Endpoints
  /\ rows \subseteq Rows
  /\ due \in [Rows -> Int]
  /\ lease \in [Rows -> Nat]
  /\ token \in [Rows -> Tokens \union {NoToken}]
  /\ attempts \in [Rows -> Nat]
  /\ completed \subseteq rows
  /\ abandoned \subseteq rows
  /\ deliveries \subseteq Rows \X (Nat \ {0}) \X Outcomes
  /\ running \subseteq Workers
  /\ pc \in [Workers -> Steps]
  /\ entry \in [Workers -> Entries \union {NoEntry}]
  /\ result \in [Workers -> Outcomes]
  /\ faults \in 0 .. MaxFaults

Init ==
  /\ active = Endpoints
  /\ rows = {}
  /\ due = [r \in Rows |-> 0]
  /\ lease = [r \in Rows |-> 0]
  /\ token = [r \in Rows |-> NoToken]
  /\ attempts = [r \in Rows |-> 0]
  /\ completed = {} /\ abandoned = {}
  /\ deliveries = {}
  /\ running = Workers
  /\ pc = [w \in Workers |-> "idle"]
  /\ entry = [w \in Workers |-> NoEntry]
  /\ result = [w \in Workers |-> "transient"]
  /\ faults = 0

\* Neither completed_at nor abandoned_at is set.
Waiting == rows \ (completed \union abandoned)

Busy(w) == pc[w] \in {"sending", "recording", "settling"}

\* The claim the worker read is still the one on the row.
Holds(w) == Busy(w) /\ token[entry[w].row] = entry[w].token

-----------------------------------------------------------------------------
(***************************************************************************)
(* The business side: enqueue inside the business transaction, one row per *)
(* endpoint that is active then, and the two operations of a person.       *)
(***************************************************************************)
Publish(e) ==
  /\ \A p \in Endpoints : <<e, p>> \notin rows
  /\ active # {}
  /\ rows' = rows \union ({e} \X active)
  /\ UNCHANGED <<active, due, lease, token, attempts, completed, abandoned, deliveries,
                 workerVars, faults>>

SetActive(p) ==
  /\ active' = IF p \in active THEN active \ {p} ELSE active \union {p}
  /\ UNCHANGED <<rows, due, lease, token, attempts, completed, abandoned, deliveries,
                 workerVars, faults>>

\* Mutant: the UPDATE without its AND abandoned_at IS NOT NULL.
RequeueWaiting(r) ==
  /\ r \in rows \ completed
  /\ abandoned' = abandoned \ {r}
  /\ attempts' = [attempts EXCEPT ![r] = 0]
  /\ due' = [due EXCEPT ![r] = 0]
  /\ UNCHANGED <<active, rows, lease, token, completed, deliveries, workerVars, faults>>

\* requeueAbandonedDelivery: back to the queue with a fresh count of attempts.
Requeue(r) ==
  /\ r \in abandoned
  /\ abandoned' = abandoned \ {r}
  /\ attempts' = [attempts EXCEPT ![r] = 0]
  /\ due' = [due EXCEPT ![r] = 0]
  /\ UNCHANGED <<active, rows, lease, token, completed, deliveries, workerVars, faults>>

-----------------------------------------------------------------------------
(***************************************************************************)
(* A worker: claimNext, send, recordDelivery, then one of scheduleRetry,   *)
(* abandon and complete.                                                   *)
(***************************************************************************)
\* Mutants: rows are taken whatever claim they carry; a claim is never taken over.
ClaimableUnderLease(r) == r \in Waiting /\ due[r] <= 0
ClaimableIfUnclaimed(r) == r \in Waiting /\ due[r] <= 0 /\ token[r] = NoToken

Claimable(r) ==
  /\ r \in Waiting
  /\ due[r] <= 0
  /\ token[r] = NoToken \/ lease[r] = 0

\* ORDER BY available_at; rows that became available together come in any order.
Oldest(r) == \A q \in Rows : Claimable(q) => due[r] <= due[q]

\* gen_random_uuid() repeats no token that a row or a worker still holds.
LiveTokens ==
  {token[r] : r \in Rows} \union {entry[w].token : w \in {v \in Workers : Busy(v)}}
NewToken == CHOOSE t \in Tokens : t \notin LiveTokens

Claim(w) ==
  /\ pc[w] = "idle" /\ w \in running
  /\ \E t \in Tokens : t \notin LiveTokens
  /\ \E r \in Rows :
       /\ Claimable(r) /\ Oldest(r)
       /\ token' = [token EXCEPT ![r] = NewToken]
       /\ lease' = [lease EXCEPT ![r] = Lease]
       /\ entry' = [entry EXCEPT ![w] =
            [row |-> r, token |-> NewToken, attempts |-> attempts[r], active |-> r[2] \in active]]
       /\ pc' = [pc EXCEPT ![w] = "sending"]
  /\ UNCHANGED <<active, rows, due, attempts, completed, abandoned, deliveries, running, result,
                 faults>>

\* The answer may be "transient" although the receiver took the notification.
Send(w) ==
  /\ pc[w] = "sending"
  /\ \E o \in (IF entry[w].active THEN SendOutcomes ELSE {"skipped"}) :
       result' = [result EXCEPT ![w] = o]
  /\ pc' = [pc EXCEPT ![w] = "recording"]
  /\ UNCHANGED <<dbVars, running, entry, faults>>

RecordDelivery(w) ==
  /\ pc[w] = "recording"
  /\ deliveries' = deliveries \union {<<entry[w].row, entry[w].attempts + 1, result[w]>>}
  /\ pc' = [pc EXCEPT ![w] = "settling"]
  /\ UNCHANGED <<active, rows, due, lease, token, attempts, completed, abandoned, running, entry,
                 result, faults>>

\* retryDelayMs: the capped interval, lengthened by up to a quarter.
RetryDelays(n) ==
  LET raw == InitialDelay * Multiplier ^ (n - 1)
      capped == IF raw < MaximumDelay THEN raw ELSE MaximumDelay
  IN  capped .. capped + (capped + 2) \div 4

\* Mutant: one attempt too many.
ShouldAbandonLate(n) == n > MaxAttempts

ShouldAbandon(n) == n >= MaxAttempts

\* The worker goes back to its loop and forgets the delivery.
BackToLoop(w) ==
  /\ pc' = [pc EXCEPT ![w] = "idle"]
  /\ entry' = [entry EXCEPT ![w] = NoEntry]
  /\ result' = [result EXCEPT ![w] = "transient"]

\* UPDATE ... WHERE claim_token = $2 AND not ended, which lets go of the claim.
ReleaseClaim(r) ==
  /\ token' = [token EXCEPT ![r] = NoToken]
  /\ lease' = [lease EXCEPT ![r] = 0]

ScheduleRetry(w) ==
  LET r == entry[w].row IN
  /\ pc[w] = "settling" /\ result[w] = "transient" /\ ~ShouldAbandon(entry[w].attempts + 1)
  /\ Holds(w) /\ r \in Waiting
  /\ attempts' = [attempts EXCEPT ![r] = @ + 1]
  /\ \E d \in RetryDelays(entry[w].attempts + 1) : due' = [due EXCEPT ![r] = d]
  /\ ReleaseClaim(r)
  /\ BackToLoop(w)
  /\ UNCHANGED <<active, rows, completed, abandoned, deliveries, running, faults>>

Abandon(w) ==
  LET r == entry[w].row IN
  /\ pc[w] = "settling" /\ result[w] = "transient" /\ ShouldAbandon(entry[w].attempts + 1)
  /\ Holds(w) /\ r \in Waiting
  /\ attempts' = [attempts EXCEPT ![r] = @ + 1]
  /\ abandoned' = abandoned \union {r}
  /\ ReleaseClaim(r)
  /\ BackToLoop(w)
  /\ UNCHANGED <<active, rows, due, completed, deliveries, running, faults>>

\* Mutant: the UPDATE without its AND claim_token = $2.
CompleteUnclaimed(w) ==
  LET r == entry[w].row IN
  /\ pc[w] = "settling" /\ result[w] # "transient"
  /\ r \notin completed
  /\ completed' = completed \union {r}
  /\ ReleaseClaim(r)
  /\ BackToLoop(w)
  /\ UNCHANGED <<active, rows, due, attempts, abandoned, deliveries, running, faults>>

\* complete() looks at completed_at only, not at abandoned_at.
Complete(w) ==
  LET r == entry[w].row IN
  /\ pc[w] = "settling" /\ result[w] # "transient"
  /\ Holds(w) /\ r \notin completed
  /\ completed' = completed \union {r}
  /\ ReleaseClaim(r)
  /\ BackToLoop(w)
  /\ UNCHANGED <<active, rows, due, attempts, abandoned, deliveries, running, faults>>

\* The UPDATE matched no row: logged, nothing else.
Rejected(w) ==
  LET r == entry[w].row IN
  /\ pc[w] = "settling"
  /\ ~Holds(w) \/ r \in completed \/ (result[w] = "transient" /\ r \in abandoned)
  /\ BackToLoop(w)
  /\ UNCHANGED <<dbVars, running, faults>>

-----------------------------------------------------------------------------
(* stop() lets the current delivery finish; the process then exits.         *)
Stop(w) ==
  /\ w \in running
  /\ running' = running \ {w}
  /\ UNCHANGED <<dbVars, pc, entry, result, faults>>

Exit(w) ==
  /\ w \notin running /\ pc[w] = "idle"
  /\ pc' = [pc EXCEPT ![w] = "stopped"]
  /\ UNCHANGED <<dbVars, running, entry, result, faults>>

Start(w) ==
  /\ pc[w] = "stopped"
  /\ running' = running \union {w}
  /\ pc' = [pc EXCEPT ![w] = "idle"]
  /\ UNCHANGED <<dbVars, entry, result, faults>>

(***************************************************************************)
(* Faults.  Interrupted: the process dies, or recordDelivery or a settling *)
(* statement throws and processNext logs it; the claim stays on the row    *)
(* until it expires.  For a process that dies, running again stands for    *)
(* its restart.                                                            *)
(***************************************************************************)
Interrupted(w) ==
  /\ Busy(w) /\ faults < MaxFaults
  /\ faults' = faults + 1
  /\ BackToLoop(w)
  /\ UNCHANGED <<dbVars, running>>

\* loadWebhookWorkerConfig refuses a lease shorter than the send timeout plus a
\* grace period, so a lease that runs out under its worker is a fault.
LastTickOf(w) == Holds(w) /\ lease[entry[w].row] = 1

\* Among overdue rows only the order matters: the latest are at -1, and each other
\* row is one further back for every overdue row that came after it.
OverdueRank(r) == Cardinality({q \in Waiting : due[r] < due[q] /\ due[q] <= 0}) + 1

Tick ==
  /\ \/ (\A w \in Workers : ~LastTickOf(w)) /\ UNCHANGED faults
     \/ (\E w \in Workers : LastTickOf(w)) /\ faults < MaxFaults /\ faults' = faults + 1
  /\ due' = [r \in Rows |->
       IF r \notin Waiting THEN due[r]
       ELSE IF due[r] > 0 THEN due[r] - 1 ELSE -OverdueRank(r)]
  /\ lease' = [r \in Rows |-> IF lease[r] > 0 THEN lease[r] - 1 ELSE 0]
  /\ UNCHANGED <<active, rows, token, attempts, completed, abandoned, deliveries, workerVars>>

-----------------------------------------------------------------------------
Settle(w) == ScheduleRetry(w) \/ Abandon(w) \/ Complete(w) \/ Rejected(w)

WorkerStep(w) == Claim(w) \/ Send(w) \/ RecordDelivery(w) \/ Settle(w)

Next ==
  \/ \E e \in Events : Publish(e)
  \/ \E p \in Endpoints : SetActive(p)
  \/ \E r \in Rows : Requeue(r)
  \/ \E w \in Workers : WorkerStep(w) \/ Stop(w) \/ Exit(w) \/ Start(w) \/ Interrupted(w)
  \/ Tick

Spec == Init /\ [][Next]_vars

(***************************************************************************)
(* The clock advances, a delivery that was started goes on, a process that *)
(* was stopped is started again, and, because run() claims before it can   *)
(* see stop(), a worker that finds a row to take again and again takes one.*)
(***************************************************************************)
Fairness ==
  /\ WF_vars(Tick)
  /\ \A w \in Workers :
       /\ SF_vars(Claim(w))
       /\ WF_vars(Send(w)) /\ WF_vars(RecordDelivery(w)) /\ WF_vars(Settle(w))
       /\ WF_vars(Exit(w)) /\ WF_vars(Start(w))

LiveSpec == Spec /\ Fairness
-----------------------------------------------------------------------------
(***************************************************************************)
(* Properties.                                                             *)
(***************************************************************************)

\* The columns a worker read at its claim are still true while it holds the
\* row: attempts is copied into memory before the send and decides afterwards
\* between another try and giving up, so a stale copy would miscount.
CopyIsCurrent ==
  \A w \in Workers : Holds(w) =>
    /\ entry[w].row \in Waiting
    /\ entry[w].attempts = attempts[entry[w].row]

\* A row that ended carries no claim, so that no late worker can end it a second
\* way (complete() does not test abandoned_at, the CHECK of migration 0032 would
\* fail) and a requeued row starts without an owner.
EndedRowsAreFree ==
  /\ completed \intersect abandoned = {}
  /\ \A r \in completed \union abandoned : token[r] = NoToken

\* Every row that ended, and every attempt that was counted, is explained by the
\* delivery history: a completed row by a verdict, an abandoned one by a transient
\* failure of its last allowed attempt, never fewer (migration 0032, retry.ts).
HistoryExplainsRows ==
  /\ \A r \in completed : \E o \in Verdicts : <<r, attempts[r] + 1, o>> \in deliveries
  /\ \A r \in rows : \A n \in 1 .. attempts[r] : <<r, n, "transient">> \in deliveries
  /\ \A r \in abandoned : attempts[r] = MaxAttempts
  /\ \A r \in rows \ abandoned : attempts[r] < MaxAttempts

\* While its lease runs, nobody but the worker itself takes a row away from it:
\* not another claim, a late worker, a requeue or the clock (outbox-repository.ts:9).
LeaseIsExclusive ==
  [][\A w \in Workers :
       Holds(w) /\ lease[entry[w].row] > 0 /\ pc'[w] # "idle" => Holds(w)']_vars

\* The outbox implements the promise of WebhookDelivery.
Status(r) ==
  IF r \notin rows THEN "unpublished"
  ELSE IF r \in completed THEN "ended"
  ELSE IF r \in abandoned THEN "given up" ELSE "waiting"

Promise == INSTANCE WebhookDelivery WITH
  status <- [r \in Rows |-> Status(r)], tries <- attempts, log <- deliveries

PromiseKept == Promise!Spec

\* Every notification that was published, or put back by a person, comes to an end:
\* neither crashes nor expired leases nor other rows leave it in the queue for ever.
EveryNotificationEnds ==
  \A r \in Rows :
    r \in Waiting ~> r \in completed \union abandoned
=============================================================================
