------------------------------- MODULE Stations -------------------------------
(***************************************************************************)
(* Stations that enroll as devices and report when computers are used      *)
(* (packages/agent/src/cli.ts, packages/api/src/device/service.ts and      *)
(* packages/api/src/session/service.ts).                                   *)
(*                                                                         *)
(* A device is registered and enrolled by the one station that holds its   *)
(* token; the station keeps the key and counts the numbers of its          *)
(* requests.  The server locks the row of the device for a request and     *)
(* answers a request that it knows by its receipt.  A request may arrive   *)
(* late, more than once, or never; its answer may be lost.  Punches share  *)
(* the numbers: DevicePunches models them, here they only take a number.   *)
(*                                                                         *)
(* A request id is unique in a workspace, not only for a device, and two   *)
(* devices may send the same.  Times and names are left out of the         *)
(* observations (PcSessions is about what they tell), and so is when a     *)
(* token lapses, which refuses an enrollment like a rollback does.         *)
(***************************************************************************)
EXTENDS PcSessions

CONSTANTS Devices,
          Agents,       \* stations, each with a key of its own
          Requests,     \* request ids
          Legacy,       \* those whose observations are older than receipts
          Employees,    \* whose computers a station reports
          Clients,      \* connections of the server
          MaxSequence,  \* the largest number that is sent, a bound
          MaxBatches,   \* how many batches are sent, a bound
          MaxPunches    \* how many punches are under way or accepted, a bound

\* What the credential file of a station holds.
Credentials == [device : Devices, next : Nat]

ASSUME StationsAssumption ==
  /\ MaxSequence \in Nat
  /\ Legacy \subseteq Requests
  /\ IsFiniteSet(Employees)
  /\ None \notin Clients \union Devices \union Agents \union Credentials
  /\ None \notin {"pending", "active", "revoked"}

VARIABLES devices,      \* devices: state, whether there is a token, key, last sequence
          stores,       \* the credential file of each station, or None
          sent,         \* the requests that stations sent
          receipts,     \* workstation_session_receipts
          observations, \* workstation_session_observations: [request, device, employee]
          punches,      \* numbers of punches on their way and accepted, by device
          txn,          \* the transaction of each connection
          answers       \* what was answered to each request, a history

vars == <<devices, stores, sent, receipts, observations, punches, txn, answers>>

Idle == [at |-> "idle", agent |-> None, message |-> None, device |-> None, lines |-> {},
         step |-> 0, outcome |-> None]

Old == {[request |-> r, device |-> None, employee |-> e] : r \in Legacy, e \in Employees}

Init ==
  /\ devices = [d \in Devices |-> [state |-> None, token |-> FALSE, key |-> None, last |-> 0]]
  /\ stores = [a \in Agents |-> None]
  /\ sent = {}
  /\ receipts = {} /\ observations = Old
  /\ punches = [d \in Devices |-> [queued |-> {}, accepted |-> {}]]
  /\ txn = [c \in Clients |-> Idle]
  /\ answers = {}

Go(c, next) == txn' = [txn EXCEPT ![c] = next]

\* A row that another transaction has written or locked.
Held(c, d) ==
  \E other \in {txn[x] : x \in Clients \ {c}} :
    other.device = d /\ other.at \in {"receipt", "commit"}
-----------------------------------------------------------------------------
(* Devices (device/service.ts). *)

Register(d) ==
  /\ devices[d].state = None
  /\ devices' = [devices EXCEPT ![d] = [@ EXCEPT !.state = "pending", !.token = TRUE]]
  /\ UNCHANGED <<stores, sent, receipts, observations, punches, txn, answers>>

\* The device is found by its token.
BeginEnrollment(c, a, d) ==
  /\ txn[c] = Idle /\ stores[a] = None
  /\ devices[d].token /\ devices[d].state = "pending"
  /\ Go(c, [Idle EXCEPT !.at = "enroll", !.agent = a, !.device = d])
  /\ UNCHANGED <<devices, stores, sent, receipts, observations, punches, answers>>

\* Mutant: what was read decides.
PendingAsRead(d) == TRUE

\* The condition of the update.
Pending(d) == devices[d].state = "pending" /\ devices[d].key = None /\ devices[d].token

\* The station stores its key when the answer comes; it may be lost, or the station stop.
MarkEnrolled(c) ==
  LET a == txn[c].agent
      d == txn[c].device
  IN
  /\ txn[c].at = "enroll" /\ ~Held(c, d)
  /\ IF Pending(d)
     THEN /\ devices' = [devices EXCEPT ![d] = [@ EXCEPT !.state = "active", !.token = FALSE,
                                                         !.key = a]]
          /\ stores' \in {stores, [stores EXCEPT ![a] =
                                     [device |-> d, next |-> devices[d].last + 1]]}
     ELSE UNCHANGED <<devices, stores>>
  /\ Go(c, Idle)
  /\ UNCHANGED <<sent, receipts, observations, punches, answers>>

BeginRevocation(c, d) ==
  /\ txn[c] = Idle /\ devices[d].state \in {"pending", "active"}
  /\ Go(c, [Idle EXCEPT !.at = "revoke", !.device = d])
  /\ UNCHANGED <<devices, stores, sent, receipts, observations, punches, answers>>

\* No condition on the state that was read: a revocation is written over any other.
MarkRevoked(c) ==
  /\ txn[c].at = "revoke" /\ ~Held(c, txn[c].device)
  /\ devices' = [devices EXCEPT ![txn[c].device] = [@ EXCEPT !.state = "revoked",
                                                             !.token = FALSE]]
  /\ Go(c, Idle)
  /\ UNCHANGED <<stores, sent, receipts, observations, punches, answers>>
-----------------------------------------------------------------------------
(* Stations (agent/src/cli.ts). *)

\* One command sends one batch with a new id; the number is saved when the answer has come.
RunSessionObserve(a, r) ==
  /\ stores[a] # None /\ stores[a].next <= MaxSequence /\ Cardinality(sent) < MaxBatches
  /\ \A m \in sent : m.request = r => m.agent # a
  /\ sent' = sent \union {[request |-> r, agent |-> a, device |-> stores[a].device,
                           sequence |-> stores[a].next]}
  /\ UNCHANGED <<devices, stores, receipts, observations, punches, txn, answers>>

\* What was loaded before the batch was sent is saved with the number that follows it.
SaveSequence(m) ==
  /\ m \in sent
  /\ \E x \in answers : x.message = m /\ x.outcome \in {"accepted", "duplicate"}
  /\ stores' = [stores EXCEPT ![m.agent].next = m.sequence + 1]
  /\ UNCHANGED <<devices, sent, receipts, observations, punches, txn, answers>>

\* The number of a punch is saved before it is filed.
RunQueue(a) ==
  /\ stores[a] # None /\ stores[a].next <= MaxSequence
  /\ Cardinality({x \in Devices \X (1 .. MaxSequence) :
                    x[2] \in punches[x[1]].queued \union punches[x[1]].accepted}) < MaxPunches
  /\ punches' = [punches EXCEPT ![stores[a].device].queued = @ \union {stores[a].next}]
  /\ stores' = [stores EXCEPT ![a].next = @ + 1]
  /\ UNCHANGED <<devices, sent, receipts, observations, txn, answers>>

\* The request of a punch, from the lock to the commit.
ReceivePunch(d, n) ==
  LET last == devices[d].last IN
  /\ n \in punches[d].queued /\ ~Held(None, d) /\ devices[d].state = "active"
  /\ punches' = [punches EXCEPT
       ![d] = [queued |-> @.queued \ {n},
               accepted |-> IF n > last THEN @.accepted \union {n} ELSE @.accepted]]
  /\ devices' = [devices EXCEPT ![d].last = Max({n, last})]
  /\ UNCHANGED <<stores, sent, receipts, observations, txn, answers>>
-----------------------------------------------------------------------------
(* Requests (session/service.ts). *)

Answer(m, outcome) == answers' = answers \union {[message |-> m, outcome |-> outcome]}

RecordObservations(c, m) ==
  /\ txn[c] = Idle /\ m \in sent
  /\ devices[m.device].state = "active" /\ devices[m.device].key = m.agent
  /\ Go(c, [Idle EXCEPT !.at = "lock", !.message = m])
  /\ UNCHANGED <<devices, stores, sent, receipts, observations, punches, answers>>

\* Mutant: the row is read and not locked.
FreeAsRead(c, d) == TRUE

Free(c, d) == ~Held(c, d)

Receipt(m) == {x \in receipts : x.request = m.request}

ReplayOf(receipt) == IF receipt.outcome = "rejected" THEN "rejected" ELSE "duplicate"

ExistsLegacyRequest(m) == \E o \in observations : o.request = m.request

\* Mutant: the number decides before the receipt.
KnownUnlessReplayed(m) ==
  m.sequence > devices[m.device].last /\ (Receipt(m) # {} \/ ExistsLegacyRequest(m))

\* Whether a request was received before, whatever its number is.
Known(m) == Receipt(m) # {} \/ ExistsLegacyRequest(m)

Reply(m) ==
  IF Receipt(m) = {} THEN "duplicate" ELSE ReplayOf(CHOOSE x \in Receipt(m) : TRUE)

\* Locks the row of the device.  A batch has a line for each of the employees; the lines of
\* those who are not found, or not active when their line is read, are counted and skipped.
ReceiveBatch(c) ==
  LET m    == txn[c].message
      step == m.sequence - devices[m.device].last
  IN
  /\ txn[c].at = "lock" /\ Free(c, m.device)
  /\ \/ Known(m) /\ Answer(m, Reply(m)) /\ Go(c, Idle)
     \/ /\ ~Known(m) /\ step <= 0
        /\ Go(c, [txn[c] EXCEPT !.at = "receipt", !.device = m.device, !.step = step,
                                !.outcome = "rejected"])
        /\ UNCHANGED answers
     \/ /\ ~Known(m) /\ step > 0
        /\ \E found \in SUBSET Employees :
             Go(c, [txn[c] EXCEPT !.at = "receipt", !.device = m.device, !.step = step,
                                  !.outcome = "accepted", !.lines = found])
        /\ UNCHANGED answers
  /\ UNCHANGED <<devices, stores, sent, receipts, observations, punches>>

\* The unique index waits for an insert of the same id that may yet fail.
InsertReceipt(c) ==
  LET m == txn[c].message IN
  /\ txn[c].at = "receipt"
  /\ \A x \in Clients \ {c} : txn[x].at = "commit" => txn[x].message.request # m.request
  /\ Go(c, IF Receipt(m) = {} THEN [txn[c] EXCEPT !.at = "commit"]
           ELSE [Idle EXCEPT !.at = "reread", !.message = m])
  /\ UNCHANGED <<devices, stores, sent, receipts, observations, punches, answers>>

\* A refusal is kept too, and moves neither the observations nor the number.
Commit(c) ==
  LET m == txn[c].message
      t == txn[c]
  IN
  /\ t.at = "commit"
  /\ receipts' = receipts \union
       {[request |-> m.request, device |-> m.device, sequence |-> m.sequence, step |-> t.step,
         outcome |-> t.outcome, accepted |-> Cardinality(t.lines),
         skipped |-> IF t.outcome = "rejected" THEN 0 ELSE Cardinality(Employees \ t.lines)]}
  /\ observations' = observations \union
       {[request |-> m.request, device |-> m.device, employee |-> e] : e \in t.lines}
  /\ devices' = IF t.outcome = "rejected" THEN devices
                ELSE [devices EXCEPT ![m.device].last = m.sequence]
  /\ Answer(m, t.outcome) /\ Go(c, Idle)
  /\ UNCHANGED <<stores, sent, punches>>

\* After a violation of the index the receipt that was committed first is read again.
Reread(c) ==
  /\ txn[c].at = "reread"
  /\ Answer(txn[c].message, Reply(txn[c].message)) /\ Go(c, Idle)
  /\ UNCHANGED <<devices, stores, sent, receipts, observations, punches>>

Rollback(c) ==
  /\ txn[c] # Idle /\ Go(c, Idle)
  /\ UNCHANGED <<devices, stores, sent, receipts, observations, punches, answers>>

Next ==
  \/ \E d \in Devices : Register(d)
  \/ \E c \in Clients, a \in Agents, d \in Devices : BeginEnrollment(c, a, d)
  \/ \E c \in Clients, d \in Devices : BeginRevocation(c, d)
  \/ \E c \in Clients : MarkEnrolled(c) \/ MarkRevoked(c)
  \/ \E a \in Agents, r \in Requests : RunSessionObserve(a, r)
  \/ \E m \in sent : SaveSequence(m)
  \/ \E a \in Agents : RunQueue(a)
  \/ \E d \in Devices : \E n \in punches[d].queued : ReceivePunch(d, n)
  \/ \E c \in Clients, m \in sent : RecordObservations(c, m)
  \/ \E c \in Clients : ReceiveBatch(c) \/ InsertReceipt(c) \/ Commit(c) \/ Reread(c)
                        \/ Rollback(c)

Spec == Init /\ [][Next]_vars
-----------------------------------------------------------------------------
(***************************************************************************)
(* Properties.                                                             *)
(***************************************************************************)
Accepted(d) == {x \in receipts : x.device = d /\ x.outcome = "accepted"}

Numbers(d) == {x.sequence : x \in Accepted(d)} \union punches[d].accepted

\* Every batch and every number of a device is accounted for once, whichever requests run at
\* the same time, come again or fail between two statements: the accepted batches and the
\* punches have different numbers, of which the device holds the largest; the step of a
\* receipt tells exactly which numbers before it are missing; and the observations of a
\* batch are there, all that were counted, if and only if its receipt says that it was
\* accepted ("端末の行をロックし、同じ端末から届く署名要求を打刻イベントと合わせて直列化
\* する", session/service.ts:91).
EveryBatchIsAccountedFor ==
  /\ \A d \in Devices :
       /\ Cardinality(Numbers(d)) = Cardinality(Accepted(d)) + Cardinality(punches[d].accepted)
       /\ devices[d].last = Max({0} \union Numbers(d))
       /\ \A x \in Accepted(d) :
            x.sequence - x.step = Max({0} \union {n \in Numbers(d) : n < x.sequence})
  /\ \A x \in receipts :
       Cardinality({o \in observations : o.request = x.request /\ o.device = x.device}) = x.accepted
  /\ \A o \in observations \ Old :
       \E x \in receipts :
         x.request = o.request /\ x.device = o.device /\ x.outcome = "accepted"

\* A request gets the same answer whenever it comes again: accepted is answered once and
\* duplicate after that, and what was refused is refused for ever, also when another device
\* uses the same id at the same time ("最初の受理で連番が進んでいても、同じ冪等キーで届いた
\* 要求は連番の再利用ではない", session/service.ts:106).
SameAnswerAgain ==
  \A r \in Requests :
    LET given == {x.outcome : x \in {y \in answers : y.message.request = r}} IN
    /\ "rejected" \in given => given = {"rejected"}
    /\ "duplicate" \in given => "accepted" \in given \/ r \in Legacy
    /\ Cardinality({x.message : x \in {y \in answers :
                      y.outcome = "accepted" /\ y.message.request = r}}) <= 1

\* A token enrolls one station: the key of a device is never replaced, a device that was
\* revoked stays revoked, and a station that holds credentials holds the key of its device
\* ("条件に合致した 1 件だけが更新でき", device/repository.ts:87).
EnrolledOnce ==
  [][/\ \A d \in Devices :
          /\ devices[d].key # None => devices'[d].key = devices[d].key
          /\ devices[d].state = "revoked" => devices'[d].state = "revoked"
     /\ \A a \in Agents : stores'[a] # None => devices'[stores'[a].device].key = a]_vars

\* Whichever observations of an employee were lost, skipped or doubled, and however they lie
\* between whole minutes: what the report lists differs from the punches, with its minutes to
\* half a minute for each stretch of use, and what it does not list differs by no more than
\* the tolerance and those halves ("この分数を超える食い違いだけを示す。短いずれで埋もれさせない
\* ため", session-observations.ts:91, of what is rounded stretch by stretch in :107).
EveryDifferenceIsListed == observations # Old => ReportsAgree
=============================================================================
