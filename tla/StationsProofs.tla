--------------------------- MODULE StationsProofs ---------------------------
(***************************************************************************)
(* Proofs about Stations, for any stations, devices, requests, connections *)
(* and bounds: what the lock on the row of a device and the unique index   *)
(* on the receipts protect between the statements of a request.            *)
(*                                                                         *)
(* A connection past its lock knows how far its number lies ahead of the   *)
(* device's last one, and that stays true, for nobody else moves it.  One  *)
(* past its insert knows that no other receipt has its id.  So a number    *)
(* that is added is the largest, and a receipt that is added is the first  *)
(* of its request: everything else follows from these two.                 *)
(*                                                                         *)
(* The second part is about the report on the use of a computer: after     *)
(* each observation the periods tell what the minutes in use are.          *)
(***************************************************************************)
EXTENDS Stations, FiniteSetTheorems, WellFoundedInduction, TLAPS

Outcomes == {"accepted", "rejected"}

Messages == [request : Requests, agent : Agents, device : Devices, sequence : Nat]

Rows == [state : {None, "pending", "active", "revoked"}, token : BOOLEAN,
         key : Agents \union {None}, last : Nat]

Receipts == [request : Requests, device : Devices, sequence : Nat, step : Int,
             outcome : Outcomes, accepted : Nat, skipped : Nat]

Queues == [queued : SUBSET Nat, accepted : SUBSET Nat]

Txns == [at : {"idle", "enroll", "revoke", "lock", "receipt", "commit", "reread"},
         agent : Agents \union {None}, message : Messages \union {None},
         device : Devices \union {None}, lines : SUBSET Employees, step : Int,
         outcome : Outcomes \union {None}]

Answers == [message : Messages, outcome : Outcomes \union {"duplicate"}]

Shape ==
  /\ devices \in [Devices -> Rows]
  /\ stores \in [Agents -> Credentials \union {None}]
  /\ sent \in SUBSET Messages
  /\ receipts \in SUBSET Receipts
  /\ punches \in [Devices -> Queues]
  /\ txn \in [Clients -> Txns]
  /\ answers \in SUBSET Answers

\* A station that holds credentials holds the key of its device, and keeps some for ever.
KeysFit ==
  /\ \A a \in Agents : stores[a] \in Credentials => devices[stores[a].device].key = a
  /\ \A m \in sent : stores[m.agent] \in Credentials

\* What a transaction has read or written, as the others leave it.
AtRow(t)  == t.at \in {"receipt", "commit"}
AtSent(t) == t.at \in {"lock", "receipt", "commit", "reread"}

ReceiptOf(table, r) == \E x \in table : x.request = r

TxnFits(t, table, rows) ==
  /\ AtSent(t) => t.message \in Messages
  /\ t.at = "enroll" => t.agent \in Agents
  /\ t.at \in {"enroll", "revoke"} => t.device \in Devices
  /\ t.at = "lock" => t.lines = {}
  /\ AtRow(t) =>
       /\ t.device = t.message.device
       /\ t.step = t.message.sequence - rows[t.device].last
       /\ t.outcome = IF t.step > 0 THEN "accepted" ELSE "rejected"
       /\ t.step <= 0 => t.lines = {}
       /\ \A o \in Old : o.request # t.message.request
  /\ t.at = "commit" => ~ReceiptOf(table, t.message.request)
  /\ t.at = "reread" => ReceiptOf(table, t.message.request)

TxnsFit ==
  /\ \A c \in Clients : TxnFits(txn[c], receipts, devices)
  /\ \A c, e \in Clients : c # e =>
       /\ AtRow(txn[c]) /\ AtRow(txn[e]) => txn[c].device # txn[e].device
       /\ txn[c].at = "commit" /\ txn[e].at = "commit" =>
            txn[c].message.request # txn[e].message.request

\* `m` is the largest of the numbers, or 0 when there are none.
Largest(numbers, m) ==
  /\ m \in numbers \union {0}
  /\ \A n \in numbers : n <= m

NumbersFit ==
  /\ IsFiniteSet(receipts)
  /\ \A d \in Devices :
       /\ IsFiniteSet(punches[d].accepted)
       /\ Cardinality(Numbers(d)) = Cardinality(Accepted(d)) + Cardinality(punches[d].accepted)
       /\ Largest(Numbers(d), devices[d].last)
       /\ \A x \in Accepted(d) :
            /\ x.step > 0
            /\ Largest({n \in Numbers(d) : n < x.sequence}, x.sequence - x.step)

OneReceipt == \A x, y \in receipts : x.request = y.request => x = y

ObservationsFit ==
  /\ Old \subseteq observations
  /\ \A x \in receipts :
       Cardinality({o \in observations : o.request = x.request /\ o.device = x.device}) = x.accepted
  /\ \A x \in receipts, o \in Old : x.request # o.request
  /\ \A o \in observations \ Old :
       \E x \in receipts :
         x.request = o.request /\ x.device = o.device /\ x.outcome = "accepted"

AnswersFit ==
  /\ \A y \in answers :
       LET r == y.message.request IN
       /\ y.outcome \in Outcomes => \E x \in receipts : x.request = r /\ x.outcome = y.outcome
       /\ y.outcome = "duplicate" =>
            \/ \E o \in Old : o.request = r
            \/ \E x \in receipts : x.request = r /\ x.outcome = "accepted"
  /\ \A x \in receipts : x.outcome = "accepted" =>
       \E y \in answers : y.outcome = "accepted" /\ y.message.request = x.request
  /\ \A y, z \in answers :
       y.outcome = "accepted" /\ z.outcome = "accepted" /\ y.message.request = z.message.request =>
         y = z

IInv ==
  Shape /\ KeysFit /\ TxnsFit /\ NumbersFit /\ OneReceipt /\ ObservationsFit /\ AnswersFit
-----------------------------------------------------------------------------
(* What the provers need to know of the largest of some numbers.           *)

LEMMA LargestIsMax ==
  ASSUME NEW numbers \in SUBSET Nat, NEW m, Largest(numbers, m)
  PROVE  m \in Nat /\ Max({0} \union numbers) = m
<1> DEFINE S == {0} \union numbers
<1>1. m \in S /\ \A n \in S : m >= n
  BY DEF Largest
<1>2. S \subseteq Nat
  OBVIOUS
<1> HIDE DEF S
<1>3. \A y \in S : (\A n \in S : y >= n) => y = m
  BY <1>1, <1>2
<1>4. Max(S) = m
  BY <1>1, <1>3 DEF Max
<1> QED
  BY <1>1, <1>2, <1>4 DEF S

LEMMA MaxOfTwo ==
  ASSUME NEW n \in Nat, NEW m \in Nat
  PROVE  Max({n, m}) = IF n > m THEN n ELSE m
<1> DEFINE S == {n, m}
           top == IF n > m THEN n ELSE m
<1>1. top \in S /\ \A k \in S : top >= k
  OBVIOUS
<1>2. \A y \in S : (\A k \in S : y >= k) => y = top
  OBVIOUS
<1> HIDE DEF S, top
<1>3. Max(S) = top
  BY <1>1, <1>2 DEF Max
<1> QED
  BY <1>3 DEF S, top

\* A number above the largest becomes the largest.
LEMMA LargestGrows ==
  ASSUME NEW numbers \in SUBSET Nat, NEW m, Largest(numbers, m), NEW n \in Nat, n > m
  PROVE  /\ n \notin numbers
         /\ Largest(numbers \union {n}, n)
         /\ {k \in numbers \union {n} : k < n} = numbers
         /\ \A k \in numbers : {j \in numbers \union {n} : j < k} = {j \in numbers : j < k}
<1>1. m \in Nat /\ \A k \in numbers : k \in Nat /\ k <= m /\ k < n
  BY LargestIsMax DEF Largest
<1>2. n \notin numbers /\ Largest(numbers \union {n}, n)
  BY <1>1 DEF Largest
<1>3. {k \in numbers \union {n} : k < n} = numbers
  <2>1. ~(n < n)
    OBVIOUS
  <2> QED
    BY <1>1, <2>1
<1>4. ASSUME NEW k \in numbers
      PROVE  {j \in numbers \union {n} : j < k} = {j \in numbers : j < k}
  BY <1>1
<1> QED
  BY <1>2, <1>3, <1>4

\* One element more.
LEMMA OneMore ==
  ASSUME NEW S, NEW x, IsFiniteSet(S), x \notin S
  PROVE  IsFiniteSet(S \union {x}) /\ Cardinality(S \union {x}) = Cardinality(S) + 1
BY FS_AddElement
-----------------------------------------------------------------------------
(* What the steps of a transaction leave to the others.                    *)

LEMMA NumbersAreNat ==
  ASSUME Shape, NEW d \in Devices PROVE Numbers(d) \in SUBSET Nat
BY DEF Shape, Numbers, Accepted, Receipts, Queues

LEMMA FiniteNumbers ==
  ASSUME IInv, NEW d \in Devices PROVE IsFiniteSet(Accepted(d)) /\ IsFiniteSet(Numbers(d))
<1>1. Accepted(d) \in SUBSET receipts /\ IsFiniteSet(receipts)
  BY DEF Accepted, IInv, NumbersFit
<1>2. Numbers(d) \in SUBSET Nat /\ devices[d].last \in Nat
  BY NumbersAreNat DEF IInv, Shape, Rows
<1>3. \A n \in Numbers(d) : n <= devices[d].last
  BY DEF IInv, NumbersFit, Largest
<1> QED
  BY <1>1, <1>2, <1>3, FS_Subset, FS_BoundedSetOfNaturals

SameLast == \A d \in Devices : devices'[d].last = devices[d].last

LEMMA NumbersStay ==
  ASSUME NumbersFit, UNCHANGED <<receipts, punches>>, SameLast PROVE NumbersFit'
BY DEF NumbersFit, SameLast, Numbers, Accepted

LEMMA NumbersStayQueued ==
  ASSUME NumbersFit, UNCHANGED receipts, SameLast,
         \A d \in Devices : punches'[d].accepted = punches[d].accepted
  PROVE  NumbersFit'
<1>1. \A d \in Devices : Accepted(d)' = Accepted(d) /\ Numbers(d)' = Numbers(d)
  BY DEF Numbers, Accepted
<1> QED
  BY <1>1 DEF NumbersFit, SameLast

LEMMA TxnStays ==
  ASSUME NEW t \in Txns, TxnFits(t, receipts, devices), UNCHANGED receipts, SameLast
  PROVE  TxnFits(t, receipts', devices')
<1>1. AtRow(t) => t.device \in Devices
  BY DEF TxnFits, AtRow, AtSent, Messages
<1> QED
  BY <1>1 DEF TxnFits, SameLast

LEMMA TxnsStay ==
  ASSUME Shape, TxnsFit, UNCHANGED <<txn, receipts>>, SameLast PROVE TxnsFit'
<1>1. \A c \in Clients : TxnFits(txn[c], receipts', devices')
  BY TxnStays DEF Shape, TxnsFit
<1> QED
  BY <1>1 DEF TxnsFit

LEMMA OneMoves ==
  ASSUME Shape, TxnsFit, NEW c \in Clients, NEW t \in Txns, Go(c, t),
         TxnFits(t, receipts', devices'),
         \A e \in Clients \ {c} : TxnFits(txn[e], receipts', devices'),
         AtRow(t) => \A e \in Clients \ {c} : AtRow(txn[e]) => t.device # txn[e].device,
         t.at = "commit" =>
           \A e \in Clients \ {c} :
             txn[e].at = "commit" => t.message.request # txn[e].message.request
  PROVE  TxnsFit' /\ txn' \in [Clients -> Txns]
<1>1. /\ txn'[c] = t /\ \A e \in Clients \ {c} : txn'[e] = txn[e]
      /\ txn' \in [Clients -> Txns]
  BY DEF Go, Shape
<1>2. \A e \in Clients : TxnFits(txn'[e], receipts', devices')
  BY <1>1
<1>3. ASSUME NEW x \in Clients, NEW y \in Clients, x # y
      PROVE  /\ AtRow(txn'[x]) /\ AtRow(txn'[y]) => txn'[x].device # txn'[y].device
             /\ txn'[x].at = "commit" /\ txn'[y].at = "commit" =>
                  txn'[x].message.request # txn'[y].message.request
  <2>1. CASE x = c
    BY <1>1, <1>3, <2>1
  <2>2. CASE y = c
    BY <1>1, <1>3, <2>2
  <2>3. CASE x # c /\ y # c
    BY <1>1, <1>3, <2>3 DEF TxnsFit
  <2> QED
    BY <2>1, <2>2, <2>3
<1> QED
  BY <1>1, <1>2, <1>3 DEF TxnsFit

\* The common case: a transaction that is not about to change a row.
LEMMA Moves ==
  ASSUME Shape, TxnsFit, NEW c \in Clients, NEW t \in Txns, Go(c, t), ~AtRow(t),
         TxnFits(t, receipts, devices), UNCHANGED receipts, SameLast
  PROVE  TxnsFit' /\ txn' \in [Clients -> Txns]
<1>1. \A e \in Clients \ {c} : TxnFits(txn[e], receipts', devices')
  BY TxnStays DEF Shape, TxnsFit
<1>2. TxnFits(t, receipts', devices') /\ t.at # "commit"
  BY TxnStays DEF AtRow
<1> QED
  BY <1>1, <1>2, OneMoves

LEMMA IdleFits ==
  /\ Idle \in Txns /\ ~AtRow(Idle)
  /\ \A table, rows : TxnFits(Idle, table, rows)
BY DEF Idle, Txns, AtRow, AtSent, TxnFits

LEMMA InitIInv == Init => IInv
<1> SUFFICES ASSUME Init PROVE IInv
  OBVIOUS
<1>1. Shape
  BY IdleFits DEF Init, Shape, Rows, Queues
<1>2. KeysFit /\ OneReceipt /\ AnswersFit
  BY StationsAssumption DEF Init, KeysFit, OneReceipt, AnswersFit
<1>3. TxnsFit
  BY IdleFits DEF Init, TxnsFit, Idle, AtRow
<1>4. NumbersFit
  <2>1. \A d \in Devices : /\ punches[d].accepted = {} /\ Accepted(d) = {} /\ Numbers(d) = {}
                          /\ devices[d].last = 0
    BY DEF Init, Accepted, Numbers
  <2>2. receipts = {}
    BY DEF Init
  <2> QED
    <3>1. \A d \in Devices :
            /\ IsFiniteSet(punches[d].accepted) /\ Largest(Numbers(d), devices[d].last)
            /\ Cardinality(Numbers(d)) = Cardinality(Accepted(d)) + Cardinality(punches[d].accepted)
      <4>1. Cardinality({}) = 0 /\ IsFiniteSet({}) /\ Largest({}, 0) /\ 0 = 0 + 0
        BY FS_EmptySet DEF Largest
      <4> QED
        BY <2>1, <4>1
    <3> QED
      BY <2>1, <2>2, <3>1, FS_EmptySet DEF NumbersFit
<1>5. ObservationsFit
  BY DEF Init, ObservationsFit
<1> QED
  BY <1>1, <1>2, <1>3, <1>4, <1>5 DEF IInv
-----------------------------------------------------------------------------
(* Every step keeps the invariant.                                         *)

LEMMA TablesStay ==
  ASSUME OneReceipt, ObservationsFit, UNCHANGED <<receipts, observations>>
  PROVE  OneReceipt' /\ ObservationsFit'
BY DEF OneReceipt, ObservationsFit

LEMMA AnswersStay ==
  ASSUME AnswersFit, UNCHANGED <<receipts, answers>> PROVE AnswersFit'
BY DEF AnswersFit

LEMMA KeysStay ==
  ASSUME Shape, KeysFit, UNCHANGED <<stores, sent>>,
         \A d \in Devices : devices'[d].key = devices[d].key
  PROVE  KeysFit'
<1>1. \A a \in Agents : stores[a] \in Credentials => stores[a].device \in Devices
  BY DEF Credentials
<1> QED
  BY <1>1 DEF KeysFit

LEMMA OnlyMoves ==
  ASSUME IInv, NEW c \in Clients, NEW t \in Txns, Go(c, t), ~AtRow(t),
         TxnFits(t, receipts, devices),
         UNCHANGED <<devices, stores, sent, receipts, observations, punches, answers>>
  PROVE  IInv'
<1>1. SameLast
  BY DEF SameLast
<1>2. TxnsFit' /\ txn' \in [Clients -> Txns]
  BY <1>1, Moves DEF IInv
<1>3. Shape'
  BY <1>2 DEF IInv, Shape
<1> QED
  BY <1>1, <1>2, <1>3, NumbersStay, TablesStay, AnswersStay, KeysStay DEF IInv

LEMMA BeginEnrollmentIInv ==
  ASSUME IInv, NEW c \in Clients, NEW a \in Agents, NEW d \in Devices, BeginEnrollment(c, a, d)
  PROVE  IInv'
<1> DEFINE t == [Idle EXCEPT !.at = "enroll", !.agent = a, !.device = d]
<1>1. t \in Txns /\ t.at = "enroll" /\ t.agent = a /\ t.device = d
  BY IdleFits DEF Txns
<1>2. Go(c, t) /\ UNCHANGED <<devices, stores, sent, receipts, observations, punches, answers>>
  BY DEF BeginEnrollment
<1> HIDE DEF t
<1>3. ~AtRow(t) /\ TxnFits(t, receipts, devices)
  BY <1>1 DEF AtRow, AtSent, TxnFits
<1> QED
  BY <1>1, <1>2, <1>3, OnlyMoves

LEMMA BeginRevocationIInv ==
  ASSUME IInv, NEW c \in Clients, NEW d \in Devices, BeginRevocation(c, d) PROVE IInv'
<1> DEFINE t == [Idle EXCEPT !.at = "revoke", !.device = d]
<1>1. t \in Txns /\ t.at = "revoke" /\ t.device = d
  BY IdleFits DEF Txns
<1>2. Go(c, t) /\ UNCHANGED <<devices, stores, sent, receipts, observations, punches, answers>>
  BY DEF BeginRevocation
<1> HIDE DEF t
<1>3. ~AtRow(t) /\ TxnFits(t, receipts, devices)
  BY <1>1 DEF AtRow, AtSent, TxnFits
<1> QED
  BY <1>1, <1>2, <1>3, OnlyMoves

LEMMA RecordObservationsIInv ==
  ASSUME IInv, NEW c \in Clients, NEW m \in sent, RecordObservations(c, m) PROVE IInv'
<1> DEFINE t == [Idle EXCEPT !.at = "lock", !.message = m]
<1>1. m \in Messages
  BY DEF IInv, Shape
<1>2. t \in Txns /\ t.at = "lock" /\ t.message = m /\ t.lines = {}
  <2>1. t \in Txns /\ t.at = "lock" /\ t.message = m
    BY <1>1, IdleFits DEF Txns
  <2>2. t.lines = {}
    BY DEF Idle
  <2> QED
    BY <2>1, <2>2
<1>3. Go(c, t) /\ UNCHANGED <<devices, stores, sent, receipts, observations, punches, answers>>
  BY DEF RecordObservations
<1> HIDE DEF t
<1>4. ~AtRow(t) /\ TxnFits(t, receipts, devices)
  BY <1>1, <1>2 DEF AtRow, AtSent, TxnFits
<1> QED
  BY <1>2, <1>3, <1>4, OnlyMoves

LEMMA RollbackIInv == ASSUME IInv, NEW c \in Clients, Rollback(c) PROVE IInv'
BY IdleFits, OnlyMoves DEF Rollback

\* A row of a device changes, but neither its key nor its last number.
LEMMA RowChanges ==
  ASSUME IInv, NEW d \in Devices, NEW new \in Rows, devices' = [devices EXCEPT ![d] = new],
         new.last = devices[d].last, new.key = devices[d].key,
         UNCHANGED <<stores, sent, receipts, observations, punches, answers>>,
         \/ UNCHANGED txn
         \/ \E c \in Clients : Go(c, Idle)
  PROVE  IInv'
<1>1. /\ devices' \in [Devices -> Rows] /\ SameLast
      /\ \A x \in Devices : devices'[x].key = devices[x].key
  BY DEF IInv, Shape, SameLast
<1>2. TxnsFit' /\ txn' \in [Clients -> Txns]
  BY <1>1, IdleFits, TxnsStay, Moves DEF IInv, Shape
<1>3. Shape'
  BY <1>1, <1>2 DEF IInv, Shape
<1> QED
  BY <1>1, <1>2, <1>3, NumbersStay, TablesStay, AnswersStay, KeysStay DEF IInv

LEMMA RegisterIInv == ASSUME IInv, NEW d \in Devices, Register(d) PROVE IInv'
<1> DEFINE new == [devices[d] EXCEPT !.state = "pending", !.token = TRUE]
<1>1. new \in Rows /\ new.last = devices[d].last /\ new.key = devices[d].key
  BY DEF Rows, IInv, Shape
<1>2. devices' = [devices EXCEPT ![d] = new]
  BY DEF Register
<1> HIDE DEF new
<1> QED
  BY <1>1, <1>2, RowChanges DEF Register

LEMMA MarkRevokedIInv == ASSUME IInv, NEW c \in Clients, MarkRevoked(c) PROVE IInv'
<1> DEFINE d == txn[c].device
           new == [devices[d] EXCEPT !.state = "revoked", !.token = FALSE]
<1>1. d \in Devices
  BY DEF MarkRevoked, IInv, TxnsFit, TxnFits
<1>2. devices' = [devices EXCEPT ![d] = new]
  BY DEF MarkRevoked
<1> HIDE DEF d
<1>3. new \in Rows /\ new.last = devices[d].last /\ new.key = devices[d].key
  BY <1>1 DEF Rows, IInv, Shape
<1> HIDE DEF new
<1> QED
  BY <1>1, <1>2, <1>3, RowChanges DEF MarkRevoked

\* A device that has no key gets one, and the station may store it.
LEMMA MarkEnrolledIInv == ASSUME IInv, NEW c \in Clients, MarkEnrolled(c) PROVE IInv'
<1> DEFINE a == txn[c].agent
           d == txn[c].device
           new == [devices[d] EXCEPT !.state = "active", !.token = FALSE, !.key = a]
           kept == [device |-> d, next |-> devices[d].last + 1]
<1>1. a \in Agents /\ d \in Devices
  BY DEF MarkEnrolled, IInv, TxnsFit, TxnFits
<1>2. Go(c, Idle) /\ UNCHANGED <<sent, receipts, observations, punches, answers>>
  BY DEF MarkEnrolled
<1>3. CASE ~Pending(d)
  BY <1>2, <1>3, IdleFits, OnlyMoves DEF MarkEnrolled
<1>4. CASE Pending(d)
  <2>1. new \in Rows /\ new.last = devices[d].last /\ new.key = a
    <3> HIDE DEF a, d
    <3>1. devices[d] \in Rows
      BY <1>1 DEF IInv, Shape
    <3> QED
      BY <1>1, <3>1 DEF Rows
  <2>2. kept \in Credentials /\ kept.device = d
    BY <1>1 DEF Credentials, Rows, IInv, Shape
  <2>3. devices' = [devices EXCEPT ![d] = new]
    BY <1>4 DEF MarkEnrolled
  <2>4. stores' = stores \/ stores' = [stores EXCEPT ![a] = kept]
    BY <1>4 DEF MarkEnrolled
  <2>5. devices[d].key = None
    BY <1>4 DEF Pending
  <2> HIDE DEF a, d, new, kept
  <2>6. /\ devices' \in [Devices -> Rows] /\ SameLast /\ devices'[d].key = a
        /\ \A x \in Devices \ {d} : devices'[x].key = devices[x].key
    BY <1>1, <2>1, <2>3 DEF IInv, Shape, SameLast
  <2>7. /\ stores' \in [Agents -> Credentials \union {None}]
        /\ \A x \in Agents : stores'[x] # stores[x] => x = a /\ stores'[x] = kept
    BY <1>1, <2>2, <2>4 DEF IInv, Shape
  <2>8. TxnsFit' /\ txn' \in [Clients -> Txns]
    BY <1>2, <2>6, IdleFits, Moves DEF IInv
  <2>9. Shape'
    BY <1>2, <2>6, <2>7, <2>8 DEF IInv, Shape
  <2>10. KeysFit'
    <3>1. ASSUME NEW x \in Agents, stores'[x] \in Credentials
          PROVE  devices'[stores'[x].device].key = x
      <4>1. CASE stores'[x] # stores[x]
        BY <2>2, <2>6, <2>7, <4>1
      <4>2. CASE stores'[x] = stores[x]
        <5>1. stores[x].device \in Devices /\ devices[stores[x].device].key = x
          BY <3>1, <4>2 DEF IInv, KeysFit, Credentials
        <5>2. stores[x].device # d
          BY <2>5, <5>1, StationsAssumption
        <5> QED
          BY <2>6, <4>2, <5>1, <5>2
      <4> QED
        BY <4>1, <4>2
    <3>2. \A m \in sent : stores'[m.agent] \in Credentials
      BY <2>2, <2>7 DEF IInv, KeysFit, Shape, Messages
    <3> QED
      BY <1>2, <3>1, <3>2 DEF KeysFit
  <2> QED
    BY <1>2, <2>6, <2>8, <2>9, <2>10, NumbersStay, TablesStay, AnswersStay DEF IInv
<1> QED
  BY <1>3, <1>4

\* A station that holds credentials still holds those of its device.
LEMMA StationIInv ==
  ASSUME IInv, UNCHANGED <<devices, receipts, observations, txn, answers>>,
         stores' \in [Agents -> Credentials \union {None}], sent' \in SUBSET Messages,
         punches' \in [Devices -> Queues],
         \A d \in Devices : punches'[d].accepted = punches[d].accepted,
         \A a \in Agents : \/ stores'[a] = stores[a]
                          \/ /\ stores[a] \in Credentials /\ stores'[a] \in Credentials
                             /\ stores'[a].device = stores[a].device,
         \A m \in sent' : m \in sent \/ stores[m.agent] \in Credentials
  PROVE  IInv'
<1>1. SameLast
  BY DEF SameLast
<1>2. Shape'
  BY DEF IInv, Shape
<1>3. KeysFit'
  <2>1. \A a \in Agents : stores'[a] \in Credentials => devices[stores'[a].device].key = a
    BY DEF IInv, KeysFit
  <2>2. \A m \in sent' : m.agent \in Agents /\ stores[m.agent] \in Credentials
    BY DEF IInv, KeysFit, Messages
  <2> QED
    BY <2>1, <2>2 DEF KeysFit
<1> QED
  BY <1>1, <1>2, <1>3, NumbersStayQueued, TablesStay, AnswersStay, TxnsStay DEF IInv

LEMMA RunSessionObserveIInv ==
  ASSUME IInv, NEW a \in Agents, NEW r \in Requests, RunSessionObserve(a, r) PROVE IInv'
<1> DEFINE m == [request |-> r, agent |-> a, device |-> stores[a].device,
                 sequence |-> stores[a].next]
<1>1. stores[a] \in Credentials
  BY DEF RunSessionObserve, IInv, Shape
<1>2. m \in Messages /\ m.agent = a
  BY <1>1 DEF Credentials, Messages
<1>3. sent' = sent \union {m}
  BY DEF RunSessionObserve
<1> HIDE DEF m
<1> QED
  BY <1>1, <1>2, <1>3, StationIInv DEF RunSessionObserve, IInv, Shape

LEMMA SaveSequenceIInv == ASSUME IInv, NEW m \in sent, SaveSequence(m) PROVE IInv'
<1> DEFINE a == m.agent
           n == m.sequence + 1
           new == [stores[a] EXCEPT !.next = n]
<1>1. a \in Agents /\ stores[a] \in Credentials /\ n \in Nat
  BY DEF IInv, Shape, KeysFit, Messages
<1>2. stores' = [stores EXCEPT ![a] = new]
  BY DEF SaveSequence
<1> HIDE DEF a, n
<1>3. new \in Credentials /\ new.device = stores[a].device
  BY <1>1 DEF Credentials
<1> HIDE DEF new
<1> QED
  BY <1>1, <1>2, <1>3, StationIInv DEF SaveSequence, IInv, Shape

LEMMA RunQueueIInv == ASSUME IInv, NEW a \in Agents, RunQueue(a) PROVE IInv'
<1> DEFINE d == stores[a].device
           queue == [punches[d] EXCEPT !.queued = @ \union {stores[a].next}]
           new == [stores[a] EXCEPT !.next = @ + 1]
<1>1. stores[a] \in Credentials /\ d \in Devices
  BY DEF RunQueue, IInv, Shape, Credentials
<1>2. new \in Credentials /\ new.device = d
  BY <1>1 DEF Credentials
<1>3. queue \in Queues /\ queue.accepted = punches[d].accepted
  BY <1>1 DEF Queues, IInv, Shape, Credentials
<1>4. stores' = [stores EXCEPT ![a] = new] /\ punches' = [punches EXCEPT ![d] = queue]
  BY DEF RunQueue
<1>5. UNCHANGED <<devices, sent, receipts, observations, txn, answers>>
  BY DEF RunQueue
<1> HIDE DEF d, queue, new
<1>6. /\ punches' \in [Devices -> Queues]
      /\ \A x \in Devices : punches'[x].accepted = punches[x].accepted
  BY <1>1, <1>3, <1>4 DEF IInv, Shape
<1>7. stores' \in [Agents -> Credentials \union {None}]
  BY <1>2, <1>4 DEF IInv, Shape
<1> QED
  BY <1>1, <1>2, <1>4, <1>5, <1>6, <1>7, StationIInv DEF IInv, Shape, d

\* A number that is accepted lies above the others of its device.
LEMMA NumberAdded ==
  ASSUME IInv, NEW d \in Devices, NEW n \in Nat, n > devices[d].last,
         Numbers(d)' = Numbers(d) \union {n},
         \A x \in Accepted(d)' : x \in Accepted(d) \/ (x.sequence = n /\ x.step > 0
                                                      /\ n - x.step = devices[d].last),
         devices'[d].last = n
  PROVE  /\ Largest(Numbers(d)', devices'[d].last)
         /\ n \notin Numbers(d)
         /\ \A x \in Accepted(d)' :
              /\ x.step > 0
              /\ Largest({k \in Numbers(d)' : k < x.sequence}, x.sequence - x.step)
<1> DEFINE S == Numbers(d)
           m == devices[d].last
<1>1. /\ S \in SUBSET Nat /\ Largest(S, m)
      /\ \A x \in Accepted(d) :
           x.step > 0 /\ Largest({k \in S : k < x.sequence}, x.sequence - x.step)
      /\ \A x \in Accepted(d) : x.sequence \in S
  BY NumbersAreNat DEF IInv, NumbersFit, Numbers
<1> HIDE DEF S, m
<1>2. /\ n \notin S /\ Largest(S \union {n}, n) /\ {k \in S \union {n} : k < n} = S
      /\ \A k \in S : {j \in S \union {n} : j < k} = {j \in S : j < k}
  BY <1>1, LargestGrows DEF m
<1>3. ASSUME NEW x \in Accepted(d)'
      PROVE  x.step > 0 /\ Largest({k \in S \union {n} : k < x.sequence}, x.sequence - x.step)
  <2>1. CASE x \in Accepted(d)
    BY <1>1, <1>2, <2>1
  <2>2. CASE x.sequence = n /\ x.step > 0 /\ n - x.step = m
    BY <1>1, <1>2, <2>2
  <2> QED
    BY <1>3, <2>1, <2>2 DEF m
<1> QED
  BY <1>2, <1>3 DEF S

\* Nobody holds the row, so nobody has compared a number with the last one.
LEMMA ReceivePunchIInv ==
  ASSUME IInv, NEW d \in Devices, NEW n \in punches[d].queued, ReceivePunch(d, n) PROVE IInv'
<1> DEFINE last == devices[d].last
           top == IF n > last THEN n ELSE last
           some == IF n > last THEN punches[d].accepted \union {n} ELSE punches[d].accepted
           queue == [queued |-> punches[d].queued \ {n}, accepted |-> some]
           row == [devices[d] EXCEPT !.last = top]
<1>1. n \in Nat /\ last \in Nat /\ punches[d] \in Queues /\ devices[d] \in Rows
  BY DEF IInv, Shape, Queues, Rows
<1>2. Max({n, last}) = top
  BY <1>1, MaxOfTwo
<1>3. punches' = [punches EXCEPT ![d] = queue]
  BY DEF ReceivePunch
<1>4. devices' = [devices EXCEPT ![d] = row]
  BY <1>2 DEF ReceivePunch
<1>5. UNCHANGED <<stores, sent, receipts, observations, txn, answers>>
  BY DEF ReceivePunch
<1>6. queue \in Queues /\ queue.accepted = some
  BY <1>1 DEF Queues
<1>7. top \in Nat
  BY <1>1
<1>8. row \in Rows /\ row.last = top /\ row.key = devices[d].key
  <2> HIDE DEF top
  <2> QED
    BY <1>1, <1>7 DEF Rows
<1> HIDE DEF queue, row, some
<1>9. /\ punches' \in [Devices -> Queues] /\ punches'[d].accepted = some
      /\ \A x \in Devices \ {d} : punches'[x] = punches[x]
  BY <1>3, <1>6 DEF IInv, Shape
<1>10. /\ devices' \in [Devices -> Rows] /\ devices'[d].last = top
       /\ \A x \in Devices \ {d} : devices'[x] = devices[x]
       /\ \A x \in Devices : devices'[x].key = devices[x].key
  BY <1>4, <1>8 DEF IInv, Shape
<1>11. Shape'
  BY <1>5, <1>9, <1>10 DEF IInv, Shape
<1>12. \A c \in Clients : AtRow(txn[c]) => txn[c].device # d
  BY StationsAssumption DEF ReceivePunch, Held, AtRow
<1>13. TxnsFit'
  <2>1. ASSUME NEW c \in Clients PROVE TxnFits(txn[c], receipts, devices')
    <3>1. TxnFits(txn[c], receipts, devices)
      BY DEF IInv, TxnsFit
    <3>2. AtRow(txn[c]) => txn[c].device \in Devices \ {d}
      BY <1>12, <3>1 DEF TxnFits, AtRow, AtSent, Messages
    <3>3. AtRow(txn[c]) => devices'[txn[c].device] = devices[txn[c].device]
      BY <1>10, <3>2
    <3> QED
      BY <3>1, <3>3 DEF TxnFits
  <2> QED
    BY <1>5, <2>1 DEF IInv, TxnsFit
<1>14. \A x \in Devices : Accepted(x)' = Accepted(x)
  BY <1>5 DEF Accepted
<1>15. \A x \in Devices \ {d} : Numbers(x)' = Numbers(x)
  BY <1>9, <1>14 DEF Numbers
<1>16. /\ IsFiniteSet(punches'[d].accepted)
       /\ Cardinality(Numbers(d)') = Cardinality(Accepted(d)') + Cardinality(punches'[d].accepted)
       /\ Largest(Numbers(d)', devices'[d].last)
       /\ \A x \in Accepted(d)' :
            /\ x.step > 0
            /\ Largest({k \in Numbers(d)' : k < x.sequence}, x.sequence - x.step)
  <2>1. CASE n > last
    <3>1. /\ Numbers(d)' = Numbers(d) \union {n}
          /\ punches'[d].accepted = punches[d].accepted \union {n}
      BY <1>9, <1>14, <2>1 DEF Numbers, some
    <3>2. devices'[d].last = n
      BY <1>10, <2>1
    <3>3. /\ Largest(Numbers(d)', devices'[d].last) /\ n \notin Numbers(d)
          /\ \A x \in Accepted(d)' :
               /\ x.step > 0
               /\ Largest({k \in Numbers(d)' : k < x.sequence}, x.sequence - x.step)
      BY <1>1, <1>14, <2>1, <3>1, <3>2, NumberAdded
    <3>4. n \notin punches[d].accepted
      BY <3>3 DEF Numbers
    <3>5. /\ IsFiniteSet(receipts) /\ IsFiniteSet(punches[d].accepted)
          /\ Cardinality(Numbers(d)) = Cardinality(Accepted(d)) + Cardinality(punches[d].accepted)
      BY DEF IInv, NumbersFit
    <3>6. IsFiniteSet(Accepted(d)) /\ IsFiniteSet(Numbers(d))
      BY FiniteNumbers
    <3>7. /\ IsFiniteSet(punches'[d].accepted)
          /\ Cardinality(punches'[d].accepted) = Cardinality(punches[d].accepted) + 1
          /\ Cardinality(Numbers(d)') = Cardinality(Numbers(d)) + 1
      <4>1. /\ IsFiniteSet(punches[d].accepted \union {n})
            /\ Cardinality(punches[d].accepted \union {n}) = Cardinality(punches[d].accepted) + 1
        BY <3>4, <3>5, OneMore
      <4>2. Cardinality(Numbers(d) \union {n}) = Cardinality(Numbers(d)) + 1
        BY <3>3, <3>6, OneMore
      <4> QED
        BY <3>1, <4>1, <4>2
    <3>8. Cardinality(Accepted(d)) \in Nat /\ Cardinality(punches[d].accepted) \in Nat
      BY <3>5, <3>6, FS_CardinalityType
    <3> QED
      BY <1>14, <3>3, <3>5, <3>7, <3>8
  <2>2. CASE ~(n > last)
    <3>1. punches'[d].accepted = punches[d].accepted /\ devices'[d].last = last
      BY <1>9, <1>10, <2>2 DEF some
    <3>2. Numbers(d)' = Numbers(d)
      BY <1>14, <3>1 DEF Numbers
    <3> QED
      BY <1>14, <3>1, <3>2 DEF IInv, NumbersFit
  <2> QED
    BY <2>1, <2>2
<1>17. NumbersFit'
  <2>1. ASSUME NEW x \in Devices
        PROVE  /\ IsFiniteSet(punches'[x].accepted)
               /\ Cardinality(Numbers(x)') =
                    Cardinality(Accepted(x)') + Cardinality(punches'[x].accepted)
               /\ Largest(Numbers(x)', devices'[x].last)
               /\ \A y \in Accepted(x)' :
                    /\ y.step > 0
                    /\ Largest({k \in Numbers(x)' : k < y.sequence}, y.sequence - y.step)
    <3>1. CASE x = d
      BY <1>16, <3>1
    <3>2. CASE x # d
      BY <1>9, <1>10, <1>14, <1>15, <3>2 DEF IInv, NumbersFit
    <3> QED
      BY <3>1, <3>2
  <2>2. IsFiniteSet(receipts')
    BY <1>5 DEF IInv, NumbersFit
  <2> QED
    BY <2>1, <2>2 DEF NumbersFit
<1> QED
  BY <1>5, <1>10, <1>11, <1>13, <1>17, TablesStay, AnswersStay, KeysStay DEF IInv

\* A request that is known is answered as it was, and no table changes.
LEMMA AnsweredAgain ==
  ASSUME IInv, NEW c \in Clients, NEW m \in Messages, Known(m), Answer(m, Reply(m)), Go(c, Idle),
         UNCHANGED <<devices, stores, sent, receipts, observations, punches>>
  PROVE  IInv'
<1> DEFINE y == [message |-> m, outcome |-> Reply(m)]
<1>1. \/ /\ Reply(m) = "duplicate"
         /\ (\E o \in Old : o.request = m.request)
               \/ \E x \in receipts : x.request = m.request /\ x.outcome = "accepted"
      \/ /\ Reply(m) = "rejected"
         /\ \E x \in receipts : x.request = m.request /\ x.outcome = "rejected"
  <2>1. CASE Receipt(m) = {}
    <3>1. PICK o \in observations : o.request = m.request
      BY <2>1 DEF Known, ExistsLegacyRequest
    <3>2. o \in Old
      BY <2>1, <3>1 DEF Receipt, IInv, ObservationsFit
    <3> QED
      BY <2>1, <3>1, <3>2 DEF Reply
  <2>2. CASE Receipt(m) # {}
    <3>1. PICK x \in Receipt(m) : Reply(m) = ReplayOf(x)
      BY <2>2 DEF Reply
    <3>2. x \in receipts /\ x.request = m.request /\ x.outcome \in Outcomes
      BY <3>1 DEF Receipt, IInv, Shape, Receipts
    <3> QED
      BY <3>1, <3>2 DEF ReplayOf, Outcomes
  <2> QED
    BY <2>1, <2>2
<1>2. y \in Answers /\ y.message = m /\ y.outcome = Reply(m)
  BY <1>1 DEF Answers, Outcomes
<1>3. answers' = answers \union {y}
  BY DEF Answer
<1> HIDE DEF y
<1>4. AnswersFit'
  <2>1. y.outcome # "accepted"
    BY <1>1, <1>2
  <2>2. /\ y.outcome \in Outcomes =>
             \E x \in receipts : x.request = y.message.request /\ x.outcome = y.outcome
        /\ y.outcome = "duplicate" =>
             \/ \E o \in Old : o.request = y.message.request
             \/ \E x \in receipts : x.request = y.message.request /\ x.outcome = "accepted"
    BY <1>1, <1>2 DEF Outcomes
  <2> QED
    BY <1>3, <2>1, <2>2 DEF AnswersFit, IInv
<1>5. SameLast /\ \A d \in Devices : devices'[d].key = devices[d].key
  BY DEF SameLast
<1>6. TxnsFit' /\ txn' \in [Clients -> Txns]
  BY <1>5, IdleFits, Moves DEF IInv
<1>7. Shape'
  BY <1>2, <1>3, <1>6 DEF IInv, Shape
<1> QED
  BY <1>4, <1>5, <1>6, <1>7, NumbersStay, TablesStay, KeysStay DEF IInv

LEMMA RereadIInv == ASSUME IInv, NEW c \in Clients, Reread(c) PROVE IInv'
<1>1. /\ txn[c].message \in Messages
      /\ Known(txn[c].message)
  BY DEF Reread, IInv, TxnsFit, TxnFits, AtSent, ReceiptOf, Known, Receipt
<1> QED
  BY <1>1, AnsweredAgain DEF Reread

\* The row is locked: the number is compared with one that nobody else moves.
LEMMA ReceiveBatchIInv == ASSUME IInv, NEW c \in Clients, ReceiveBatch(c) PROVE IInv'
<1> DEFINE m == txn[c].message
           step == m.sequence - devices[m.device].last
<1>1. m \in Messages /\ txn[c].at = "lock" /\ txn[c].lines = {} /\ txn[c] \in Txns
  BY DEF ReceiveBatch, IInv, Shape, TxnsFit, TxnFits, AtSent
<1>2. UNCHANGED <<devices, stores, sent, receipts, observations, punches>>
  BY DEF ReceiveBatch
<1>3. CASE Known(m) /\ Answer(m, Reply(m)) /\ Go(c, Idle)
  BY <1>1, <1>2, <1>3, AnsweredAgain
<1>4. ASSUME NEW t, ~Known(m), Go(c, t), UNCHANGED answers, t \in Txns,
             t.at = "receipt", t.message = m, t.device = m.device, t.step = step,
             t.outcome = IF step > 0 THEN "accepted" ELSE "rejected", step <= 0 => t.lines = {}
      PROVE  IInv'
  <2>1. \A o \in Old : o.request # m.request
    BY <1>4 DEF Known, ExistsLegacyRequest, IInv, ObservationsFit
  <2>2. TxnFits(t, receipts, devices)
    BY <1>1, <1>4, <2>1 DEF TxnFits, AtRow, AtSent
  <2>3. \A e \in Clients \ {c} : AtRow(txn[e]) => t.device # txn[e].device
    BY <1>4 DEF ReceiveBatch, Free, Held, AtRow
  <2>4. TxnsFit' /\ txn' \in [Clients -> Txns]
    BY <1>2, <1>4, <2>2, <2>3, OneMoves DEF IInv, TxnsFit
  <2>5. Shape'
    BY <1>2, <1>4, <2>4 DEF IInv, Shape
  <2> QED
    BY <1>2, <1>4, <2>4, <2>5, NumbersStay, TablesStay, AnswersStay, KeysStay DEF IInv, SameLast
<1>5. step \in Int
  BY <1>1 DEF IInv, Shape, Messages, Rows
<1>6. CASE /\ ~Known(m) /\ step <= 0 /\ UNCHANGED answers
           /\ Go(c, [txn[c] EXCEPT !.at = "receipt", !.device = m.device, !.step = step,
                                   !.outcome = "rejected"])
  <2> DEFINE t == [txn[c] EXCEPT !.at = "receipt", !.device = m.device, !.step = step,
                                 !.outcome = "rejected"]
  <2>1. m.device \in Devices
    BY <1>1 DEF Messages
  <2>2. t.message = m /\ t.lines = txn[c].lines
    OBVIOUS
  <2>3. t \in Txns /\ t.at = "receipt" /\ t.device = m.device /\ t.step = step
        /\ t.outcome = "rejected"
    <3> HIDE DEF m, step
    <3> QED
      BY <1>1, <1>5, <2>1 DEF Txns, Outcomes
  <2>4. Go(c, t)
    BY <1>6
  <2> HIDE DEF t
  <2> QED
    BY <1>1, <1>4, <1>5, <1>6, <2>2, <2>3, <2>4
<1>7. ASSUME NEW found \in SUBSET Employees, ~Known(m), step > 0, UNCHANGED answers,
             Go(c, [txn[c] EXCEPT !.at = "receipt", !.device = m.device, !.step = step,
                                  !.outcome = "accepted", !.lines = found])
      PROVE  IInv'
  <2> DEFINE t == [txn[c] EXCEPT !.at = "receipt", !.device = m.device, !.step = step,
                                 !.outcome = "accepted", !.lines = found]
  <2>1. m.device \in Devices
    BY <1>1 DEF Messages
  <2>2. t.message = m
    OBVIOUS
  <2>3. t \in Txns /\ t.at = "receipt" /\ t.device = m.device /\ t.step = step
        /\ t.outcome = "accepted"
    <3> HIDE DEF m, step
    <3> QED
      BY <1>1, <1>5, <2>1 DEF Txns, Outcomes
  <2>4. Go(c, t)
    BY <1>7
  <2> HIDE DEF t
  <2> QED
    BY <1>1, <1>4, <1>5, <1>7, <2>2, <2>3, <2>4
<1> QED
  BY <1>3, <1>6, <1>7 DEF ReceiveBatch

LEMMA InsertReceiptIInv == ASSUME IInv, NEW c \in Clients, InsertReceipt(c) PROVE IInv'
<1> DEFINE m == txn[c].message
<1>1. /\ m \in Messages /\ txn[c] \in Txns /\ AtRow(txn[c]) /\ txn[c].at = "receipt"
      /\ TxnFits(txn[c], receipts, devices)
  BY DEF InsertReceipt, IInv, Shape, TxnsFit, TxnFits, AtRow, AtSent
<1>2. UNCHANGED <<devices, stores, sent, receipts, observations, punches, answers>>
  BY DEF InsertReceipt
<1>3. CASE Receipt(m) = {}
  <2> DEFINE t == [txn[c] EXCEPT !.at = "commit"]
  <2>1. /\ t \in Txns /\ t.at = "commit" /\ t.message = m /\ t.device = txn[c].device
        /\ t.step = txn[c].step /\ t.outcome = txn[c].outcome /\ t.lines = txn[c].lines
    BY <1>1 DEF Txns
  <2>2. Go(c, t)
    BY <1>3 DEF InsertReceipt
  <2> HIDE DEF t
  <2>3. TxnFits(t, receipts, devices) /\ AtRow(t)
    BY <1>1, <1>3, <2>1 DEF TxnFits, AtRow, AtSent, ReceiptOf, Receipt
  <2>4. \A e \in Clients \ {c} : AtRow(txn[e]) => t.device # txn[e].device
    BY <1>1, <2>1 DEF IInv, TxnsFit
  <2>5. \A e \in Clients \ {c} : txn[e].at = "commit" => m.request # txn[e].message.request
    BY DEF InsertReceipt
  <2>6. TxnsFit' /\ txn' \in [Clients -> Txns]
    BY <1>2, <2>1, <2>2, <2>3, <2>4, <2>5, OneMoves DEF IInv, TxnsFit
  <2>7. Shape'
    BY <1>2, <2>6 DEF IInv, Shape
  <2> QED
    BY <1>2, <2>6, <2>7, NumbersStay, TablesStay, AnswersStay, KeysStay DEF IInv, SameLast
<1>4. CASE Receipt(m) # {}
  <2> DEFINE t == [Idle EXCEPT !.at = "reread", !.message = m]
  <2>1. t \in Txns /\ t.at = "reread" /\ t.message = m
    BY <1>1, IdleFits DEF Txns
  <2>2. Go(c, t)
    BY <1>4 DEF InsertReceipt
  <2> HIDE DEF t
  <2>3. ~AtRow(t) /\ TxnFits(t, receipts, devices)
    BY <1>1, <1>4, <2>1 DEF TxnFits, AtRow, AtSent, ReceiptOf, Receipt
  <2> QED
    BY <1>2, <2>1, <2>2, <2>3, OnlyMoves
<1> QED
  BY <1>3, <1>4

\* The rows that are written for a batch, as many as its lines.
RowsOf(r, d, lines) == {[request |-> r, device |-> d, employee |-> e] : e \in lines}

LEMMA LinesAreCounted ==
  ASSUME NEW r, NEW d, NEW lines \in SUBSET Employees
  PROVE  Cardinality(RowsOf(r, d, lines)) = Cardinality(lines) /\ Cardinality(lines) \in Nat
<1> DEFINE rows == RowsOf(r, d, lines)
           Row(e) == [request |-> r, device |-> d, employee |-> e]
           f == [e \in lines |-> Row(e)]
<1>1. IsFiniteSet(lines)
  BY FS_Subset, StationsAssumption
<1>2. \A a, b \in lines : f[a] = f[b] => a = b
  <2> SUFFICES ASSUME NEW a \in lines, NEW b \in lines, f[a] = f[b] PROVE a = b
    OBVIOUS
  <2>1. Row(a).employee = Row(b).employee
    OBVIOUS
  <2> QED
    BY <2>1
<1>3. f \in [lines -> rows] /\ \A x \in rows : \E e \in lines : f[e] = x
  <2>1. rows = {Row(e) : e \in lines}
    BY DEF RowsOf
  <2> HIDE DEF Row
  <2> QED
    BY <2>1
<1> HIDE DEF rows
<1>4. f \in Bijection(lines, rows)
  <2> HIDE DEF f
  <2>1. DOMAIN f = lines
    BY <1>3
  <2> QED
    BY <1>2, <1>3, <2>1 DEF Bijection, Injection, IsInjective, Surjection
<1>5. ExistsBijection(lines, rows)
  <2> HIDE DEF f
  <2> QED
    BY <1>4 DEF ExistsBijection
<1>6. Cardinality(rows) = Cardinality(lines) /\ Cardinality(lines) \in Nat
  <2> QED
    BY <1>1, <1>5, FS_Bijection, FS_CardinalityType
<1> QED
  BY <1>6 DEF rows

\* The receipt is the first of its request, and an accepted number the largest.
LEMMA CommitIInv == ASSUME IInv, NEW c \in Clients, Commit(c) PROVE IInv'
<1> DEFINE seen == IF txn[c].outcome = "rejected" THEN 0
                   ELSE Cardinality(Employees \ txn[c].lines)
<1>1. PICK t, m, r, d, n, x, rows, y :
        /\ t = txn[c] /\ m = t.message /\ r = m.request /\ d = m.device /\ n = m.sequence
        /\ x = [request |-> r, device |-> d, sequence |-> n, step |-> t.step,
                outcome |-> t.outcome, accepted |-> Cardinality(t.lines), skipped |-> seen]
        /\ rows = {[request |-> r, device |-> d, employee |-> e] : e \in t.lines}
        /\ y = [message |-> m, outcome |-> t.outcome]
  OBVIOUS
<1>2. /\ receipts' = receipts \union {x} /\ observations' = observations \union rows
      /\ answers' = answers \union {y} /\ Go(c, Idle)
      /\ devices' = IF t.outcome = "rejected" THEN devices
                    ELSE [devices EXCEPT ![d].last = n]
      /\ UNCHANGED <<stores, sent, punches>>
  BY <1>1 DEF Commit, Answer
<1>3. /\ t \in Txns /\ t.at = "commit" /\ AtRow(t) /\ m \in Messages
      /\ r \in Requests /\ d \in Devices /\ n \in Nat
  BY <1>1 DEF Commit, IInv, Shape, TxnsFit, TxnFits, AtRow, AtSent, Messages
<1>4. /\ t.device = d /\ t.step = n - devices[d].last
      /\ t.outcome = IF t.step > 0 THEN "accepted" ELSE "rejected"
      /\ t.step <= 0 => t.lines = {}
      /\ \A o \in Old : o.request # r
      /\ \A z \in receipts : z.request # r
  BY <1>1, <1>3 DEF IInv, TxnsFit, TxnFits, ReceiptOf
<1>5. /\ t.step \in Int /\ t.lines \in SUBSET Employees
      /\ devices[d] \in Rows /\ devices[d].last \in Nat
  BY <1>3, <1>4 DEF Txns, IInv, Shape, Rows
<1>6. Cardinality(rows) = Cardinality(t.lines) /\ Cardinality(t.lines) \in Nat
  <2>1. rows = RowsOf(r, d, t.lines)
    BY <1>1 DEF RowsOf
  <2> QED
    BY <1>5, <2>1, LinesAreCounted
<1>7. seen \in Nat
  <2>1. IsFiniteSet(Employees \ txn[c].lines)
    BY FS_Subset, StationsAssumption
  <2> QED
    BY <2>1, FS_CardinalityType
<1>8. /\ x.request = r /\ x.device = d /\ x.sequence = n /\ x.step = t.step
      /\ x.outcome = t.outcome /\ x.accepted = Cardinality(t.lines)
  BY <1>1
<1>9. t.outcome \in Outcomes
  BY <1>4 DEF Outcomes
<1>10. x \in Receipts
  <2> HIDE DEF seen
  <2> QED
    BY <1>1, <1>3, <1>5, <1>6, <1>7, <1>9 DEF Receipts
<1>11. y \in Answers /\ y.message = m /\ y.outcome = t.outcome
  BY <1>1, <1>3, <1>9 DEF Answers
<1>12. \A o \in rows : o.request = r /\ o.device = d
  BY <1>1
<1>13. /\ devices' \in [Devices -> Rows]
       /\ \A e \in Devices \ {d} : devices'[e] = devices[e]
       /\ \A e \in Devices : devices'[e].key = devices[e].key
       /\ devices'[d].last = IF t.outcome = "rejected" THEN devices[d].last ELSE n
  <2>1. CASE t.outcome = "rejected"
    BY <1>2, <2>1 DEF IInv, Shape
  <2>2. CASE t.outcome # "rejected"
    <3> DEFINE row == [devices[d] EXCEPT !.last = n]
    <3>1. row \in Rows /\ row.last = n /\ row.key = devices[d].key
      BY <1>3, <1>5 DEF Rows
    <3>2. devices' = [devices EXCEPT ![d] = row]
      BY <1>2, <2>2
    <3> HIDE DEF row
    <3> QED
      BY <1>3, <2>2, <3>1, <3>2 DEF IInv, Shape
  <2> QED
    BY <2>1, <2>2
<1>14. TxnsFit' /\ txn' \in [Clients -> Txns]
  <2>1. ASSUME NEW e \in Clients \ {c} PROVE TxnFits(txn[e], receipts', devices')
    <3>1. /\ TxnFits(txn[e], receipts, devices)
          /\ AtRow(txn[e]) => txn[e].device # d
          /\ txn[e].at = "commit" => txn[e].message.request # r
      BY <1>1, <1>3, <1>4 DEF IInv, TxnsFit
    <3>2. AtRow(txn[e]) => devices'[txn[e].device] = devices[txn[e].device]
      BY <1>13, <3>1 DEF TxnFits, AtRow, AtSent, Messages
    <3>3. txn[e].at = "commit" => ~ReceiptOf(receipts', txn[e].message.request)
      BY <1>2, <1>8, <3>1 DEF TxnFits, ReceiptOf
    <3>4. txn[e].at = "reread" => ReceiptOf(receipts', txn[e].message.request)
      BY <1>2, <3>1 DEF TxnFits, ReceiptOf
    <3> QED
      BY <3>1, <3>2, <3>3, <3>4 DEF TxnFits
  <2>2. Idle.at # "commit"
    BY DEF Idle
  <2> QED
    BY <1>2, <2>1, <2>2, IdleFits, OneMoves DEF IInv
<1>15. Shape'
  BY <1>2, <1>10, <1>11, <1>13, <1>14 DEF IInv, Shape
<1>16. OneReceipt'
  BY <1>2, <1>4, <1>8 DEF IInv, OneReceipt
<1>17. \A o \in observations : o.request # r
  BY <1>4 DEF IInv, ObservationsFit
<1>18. ObservationsFit'
  <2> DEFINE Of(z) == {o \in observations : o.request = z.request /\ o.device = z.device}
             After(z) == {o \in observations \union rows :
                            o.request = z.request /\ o.device = z.device}
  <2>1. \A z \in receipts : After(z) = Of(z)
    BY <1>4, <1>12
  <2>2. After(x) = rows
    BY <1>8, <1>12, <1>17
  <2>3. \A z \in receipts : Cardinality(Of(z)) = z.accepted
    BY DEF IInv, ObservationsFit
  <2>4. \A z \in receipts' : Cardinality(After(z)) = z.accepted
    <3> HIDE DEF Of, After
    <3> QED
      BY <1>2, <1>6, <1>8, <2>1, <2>2, <2>3
  <2>5. \A z \in receipts', o \in Old : z.request # o.request
    BY <1>2, <1>4, <1>8 DEF IInv, ObservationsFit
  <2>6. ASSUME NEW o \in observations' \ Old
        PROVE  \E z \in receipts' :
                 z.request = o.request /\ z.device = o.device /\ z.outcome = "accepted"
    <3>1. CASE o \in observations
      BY <1>2, <2>6, <3>1 DEF IInv, ObservationsFit
    <3>2. CASE o \in rows
      <4>1. t.lines # {}
        BY <1>1, <3>2
      <4>2. t.outcome = "accepted"
        BY <1>4, <1>5, <4>1
      <4> QED
        BY <1>2, <1>8, <1>12, <3>2, <4>2
    <3> QED
      BY <1>2, <3>1, <3>2
  <2>7. Old \subseteq observations'
    BY <1>2 DEF IInv, ObservationsFit
  <2> QED
    BY <1>2, <2>4, <2>5, <2>6, <2>7 DEF ObservationsFit
<1>19. AnswersFit'
  <2>1. ASSUME NEW z \in answers'
        PROVE  /\ z.outcome \in Outcomes =>
                    \E w \in receipts' : w.request = z.message.request /\ w.outcome = z.outcome
               /\ z.outcome = "duplicate" =>
                    \/ \E o \in Old : o.request = z.message.request
                    \/ \E w \in receipts' :
                         w.request = z.message.request /\ w.outcome = "accepted"
    <3>1. CASE z \in answers
      BY <1>2, <3>1 DEF IInv, AnswersFit
    <3>2. CASE z = y
      BY <1>1, <1>2, <1>8, <1>9, <1>11, <3>2 DEF Outcomes
    <3> QED
      BY <1>2, <3>1, <3>2
  <2>2. ASSUME NEW w \in receipts', w.outcome = "accepted"
        PROVE  \E z \in answers' : z.outcome = "accepted" /\ z.message.request = w.request
    <3>1. CASE w \in receipts
      BY <1>2, <2>2, <3>1 DEF IInv, AnswersFit
    <3>2. CASE w = x
      BY <1>1, <1>2, <1>8, <1>11, <2>2, <3>2
    <3> QED
      BY <1>2, <3>1, <3>2
  <2>3. \A z \in answers : z.outcome = "accepted" => z.message.request # r
    BY <1>4 DEF IInv, AnswersFit, Outcomes
  <2>4. \A z, w \in answers' :
          z.outcome = "accepted" /\ w.outcome = "accepted"
            /\ z.message.request = w.message.request => z = w
    BY <1>1, <1>2, <1>11, <2>3 DEF IInv, AnswersFit
  <2> QED
    BY <2>1, <2>2, <2>4 DEF AnswersFit
<1>20. \A e \in Devices \ {d} : Accepted(e)' = Accepted(e)
  BY <1>2, <1>8 DEF Accepted
<1>21. \A e \in Devices \ {d} : Numbers(e)' = Numbers(e)
  BY <1>2, <1>20 DEF Numbers
<1>22. /\ Cardinality(Numbers(d)') = Cardinality(Accepted(d)') + Cardinality(punches[d].accepted)
       /\ Largest(Numbers(d)', devices'[d].last)
       /\ \A z \in Accepted(d)' :
            /\ z.step > 0
            /\ Largest({k \in Numbers(d)' : k < z.sequence}, z.sequence - z.step)
  <2>1. CASE t.outcome = "rejected"
    <3>1. Accepted(d)' = Accepted(d)
      BY <1>2, <1>8, <2>1 DEF Accepted
    <3>2. Numbers(d)' = Numbers(d) /\ devices'[d].last = devices[d].last
      BY <1>2, <1>13, <2>1, <3>1 DEF Numbers
    <3> QED
      BY <1>3, <3>1, <3>2 DEF IInv, NumbersFit
  <2>2. CASE t.outcome = "accepted"
    <3>1. t.step > 0 /\ n > devices[d].last /\ n - t.step = devices[d].last
      BY <1>3, <1>4, <1>5, <2>2
    <3>2. Accepted(d)' = Accepted(d) \union {x}
      BY <1>2, <1>8, <2>2 DEF Accepted
    <3>3. Numbers(d)' = Numbers(d) \union {n}
      BY <1>2, <1>8, <3>2 DEF Numbers
    <3>4. /\ Largest(Numbers(d)', devices'[d].last) /\ n \notin Numbers(d)
          /\ \A z \in Accepted(d)' :
               /\ z.step > 0
               /\ Largest({k \in Numbers(d)' : k < z.sequence}, z.sequence - z.step)
      <4>1. \A z \in Accepted(d)' : z \in Accepted(d) \/ (z.sequence = n /\ z.step > 0
                                                        /\ n - z.step = devices[d].last)
        BY <1>8, <3>1, <3>2
      <4>2. devices'[d].last = n
        BY <1>13, <2>2
      <4> QED
        BY <1>3, <3>1, <3>3, <4>1, <4>2, NumberAdded
    <3>5. x \notin Accepted(d)
      BY <1>4, <1>8 DEF Accepted
    <3>6. IsFiniteSet(Accepted(d)) /\ IsFiniteSet(Numbers(d))
      BY <1>3, FiniteNumbers
    <3>7. Cardinality(Accepted(d) \union {x}) = Cardinality(Accepted(d)) + 1
      BY <3>5, <3>6, OneMore
    <3>8. Cardinality(Numbers(d) \union {n}) = Cardinality(Numbers(d)) + 1
      BY <3>4, <3>6, OneMore
    <3>9. /\ IsFiniteSet(punches[d].accepted)
          /\ Cardinality(Numbers(d)) = Cardinality(Accepted(d)) + Cardinality(punches[d].accepted)
      BY <1>3 DEF IInv, NumbersFit
    <3>10. Cardinality(Accepted(d)) \in Nat /\ Cardinality(punches[d].accepted) \in Nat
      BY <3>6, <3>9, FS_CardinalityType
    <3> QED
      <4>1. Cardinality(Numbers(d)') = Cardinality(Accepted(d)') + Cardinality(punches[d].accepted)
        BY <3>2, <3>3, <3>7, <3>8, <3>9, <3>10
      <4> QED
        BY <3>4, <4>1
  <2> QED
    BY <1>9, <2>1, <2>2 DEF Outcomes
<1>23. NumbersFit'
  <2>1. IsFiniteSet(receipts')
    BY <1>2, FS_AddElement DEF IInv, NumbersFit
  <2>2. ASSUME NEW e \in Devices
        PROVE  /\ IsFiniteSet(punches'[e].accepted)
               /\ Cardinality(Numbers(e)') =
                    Cardinality(Accepted(e)') + Cardinality(punches'[e].accepted)
               /\ Largest(Numbers(e)', devices'[e].last)
               /\ \A z \in Accepted(e)' :
                    /\ z.step > 0
                    /\ Largest({k \in Numbers(e)' : k < z.sequence}, z.sequence - z.step)
    <3>1. IsFiniteSet(punches'[e].accepted)
      BY <1>2 DEF IInv, NumbersFit
    <3>2. CASE e = d
      BY <1>2, <1>22, <3>1, <3>2
    <3>3. CASE e # d
      BY <1>2, <1>13, <1>20, <1>21, <3>3 DEF IInv, NumbersFit
    <3> QED
      BY <3>2, <3>3
  <2> QED
    BY <2>1, <2>2 DEF NumbersFit
<1>24. KeysFit'
  BY <1>2, <1>13, KeysStay DEF IInv
<1> QED
  BY <1>14, <1>15, <1>16, <1>18, <1>19, <1>23, <1>24 DEF IInv

LEMMA StepIInv == IInv /\ [Next]_vars => IInv'
<1> SUFFICES ASSUME IInv, [Next]_vars PROVE IInv'
  OBVIOUS
<1>1. CASE UNCHANGED vars
  BY <1>1, TablesStay, AnswersStay, KeysStay, NumbersStay, TxnsStay
     DEF vars, IInv, Shape, SameLast
<1>2. CASE Next
  BY <1>2, RegisterIInv, BeginEnrollmentIInv, BeginRevocationIInv, MarkEnrolledIInv,
     MarkRevokedIInv, RunSessionObserveIInv, SaveSequenceIInv, RunQueueIInv, ReceivePunchIInv,
     RecordObservationsIInv, ReceiveBatchIInv, InsertReceiptIInv, CommitIInv, RereadIInv,
     RollbackIInv DEF Next
<1> QED
  BY <1>1, <1>2

\* The invariant that the others follow from: the tables have the shape the code gives them,
\* and every connection knows what its lock and its insert protect.
THEOREM Invariance == Spec => []IInv
BY InitIInv, StepIInv, PTL DEF Spec
-----------------------------------------------------------------------------
\* Every batch and every number of a device is accounted for once, whichever requests run at
\* the same time, come again or fail between two statements.
THEOREM BatchesAddUp == Spec => []EveryBatchIsAccountedFor
<1>1. ASSUME IInv PROVE EveryBatchIsAccountedFor
  <2>1. ASSUME NEW d \in Devices
        PROVE  /\ Cardinality(Numbers(d)) =
                    Cardinality(Accepted(d)) + Cardinality(punches[d].accepted)
               /\ devices[d].last = Max({0} \union Numbers(d))
               /\ \A x \in Accepted(d) :
                    x.sequence - x.step = Max({0} \union {n \in Numbers(d) : n < x.sequence})
    <3>1. Numbers(d) \in SUBSET Nat
      BY <1>1, NumbersAreNat DEF IInv
    <3>2. devices[d].last = Max({0} \union Numbers(d))
      BY <1>1, <3>1, LargestIsMax DEF IInv, NumbersFit
    <3>3. ASSUME NEW x \in Accepted(d)
          PROVE  x.sequence - x.step = Max({0} \union {n \in Numbers(d) : n < x.sequence})
      <4>1. {n \in Numbers(d) : n < x.sequence} \in SUBSET Nat
        BY <3>1
      <4>2. Largest({n \in Numbers(d) : n < x.sequence}, x.sequence - x.step)
        BY <1>1, <3>3 DEF IInv, NumbersFit
      <4> QED
        BY <4>1, <4>2, LargestIsMax
    <3> QED
      BY <1>1, <3>2, <3>3 DEF IInv, NumbersFit
  <2> QED
    BY <1>1, <2>1 DEF IInv, ObservationsFit, EveryBatchIsAccountedFor
<1> QED
  BY <1>1, Invariance, PTL

\* A request gets the same answer whenever it comes again, on whichever connection, and also
\* when another device uses its id: one batch of it is accepted at most.
THEOREM SameAnswer == Spec => []SameAnswerAgain
<1>1. ASSUME IInv PROVE SameAnswerAgain
  <2> SUFFICES ASSUME NEW r \in Requests
               PROVE  LET given == {x.outcome : x \in {y \in answers : y.message.request = r}} IN
                      /\ "rejected" \in given => given = {"rejected"}
                      /\ "duplicate" \in given => "accepted" \in given \/ r \in Legacy
                      /\ Cardinality({x.message : x \in {y \in answers :
                           y.outcome = "accepted" /\ y.message.request = r}}) <= 1
    BY DEF SameAnswerAgain
  <2> DEFINE given == {x.outcome : x \in {y \in answers : y.message.request = r}}
             first == {y \in answers : y.outcome = "accepted" /\ y.message.request = r}
             batches == {x.message : x \in first}
  <2>1. ASSUME "rejected" \in given PROVE given = {"rejected"}
    <3>1. PICK z \in receipts : z.request = r /\ z.outcome = "rejected"
      BY <1>1, <2>1 DEF IInv, AnswersFit, Outcomes
    <3>2. \A w \in receipts : w.request = r => w = z
      BY <1>1, <3>1 DEF IInv, OneReceipt
    <3>3. ~\E o \in Old : o.request = r
      BY <1>1, <3>1 DEF IInv, ObservationsFit
    <3>4. \A y \in answers : y.message.request = r => y.outcome = "rejected"
      BY <1>1, <3>1, <3>2, <3>3 DEF IInv, AnswersFit, Shape, Answers, Outcomes
    <3> QED
      BY <2>1, <3>4
  <2>2. ASSUME "duplicate" \in given PROVE "accepted" \in given \/ r \in Legacy
    <3>1. \A o \in Old : o.request \in Legacy
      BY DEF Old
    <3> QED
      BY <1>1, <2>2, <3>1 DEF IInv, AnswersFit
  <2>3. Cardinality(batches) <= 1
    <3>1. CASE first = {}
      <4>1. batches = {}
        BY <3>1
      <4> QED
        BY <4>1, FS_EmptySet
    <3>2. CASE first # {}
      <4>1. PICK y \in first : TRUE
        BY <3>2
      <4>2. \A z \in first : z = y
        BY <1>1, <4>1 DEF IInv, AnswersFit
      <4>3. batches = {y.message}
        BY <4>1, <4>2
      <4>4. Cardinality({y.message}) = 1
        BY FS_Singleton
      <4> QED
        BY <4>3, <4>4
    <3> QED
      BY <3>1, <3>2
  <2> QED
    BY <2>1, <2>2, <2>3
<1> QED
  BY <1>1, Invariance, PTL

\* A token enrolls one station: no step replaces the key of a device, no step brings a revoked
\* device back, and after every step a station that holds credentials holds its device's key.
THEOREM OneStationEnrolls == Spec => EnrolledOnce
<1> DEFINE Kept ==
      /\ \A d \in Devices :
           /\ devices[d].key # None => devices'[d].key = devices[d].key
           /\ devices[d].state = "revoked" => devices'[d].state = "revoked"
      /\ \A a \in Agents : stores'[a] # None => devices'[stores'[a].device].key = a
<1>1. ASSUME IInv, IInv', [Next]_vars PROVE [Kept]_vars
  <2>1. \A a \in Agents : stores'[a] # None => devices'[stores'[a].device].key = a
    BY <1>1 DEF IInv, Shape, KeysFit
  <2> DEFINE Stays(d) == /\ devices[d].key # None => devices'[d].key = devices[d].key
                         /\ devices[d].state = "revoked" => devices'[d].state = "revoked"
  <2>2. ASSUME NEW d \in Devices PROVE Stays(d)
    <3>1. devices \in [Devices -> Rows]
      BY <1>1 DEF IInv, Shape
    <3>2. CASE UNCHANGED devices
      BY <3>2
    <3>3. ASSUME NEW x \in Devices, NEW new, devices' = [devices EXCEPT ![x] = new],
                 devices[x].key # None => new.key = devices[x].key,
                 devices[x].state = "revoked" => new.state = "revoked"
          PROVE  Stays(d)
      BY <3>1, <3>3
    <3>4. ASSUME NEW x \in Devices, Register(x) PROVE Stays(d)
      <4> DEFINE new == [devices[x] EXCEPT !.state = "pending", !.token = TRUE]
      <4>1. devices' = [devices EXCEPT ![x] = new] /\ devices[x].state = None
        BY <3>4 DEF Register
      <4>2. new.key = devices[x].key
        OBVIOUS
      <4>3. devices[x].state # "revoked"
        BY <4>1, StationsAssumption
      <4> HIDE DEF new
      <4> QED
        BY <3>3, <4>1, <4>2, <4>3
    <3>5. ASSUME NEW c \in Clients, MarkEnrolled(c) PROVE Stays(d)
      <4> DEFINE x == txn[c].device
                 new == [devices[x] EXCEPT !.state = "active", !.token = FALSE,
                                           !.key = txn[c].agent]
      <4>1. x \in Devices
        BY <1>1, <3>5 DEF MarkEnrolled, IInv, TxnsFit, TxnFits
      <4>2. \/ UNCHANGED devices
            \/ /\ devices' = [devices EXCEPT ![x] = new]
               /\ devices[x].state = "pending" /\ devices[x].key = None
        BY <3>5 DEF MarkEnrolled, Pending
      <4> HIDE DEF x, new
      <4> QED
        BY <3>2, <3>3, <4>1, <4>2
    <3>6. ASSUME NEW c \in Clients, MarkRevoked(c) PROVE Stays(d)
      <4> DEFINE x == txn[c].device
                 new == [devices[x] EXCEPT !.state = "revoked", !.token = FALSE]
      <4>1. x \in Devices
        BY <1>1, <3>6 DEF MarkRevoked, IInv, TxnsFit, TxnFits
      <4>2. devices' = [devices EXCEPT ![x] = new]
        BY <3>6 DEF MarkRevoked
      <4>3. new.state = "revoked" /\ new.key = devices[x].key
        BY <3>1, <4>1 DEF Rows
      <4> HIDE DEF x, new
      <4> QED
        BY <3>3, <4>1, <4>2, <4>3
    <3>7. ASSUME NEW x \in Devices, NEW last, devices' = [devices EXCEPT ![x].last = last]
          PROVE  Stays(d)
      <4> DEFINE new == [devices[x] EXCEPT !.last = last]
      <4>1. devices' = [devices EXCEPT ![x] = new]
        BY <3>7
      <4>2. new.state = devices[x].state /\ new.key = devices[x].key
        OBVIOUS
      <4> HIDE DEF new
      <4> QED
        BY <3>3, <4>1, <4>2
    <3>8. ASSUME NEW x \in Devices, NEW n, ReceivePunch(x, n) PROVE Stays(d)
      BY <3>7, <3>8 DEF ReceivePunch
    <3>9. ASSUME NEW c \in Clients, Commit(c) PROVE Stays(d)
      <4>1. txn[c].message.device \in Devices
        BY <1>1, <3>9 DEF Commit, IInv, TxnsFit, TxnFits, AtSent, Messages
      <4> QED
        BY <3>2, <3>7, <3>9, <4>1 DEF Commit
    <3> HIDE DEF Stays
    <3> QED
      BY <1>1, <3>2, <3>4, <3>5, <3>6, <3>8, <3>9
         DEF Next, vars, BeginEnrollment, BeginRevocation, RunSessionObserve, SaveSequence,
             RunQueue, RecordObservations, ReceiveBatch, InsertReceipt, Reread, Rollback
  <2> QED
    BY <2>1, <2>2
<1> QED
  BY <1>1, Invariance, PTL DEF Spec, EnrolledOnce

-----------------------------------------------------------------------------
(***************************************************************************)
(* What a fold over a sequence makes, element by element.                  *)
(***************************************************************************)
\* What holds of 0 and is kept by adding 1 holds of every number up to N.
LEMMA Climb ==
  ASSUME NEW N \in Nat, NEW S, 0 \in S, \A n \in Nat : n < N /\ n \in S => n + 1 \in S
  PROVE  \A n \in 0 .. N : n \in S
<1> DEFINE T == {n \in 0 .. N : n \notin S}
<1> SUFFICES ASSUME T # {} PROVE FALSE
  OBVIOUS
<1>1. T \subseteq Nat
  OBVIOUS
<1>2. PICK x \in T : \A y \in T : ~(<<y, x>> \in OpToRel(<, Nat))
  BY <1>1, NatLessThanWellFounded, WFMin
<1>3. \A y \in T : x <= y
  <2>1. \A y \in T : <<y, x>> \in Nat \X Nat /\ <<y, x>>[1] = y /\ <<y, x>>[2] = x
    BY <1>1
  <2>2. \A y \in T : ~(y < x)
    BY <1>2, <2>1 DEF OpToRel
  <2> QED
    BY <1>1, <2>2
<1>4. x \in Nat /\ x <= N /\ x # 0 /\ x \notin S
  OBVIOUS
<1>5. x - 1 \in Nat /\ x - 1 < N /\ x - 1 \notin T
  BY <1>3, <1>4
<1>6. x - 1 \in S
  BY <1>4, <1>5
<1> QED
  BY <1>4, <1>5, <1>6

\* Some places of a sequence have a last one.
LEMMA LastPlace ==
  ASSUME NEW n \in Nat, NEW s \in SUBSET (1 .. n), s # {}
  PROVE  Max(s) \in s /\ \A y \in s : y <= Max(s)
<1> DEFINE Q == {k \in 0 .. n : \A r \in SUBSET (1 .. k) :
                                   r # {} => \E m \in r : \A y \in r : m >= y}
<1>1. 0 \in Q
  <2>1. 0 \in 0 .. n
    OBVIOUS
  <2>2. ASSUME NEW r \in SUBSET (1 .. 0) PROVE r = {}
    OBVIOUS
  <2> QED
    BY <2>1, <2>2
<1>2. ASSUME NEW k \in Nat, k < n, k \in Q PROVE k + 1 \in Q
  <2>1. ASSUME NEW r \in SUBSET (1 .. k + 1), r # {} PROVE \E m \in r : \A y \in r : m >= y
    <3>1. CASE k + 1 \in r
      BY <3>1
    <3>2. CASE k + 1 \notin r
      <4>1. r \in SUBSET (1 .. k)
        BY <3>2
      <4> QED
        BY <1>2, <2>1, <4>1
    <3> QED
      BY <3>1, <3>2
  <2>2. k + 1 \in 0 .. n
    BY <1>2
  <2> QED
    BY <2>1, <2>2
<1> HIDE DEF Q
<1>3. n \in Q
  <2>1. n \in 0 .. n
    OBVIOUS
  <2> QED
    BY <1>1, <1>2, <2>1, Climb
<1>4. \E m \in s : \A y \in s : m >= y
  BY <1>3 DEF Q
<1>5. Max(s) \in s /\ \A y \in s : Max(s) >= y
  BY <1>4 DEF Max
<1> QED
  BY <1>5

\* What a fold makes of some places, of what it makes of those before the last.
Made(h, s, base, step) ==
  h[s] = IF s = {} THEN base ELSE step[Max(s)][h[s \ {Max(s)}]]

\* So there is a function that does as the fold does.
LEMMA FoldExists ==
  ASSUME NEW n \in Nat, NEW X, NEW base \in X, NEW step \in [1 .. n -> [X -> X]]
  PROVE  \E h \in [SUBSET (1 .. n) -> X] : \A s \in SUBSET (1 .. n) : Made(h, s, base, step)
<1> DEFINE Q == {k \in 0 .. n : \E h \in [SUBSET (1 .. n) -> X] :
                                   \A s \in SUBSET (1 .. k) : Made(h, s, base, step)}
<1>1. 0 \in Q
  <2>1. PICK h : h = [s \in SUBSET (1 .. n) |-> base]
    OBVIOUS
  <2>2. h \in [SUBSET (1 .. n) -> X]
    BY <2>1
  <2>3. ASSUME NEW s \in SUBSET (1 .. 0) PROVE Made(h, s, base, step)
    <3>1. s = {}
      OBVIOUS
    <3> QED
      BY <2>1, <3>1 DEF Made
  <2> QED
    BY <2>2, <2>3
<1>2. ASSUME NEW k \in Nat, k < n, k \in Q PROVE k + 1 \in Q
  <2>1. PICK h \in [SUBSET (1 .. n) -> X] : \A s \in SUBSET (1 .. k) : Made(h, s, base, step)
    BY <1>2
  <2>2. PICK g : g = [s \in SUBSET (1 .. n) |-> IF s = {} THEN base
                                               ELSE step[Max(s)][h[s \ {Max(s)}]]]
    OBVIOUS
  <2>3. ASSUME NEW s \in SUBSET (1 .. n), s # {} PROVE step[Max(s)][h[s \ {Max(s)}]] \in X
    <3>1. Max(s) \in 1 .. n /\ s \ {Max(s)} \in SUBSET (1 .. n)
      BY <2>3, LastPlace
    <3>2. step[Max(s)] \in [X -> X] /\ h[s \ {Max(s)}] \in X
      BY <3>1
    <3> QED
      BY <3>2
  <2>4. g \in [SUBSET (1 .. n) -> X]
    BY <2>2, <2>3
  <2>5. ASSUME NEW s \in SUBSET (1 .. k + 1) PROVE Made(g, s, base, step)
    <3>1. s \in SUBSET (1 .. n)
      BY <1>2
    <3>2. CASE s = {}
      BY <2>2, <3>1, <3>2 DEF Made
    <3>3. CASE s # {}
      <4>1. PICK m : m = Max(s)
        OBVIOUS
      <4>2. m \in s /\ \A y \in s : y <= m
        BY <3>1, <3>3, <4>1, LastPlace
      <4>3. s \ {m} \in SUBSET (1 .. k) /\ s \ {m} \in SUBSET (1 .. n)
        BY <3>1, <4>2
      <4>4. Made(h, s \ {m}, base, step)
        BY <2>1, <4>3
      <4>5. g[s \ {m}] = h[s \ {m}]
        BY <2>2, <4>3, <4>4 DEF Made
      <4>6. g[s] = step[m][h[s \ {m}]]
        BY <2>2, <3>1, <3>3, <4>1
      <4> QED
        BY <3>3, <4>1, <4>5, <4>6 DEF Made
    <3> QED
      BY <3>2, <3>3
  <2>6. k + 1 \in 0 .. n
    BY <1>2
  <2> QED
    BY <2>4, <2>5, <2>6
<1> HIDE DEF Q
<1>3. n \in Q
  <2>1. n \in 0 .. n
    OBVIOUS
  <2> QED
    BY <1>1, <1>2, <2>1, Climb
<1> QED
  BY <1>3 DEF Q

\* And any function that does so, does so one place after the other.
Advances(h, n, X, base, step) ==
  /\ h[{}] = base
  /\ \A s \in SUBSET (1 .. n) : s # {} /\ h[s \ {Max(s)}] \in X =>
       h[s] = step[Max(s)][h[s \ {Max(s)}]]

Stepwise(result, n, X, base, step) ==
  \E made \in [0 .. n -> X] :
    /\ made[0] = base /\ made[n] = result
    /\ \A k \in 1 .. n : made[k] = step[k][made[k - 1]]

LEMMA FoldAdvances ==
  ASSUME NEW n \in Nat, NEW X, NEW base \in X, NEW step \in [1 .. n -> [X -> X]], NEW h,
         Advances(h, n, X, base, step)
  PROVE  Stepwise(h[1 .. n], n, X, base, step)
<1> DEFINE Q == {k \in 0 .. n : h[1 .. k] \in X}
<1>1. ASSUME NEW k \in 1 .. n, h[1 .. k - 1] \in X
      PROVE  h[1 .. k] \in X /\ h[1 .. k] = step[k][h[1 .. k - 1]]
  <2>1. PICK s \in SUBSET (1 .. n) : s = 1 .. k
    OBVIOUS
  <2>2. s # {} /\ Max(s) = k
    <3>1. s # {}
      BY <2>1
    <3>2. Max(s) \in s /\ \A y \in s : y <= Max(s)
      BY <3>1, LastPlace
    <3> QED
      BY <2>1, <3>1, <3>2
  <2>3. s \ {k} = 1 .. k - 1
    BY <2>1
  <2>4. h[s] = step[k][h[1 .. k - 1]]
    BY <1>1, <2>2, <2>3 DEF Advances
  <2>5. step[k] \in [X -> X]
    OBVIOUS
  <2> QED
    BY <1>1, <2>1, <2>4, <2>5
<1>2. 1 .. 0 = {} /\ h[1 .. 0] = base
  <2>1. 1 .. 0 = {}
    OBVIOUS
  <2> QED
    BY <2>1 DEF Advances
<1>3. 0 \in Q
  BY <1>2
<1>4. ASSUME NEW k \in Nat, k < n, k \in Q PROVE k + 1 \in Q
  <2>1. k + 1 \in 1 .. n /\ (k + 1) - 1 = k
    BY <1>4
  <2> QED
    BY <1>1, <1>4, <2>1
<1> HIDE DEF Q
<1>5. \A k \in 0 .. n : k \in Q
  BY <1>3, <1>4, Climb
<1>6. PICK made : made = [k \in 0 .. n |-> h[1 .. k]]
  OBVIOUS
<1>7. made \in [0 .. n -> X]
  BY <1>5, <1>6 DEF Q
<1>8. ASSUME NEW k \in 1 .. n PROVE made[k] = step[k][made[k - 1]]
  <2>1. k \in 0 .. n /\ k - 1 \in 0 .. n
    OBVIOUS
  <2>2. h[1 .. k - 1] \in X
    BY <1>5, <2>1 DEF Q
  <2> QED
    BY <1>1, <1>6, <2>1, <2>2
<1>9. 0 \in 0 .. n /\ n \in 0 .. n
  OBVIOUS
<1> QED
  BY <1>2, <1>6, <1>7, <1>8, <1>9 DEF Stepwise

-----------------------------------------------------------------------------
(***************************************************************************)
(* What differs from the punches of a day.  The periods that are folded    *)
(* from the observations tell what the reference says of them minute by    *)
(* minute, after each observation; so the report agrees with it.           *)
(***************************************************************************)
ActiveSpans == [from : Times, to : Times \union {None}]

\* What was observed up to some time says that a period opens, or the computer is in use.
Opening(D, s) ==
  /\ s.type \in Starting
  /\ \A o \in D : o.at < s.at /\ o.type \in Starting =>
       \E e \in D : e.type \notin Starting /\ o.at < e.at /\ e.at < s.at

Using(D, t) ==
  \E s, e \in D :
    /\ s.type \in Starting /\ e.type \notin Starting /\ s.at <= t /\ t < e.at
    /\ \A o \in D : s.at < o.at /\ o.at < e.at => o.type \in Starting

IsOpen(p) == p # <<>> /\ p[Len(p)].to = None

\* The periods tell what was observed.
Ordered(p) ==
  /\ p \in Seq(ActiveSpans)
  /\ \A i \in 1 .. Len(p) : p[i].to # None => p[i].from < p[i].to
  /\ \A i, j \in 1 .. Len(p) : i < j => p[i].to # None /\ p[i].to < p[j].from

TellsOpenings(D, p) ==
  /\ \A i \in 1 .. Len(p) : \E s \in D : s.at = p[i].from /\ Opening(D, s)
  /\ \A s \in D : Opening(D, s) => \E i \in 1 .. Len(p) : s.at = p[i].from

TellsUse(D, p) ==
  \A t \in Int :
    Using(D, t) <=> \E i \in 1 .. Len(p) : p[i].to # None /\ p[i].from <= t /\ t < p[i].to

TellsLast(D, p) ==
  /\ \A i \in 1 .. Len(p) : p[i].to # None => \E e \in D : e.at = p[i].to
  /\ IsOpen(p) => \A e \in D : e.type \notin Starting => e.at < p[Len(p)].from
  /\ ~IsOpen(p) => \A s \in D : s.type \in Starting =>
                     \E e \in D : e.type \notin Starting /\ s.at < e.at

Tells(D, p) == Ordered(p) /\ TellsOpenings(D, p) /\ TellsUse(D, p) /\ TellsLast(D, p)

LEMMA TimesAreNatural == Times \subseteq Int /\ None \notin Times /\ None \notin Int
  BY PcSessionsAssumption DEF Times

\* What comes later does not change where a period opened.
LEMMA OpeningStays ==
  ASSUME NEW D \in SUBSET Observations, NEW o \in Observations, \A x \in D : x.at < o.at,
         NEW s \in D
  PROVE  Opening(D \union {o}, s) <=> Opening(D, s)
<1>1. \A x \in D : x.at \in Int /\ o.at \in Int /\ x.at < o.at
  BY TimesAreNatural DEF Observations
<1>2. \A x \in D \union {o} : x.at < s.at => x \in D
  BY <1>1
<1> QED
  BY <1>1, <1>2 DEF Opening

\* A start changes nothing of what was used before it.
LEMMA StartKeepsUse ==
  ASSUME NEW D \in SUBSET Observations, NEW o \in Observations, \A x \in D : x.at < o.at,
         o.type \in Starting, NEW t \in Int
  PROVE  Using(D \union {o}, t) <=> Using(D, t)
<1>1. \A x \in D : x.at \in Int /\ o.at \in Int /\ x.at < o.at
  BY TimesAreNatural DEF Observations
<1>2. ASSUME Using(D \union {o}, t) PROVE Using(D, t)
  <2>1. PICK s, e \in D \union {o} :
          /\ s.type \in Starting /\ e.type \notin Starting /\ s.at <= t /\ t < e.at
          /\ \A x \in D \union {o} : s.at < x.at /\ x.at < e.at => x.type \in Starting
    BY <1>2 DEF Using
  <2>2. e \in D
    BY <2>1
  <2>3. s \in D
    BY <1>1, <2>1, <2>2
  <2> QED
    BY <2>1, <2>2, <2>3 DEF Using
<1>3. ASSUME Using(D, t) PROVE Using(D \union {o}, t)
  BY <1>3 DEF Using
<1> QED
  BY <1>2, <1>3

\* A stop adds the minutes since the period that is open began, or none.
LEMMA StopAddsUse ==
  ASSUME NEW D \in SUBSET Observations, NEW o \in Observations, \A x \in D : x.at < o.at,
         o.type \notin Starting, NEW p, Tells(D, p), NEW t \in Int
  PROVE  Using(D \union {o}, t) <=>
           Using(D, t) \/ (IsOpen(p) /\ p[Len(p)].from <= t /\ t < o.at)
<1>1. \A x \in D : x.at \in Int /\ o.at \in Int /\ x.at < o.at
  BY TimesAreNatural DEF Observations
<1>2. ASSUME IsOpen(p)
      PROVE  \E s \in D : /\ s.at = p[Len(p)].from /\ s.type \in Starting
                          /\ Opening(D, s)
  <2>1. Len(p) \in 1 .. Len(p)
    BY <1>2 DEF IsOpen, Tells, Ordered
  <2> QED
    BY <2>1 DEF Tells, TellsOpenings, Opening
<1>3. ASSUME Using(D, t) PROVE Using(D \union {o}, t)
  <2>1. PICK s, e \in D :
          /\ s.type \in Starting /\ e.type \notin Starting /\ s.at <= t /\ t < e.at
          /\ \A x \in D : s.at < x.at /\ x.at < e.at => x.type \in Starting
    BY <1>3 DEF Using
  <2>2. \A x \in D \union {o} : s.at < x.at /\ x.at < e.at => x.type \in Starting
    BY <1>1, <2>1
  <2> QED
    BY <2>1, <2>2 DEF Using
<1>4. ASSUME IsOpen(p), p[Len(p)].from <= t, t < o.at PROVE Using(D \union {o}, t)
  <2>1. PICK s \in D : s.at = p[Len(p)].from /\ s.type \in Starting
    BY <1>2, <1>4
  <2>2. \A x \in D : x.type \notin Starting => x.at < s.at
    BY <1>4, <2>1 DEF Tells, TellsLast
  <2>3. \A x \in D \union {o} : s.at < x.at /\ x.at < o.at => x.type \in Starting
    BY <1>1, <2>2
  <2> QED
    BY <1>4, <2>1, <2>3 DEF Using
<1>5. ASSUME Using(D \union {o}, t), ~Using(D, t)
      PROVE  IsOpen(p) /\ p[Len(p)].from <= t /\ t < o.at
  <2>1. PICK s, e \in D \union {o} :
          /\ s.type \in Starting /\ e.type \notin Starting /\ s.at <= t /\ t < e.at
          /\ \A x \in D \union {o} : s.at < x.at /\ x.at < e.at => x.type \in Starting
    BY <1>5 DEF Using
  <2>2. s \in D
    BY <2>1
  <2>3. e = o
    BY <1>5, <2>1, <2>2 DEF Using
  <2>4. \A x \in D : x.type \notin Starting => ~(s.at < x.at)
    BY <1>1, <2>1, <2>3
  <2>5. IsOpen(p)
    BY <2>1, <2>2, <2>4 DEF Tells, TellsLast
  <2>6. PICK f \in D : f.at = p[Len(p)].from /\ Opening(D, f)
    BY <1>2, <2>5
  <2>7. ~(s.at < f.at)
    BY <2>1, <2>2, <2>4, <2>6 DEF Opening
  <2> QED
    BY <1>1, <2>1, <2>2, <2>3, <2>5, <2>6, <2>7
<1> QED
  BY <1>3, <1>4, <1>5

\* A start that opens a period.
LEMMA OpeningTells ==
  ASSUME NEW D \in SUBSET Observations, NEW o \in Observations, \A x \in D : x.at < o.at,
         o.type \in Starting, NEW p, Tells(D, p), ~IsOpen(p)
  PROVE  Tells(D \union {o}, Append(p, [from |-> o.at, to |-> None]))
<1> DEFINE new == [from |-> o.at, to |-> None]
           q   == Append(p, new)
           E   == D \union {o}
<1>1. /\ \A x \in D : x.at \in Int /\ o.at \in Int /\ x.at < o.at
      /\ o.at \in Times /\ o.at \in Int
  BY TimesAreNatural DEF Observations
<1>2. new \in ActiveSpans /\ new.to = None /\ new.from = o.at
  BY <1>1 DEF ActiveSpans
<1>3. p \in Seq(ActiveSpans) /\ Len(p) \in Nat
  BY DEF Tells, Ordered
<1> HIDE DEF new
<1>4. /\ q \in Seq(ActiveSpans) /\ Len(q) = Len(p) + 1 /\ q[Len(p) + 1] = new
      /\ \A i \in 1 .. Len(p) : q[i] = p[i]
  BY <1>2, <1>3
<1> HIDE DEF q, E
<1>5. \A i \in 1 .. Len(p) : p[i].to # None
  BY <1>3 DEF IsOpen, Tells, Ordered
<1>6. \A i \in 1 .. Len(p) : p[i].to \in Int /\ p[i].to < o.at
  <2>1. ASSUME NEW i \in 1 .. Len(p) PROVE p[i].to \in Int /\ p[i].to < o.at
    <3>1. PICK e \in D : e.at = p[i].to
      BY <1>5 DEF Tells, TellsLast
    <3> QED
      BY <1>1, <3>1
  <2> QED
    BY <2>1
<1>7. Ordered(q)
  <2>1. \A i \in 1 .. Len(q) : q[i].to # None => q[i].from < q[i].to
    BY <1>2, <1>3, <1>4 DEF Tells, Ordered
  <2>2. \A i, j \in 1 .. Len(q) : i < j => q[i].to # None /\ q[i].to < q[j].from
    <3>1. ASSUME NEW i \in 1 .. Len(q), NEW j \in 1 .. Len(q), i < j
          PROVE  q[i].to # None /\ q[i].to < q[j].from
      <4>1. i \in 1 .. Len(p) /\ q[i] = p[i]
        BY <1>3, <1>4, <3>1
      <4>2. CASE j = Len(p) + 1
        BY <1>2, <1>4, <1>5, <1>6, <4>1, <4>2
      <4>3. CASE j \in 1 .. Len(p)
        BY <1>4, <3>1, <4>1, <4>3 DEF Tells, Ordered
      <4> QED
        BY <1>3, <1>4, <4>2, <4>3
    <3> QED
      BY <3>1
  <2> QED
    BY <1>4, <2>1, <2>2 DEF Ordered
<1>8. Opening(E, o)
  <2>1. ASSUME NEW x \in E, x.at < o.at, x.type \in Starting
        PROVE  \E e \in E : e.type \notin Starting /\ x.at < e.at /\ e.at < o.at
    <3>1. x \in D
      BY <1>1, <2>1 DEF E
    <3>2. PICK e \in D : e.type \notin Starting /\ x.at < e.at
      BY <2>1, <3>1 DEF Tells, TellsLast
    <3> QED
      BY <1>1, <3>2 DEF E
  <2> QED
    BY <2>1 DEF Opening
<1>9. TellsOpenings(E, q)
  <2>1. ASSUME NEW i \in 1 .. Len(q) PROVE \E s \in E : s.at = q[i].from /\ Opening(E, s)
    <3>1. CASE i = Len(p) + 1
      BY <1>2, <1>4, <1>8, <3>1 DEF E
    <3>2. CASE i \in 1 .. Len(p)
      <4>1. PICK s \in D : s.at = p[i].from /\ Opening(D, s)
        BY <3>2 DEF Tells, TellsOpenings
      <4>2. Opening(E, s)
        BY <4>1, OpeningStays DEF E
      <4> QED
        BY <1>4, <3>2, <4>1, <4>2 DEF E
    <3> QED
      BY <1>3, <1>4, <3>1, <3>2
  <2>2. ASSUME NEW s \in E, Opening(E, s) PROVE \E i \in 1 .. Len(q) : s.at = q[i].from
    <3>1. CASE s = o
      <4>1. Len(p) + 1 \in 1 .. Len(q)
        BY <1>3, <1>4
      <4> QED
        BY <1>2, <1>4, <3>1, <4>1
    <3>2. CASE s \in D
      <4>1. Opening(D, s)
        BY <2>2, <3>2, OpeningStays DEF E
      <4>2. PICK i \in 1 .. Len(p) : s.at = p[i].from
        BY <3>2, <4>1 DEF Tells, TellsOpenings
      <4>3. i \in 1 .. Len(q)
        BY <1>3, <1>4
      <4> QED
        BY <1>4, <4>2, <4>3
    <3> QED
      BY <3>1, <3>2 DEF E
  <2> QED
    BY <2>1, <2>2 DEF TellsOpenings
<1>10. TellsUse(E, q)
  <2>1. ASSUME NEW t \in Int
        PROVE  (\E i \in 1 .. Len(p) : p[i].to # None /\ p[i].from <= t /\ t < p[i].to)
               <=> \E i \in 1 .. Len(q) : q[i].to # None /\ q[i].from <= t /\ t < q[i].to
    <3>1. \A i \in 1 .. Len(q) : q[i].to # None => i \in 1 .. Len(p)
      BY <1>2, <1>3, <1>4
    <3>2. 1 .. Len(p) \subseteq 1 .. Len(q)
      BY <1>3, <1>4
    <3> QED
      BY <1>4, <3>1, <3>2
  <2>2. ASSUME NEW t \in Int PROVE Using(E, t) <=> Using(D, t)
    BY StartKeepsUse DEF E
  <2> QED
    BY <2>1, <2>2 DEF Tells, TellsUse
<1>11. TellsLast(E, q)
  <2>1. q # <<>> /\ q[Len(q)] = new
    BY <1>3, <1>4
  <2>2. IsOpen(q)
    BY <1>2, <2>1 DEF IsOpen
  <2>3. \A e \in E : e.type \notin Starting => e.at < q[Len(q)].from
    BY <1>1, <1>2, <2>1 DEF E
  <2>4. \A i \in 1 .. Len(q) : q[i].to # None => \E e \in E : e.at = q[i].to
    BY <1>2, <1>3, <1>4 DEF E, Tells, TellsLast
  <2> QED
    BY <2>2, <2>3, <2>4 DEF TellsLast
<1> QED
  BY <1>7, <1>9, <1>10, <1>11 DEF Tells, q, E, new

\* A start while a period is open.
LEMMA StartTells ==
  ASSUME NEW D \in SUBSET Observations, NEW o \in Observations, \A x \in D : x.at < o.at,
         o.type \in Starting, NEW p, Tells(D, p), IsOpen(p)
  PROVE  Tells(D \union {o}, p)
<1> DEFINE E == D \union {o}
<1>1. \A x \in D : x.at \in Int /\ o.at \in Int /\ x.at < o.at
  BY TimesAreNatural DEF Observations
<1>2. Len(p) \in 1 .. Len(p)
  BY DEF IsOpen, Tells, Ordered
<1>3. PICK f \in D : f.at = p[Len(p)].from /\ Opening(D, f)
  BY <1>2 DEF Tells, TellsOpenings
<1>4. \A e \in D : e.type \notin Starting => e.at < f.at
  BY <1>3 DEF Tells, TellsLast
<1> HIDE DEF E
<1>5. ~Opening(E, o)
  <2>1. f \in E /\ f.type \in Starting /\ f.at < o.at
    BY <1>1, <1>3 DEF E, Opening
  <2>2. \A e \in E : e.type \notin Starting => e \in D /\ ~(f.at < e.at)
    BY <1>1, <1>4 DEF E
  <2> QED
    BY <2>1, <2>2 DEF Opening
<1>6. TellsOpenings(E, p)
  <2>1. \A s \in D : Opening(E, s) <=> Opening(D, s)
    BY OpeningStays DEF E
  <2> QED
    BY <1>5, <2>1 DEF Tells, TellsOpenings, E
<1>7. TellsUse(E, p)
  <2>1. ASSUME NEW t \in Int PROVE Using(E, t) <=> Using(D, t)
    BY StartKeepsUse DEF E
  <2> QED
    BY <2>1 DEF Tells, TellsUse
<1>8. TellsLast(E, p)
  BY DEF Tells, TellsLast, E
<1> QED
  BY <1>6, <1>7, <1>8 DEF Tells, E

\* A stop that closes the open period.
LEMMA ClosingTells ==
  ASSUME NEW D \in SUBSET Observations, NEW o \in Observations, \A x \in D : x.at < o.at,
         o.type \notin Starting, NEW p, Tells(D, p), IsOpen(p)
  PROVE  Tells(D \union {o}, [p EXCEPT ![Len(p)].to = o.at])
<1> DEFINE E   == D \union {o}
           n   == Len(p)
           q   == [p EXCEPT ![Len(p)].to = o.at]
           new == [p[n] EXCEPT !.to = o.at]
<1>1. /\ \A x \in D : x.at \in Int /\ o.at \in Int /\ x.at < o.at
      /\ o.at \in Times /\ o.at \in Int /\ o.at # None
  BY TimesAreNatural DEF Observations
<1>2. p \in Seq(ActiveSpans) /\ n \in Nat /\ n \in 1 .. n
  BY DEF IsOpen, Tells, Ordered
<1>3. new \in ActiveSpans /\ new.to = o.at /\ new.from = p[n].from
  <2>1. p[n] \in ActiveSpans
    BY <1>2
  <2> QED
    BY <1>1, <2>1 DEF ActiveSpans
<1>4. /\ q \in Seq(ActiveSpans) /\ Len(q) = n /\ q[n] = new
      /\ \A i \in 1 .. n : i # n => q[i] = p[i]
  BY <1>2, <1>3
<1>5. p[n].to = None
  BY DEF IsOpen
<1>6. PICK f \in D : f.at = p[n].from /\ Opening(D, f)
  BY <1>2 DEF Tells, TellsOpenings
<1>7. \A i \in 1 .. n : q[i].from = p[i].from
  BY <1>3, <1>4
<1> HIDE DEF q, E, new, n
<1>8. Ordered(q)
  <2>1. \A i \in 1 .. n : q[i].to # None => q[i].from < q[i].to
    BY <1>1, <1>3, <1>4, <1>6, <1>7 DEF Tells, Ordered, n
  <2>2. \A i, j \in 1 .. n : i < j => q[i].to # None /\ q[i].to < q[j].from
    <3>1. \A i, j \in 1 .. n : i < j => i # n
      BY <1>2
    <3> QED
      BY <1>4, <1>7, <3>1 DEF Tells, Ordered, n
  <2> QED
    BY <1>4, <2>1, <2>2 DEF Ordered
<1>9. TellsOpenings(E, q)
  <2>1. \A s \in D : Opening(E, s) <=> Opening(D, s)
    BY OpeningStays DEF E
  <2>2. ~Opening(E, o)
    BY DEF Opening
  <2>3. ASSUME NEW i \in 1 .. Len(q) PROVE \E s \in E : s.at = q[i].from /\ Opening(E, s)
    <3>1. i \in 1 .. Len(p) /\ q[i].from = p[i].from
      BY <1>4, <1>7 DEF n
    <3>2. PICK s \in D : s.at = p[i].from /\ Opening(D, s)
      BY <3>1 DEF Tells, TellsOpenings
    <3> QED
      BY <2>1, <3>1, <3>2 DEF E
  <2>4. ASSUME NEW s \in E, Opening(E, s) PROVE \E i \in 1 .. Len(q) : s.at = q[i].from
    <3>1. s \in D /\ Opening(D, s)
      BY <2>1, <2>2, <2>4 DEF E
    <3>2. PICK i \in 1 .. Len(p) : s.at = p[i].from
      BY <3>1 DEF Tells, TellsOpenings
    <3> QED
      BY <1>4, <1>7, <3>2 DEF n
  <2> QED
    BY <2>3, <2>4 DEF TellsOpenings
<1>10. TellsUse(E, q)
  <2>1. ASSUME NEW t \in Int
        PROVE  Using(E, t) <=>
                 \E i \in 1 .. Len(q) : q[i].to # None /\ q[i].from <= t /\ t < q[i].to
    <3>1. Using(E, t) <=> Using(D, t) \/ (p[n].from <= t /\ t < o.at)
      BY StopAddsUse DEF E, n
    <3>2. Using(D, t) <=> \E i \in 1 .. n : p[i].to # None /\ p[i].from <= t /\ t < p[i].to
      BY DEF Tells, TellsUse, n
    <3>3. ASSUME NEW i \in 1 .. n, p[i].to # None
          PROVE  q[i] = p[i]
      BY <1>4, <1>5, <3>3
    <3>4. ASSUME NEW i \in 1 .. n, i # n PROVE q[i] = p[i]
      BY <1>4, <3>4
    <3> QED
      BY <1>1, <1>2, <1>3, <1>4, <3>1, <3>2, <3>3, <3>4
  <2> QED
    BY <2>1 DEF TellsUse
<1>11. TellsLast(E, q)
  <2>1. q # <<>> /\ Len(q) = n /\ q[Len(q)].to # None
    BY <1>1, <1>2, <1>3, <1>4
  <2>2. ~IsOpen(q)
    BY <2>1 DEF IsOpen
  <2>3. \A s \in E : s.type \in Starting => s \in D
    BY DEF E
  <2>4. \A s \in E : s.type \in Starting => \E e \in E : e.type \notin Starting /\ s.at < e.at
    BY <1>1, <2>3 DEF E
  <2>5. ASSUME NEW i \in 1 .. Len(q), q[i].to # None PROVE \E e \in E : e.at = q[i].to
    <3>1. CASE i = n
      BY <1>3, <1>4, <3>1 DEF E
    <3>2. CASE i # n
      <4>1. i \in 1 .. Len(p) /\ q[i] = p[i]
        BY <1>4, <3>2 DEF n
      <4> QED
        BY <2>5, <4>1 DEF Tells, TellsLast, E
    <3> QED
      BY <3>1, <3>2
  <2> QED
    BY <2>2, <2>4, <2>5 DEF TellsLast
<1> QED
  BY <1>8, <1>9, <1>10, <1>11 DEF Tells, q, E

\* A stop while none is open.
LEMMA StopTells ==
  ASSUME NEW D \in SUBSET Observations, NEW o \in Observations, \A x \in D : x.at < o.at,
         o.type \notin Starting, NEW p, Tells(D, p), ~IsOpen(p)
  PROVE  Tells(D \union {o}, p)
<1> DEFINE E == D \union {o}
<1>1. \A x \in D : x.at \in Int /\ o.at \in Int /\ x.at < o.at
  BY TimesAreNatural DEF Observations
<1> HIDE DEF E
<1>2. TellsOpenings(E, p)
  <2>1. \A s \in D : Opening(E, s) <=> Opening(D, s)
    BY OpeningStays DEF E
  <2>2. ~Opening(E, o)
    BY DEF Opening
  <2> QED
    BY <2>1, <2>2 DEF Tells, TellsOpenings, E
<1>3. TellsUse(E, p)
  <2>1. ASSUME NEW t \in Int PROVE Using(E, t) <=> Using(D, t)
    BY StopAddsUse DEF E
  <2> QED
    BY <2>1 DEF Tells, TellsUse
<1>4. TellsLast(E, p)
  <2>1. \A s \in E : s.type \in Starting => \E e \in E : e.type \notin Starting /\ s.at < e.at
    BY <1>1 DEF E
  <2> QED
    BY <2>1 DEF Tells, TellsLast, E
<1> QED
  BY <1>2, <1>3, <1>4 DEF Tells, E

\* So the periods tell what was observed after one more observation.
LEMMA StepTells ==
  ASSUME NEW D \in SUBSET Observations, NEW o \in Observations, \A x \in D : x.at < o.at,
         NEW p, Tells(D, p)
  PROVE  Tells(D \union {o}, Step(p, o))
<1>1. p \in Seq(ActiveSpans)
  BY DEF Tells, Ordered
<1>2. (Len(p) > 0 /\ p[Len(p)].to = None) <=> IsOpen(p)
  BY <1>1 DEF IsOpen
<1>3. Step(p, o) = IF o.type \in Starting
                   THEN IF IsOpen(p) THEN p ELSE Append(p, [from |-> o.at, to |-> None])
                   ELSE IF IsOpen(p) THEN [p EXCEPT ![Len(p)].to = o.at] ELSE p
  BY <1>2 DEF Step
<1>4. CASE o.type \in Starting /\ IsOpen(p)
  BY <1>3, <1>4, StartTells
<1>5. CASE o.type \in Starting /\ ~IsOpen(p)
  BY <1>3, <1>5, OpeningTells
<1>6. CASE o.type \notin Starting /\ IsOpen(p)
  <2>1. Step(p, o) = [p EXCEPT ![Len(p)].to = o.at]
    BY <1>3, <1>6
  <2>2. Tells(D \union {o}, [p EXCEPT ![Len(p)].to = o.at])
    BY <1>6, ClosingTells
  <2> QED
    BY <2>1, <2>2, Zenon
<1>7. CASE o.type \notin Starting /\ ~IsOpen(p)
  BY <1>3, <1>7, StopTells
<1> QED
  BY <1>4, <1>5, <1>6, <1>7

-----------------------------------------------------------------------------
(***************************************************************************)
(* The days that are observed, and their periods.                          *)
(***************************************************************************)
LEMMA StepKeeps ==
  ASSUME NEW p \in Seq(ActiveSpans), NEW o \in Observations
  PROVE  Step(p, o) \in Seq(ActiveSpans)
<1>1. o.at \in Times /\ [from |-> o.at, to |-> None] \in ActiveSpans
  BY DEF Observations, ActiveSpans
<1>2. ASSUME Len(p) > 0 PROVE [p EXCEPT ![Len(p)].to = o.at] \in Seq(ActiveSpans)
  <2>1. p[Len(p)] \in ActiveSpans
    BY <1>2
  <2>2. [p[Len(p)] EXCEPT !.to = o.at] \in ActiveSpans
    BY <1>1, <2>1 DEF ActiveSpans
  <2> QED
    BY <1>2, <2>2
<1>3. Append(p, [from |-> o.at, to |-> None]) \in Seq(ActiveSpans)
  BY <1>1
<1> QED
  BY <1>2, <1>3 DEF Step

\* The periods of a day are made observation by observation.
LEMMA PeriodsAreMade ==
  ASSUME NEW day \in Seq(Observations)
  PROVE  \E made \in [0 .. Len(day) -> Seq(ActiveSpans)] :
           /\ made[0] = <<>> /\ made[Len(day)] = ActivePeriods(day)
           /\ \A k \in 1 .. Len(day) : made[k] = Step(made[k - 1], day[k])
<1> DEFINE S == DOMAIN day
           n == Len(day)
           X == Seq(ActiveSpans)
           Folds(h) == h = [s \in SUBSET S |-> IF s = {} THEN <<>>
                                               ELSE Step(h[s \ {Max(s)}], day[Max(s)])]
           step == [k \in 1 .. n |-> [p \in X |-> Step(p, day[k])]]
<1>1. n \in Nat /\ S = 1 .. n /\ \A k \in 1 .. n : day[k] \in Observations
  OBVIOUS
<1>2. step \in [1 .. n -> [X -> X]]
  BY <1>1, StepKeeps
<1>3. \A k \in 1 .. n : \A p \in X : step[k][p] = Step(p, day[k])
  OBVIOUS
<1>4. <<>> \in X
  OBVIOUS
<1>5. ActivePeriods(day) = (CHOOSE h : Folds(h))[S]
  BY Zenon DEF ActivePeriods, FoldLeft, MapThenFoldSet
<1> HIDE DEF step, X, n
<1>6. PICK h \in [SUBSET (1 .. n) -> X] :
        \A s \in SUBSET (1 .. n) : Made(h, s, <<>>, step)
  BY <1>1, <1>2, <1>4, FoldExists
<1>7. Folds(h)
  <2>1. ASSUME NEW s \in SUBSET S
        PROVE  h[s] = IF s = {} THEN <<>> ELSE Step(h[s \ {Max(s)}], day[Max(s)])
    <3>1. CASE s = {}
      BY <1>1, <1>6, <3>1 DEF Made
    <3>2. CASE s # {}
      <4>1. Max(s) \in 1 .. n /\ s \ {Max(s)} \in SUBSET (1 .. n)
        BY <1>1, <3>2, LastPlace
      <4> QED
        BY <1>1, <1>3, <1>6, <3>2, <4>1 DEF Made
    <3> QED
      BY <3>1, <3>2
  <2>2. h = [s \in SUBSET S |-> h[s]]
    BY <1>1, <1>6
  <2>3. [s \in SUBSET S |-> h[s]]
          = [s \in SUBSET S |-> IF s = {} THEN <<>> ELSE Step(h[s \ {Max(s)}], day[Max(s)])]
    BY <2>1
  <2> QED
    BY <2>2, <2>3, Zenon
<1>8. PICK it : it = CHOOSE i : Folds(i)
  OBVIOUS
<1>9. Folds(it)
  BY <1>7, <1>8, Zenon
<1>10. it[{}] = <<>>
  BY <1>9, Zenon
<1>11. ASSUME NEW s \in SUBSET (1 .. n), s # {}, it[s \ {Max(s)}] \in X
       PROVE  it[s] = step[Max(s)][it[s \ {Max(s)}]]
  <2>1. it[s] = Step(it[s \ {Max(s)}], day[Max(s)])
    BY <1>1, <1>9, <1>11, Zenon
  <2>2. Max(s) \in 1 .. n
    BY <1>1, <1>11, LastPlace
  <2> QED
    BY <1>3, <1>11, <2>1, <2>2
<1> HIDE DEF Folds, S
<1>12. PICK made \in [0 .. n -> X] :
         /\ made[0] = <<>> /\ made[n] = it[1 .. n]
         /\ \A k \in 1 .. n : made[k] = step[k][made[k - 1]]
  <2>1. PICK base \in X : base = <<>>
    BY <1>4
  <2>2. Advances(it, n, X, base, step) /\ n \in Nat
    BY <1>1, <1>10, <1>11, <2>1 DEF Advances
  <2>3. Stepwise(it[1 .. n], n, X, base, step)
    BY <1>2, <2>2, FoldAdvances
  <2> QED
    BY <2>1, <2>3 DEF Stepwise
<1>13. made[n] = ActivePeriods(day)
  BY <1>1, <1>5, <1>8, <1>12
<1>14. ASSUME NEW k \in 1 .. n PROVE made[k] = Step(made[k - 1], day[k])
  <2>1. k - 1 \in 0 .. n
    BY <1>1
  <2>2. made[k - 1] \in X
    BY <1>12, <2>1
  <2> QED
    BY <1>3, <1>12, <2>2
<1> QED
  BY <1>12, <1>13, <1>14 DEF X, n

\* One observation at a time, in the order of their times.
Ascending(day) ==
  /\ day \in Seq(Observations)
  /\ \A i, j \in 1 .. Len(day) : i < j => day[i].at < day[j].at

LEMMA ObservedOneMore ==
  ASSUME NEW day, Ascending(day), NEW t \in Times, NEW type \in ObservationTypes,
         \A i \in 1 .. Len(day) : day[i].at < t
  PROVE  /\ Ascending(Append(day, [type |-> type, at |-> t]))
         /\ \A i \in 1 .. Len(Append(day, [type |-> type, at |-> t])) :
              Append(day, [type |-> type, at |-> t])[i].at < t + 1
<1> DEFINE o == [type |-> type, at |-> t]
           q == Append(day, o)
<1>1. o \in Observations /\ o.at = t
  BY DEF Observations
<1>2. day \in Seq(Observations) /\ Len(day) \in Nat /\ t \in Int
  BY TimesAreNatural DEF Ascending
<1> HIDE DEF o
<1>3. /\ q \in Seq(Observations) /\ Len(q) = Len(day) + 1 /\ q[Len(day) + 1] = o
      /\ \A i \in 1 .. Len(day) : q[i] = day[i] /\ q[i].at \in Int
  <2>1. \A i \in 1 .. Len(day) : day[i] \in Observations
    BY <1>2
  <2>2. \A i \in 1 .. Len(day) : day[i].at \in Int
    BY <2>1, TimesAreNatural DEF Observations
  <2> QED
    BY <1>1, <1>2, <2>2
<1> HIDE DEF q
<1>4. ASSUME NEW i \in 1 .. Len(q), NEW j \in 1 .. Len(q), i < j PROVE q[i].at < q[j].at
  <2>1. i \in 1 .. Len(day)
    BY <1>2, <1>3, <1>4
  <2>2. CASE j = Len(day) + 1
    BY <1>1, <1>3, <2>1, <2>2
  <2>3. CASE j \in 1 .. Len(day)
    BY <1>3, <1>4, <2>1, <2>3 DEF Ascending
  <2> QED
    BY <1>2, <1>3, <2>2, <2>3
<1>5. ASSUME NEW i \in 1 .. Len(q) PROVE q[i].at < t + 1
  <2>1. CASE i = Len(day) + 1
    BY <1>1, <1>2, <1>3, <2>1
  <2>2. CASE i \in 1 .. Len(day)
    <3>1. q[i].at < t /\ q[i].at \in Int
      BY <1>3, <2>2
    <3> QED
      BY <1>2, <3>1
  <2> QED
    BY <1>2, <1>3, <2>1, <2>2
<1> QED
  BY <1>3, <1>4, <1>5 DEF Ascending, q, o

LEMMA DaysAscend ==
  ASSUME NEW day \in DaysObserved PROVE Ascending(day)
<1>1. PICK f \in [Times -> ObservationTypes \union {None}] : day = Observed(f)
  BY DEF DaysObserved
<1> DEFINE n == LastTick + 1
           times == [m \in 1 .. LastTick + 1 |-> m - 1]
           S == DOMAIN times
           X == Seq(Observations)
           Op(d, t) == IF f[t] = None THEN d ELSE Append(d, [type |-> f[t], at |-> t])
           Folds(h) == h = [s \in SUBSET S |-> IF s = {} THEN <<>>
                                               ELSE Op(h[s \ {Max(s)}], times[Max(s)])]
           step == [k \in 1 .. n |-> [d \in X |-> Op(d, k - 1)]]
<1>2. n \in Nat /\ S = 1 .. n /\ \A k \in 1 .. n : times[k] = k - 1 /\ k - 1 \in Times
  BY PcSessionsAssumption DEF Times
<1>3. ASSUME NEW d \in X, NEW t \in Times PROVE Op(d, t) \in X
  <2>1. CASE f[t] = None
    BY <2>1
  <2>2. CASE f[t] # None
    <3>1. [type |-> f[t], at |-> t] \in Observations
      BY <2>2 DEF Observations
    <3> QED
      BY <2>2, <3>1
  <2> QED
    BY <2>1, <2>2
<1>4. Observed(f) = (CHOOSE h : Folds(h))[S]
  BY Zenon DEF Observed, FoldLeft, MapThenFoldSet
<1> HIDE DEF Op
<1>5. step \in [1 .. n -> [X -> X]]
  BY <1>2, <1>3
<1>6. \A k \in 1 .. n : \A d \in X : step[k][d] = Op(d, k - 1)
  OBVIOUS
<1>7. <<>> \in X
  OBVIOUS
<1> HIDE DEF step, X, n, times
<1>8. PICK h \in [SUBSET (1 .. n) -> X] : \A s \in SUBSET (1 .. n) : Made(h, s, <<>>, step)
  BY <1>2, <1>5, <1>7, FoldExists
<1>9. Folds(h)
  <2>1. ASSUME NEW s \in SUBSET S
        PROVE  h[s] = IF s = {} THEN <<>> ELSE Op(h[s \ {Max(s)}], times[Max(s)])
    <3>1. CASE s = {}
      BY <1>2, <1>8, <3>1 DEF Made
    <3>2. CASE s # {}
      <4>1. Max(s) \in 1 .. n /\ s \ {Max(s)} \in SUBSET (1 .. n)
        BY <1>2, <3>2, LastPlace
      <4> QED
        BY <1>2, <1>6, <1>8, <3>2, <4>1 DEF Made
    <3> QED
      BY <3>1, <3>2
  <2>2. h = [s \in SUBSET S |-> h[s]]
    BY <1>2, <1>8
  <2>3. [s \in SUBSET S |-> h[s]]
          = [s \in SUBSET S |-> IF s = {} THEN <<>> ELSE Op(h[s \ {Max(s)}], times[Max(s)])]
    BY <2>1
  <2> QED
    BY <2>2, <2>3, Zenon
<1>10. PICK it : it = CHOOSE i : Folds(i)
  OBVIOUS
<1>11. Folds(it)
  BY <1>9, <1>10, Zenon
<1>12. it[{}] = <<>>
  BY <1>11, Zenon
<1>13. ASSUME NEW s \in SUBSET (1 .. n), s # {}, it[s \ {Max(s)}] \in X
       PROVE  it[s] = step[Max(s)][it[s \ {Max(s)}]]
  <2>1. it[s] = Op(it[s \ {Max(s)}], times[Max(s)])
    BY <1>2, <1>11, <1>13, Zenon
  <2>2. Max(s) \in 1 .. n
    BY <1>2, <1>13, LastPlace
  <2> QED
    BY <1>2, <1>6, <1>13, <2>1, <2>2
<1>14. it[S] = day
  BY <1>1, <1>4, <1>10
<1> HIDE DEF Folds, S
<1>15. PICK made \in [0 .. n -> X] :
         /\ made[0] = <<>> /\ made[n] = it[1 .. n]
         /\ \A k \in 1 .. n : made[k] = step[k][made[k - 1]]
  <2>1. Advances(it, n, X, <<>>, step)
    BY <1>12, <1>13 DEF Advances
  <2> QED
    BY <1>2, <1>5, <1>7, <2>1, FoldAdvances DEF Stepwise
<1> DEFINE Q == {k \in 0 .. n : Ascending(made[k]) /\ \A i \in 1 .. Len(made[k]) : made[k][i].at < k}
<1>16. 0 \in Q
  <2>1. 0 \in 0 .. n /\ made[0] = <<>> /\ <<>> \in Seq(Observations) /\ 1 .. Len(<<>>) = {}
    BY <1>2, <1>15
  <2> QED
    BY <2>1 DEF Ascending
<1>17. ASSUME NEW k \in Nat, k < n, k \in Q PROVE k + 1 \in Q
  <2>1. k + 1 \in 1 .. n /\ (k + 1) - 1 = k /\ k \in 0 .. n /\ k + 1 \in 0 .. n /\ k \in Times
    <3> HIDE DEF Q
    <3>1. k + 1 \in 1 .. n /\ (k + 1) - 1 = k /\ k \in 0 .. n /\ k + 1 \in 0 .. n
      BY <1>2, <1>17
    <3> QED
      BY <1>2, <3>1
  <2>2. made[k + 1] = Op(made[k], k)
    BY <1>6, <1>15, <2>1
  <2>3. CASE f[k] = None
    <3>1. made[k + 1] = made[k]
      BY <2>2, <2>3 DEF Op
    <3>2. ASSUME NEW i \in 1 .. Len(made[k]) PROVE made[k][i].at < k + 1
      <4>1. made[k][i] \in Observations /\ made[k][i].at < k
        BY <1>17 DEF Ascending
      <4>2. made[k][i].at \in Int
        BY <4>1, TimesAreNatural DEF Observations
      <4> QED
        BY <4>1, <4>2
    <3> QED
      BY <1>17, <2>1, <3>1, <3>2
  <2>4. CASE f[k] # None
    <3>1. made[k + 1] = Append(made[k], [type |-> f[k], at |-> k])
      BY <2>2, <2>4 DEF Op
    <3>2. f[k] \in ObservationTypes
      BY <2>1, <2>4
    <3>3. Ascending(made[k]) /\ \A i \in 1 .. Len(made[k]) : made[k][i].at < k
      BY <1>17
    <3>4. /\ Ascending(made[k + 1])
          /\ \A i \in 1 .. Len(made[k + 1]) : made[k + 1][i].at < k + 1
      BY <2>1, <3>1, <3>2, <3>3, ObservedOneMore
    <3> QED
      BY <2>1, <3>4
  <2> QED
    BY <2>3, <2>4
<1>18. n \in 0 .. n
  BY <1>2
<1> HIDE DEF Q
<1>19. n \in Q
  BY <1>2, <1>16, <1>17, <1>18, Climb
<1> QED
  BY <1>2, <1>14, <1>15, <1>19 DEF Q

\* The periods of a day tell what was observed.
LEMMA DayIsTold ==
  ASSUME NEW day, Ascending(day)
  PROVE  Tells(ToSet(day), ActivePeriods(day))
<1> DEFINE n == Len(day)
           Upto(k) == {day[i] : i \in 1 .. k}
<1>1. n \in Nat /\ day \in Seq(Observations) /\ \A i \in 1 .. n : day[i] \in Observations
  BY DEF Ascending
<1>2. PICK made \in [0 .. n -> Seq(ActiveSpans)] :
        /\ made[0] = <<>> /\ made[n] = ActivePeriods(day)
        /\ \A k \in 1 .. n : made[k] = Step(made[k - 1], day[k])
  BY <1>1, PeriodsAreMade
<1> DEFINE Q == {k \in 0 .. n : Tells(Upto(k), made[k])}
<1> HIDE DEF n
<1>3. 0 \in Q
  <2>1. Upto(0) = {} /\ 0 \in 0 .. n /\ made[0] = <<>> /\ 1 .. Len(<<>>) = {}
    BY <1>1, <1>2
  <2>2. Tells({}, <<>>)
    BY <2>1 DEF Tells, Ordered, TellsOpenings, TellsUse, TellsLast, IsOpen, Using
  <2> QED
    BY <2>1, <2>2
<1>4. ASSUME NEW k \in Nat, k < n, k \in Q PROVE k + 1 \in Q
  <2>1. k + 1 \in 1 .. n /\ (k + 1) - 1 = k /\ k + 1 \in 0 .. n
    <3> HIDE DEF Q
    <3> QED
      BY <1>1, <1>4
  <2>2. Upto(k + 1) = Upto(k) \union {day[k + 1]}
    <3>1. 1 .. k + 1 = (1 .. k) \union {k + 1}
      OBVIOUS
    <3> QED
      BY <3>1
  <2>3. ASSUME NEW x \in Upto(k) PROVE x \in Observations /\ x.at < day[k + 1].at
    <3>1. PICK i \in 1 .. k : x = day[i]
      OBVIOUS
    <3>2. i \in 1 .. n /\ i < k + 1
      BY <1>1, <1>4
    <3> QED
      BY <1>1, <2>1, <3>1, <3>2 DEF Ascending, n
  <2>4. Upto(k) \in SUBSET Observations
    BY <2>3
  <2> HIDE DEF Upto
  <2>5. Tells(Upto(k) \union {day[k + 1]}, Step(made[k], day[k + 1]))
    BY <1>1, <1>4, <2>1, <2>3, <2>4, StepTells
  <2> QED
    BY <1>2, <2>1, <2>2, <2>5
<1>5. n \in 0 .. n /\ Upto(n) = ToSet(day)
  BY <1>1 DEF ToSet, n
<1> HIDE DEF Q
<1>6. n \in Q
  BY <1>1, <1>3, <1>4, <1>5, Climb
<1> QED
  BY <1>2, <1>5, <1>6 DEF Q

-----------------------------------------------------------------------------
(***************************************************************************)
(* What a day adds up to.                                                  *)
(***************************************************************************)
LEMMA LargerOf ==
  ASSUME NEW a \in Int, NEW b \in Int PROVE Max({a, b}) = IF a >= b THEN a ELSE b
<1> DEFINE top == IF a >= b THEN a ELSE b
<1>1. top \in {a, b} /\ \A y \in {a, b} : top >= y
  OBVIOUS
<1>2. \A x \in {a, b} : (\A y \in {a, b} : x >= y) => x = top
  OBVIOUS
<1> HIDE DEF top
<1>3. Max({a, b}) = top
  BY <1>1, <1>2 DEF Max
<1> QED
  BY <1>3 DEF top

LEMMA SmallerOf ==
  ASSUME NEW a \in Int, NEW b \in Int PROVE Min({a, b}) = IF a <= b THEN a ELSE b
<1> DEFINE low == IF a <= b THEN a ELSE b
<1>1. low \in {a, b} /\ \A y \in {a, b} : low <= y
  OBVIOUS
<1>2. \A x \in {a, b} : (\A y \in {a, b} : x <= y) => x = low
  OBVIOUS
<1> HIDE DEF low
<1>3. Min({a, b}) = low
  BY <1>1, <1>2 DEF Min
<1> QED
  BY <1>3 DEF low

LEMMA EndIsTime ==
  ASSUME NEW p \in ActiveSpans PROVE p.from \in Int /\ EndOf(p) \in Int
  BY TimesAreNatural DEF EndOf, ActiveSpans

\* Minutes that stand for some ticks, in some stretches, but for half a minute for each.
Close(minutes, ticks, stretches) ==
  /\ minutes \in Int /\ ticks \in Int /\ stretches \in Nat
  /\ 2 * (minutes * TicksPerMinute - ticks) <= stretches * TicksPerMinute
  /\ stretches = 0 => minutes = 0 /\ ticks = 0
  /\ stretches # 0 => 2 * (ticks - minutes * TicksPerMinute) < stretches * TicksPerMinute

LEMMA QuotientFits ==
  ASSUME NEW a \in Int, NEW b \in Nat \ {0}
  PROVE  /\ a \div b \in Int
         /\ (a \div b) * b <= a /\ a < (a \div b) * b + b
  BY SMTT(30)

LEMMA RoundedIsClose ==
  ASSUME NEW t \in Int PROVE Close(Rounded(t), t, 1) /\ (t = 0 => Rounded(t) = 0)
<1> DEFINE P == TicksPerMinute
<1>1. P \in Nat \ {0}
  BY PcSessionsAssumption
<1>2. PICK m : m = Rounded(t)
  OBVIOUS
<1>3. PICK a \in Int : a = 2 * t + P
  BY <1>1
<1>4. PICK b \in Nat \ {0} : b = 2 * P
  BY <1>1
<1>5. m = a \div b
  BY <1>2, <1>3, <1>4 DEF Rounded
<1>6. m \in Int /\ m * b <= a /\ a < m * b + b
  BY <1>5, QuotientFits
<1>7. m * b = 2 * (m * P)
  BY <1>1, <1>4, <1>6
<1>8. PICK c \in Int : c = m * P
  BY <1>1, <1>6
<1> HIDE DEF P
<1>9. 2 * (c - t) <= P /\ 2 * (t - c) < P
  BY <1>1, <1>3, <1>4, <1>6, <1>7, <1>8
<1>10. 1 * P = P
  BY <1>1
<1>11. Close(m, t, 1)
  BY <1>6, <1>8, <1>9, <1>10 DEF Close, P
<1>12. t = 0 => m = 0
  <2> SUFFICES ASSUME t = 0 PROVE m = 0
    OBVIOUS
  <2>1. 2 * c <= P /\ 2 * (0 - c) < P
    BY <1>1, <1>8, <1>9
  <2>2. m >= 1 => c >= P
    BY <1>1, <1>6, <1>8
  <2>3. m <= -1 => c <= 0 - P
    BY <1>1, <1>6, <1>8
  <2> QED
    BY <1>1, <1>6, <2>1, <2>2, <2>3
<1> QED
  BY <1>2, <1>11, <1>12

LEMMA CloseToBoth ==
  ASSUME NEW m, NEW t, NEW s, Close(m, t, s), NEW n, NEW u, NEW r, Close(n, u, r)
  PROVE  Close(m + n, t + u, s + r)
<1> DEFINE P == TicksPerMinute
<1>1. P \in Nat \ {0}
  BY PcSessionsAssumption
<1>2. m \in Int /\ n \in Int /\ t \in Int /\ u \in Int /\ s \in Nat /\ r \in Nat
  BY DEF Close
<1>3. (m + n) * P = m * P + n * P /\ (s + r) * P = s * P + r * P
  BY <1>1, <1>2
<1>4. PICK a \in Int, b \in Int, c \in Int, d \in Int :
        a = m * P /\ b = n * P /\ c = s * P /\ d = r * P
  BY <1>1, <1>2
<1>5. 2 * (a - t) <= c /\ 2 * (b - u) <= d
  BY <1>4 DEF Close
<1>6. s # 0 => 2 * (t - a) < c
  BY <1>4 DEF Close
<1>7. r # 0 => 2 * (u - b) < d
  BY <1>4 DEF Close
<1>8. s = 0 => m = 0 /\ t = 0 /\ a = 0 /\ c = 0
  BY <1>1, <1>4 DEF Close
<1>9. r = 0 => n = 0 /\ u = 0 /\ b = 0 /\ d = 0
  BY <1>1, <1>4 DEF Close
<1> HIDE DEF P
<1>10. 2 * ((a + b) - (t + u)) <= c + d
  BY <1>2, <1>5
<1>11. s + r = 0 => m + n = 0 /\ t + u = 0
  BY <1>2, <1>8, <1>9
<1>12. s + r # 0 => 2 * ((t + u) - (a + b)) < c + d
  BY <1>2, <1>6, <1>7, <1>8, <1>9
<1>13. m + n \in Int /\ t + u \in Int /\ s + r \in Nat
  BY <1>2
<1>14. (m + n) * P = a + b /\ (s + r) * P = c + d
  BY <1>3, <1>4
<1> QED
  BY <1>10, <1>11, <1>12, <1>13, <1>14 DEF Close, P

\* The ticks of a period that lie between two times, and the first of them.
Within(p, from, to) == {t \in from .. to - 1 : p.from <= t /\ t < EndOf(p)}

Begins(p, from, to) == {t \in Within(p, from, to) : t = from \/ t = p.from}

LEMMA OverlapCounts ==
  ASSUME NEW p \in ActiveSpans, NEW from \in Int, NEW to \in Int
  PROVE  /\ IsFiniteSet(Within(p, from, to)) /\ IsFiniteSet(Begins(p, from, to))
         /\ OverlapMinutes(p, from, to) \in Int
         /\ Close(OverlapMinutes(p, from, to), Cardinality(Within(p, from, to)),
                  Cardinality(Begins(p, from, to)))
<1> DEFINE first == IF p.from >= from THEN p.from ELSE from
           end == IF EndOf(p) <= to THEN EndOf(p) ELSE to
<1>1. p.from \in Int /\ EndOf(p) \in Int
  BY EndIsTime
<1>2. first \in Int /\ end \in Int /\ end - first \in Int
  BY <1>1
<1>3. Within(p, from, to) = first .. end - 1
  <2>1. \A t \in Int : (from <= t /\ t <= to - 1 /\ p.from <= t /\ t < EndOf(p))
                         <=> (first <= t /\ t <= end - 1)
    BY <1>1
  <2> HIDE DEF first, end
  <2>2. \A t : t \in Within(p, from, to) <=> t \in first .. end - 1
    BY <1>2, <2>1 DEF Within
  <2> QED
    BY <2>2
<1>4. Max({p.from, from}) = first /\ Min({EndOf(p), to}) = end
  BY <1>1, LargerOf, SmallerOf
<1>5. \A t \in Within(p, from, to) : t \in Begins(p, from, to) <=> t = first
  BY <1>1, <1>3 DEF Begins, Within
<1> HIDE DEF first, end
<1>6. OverlapMinutes(p, from, to) = Rounded(Max({0, end - first}))
  BY <1>4 DEF OverlapMinutes
<1>7. Max({0, end - first}) = IF 0 >= end - first THEN 0 ELSE end - first
  BY <1>2, LargerOf
<1>8. end - 1 \in Int
  BY <1>2
<1>9. /\ IsFiniteSet(first .. end - 1)
      /\ Cardinality(first .. end - 1) =
           IF first > end - 1 THEN 0 ELSE (end - 1) - first + 1
  BY <1>2, <1>8, FS_Interval
<1>10. PICK ticks \in Int : ticks = Cardinality(Within(p, from, to)) /\ ticks = Max({0, end - first})
  BY <1>2, <1>3, <1>7, <1>9
<1>11. Close(Rounded(ticks), ticks, 1) /\ (ticks = 0 => Rounded(ticks) = 0)
  BY RoundedIsClose
<1>12. CASE end <= first
  <2>1. Within(p, from, to) = {} /\ Begins(p, from, to) = {}
    <3>1. first .. end - 1 = {}
      BY <1>2, <1>12
    <3> QED
      BY <1>3, <3>1 DEF Begins
  <2>2. ticks = 0
    BY <2>1, <1>10, FS_EmptySet
  <2>3. Close(0, 0, 0)
    BY PcSessionsAssumption DEF Close
  <2>4. OverlapMinutes(p, from, to) = 0
    BY <1>6, <1>10, <1>11, <2>2
  <2>5. IsFiniteSet({}) /\ Cardinality({}) = 0
    BY FS_EmptySet
  <2> QED
    BY <2>1, <2>3, <2>4, <2>5
<1>13. CASE first < end
  <2>1. first \in Within(p, from, to)
    BY <1>2, <1>3, <1>13
  <2>2. Begins(p, from, to) = {first}
    BY <1>5, <2>1 DEF Begins
  <2>3. IsFiniteSet({first}) /\ Cardinality({first}) = 1
    BY FS_Singleton
  <2>4. OverlapMinutes(p, from, to) = Rounded(ticks)
    BY <1>6, <1>10
  <2>5. Rounded(ticks) \in Int
    BY <1>11 DEF Close
  <2> QED
    BY <1>3, <1>9, <1>10, <1>11, <2>2, <2>3, <2>4, <2>5
<1> QED
  BY <1>2, <1>12, <1>13

LEMMA SplitCount ==
  ASSUME NEW S, NEW T, IsFiniteSet(S), IsFiniteSet(T), S \intersect T = {}
  PROVE  IsFiniteSet(S \union T) /\ Cardinality(S \union T) = Cardinality(S) + Cardinality(T)
<1>1. /\ IsFiniteSet(S \union T)
      /\ Cardinality(S \union T) = Cardinality(S) + Cardinality(T) - Cardinality(S \intersect T)
  BY FS_Union
<1>2. Cardinality({}) = 0 /\ Cardinality(S) \in Nat /\ Cardinality(T) \in Nat
  BY FS_EmptySet, FS_CardinalityType
<1>3. Cardinality(S \intersect T) = 0
  BY <1>2
<1>4. PICK a \in Nat, b \in Nat : a = Cardinality(S) /\ b = Cardinality(T)
  BY <1>2
<1>5. Cardinality(S \union T) = a + b - 0
  BY <1>1, <1>3, <1>4
<1> QED
  BY <1>1, <1>4, <1>5

Total(periods, from, to) ==
  FoldLeft(LAMBDA n, p : n + OverlapMinutes(p, from, to), 0, periods)

\* The sum over the periods of a day is made period by period.
LEMMA TotalIsMade ==
  ASSUME NEW periods \in Seq(ActiveSpans), NEW from \in Int, NEW to \in Int
  PROVE  \E made \in [0 .. Len(periods) -> Int] :
           /\ made[0] = 0 /\ made[Len(periods)] = Total(periods, from, to)
           /\ \A k \in 1 .. Len(periods) :
                made[k] = made[k - 1] + OverlapMinutes(periods[k], from, to)
<1> DEFINE S == DOMAIN periods
           n == Len(periods)
           Add(x, k) == x + OverlapMinutes(periods[k], from, to)
           Folds(h) == h = [s \in SUBSET S |-> IF s = {} THEN 0
                                               ELSE Add(h[s \ {Max(s)}], Max(s))]
           step == [k \in 1 .. n |-> [x \in Int |-> Add(x, k)]]
<1>1. n \in Nat /\ S = 1 .. n /\ \A k \in 1 .. n : periods[k] \in ActiveSpans
  OBVIOUS
<1>2. ASSUME NEW k \in 1 .. n, NEW x \in Int PROVE Add(x, k) \in Int
  <2>1. OverlapMinutes(periods[k], from, to) \in Int
    BY <1>1, OverlapCounts
  <2> QED
    BY <2>1
<1>3. Total(periods, from, to) = (CHOOSE h : Folds(h))[S]
  BY Zenon DEF Total, FoldLeft, MapThenFoldSet
<1> HIDE DEF Add
<1>4. step \in [1 .. n -> [Int -> Int]]
  BY <1>2
<1>5. \A k \in 1 .. n : \A x \in Int : step[k][x] = Add(x, k)
  OBVIOUS
<1> HIDE DEF step, n
<1>6. PICK h \in [SUBSET (1 .. n) -> Int] : \A s \in SUBSET (1 .. n) : Made(h, s, 0, step)
  <2>1. n \in Nat /\ 0 \in Int
    BY <1>1
  <2>2. PICK base \in Int : base = 0
    BY <2>1
  <2>3. \E h \in [SUBSET (1 .. n) -> Int] : \A s \in SUBSET (1 .. n) : Made(h, s, base, step)
    BY <1>4, <2>1, FoldExists
  <2> QED
    BY <2>2, <2>3
<1>7. Folds(h)
  <2>1. ASSUME NEW s \in SUBSET S
        PROVE  h[s] = IF s = {} THEN 0 ELSE Add(h[s \ {Max(s)}], Max(s))
    <3>1. CASE s = {}
      BY <1>1, <1>6, <3>1 DEF Made
    <3>2. CASE s # {}
      <4>1. Max(s) \in 1 .. n /\ s \ {Max(s)} \in SUBSET (1 .. n)
        BY <1>1, <3>2, LastPlace
      <4> QED
        BY <1>1, <1>5, <1>6, <3>2, <4>1 DEF Made
    <3> QED
      BY <3>1, <3>2
  <2>2. h = [s \in SUBSET S |-> h[s]]
    BY <1>1, <1>6
  <2>3. [s \in SUBSET S |-> h[s]]
          = [s \in SUBSET S |-> IF s = {} THEN 0 ELSE Add(h[s \ {Max(s)}], Max(s))]
    BY <2>1
  <2> QED
    BY <2>2, <2>3, Zenon
<1>8. PICK it : it = CHOOSE i : Folds(i)
  OBVIOUS
<1>9. Folds(it)
  BY <1>7, <1>8, Zenon
<1>10. it[{}] = 0
  BY <1>9, Zenon
<1>11. ASSUME NEW s \in SUBSET (1 .. n), s # {}, it[s \ {Max(s)}] \in Int
       PROVE  it[s] = step[Max(s)][it[s \ {Max(s)}]]
  <2>1. it[s] = Add(it[s \ {Max(s)}], Max(s))
    BY <1>1, <1>9, <1>11, Zenon
  <2>2. Max(s) \in 1 .. n
    BY <1>1, <1>11, LastPlace
  <2> QED
    BY <1>5, <1>11, <2>1, <2>2
<1> HIDE DEF Folds, S
<1>12. PICK made \in [0 .. n -> Int] :
         /\ made[0] = 0 /\ made[n] = it[1 .. n]
         /\ \A k \in 1 .. n : made[k] = step[k][made[k - 1]]
  <2>1. PICK base \in Int : base = 0
    OBVIOUS
  <2>2. Advances(it, n, Int, base, step) /\ n \in Nat
    BY <1>1, <1>10, <1>11, <2>1 DEF Advances
  <2>3. Stepwise(it[1 .. n], n, Int, base, step)
    BY <1>4, <2>2, FoldAdvances
  <2> QED
    BY <2>1, <2>3 DEF Stepwise
<1>13. made[n] = Total(periods, from, to)
  BY <1>1, <1>3, <1>8, <1>12
<1>14. ASSUME NEW k \in 1 .. n PROVE made[k] = Add(made[k - 1], k)
  <2>1. k - 1 \in 0 .. n
    BY <1>1
  <2>2. made[k - 1] \in Int
    BY <1>12, <2>1
  <2> QED
    BY <1>5, <1>12, <2>2
<1> QED
  BY <1>12, <1>13, <1>14 DEF n, Add

\* So it counts the ticks that lie in some period, as periods do not overlap, but for half a
\* minute for each period that reaches into the time.
LEMMA TotalCounts ==
  ASSUME NEW periods, Ordered(periods), NEW from \in Int, NEW to \in Int
  PROVE  Close(Total(periods, from, to),
               Cardinality({t \in from .. to - 1 :
                              \E i \in 1 .. Len(periods) : t \in Within(periods[i], from, to)}),
               Cardinality({t \in from .. to - 1 :
                              \E i \in 1 .. Len(periods) : t \in Begins(periods[i], from, to)}))
<1> DEFINE n == Len(periods)
           Counted(k) == {t \in from .. to - 1 :
                            \E i \in 1 .. k : t \in Within(periods[i], from, to)}
           Begun(k) == {t \in from .. to - 1 :
                            \E i \in 1 .. k : t \in Begins(periods[i], from, to)}
<1>1. n \in Nat /\ periods \in Seq(ActiveSpans) /\ \A i \in 1 .. n : periods[i] \in ActiveSpans
  BY DEF Ordered
<1>2. PICK made \in [0 .. n -> Int] :
        /\ made[0] = 0 /\ made[n] = Total(periods, from, to)
        /\ \A k \in 1 .. n : made[k] = made[k - 1] + OverlapMinutes(periods[k], from, to)
  BY <1>1, TotalIsMade
<1> DEFINE Q == {k \in 0 .. n : /\ IsFiniteSet(Counted(k)) /\ IsFiniteSet(Begun(k))
                                /\ Close(made[k], Cardinality(Counted(k)), Cardinality(Begun(k)))}
<1> HIDE DEF n
<1>3. 0 \in Q
  <2>1. Counted(0) = {} /\ Begun(0) = {} /\ 0 \in 0 .. n
    BY <1>1
  <2>2. Close(0, 0, 0)
    BY PcSessionsAssumption DEF Close
  <2>3. IsFiniteSet({}) /\ Cardinality({}) = 0
    BY FS_EmptySet
  <2> QED
    BY <1>2, <2>1, <2>2, <2>3
<1>4. ASSUME NEW k \in Nat, k < n, k \in Q PROVE k + 1 \in Q
  <2> DEFINE p == periods[k + 1]
             W == Within(p, from, to)
             B == Begins(p, from, to)
  <2>1. k + 1 \in 1 .. n /\ (k + 1) - 1 = k /\ k + 1 \in 0 .. n
    <3> HIDE DEF Q
    <3> QED
      BY <1>1, <1>4
  <2>2. Counted(k + 1) = Counted(k) \union W /\ Begun(k + 1) = Begun(k) \union B
    <3>1. 1 .. k + 1 = (1 .. k) \union {k + 1}
      OBVIOUS
    <3>2. W \subseteq from .. to - 1 /\ B \subseteq from .. to - 1
      BY DEF Within, Begins
    <3> QED
      BY <3>1, <3>2
  <2>3. Counted(k) \intersect W = {} /\ Begun(k) \intersect B = {}
    <3>1. ASSUME NEW i \in 1 .. k, NEW t \in Within(periods[i], from, to) PROVE t < p.from
      <4>1. i \in 1 .. n /\ k + 1 \in 1 .. n /\ i < k + 1
        BY <1>1, <2>1
      <4>2. periods[i].to # None /\ periods[i].to < p.from
        BY <4>1 DEF Ordered, n
      <4>3. t \in Int /\ t < periods[i].to
        BY <3>1, <4>2 DEF Within, EndOf
      <4>4. periods[i].to \in Int /\ p.from \in Int
        BY <1>1, <2>1, <4>1, <4>2, TimesAreNatural DEF ActiveSpans
      <4> QED
        BY <4>2, <4>3, <4>4
    <3>2. ASSUME NEW t \in W PROVE ~(t < p.from)
      <4>1. t \in Int /\ p.from <= t
        BY <3>2 DEF Within
      <4>2. periods[k + 1] \in ActiveSpans
        BY <1>1, <2>1
      <4>3. p.from \in Int
        BY <4>2, EndIsTime
      <4> QED
        BY <4>1, <4>3
    <3>3. Begun(k) \subseteq Counted(k) /\ B \subseteq W
      BY DEF Begins
    <3>4. Counted(k) \intersect W = {}
      BY <3>1, <3>2
    <3> HIDE DEF W, B, Counted, Begun
    <3> QED
      BY <3>3, <3>4
  <2>4. p \in ActiveSpans
    BY <1>1, <2>1
  <2>5. /\ IsFiniteSet(W) /\ IsFiniteSet(B) /\ OverlapMinutes(p, from, to) \in Int
        /\ Close(OverlapMinutes(p, from, to), Cardinality(W), Cardinality(B))
    BY <2>4, OverlapCounts
  <2>6. /\ IsFiniteSet(Counted(k)) /\ IsFiniteSet(Begun(k))
        /\ Close(made[k], Cardinality(Counted(k)), Cardinality(Begun(k)))
    BY <1>4
  <2>7. made[k + 1] = made[k] + OverlapMinutes(p, from, to)
    BY <1>2, <2>1 DEF p
  <2> HIDE DEF Counted, Begun, p, W, B
  <2>8. /\ IsFiniteSet(Counted(k) \union W)
        /\ Cardinality(Counted(k) \union W) = Cardinality(Counted(k)) + Cardinality(W)
    BY <2>3, <2>5, <2>6, SplitCount
  <2>9. /\ IsFiniteSet(Begun(k) \union B)
        /\ Cardinality(Begun(k) \union B) = Cardinality(Begun(k)) + Cardinality(B)
    BY <2>3, <2>5, <2>6, SplitCount
  <2>10. Close(made[k] + OverlapMinutes(p, from, to), Cardinality(Counted(k)) + Cardinality(W),
               Cardinality(Begun(k)) + Cardinality(B))
    BY <2>5, <2>6, CloseToBoth
  <2> QED
    BY <2>1, <2>2, <2>7, <2>8, <2>9, <2>10
<1>5. n \in 0 .. n
  BY <1>1
<1> HIDE DEF Q
<1>6. n \in Q
  BY <1>1, <1>3, <1>4, <1>5, Climb
<1> QED
  BY <1>2, <1>6 DEF Q, n

\* The reference counts the same ticks and the same stretches.
LEMMA MinutesAgree ==
  ASSUME NEW day, Ascending(day), NEW from \in Int, NEW to \in Int
  PROVE  Close(Total(ActivePeriods(day), from, to), Cardinality(TicksInUse(day, from, to)),
               Cardinality(Stretches(day, from, to)))
<1> DEFINE p == ActivePeriods(day)
           n == Len(p)
<1>1. Ordered(p) /\ TellsUse(ToSet(day), p)
  BY DayIsTold DEF Tells
<1> HIDE DEF p
<1>2. ASSUME NEW i \in 1 .. n
      PROVE  p[i] \in ActiveSpans /\ p[i].from \in Int /\ EndOf(p[i]) \in Int
  <2>1. p[i] \in ActiveSpans
    BY <1>1 DEF Ordered
  <2> QED
    BY <2>1, EndIsTime
<1>3. ASSUME NEW t \in Int
      PROVE  InUse(day, t) <=> \E i \in 1 .. n : p[i].from <= t /\ t < EndOf(p[i])
  <2>1. InUse(day, t) <=> Using(ToSet(day), t)
    BY DEF InUse, Using
  <2>2. Using(ToSet(day), t) <=>
          \E i \in 1 .. n : p[i].to # None /\ p[i].from <= t /\ t < p[i].to
    BY <1>1 DEF TellsUse
  <2>3. ASSUME NEW i \in 1 .. n
        PROVE  p[i].from <= t /\ t < EndOf(p[i]) <=> p[i].to # None /\ p[i].from <= t /\ t < p[i].to
    BY <1>2 DEF EndOf
  <2> QED
    BY <2>1, <2>2, <2>3
<1>4. ASSUME NEW t \in from .. to - 1
      PROVE  InUse(day, t) <=> \E i \in 1 .. n : t \in Within(p[i], from, to)
  <2>1. t \in Int
    OBVIOUS
  <2> QED
    BY <1>3, <2>1 DEF Within
<1>5. ASSUME NEW t \in from .. to - 1, NEW i \in 1 .. n, t \in Within(p[i], from, to)
      PROVE  t = from \/ t = p[i].from <=> t = from \/ ~InUse(day, t - 1)
  <2>1. t \in Int /\ t - 1 \in Int /\ p[i].from <= t /\ t < EndOf(p[i])
    BY <1>5 DEF Within
  <2>2. ASSUME t = p[i].from PROVE ~InUse(day, t - 1)
    <3> SUFFICES ASSUME NEW j \in 1 .. n, p[j].from <= t - 1, t - 1 < EndOf(p[j]) PROVE FALSE
      BY <1>3, <2>1
    <3>0. n \in Nat /\ i \in Int /\ j \in Int
      BY <1>1 DEF Ordered
    <3>1. i # j
      BY <2>1, <2>2
    <3>2. CASE i < j
      <4>1. p[i].to # None /\ p[i].to < p[j].from
        BY <1>1, <3>2 DEF Ordered
      <4>2. EndOf(p[i]) = p[i].to
        BY <4>1 DEF EndOf
      <4> QED
        BY <1>2, <2>1, <4>1, <4>2
    <3>3. CASE j < i
      <4>1. p[j].to # None /\ p[j].to < p[i].from
        BY <1>1, <3>3 DEF Ordered
      <4>2. EndOf(p[j]) = p[j].to
        BY <4>1 DEF EndOf
      <4> QED
        BY <1>2, <2>1, <2>2, <4>1, <4>2
    <3> QED
      BY <3>0, <3>1, <3>2, <3>3
  <2>3. ASSUME t # p[i].from PROVE InUse(day, t - 1)
    <3>1. p[i].from <= t - 1 /\ t - 1 < EndOf(p[i])
      BY <1>2, <2>1, <2>3
    <3> QED
      BY <1>3, <2>1, <3>1
  <2> QED
    BY <2>2, <2>3
<1>6. TicksInUse(day, from, to) =
        {t \in from .. to - 1 : \E i \in 1 .. n : t \in Within(p[i], from, to)}
  BY <1>4 DEF TicksInUse
<1>7. Stretches(day, from, to) =
        {t \in from .. to - 1 : \E i \in 1 .. n : t \in Begins(p[i], from, to)}
  <2>1. ASSUME NEW t \in from .. to - 1
        PROVE  t \in Stretches(day, from, to) <=>
                 \E i \in 1 .. n : t \in Begins(p[i], from, to)
    BY <1>4, <1>5 DEF Stretches, TicksInUse, Begins
  <2>2. Stretches(day, from, to) \subseteq from .. to - 1
    BY DEF Stretches, TicksInUse
  <2> QED
    BY <2>1, <2>2
<1> QED
  BY <1>1, <1>6, <1>7, TotalCounts DEF p

\* When the use of a day began and ended.
LEMMA MomentsAgree ==
  ASSUME NEW day, Ascending(day), NEW p, p = ActivePeriods(day)
  PROVE  /\ p \in Seq(ActiveSpans)
         /\ p = <<>> => Moments(day) = {}
         /\ p # <<>> => /\ Moments(day) # {}
                        /\ p[1].from \in Int /\ EndOf(Last(p)) \in Int
                        /\ Min(Moments(day)) = p[1].from
                        /\ Max(Moments(day)) = EndOf(Last(p))
<1> DEFINE K == Moments(day)
           n == Len(p)
<1>1. Ordered(p) /\ TellsOpenings(ToSet(day), p) /\ TellsUse(ToSet(day), p)
  BY DayIsTold DEF Tells
<1>2. p \in Seq(ActiveSpans) /\ n \in Nat /\ \A i \in 1 .. n : p[i] \in ActiveSpans
  BY <1>1 DEF Ordered
<1>3. \A s \in ToSet(day) : Opens(day, s) <=> Opening(ToSet(day), s)
  BY DEF Opens, Opening
<1>4. \A t \in Times : InUse(day, t) <=>
        \E i \in 1 .. n : p[i].to # None /\ p[i].from <= t /\ t < p[i].to
  <2>1. \A t : InUse(day, t) <=> Using(ToSet(day), t)
    BY DEF InUse, Using
  <2> QED
    BY <1>1, <2>1, TimesAreNatural DEF TellsUse
<1>5. \A i \in 1 .. n : p[i].from \in Int /\ EndOf(p[i]) \in Int /\ p[i].from <= EndOf(p[i])
  <2>1. ASSUME NEW i \in 1 .. n
        PROVE  p[i].from \in Int /\ EndOf(p[i]) \in Int /\ p[i].from <= EndOf(p[i])
    <3>1. p[i].from \in Int /\ EndOf(p[i]) \in Int
      BY <1>2, EndIsTime
    <3> QED
      BY <1>1, <3>1 DEF Ordered, EndOf
  <2> QED
    BY <2>1
<1>6. \A i \in 1 .. n : p[1].from <= p[i].from /\ EndOf(p[i]) <= EndOf(p[n])
  <2>1. ASSUME NEW i \in 1 .. n PROVE p[1].from <= p[i].from /\ EndOf(p[i]) <= EndOf(p[n])
    <3>0. 1 \in 1 .. n /\ n \in 1 .. n
      BY <1>2
    <3>1. p[1].from <= p[i].from
      <4>1. CASE i = 1
        BY <1>5, <4>1
      <4>2. CASE i # 1
        <5>1. p[1].to # None /\ p[1].to < p[i].from
          BY <1>1, <1>2, <3>0, <4>2 DEF Ordered
        <5>2. EndOf(p[1]) = p[1].to
          BY <5>1 DEF EndOf
        <5> QED
          BY <1>5, <3>0, <5>1, <5>2
      <4> QED
        BY <4>1, <4>2
    <3>2. EndOf(p[i]) <= EndOf(p[n])
      <4>1. CASE i = n
        BY <1>5, <4>1
      <4>2. CASE i # n
        <5>1. p[i].to # None /\ p[i].to < p[n].from
          BY <1>1, <1>2, <3>0, <4>2 DEF Ordered
        <5>2. EndOf(p[i]) = p[i].to
          BY <5>1 DEF EndOf
        <5> QED
          BY <1>5, <3>0, <5>1, <5>2
      <4> QED
        BY <4>1, <4>2
    <3> QED
      BY <3>1, <3>2
  <2> QED
    BY <2>1
<1>7. ASSUME NEW x \in K
      PROVE  \E i \in 1 .. n : x \in Int /\ p[i].from <= x /\ x <= EndOf(p[i])
  <2>1. CASE \E s \in ToSet(day) : Opens(day, s) /\ x = s.at
    <3>1. PICK s \in ToSet(day) : Opening(ToSet(day), s) /\ x = s.at
      BY <1>3, <2>1
    <3>2. PICK i \in 1 .. n : x = p[i].from
      BY <1>1, <3>1 DEF TellsOpenings
    <3> QED
      BY <1>5, <3>2
  <2>2. CASE \E t \in Times : InUse(day, t) /\ x = t + 1
    <3>1. PICK t \in Times : InUse(day, t) /\ x = t + 1
      BY <2>2
    <3>2. PICK i \in 1 .. n : p[i].to # None /\ p[i].from <= t /\ t < p[i].to
      BY <1>4, <3>1
    <3>3. t \in Int /\ EndOf(p[i]) = p[i].to
      BY <3>2, TimesAreNatural DEF EndOf
    <3> QED
      BY <1>5, <3>1, <3>2, <3>3
  <2> QED
    BY <2>1, <2>2 DEF Moments
<1>8. ASSUME NEW i \in 1 .. n PROVE p[i].from \in K
  <2>1. PICK s \in ToSet(day) : s.at = p[i].from /\ Opens(day, s)
    BY <1>1, <1>3 DEF TellsOpenings
  <2> QED
    BY <2>1 DEF Moments
<1>9. ASSUME NEW i \in 1 .. n PROVE EndOf(p[i]) \in K
  <2>1. CASE p[i].to = None
    BY <1>8, <2>1 DEF EndOf
  <2>2. CASE p[i].to # None
    <3>1. p[i].to \in Times /\ p[i].from \in Times /\ p[i].from < p[i].to
      BY <1>1, <1>2, <2>2 DEF ActiveSpans, Ordered
    <3>2. p[i].to - 1 \in Times /\ p[i].from <= p[i].to - 1 /\ p[i].to - 1 < p[i].to
          /\ (p[i].to - 1) + 1 = p[i].to
      BY <3>1, PcSessionsAssumption DEF Times
    <3>3. InUse(day, p[i].to - 1)
      BY <1>4, <2>2, <3>2
    <3> QED
      BY <2>2, <3>2, <3>3 DEF EndOf, Moments
  <2> QED
    BY <2>1, <2>2
<1>10. p = <<>> => K = {}
  <2>1. p = <<>> => 1 .. n = {}
    OBVIOUS
  <2> QED
    BY <1>7, <2>1
<1>11. ASSUME p # <<>>
       PROVE  /\ K # {} /\ p[1].from \in Int /\ EndOf(Last(p)) \in Int
              /\ Min(K) = p[1].from /\ Max(K) = EndOf(Last(p))
  <2>1. 1 \in 1 .. n /\ n \in 1 .. n
    BY <1>2, <1>11
  <2>2. PICK first, last : first = p[1].from /\ last = EndOf(p[n])
    OBVIOUS
  <2>3. first \in Int /\ last \in Int /\ first \in K /\ last \in K
    BY <1>5, <1>8, <1>9, <2>1, <2>2
  <2>4. ASSUME NEW x \in K PROVE x \in Int /\ first <= x /\ x <= last
    <3>1. PICK i \in 1 .. n : x \in Int /\ p[i].from <= x /\ x <= EndOf(p[i])
      BY <1>7
    <3> QED
      BY <1>5, <1>6, <2>1, <2>2, <3>1
  <2> HIDE DEF K
  <2>5. \A x \in K : (\A y \in K : x <= y) => x = first
    BY <2>3, <2>4
  <2>6. Min(K) = first
    BY <2>3, <2>4, <2>5 DEF Min
  <2>7. \A x \in K : (\A y \in K : x >= y) => x = last
    BY <2>3, <2>4
  <2>8. Max(K) = last
    BY <2>3, <2>4, <2>7 DEF Max
  <2> QED
    BY <2>2, <2>3, <2>6, <2>8 DEF Last
<1> QED
  BY <1>2, <1>10, <1>11

-----------------------------------------------------------------------------
(* What is listed. *)

\* What is listed describes what differs, and what differs by more is listed.
Fair(listed, differ) ==
  /\ \A d \in listed :
       /\ d.minutes > Tolerance \/ Always(d.kind)
       /\ \E x \in differ : Describes(d, x)
  /\ \A x \in differ :
       \/ \E d \in listed : Describes(d, x)
       \/ ~Always(x.kind) /\ 2 * x.ticks < (2 * Tolerance + x.stretches) * TicksPerMinute

LEMMA FairTogether ==
  ASSUME NEW L, NEW D, Fair(L, D), NEW M, NEW E, Fair(M, E)
  PROVE  Fair(L \union M, D \union E)
  BY DEF Fair

LEMMA NothingIsFair == Fair({}, {})
  BY DEF Fair

\* What is not more than tolerated does not differ by more than the tolerance and the halves.
LEMMA ToleratedIsLess ==
  ASSUME NEW m, NEW t, NEW s, Close(m, t, s), s # 0, ~(m > Tolerance)
  PROVE  2 * t < (2 * Tolerance + s) * TicksPerMinute
<1> DEFINE P == TicksPerMinute
<1>1. P \in Nat \ {0} /\ Tolerance \in Nat /\ m \in Int /\ t \in Int /\ s \in Nat
  BY PcSessionsAssumption DEF Close
<1>2. PICK r \in Nat : r = Tolerance - m
  BY <1>1
<1>3. (2 * Tolerance + s) * P = 2 * (m * P) + 2 * (r * P) + s * P
  <2>1. Tolerance = m + r
    BY <1>1, <1>2
  <2>2. (2 * (m + r) + s) * P = 2 * (m * P) + 2 * (r * P) + s * P
    BY <1>1, <1>2
  <2> QED
    BY <2>1, <2>2
<1>4. PICK a \in Int, b \in Nat, c \in Int : a = m * P /\ b = r * P /\ c = s * P
  BY <1>1, <1>2
<1>5. 2 * (t - a) < c
  BY <1>4 DEF Close
<1> HIDE DEF P
<1>6. 2 * t < 2 * a + 2 * b + c
  BY <1>1, <1>4, <1>5
<1> QED
  BY <1>3, <1>4, <1>6 DEF P

LEMMA OneIsFair ==
  ASSUME NEW kind, NEW from, NEW to, NEW m, NEW t, NEW s, ~Always(kind), Close(m, t, s), s # 0
  PROVE  Fair(UnlessTolerated(Differs(kind, from, to, m)),
              {[kind |-> kind, from |-> from, to |-> to, ticks |-> t, stretches |-> s]})
<1>1. PICK x : x = [kind |-> kind, from |-> from, to |-> to, ticks |-> t, stretches |-> s]
  OBVIOUS
<1>2. x.kind = kind /\ x.from = from /\ x.to = to /\ x.ticks = t /\ x.stretches = s
  BY <1>1
<1>3. PICK d : d = Differs(kind, from, to, m)
  OBVIOUS
<1>4. d.kind = kind /\ d.from = from /\ d.to = to /\ d.minutes = m
  BY <1>3 DEF Differs
<1>5. Describes(d, x)
  BY <1>2, <1>4 DEF Describes, Near, Close
<1>6. CASE m > Tolerance
  <2>1. UnlessTolerated(d) = {d}
    BY <1>4, <1>6 DEF UnlessTolerated
  <2>2. Fair({d}, {x})
    BY <1>4, <1>5, <1>6 DEF Fair
  <2> QED
    BY <1>1, <1>3, <2>1, <2>2
<1>7. CASE ~(m > Tolerance)
  <2>1. UnlessTolerated(d) = {}
    BY <1>4, <1>7 DEF UnlessTolerated
  <2>2. 2 * x.ticks < (2 * Tolerance + x.stretches) * TicksPerMinute
    BY <1>2, <1>7, ToleratedIsLess
  <2>3. Fair({}, {x})
    BY <1>2, <2>2 DEF Fair
  <2> QED
    BY <1>1, <1>3, <2>1, <2>3
<1> QED
  BY <1>6, <1>7

LEMMA WholeIsClose ==
  ASSUME NEW from \in Int, NEW to \in Int PROVE Close(MinutesBetween(from, to), to - from, 1)
  BY RoundedIsClose DEF MinutesBetween

LEMMA WholeIsFair ==
  ASSUME NEW kind, ~Always(kind), NEW from \in Int, NEW to \in Int
  PROVE  Fair(UnlessTolerated(Differs(kind, from, to, MinutesBetween(from, to))),
              {Whole(kind, from, to)})
<1>1. Close(MinutesBetween(from, to), to - from, 1)
  BY WholeIsClose
<1>2. PICK m, t, s : m = MinutesBetween(from, to) /\ t = to - from /\ s = 1
  OBVIOUS
<1>3. Close(m, t, s) /\ s # 0
  BY <1>1, <1>2
<1>4. Fair(UnlessTolerated(Differs(kind, from, to, m)),
           {[kind |-> kind, from |-> from, to |-> to, ticks |-> t, stretches |-> s]})
  BY <1>3, OneIsFair
<1> QED
  BY <1>2, <1>4 DEF Whole

\* The breaks that ended.
Ended(shape) == {b \in ToSet(shape.breaks) : b.to # None}

LEMMA BreaksAreTimes ==
  ASSUME NEW shape \in Shapes, NEW b \in Ended(shape) PROVE b.from \in Int /\ b.to \in Int
<1>1. PICK c \in [from : Times, to : Times \union {None}] : b = c
  <2>1. shape.breaks = <<>> \/ \E c \in [from : Times, to : Times \union {None}] :
                                  shape.breaks = <<c>>
    BY DEF Shapes
  <2>2. b \in ToSet(shape.breaks)
    BY DEF Ended
  <2> QED
    BY <2>1, <2>2 DEF ToSet
<1> QED
  BY <1>1, TimesAreNatural DEF Ended

\* What differs in one break.
Broken(day, b) == IF TicksInUse(day, b.from, b.to) # {} THEN {InBreak(day, b)} ELSE {}

LEMMA BreakIsFair ==
  ASSUME NEW day, Ascending(day), NEW b, b.from \in Int, b.to \in Int
  PROVE  Fair(UnlessTolerated(Differs("pc_active_during_break", b.from, b.to,
                                      Total(ActivePeriods(day), b.from, b.to))),
              Broken(day, b))
<1>1. PICK from \in Int, to \in Int : from = b.from /\ to = b.to
  OBVIOUS
<1>2. PICK m : m = Total(ActivePeriods(day), from, to)
  OBVIOUS
<1>3. PICK T, S : T = TicksInUse(day, from, to) /\ S = Stretches(day, from, to)
  OBVIOUS
<1>4. Close(m, Cardinality(T), Cardinality(S))
  BY <1>2, <1>3, MinutesAgree
<1>5. IsFiniteSet(T) /\ S \subseteq T
  <2>1. IsFiniteSet(from .. to - 1)
    BY FS_Interval
  <2>2. T \subseteq from .. to - 1
    BY <1>3 DEF TicksInUse
  <2> QED
    BY <1>3, <2>1, <2>2, FS_Subset DEF Stretches
<1>6. CASE Cardinality(S) = 0
  <2>1. m = 0 /\ Cardinality(T) = 0
    BY <1>4, <1>6 DEF Close
  <2>2. T = {}
    BY <1>5, <2>1, FS_EmptySet
  <2>3. UnlessTolerated(Differs("pc_active_during_break", from, to, m)) = {}
    BY <2>1, PcSessionsAssumption DEF UnlessTolerated, Differs
  <2>4. Broken(day, b) = {}
    BY <1>1, <1>3, <2>2 DEF Broken
  <2> QED
    BY <1>1, <1>2, <2>3, <2>4, NothingIsFair
<1>7. CASE Cardinality(S) # 0
  <2>1. T # {}
    BY <1>5, <1>7, FS_EmptySet
  <2>2. Broken(day, b) =
          {[kind |-> "pc_active_during_break", from |-> from, to |-> to,
            ticks |-> Cardinality(T), stretches |-> Cardinality(S)]}
    BY <1>1, <1>3, <2>1 DEF Broken, InBreak
  <2>3. ~Always("pc_active_during_break")
    BY DEF Always
  <2>4. Fair(UnlessTolerated(Differs("pc_active_during_break", from, to, m)),
             {[kind |-> "pc_active_during_break", from |-> from, to |-> to,
               ticks |-> Cardinality(T), stretches |-> Cardinality(S)]})
    BY <1>4, <1>7, <2>3, OneIsFair
  <2> QED
    BY <1>1, <1>2, <2>2, <2>4
<1> QED
  BY <1>6, <1>7

LEMMA BreaksAreFair ==
  ASSUME NEW shape \in Shapes, NEW day, Ascending(day)
  PROVE  Fair(DuringBreaks(shape, ActivePeriods(day)),
              {InBreak(day, b) : b \in {c \in ToSet(shape.breaks) :
                                          c.to # None /\ TicksInUse(day, c.from, c.to) # {}}})
<1> DEFINE Of(b) == UnlessTolerated(Differs("pc_active_during_break", b.from, b.to,
                                             Total(ActivePeriods(day), b.from, b.to)))
<1>1. DuringBreaks(shape, ActivePeriods(day)) = UNION {Of(b) : b \in Ended(shape)}
  BY Zenon DEF DuringBreaks, Total, Ended
<1>2. {InBreak(day, b) : b \in {c \in ToSet(shape.breaks) :
                                  c.to # None /\ TicksInUse(day, c.from, c.to) # {}}}
        = UNION {Broken(day, b) : b \in Ended(shape)}
  <2>1. ASSUME NEW x
        PROVE  x \in {InBreak(day, b) : b \in {c \in ToSet(shape.breaks) :
                         c.to # None /\ TicksInUse(day, c.from, c.to) # {}}}
                 <=> \E b \in Ended(shape) : x \in Broken(day, b)
    BY DEF Broken, Ended
  <2> QED
    BY <2>1
<1>3. \A b \in Ended(shape) : Fair(Of(b), Broken(day, b))
  BY BreaksAreTimes, BreakIsFair
<1> HIDE DEF Of
<1>4. PICK L, D : L = UNION {Of(b) : b \in Ended(shape)}
                  /\ D = UNION {Broken(day, b) : b \in Ended(shape)}
  OBVIOUS
<1>5. /\ \A d : d \in L <=> \E b \in Ended(shape) : d \in Of(b)
      /\ \A x : x \in D <=> \E b \in Ended(shape) : x \in Broken(day, b)
  BY <1>4
<1>6. Fair(L, D)
  BY <1>3, <1>5 DEF Fair
<1> QED
  BY <1>1, <1>2, <1>4, <1>6

LEMMA ShapesAreTimes ==
  ASSUME NEW shape \in Shapes
  PROVE  shape.clockIn \in Int \union {None} /\ shape.clockOut \in Int \union {None}
  BY TimesAreNatural DEF Shapes

LEMMA ReportAgrees ==
  ASSUME NEW shape \in Shapes, NEW day, Ascending(day)
  PROVE  Fair(DetectDiscrepancies(shape, day), Differences(shape, day))
<1> DEFINE known == Moments(day)
<1>1. PICK p : p = ActivePeriods(day)
  OBVIOUS
<1>2. /\ p \in Seq(ActiveSpans)
      /\ p = <<>> => known = {}
      /\ p # <<>> => /\ known # {} /\ p[1].from \in Int /\ EndOf(Last(p)) \in Int
                     /\ Min(known) = p[1].from /\ Max(known) = EndOf(Last(p))
  BY <1>1, MomentsAgree
<1>3. PICK in, out : in = shape.clockIn /\ out = shape.clockOut
  OBVIOUS
<1>4. in \in Int \union {None} /\ out \in Int \union {None}
  BY <1>3, ShapesAreTimes
<1>5. CASE p = <<>>
  <2>1. DetectDiscrepancies(shape, day) = WithoutActivity(shape)
    BY <1>1, <1>5 DEF DetectDiscrepancies
  <2>2. CASE in = None \/ out = None
    <3>1. DetectDiscrepancies(shape, day) = {}
      BY <1>3, <2>1, <2>2 DEF WithoutActivity
    <3>2. Differences(shape, day) = {}
      BY <1>2, <1>3, <1>5, <2>2 DEF Differences
    <3> QED
      BY <3>1, <3>2, NothingIsFair
  <2>3. CASE ~(in = None \/ out = None)
    <3>1. DetectDiscrepancies(shape, day) =
            UnlessTolerated(Differs("attendance_without_pc_activity", in, out,
                                    MinutesBetween(in, out)))
      BY <1>3, <2>1, <2>3 DEF WithoutActivity
    <3>2. Differences(shape, day) = {Whole("attendance_without_pc_activity", in, out)}
      BY <1>2, <1>3, <1>5, <2>3 DEF Differences
    <3>3. ~Always("attendance_without_pc_activity")
      BY DEF Always
    <3> QED
      BY <1>4, <2>3, <3>1, <3>2, <3>3, WholeIsFair
  <2> QED
    BY <2>2, <2>3
<1>6. CASE p # <<>> /\ in = None
  <2>1. PICK first \in Int, last \in Int : first = p[1].from /\ last = EndOf(Last(p))
    BY <1>2, <1>6
  <2>2. PICK d : d = Differs("pc_active_without_attendance", first, last,
                             MinutesBetween(first, last))
    OBVIOUS
  <2>3. PICK x : x = Whole("pc_active_without_attendance", first, last)
    OBVIOUS
  <2>4. DetectDiscrepancies(shape, day) = {d}
    BY <1>1, <1>3, <1>6, <2>1, <2>2 DEF DetectDiscrepancies
  <2>5. Differences(shape, day) = {x}
    BY <1>2, <1>3, <1>6, <2>1, <2>3 DEF Differences
  <2>6. Describes(d, x) /\ Always(d.kind)
    BY <2>2, <2>3, WholeIsClose DEF Describes, Near, Close, Differs, Whole, Always
  <2>7. Fair({d}, {x})
    BY <2>6 DEF Fair
  <2> QED
    BY <2>4, <2>5, <2>7
<1>7. CASE p # <<>> /\ in # None
  <2>1. PICK first \in Int, last \in Int : first = p[1].from /\ last = EndOf(Last(p))
    BY <1>2, <1>7
  <2> DEFINE Before == UnlessTolerated(Differs("pc_active_before_clock_in", first, in,
                                               MinutesBetween(first, in)))
             After == IF out = None THEN {}
                      ELSE UnlessTolerated(Differs("pc_active_after_clock_out", out, last,
                                                   MinutesBetween(out, last)))
             During == DuringBreaks(shape, p)
             Early == {Whole("pc_active_before_clock_in", first, in)}
             Late == {Whole("pc_active_after_clock_out", t, last) : t \in {out} \ {None}}
             Midway == {InBreak(day, b) : b \in {c \in ToSet(shape.breaks) :
                           c.to # None /\ TicksInUse(day, c.from, c.to) # {}}}
  <2>2. DetectDiscrepancies(shape, day) = Before \union After \union During
    BY <1>1, <1>3, <1>7, <2>1 DEF DetectDiscrepancies
  <2>3. Differences(shape, day) = Early \union Late \union Midway
    BY <1>2, <1>3, <1>7, <2>1 DEF Differences
  <2>4. Fair(Before, Early)
    <3>1. ~Always("pc_active_before_clock_in")
      BY DEF Always
    <3> QED
      BY <1>4, <1>7, <3>1, WholeIsFair
  <2>5. Fair(After, Late)
    <3>1. CASE out = None
      <4>1. After = {} /\ Late = {}
        BY <3>1
      <4> QED
        BY <4>1, NothingIsFair
    <3>2. CASE out # None
      <4>1. Late = {Whole("pc_active_after_clock_out", out, last)}
        BY <3>2
      <4>2. After = UnlessTolerated(Differs("pc_active_after_clock_out", out, last,
                                            MinutesBetween(out, last)))
        BY <3>2
      <4>3. ~Always("pc_active_after_clock_out")
        BY DEF Always
      <4> HIDE DEF After, Late
      <4> QED
        BY <1>4, <3>2, <4>1, <4>2, <4>3, WholeIsFair
    <3> QED
      BY <3>1, <3>2
  <2>6. Fair(During, Midway)
    BY <1>1, BreaksAreFair
  <2> HIDE DEF Before, After, During, Early, Late, Midway
  <2>7. Fair(Before \union After, Early \union Late)
    BY <2>4, <2>5, FairTogether
  <2>8. Fair((Before \union After) \union During, (Early \union Late) \union Midway)
    BY <2>6, <2>7, FairTogether
  <2> QED
    BY <2>2, <2>3, <2>8
<1> QED
  BY <1>5, <1>6, <1>7

LEMMA ReportsAlwaysAgree == ReportsAgree
<1>1. ASSUME NEW day \in DaysObserved, NEW shape \in Shapes
      PROVE  Fair(DetectDiscrepancies(shape, day), Differences(shape, day))
  BY DaysAscend, ReportAgrees
<1> QED
  BY <1>1 DEF ReportsAgree, Fair

(***************************************************************************)
(* Whatever is observed of a day, and however its punches lie between the  *)
(* ticks of the clock: what is listed is what differs, with its minutes to *)
(* half a minute for each stretch of use, and what is not listed differs   *)
(* by no more than the tolerance and those halves.                         *)
(***************************************************************************)
THEOREM DifferencesAreListed == Spec => []EveryDifferenceIsListed
<1>1. EveryDifferenceIsListed
  BY ReportsAlwaysAgree DEF EveryDifferenceIsListed
<1> QED
  BY <1>1, PTL
=============================================================================
