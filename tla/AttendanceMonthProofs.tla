----------------------- MODULE AttendanceMonthProofs -----------------------
(***************************************************************************)
(* Proofs about AttendanceMonth, Anomalies and MonthRaces, for any number  *)
(* of clients, any period, keys and bounds: what the lock on the employee  *)
(* protects, the order of the records, by which a correction takes effect, *)
(* and what stands of approved days and closed months although nothing     *)
(* locks them.                                                             *)
(***************************************************************************)
EXTENDS Anomalies, MonthRaces, SequenceTheorems, FiniteSetTheorems, WellFoundedInduction, TLAPS

Actions == {"punch", "add", "adjust", "void"}

Stored == [id : Ids \union {NoId}, type : PunchTypes, at : Nat, action : Actions,
           corrects : Ids \union {NoId}]

Logged == RequestStates \X RequestEvents \X RequestStates

Transactions ==
  [day : Nat, at : Nat, id : Ids \union {NoId}, type : PunchTypes, action : Actions,
   corrects : Ids \union {NoId}, events : Seq(Stored), event : RequestEvents,
   request : RequestStates, closing : {"open", "closed"}, reopens : Nat,
   versions : Seq({}) \union [Days -> Nat]]

\* The part of the types that the proofs rest on.
Shape ==
  /\ history \in [Days -> Seq(Stored)]
  /\ version \in [Days -> Nat]
  /\ request \in [Days -> RequestStates]
  /\ transitions \in [Days -> Seq(Logged)]
  /\ closing \in {"open", "closed"}
  /\ reopens \in Nat
  /\ snapshots \in Seq([Days -> Nat])
  /\ pc \in [Clients -> Steps]
  /\ tx \in [Clients -> Transactions]

OfADay == {"correcting", "locked", "request read", "day read", "submitting", "deciding"}

\* What each transaction was asked or has read is usable where it is used.
Prepared(c) ==
  /\ pc[c] \in OfADay => tx[c].day \in Days
  /\ pc[c] = "punching" => tx[c].at \in Instants
  /\ pc[c] = "submitting" => tx[c].event = "SUBMIT"
  /\ pc[c] = "deciding" => CanApply(tx[c].request, tx[c].event)
  /\ pc[c] = "saved" => tx[c].versions \in [Days -> Nat]

AllPrepared == \A c \in Clients : Prepared(c)

-----------------------------------------------------------------------------
LEMMA DaysAreNatural == Days \subseteq Nat /\ \A at \in Instants : BusinessDateOf(at) \in Days
  BY MonthAssumption DEF Days, BusinessDateOf

LEMMA BlankIsTransaction == Blank \in Transactions
<1>1. Blank.events \in Seq(Stored) /\ Blank.versions \in Seq({})
  BY DEF Blank
<1> QED
  BY <1>1 DEF Blank, Transactions, PunchTypes, Actions, RequestEvents, RequestStates

\* The business day of a punch is a day of the period.
LEMMA ResolvedDayIsKnown ==
  ASSUME NEW at \in Instants, NEW type
  PROVE  ResolveBusinessDate(at, type) \in Days
<1> DEFINE today == BusinessDateOf(at)
           open == {d \in {today, today - 1} \intersect Days : IsOpen(StateOf(history[d]))}
<1>1. today \in Days /\ today \in Nat
  BY DaysAreNatural
<1>2. CASE type = "clock_in" \/ open = {}
  BY <1>1, <1>2 DEF ResolveBusinessDate
<1>3. CASE ~(type = "clock_in" \/ open = {})
  <2>1. open \subseteq {today, today - 1} /\ open \subseteq Days
    OBVIOUS
  <2>2. \E d \in open : \A e \in open : e <= d
    <3> HIDE DEF open, today
    <3>1. CASE today \in open
      BY <1>1, <2>1, <3>1
    <3>2. CASE today \notin open
      BY <1>1, <1>3, <2>1, <3>2, DaysAreNatural
    <3> QED
      BY <3>1, <3>2
  <2>3. (CHOOSE d \in open : \A e \in open : e <= d) \in open
    <3> HIDE DEF open
    <3> QED
      BY <2>2
  <2> QED
    BY <1>3, <2>1, <2>3 DEF ResolveBusinessDate
<1> QED
  BY <1>2, <1>3

\* Inserting e before the n-th record moves that record and those behind it.
Placed(t, S, s, n, e) ==
  /\ t \in Seq(S) /\ Len(t) = Len(s) + 1
  /\ \A i \in 1 .. n - 1 : t[i] = s[i]
  /\ t[n] = e
  /\ \A i \in n + 1 .. Len(s) + 1 : t[i] = s[i - 1]

LEMMA InsertedAt ==
  ASSUME NEW S, NEW s \in Seq(S), NEW n \in 1 .. Len(s) + 1, NEW e \in S
  PROVE  Placed(InsertAt(s, n, e), S, s, n, e)
<1> DEFINE front == SubSeq(s, 1, n - 1)
           back == SubSeq(s, n, Len(s))
           t == front \o <<e>> \o back
<1>1. front \in Seq(S) /\ Len(front) = n - 1 /\ \A i \in 1 .. n - 1 : front[i] = s[i]
  BY SubSeqProperties
<1>2. /\ back \in Seq(S) /\ Len(back) = Len(s) - n + 1
      /\ \A i \in 1 .. Len(s) - n + 1 : back[i] = s[n + i - 1]
  BY SubSeqProperties
<1>3. t \in Seq(S) /\ Len(t) = Len(s) + 1
  <2> HIDE DEF front, back
  <2> QED
    BY <1>1, <1>2
<1>4. /\ \A i \in 1 .. n - 1 : t[i] = s[i]
      /\ t[n] = e
      /\ \A i \in n + 1 .. Len(s) + 1 : t[i] = s[i - 1]
  <2> HIDE DEF front, back
  <2>1. (front \o <<e>>) \in Seq(S) /\ Len(front \o <<e>>) = n
    BY <1>1
  <2>2. \A i \in 1 .. n : (front \o <<e>>)[i] = IF i = n THEN e ELSE s[i]
    BY <1>1
  <2>3. \A i \in 1 .. Len(s) + 1 :
          t[i] = IF i <= n THEN (front \o <<e>>)[i] ELSE back[i - n]
    BY <1>2, <2>1
  <2> HIDE DEF t
  <2>4. ASSUME NEW i \in 1 .. n PROVE t[i] = IF i = n THEN e ELSE s[i]
    <3>1. Len(s) \in Nat /\ i \in 1 .. Len(s) + 1 /\ i <= n
      OBVIOUS
    <3> HIDE DEF front
    <3>2. t[i] = (front \o <<e>>)[i]
      BY <2>3, <3>1
    <3> QED
      BY <2>2, <3>2
  <2>5. ASSUME NEW i \in n + 1 .. Len(s) + 1 PROVE t[i] = s[i - 1]
    <3>1. i - n \in 1 .. Len(s) - n + 1 /\ n + (i - n) - 1 = i - 1
      OBVIOUS
    <3>2. t[i] = back[i - n]
      BY <2>3
    <3> HIDE DEF back
    <3> QED
      BY <1>2, <3>1, <3>2
  <2> QED
    BY <2>4, <2>5
<1>5. InsertAt(s, n, e) = t
  BY DEF InsertAt
<1> HIDE DEF t
<1>6. Placed(t, S, s, n, e)
  BY <1>3, <1>4 DEF Placed
<1> QED
  BY <1>5, <1>6

\* Inserting keeps every record and adds the new one.
LEMMA Inserted ==
  ASSUME NEW S, NEW s \in Seq(S), NEW n \in 1 .. Len(s) + 1, NEW e \in S
  PROVE  /\ InsertAt(s, n, e) \in Seq(S)
         /\ InsertAt(s, n, e) # <<>>
         /\ \A i \in DOMAIN InsertAt(s, n, e) :
              InsertAt(s, n, e)[i] = e \/ \E j \in DOMAIN s : s[j] = InsertAt(s, n, e)[i]
         /\ \A j \in DOMAIN s : \E i \in DOMAIN InsertAt(s, n, e) : InsertAt(s, n, e)[i] = s[j]
         /\ \E i \in DOMAIN InsertAt(s, n, e) : InsertAt(s, n, e)[i] = e
<1>1. PICK t : t = InsertAt(s, n, e)
  OBVIOUS
<1>2. Placed(t, S, s, n, e)
  BY <1>1, InsertedAt
<1>3. t \in Seq(S) /\ Len(t) = Len(s) + 1
  BY <1>2 DEF Placed
<1>4. /\ \A i \in 1 .. n - 1 : t[i] = s[i]
      /\ t[n] = e
      /\ \A i \in n + 1 .. Len(s) + 1 : t[i] = s[i - 1]
  BY <1>2 DEF Placed
<1>6. ASSUME NEW j \in DOMAIN s PROVE \E i \in DOMAIN t : t[i] = s[j]
  <2>1. CASE j < n
    BY <1>3, <1>4, <2>1
  <2>2. CASE j >= n
    <3>1. j + 1 \in DOMAIN t /\ t[j + 1] = s[j]
      BY <1>3, <1>4, <2>2
    <3> QED
      BY <3>1
  <2> QED
    BY <2>1, <2>2
<1>7. ASSUME NEW i \in DOMAIN t PROVE t[i] = e \/ \E j \in DOMAIN s : s[j] = t[i]
  <2>1. CASE i < n
    BY <1>3, <1>4, <2>1
  <2>2. CASE i > n
    <3>1. i - 1 \in DOMAIN s /\ t[i] = s[i - 1]
      BY <1>3, <1>4, <2>2
    <3> QED
      BY <3>1
  <2> QED
    BY <1>4, <1>3, <2>1, <2>2
<1>8. t # <<>> /\ n \in DOMAIN t
  BY <1>3
<1> QED
  BY <1>1, <1>3, <1>4, <1>6, <1>7, <1>8

\* What holds of the sequence a record is inserted into.
LEMMA InsertedInOrder ==
  ASSUME Shape, NEW c \in Clients, NEW d \in Days, NEW e \in Stored
  PROVE  LET next == InRecordedOrder(c, d, e) IN
         /\ next \in Seq(Stored)
         /\ next # <<>>
         /\ \A i \in DOMAIN next : next[i] = e
                                   \/ \E j \in DOMAIN history[d] : history[d][j] = next[i]
         /\ \A j \in DOMAIN history[d] : \E i \in DOMAIN next : next[i] = history[d][j]
         /\ \E i \in DOMAIN next : next[i] = e
<1> DEFINE earlier == {i \in DOMAIN history[d] : history[d][i].id \notin RecordedLater(c)}
           n == Cardinality(earlier) + 1
<1>1. history[d] \in Seq(Stored)
  BY DEF Shape
<1>2. n \in 1 .. Len(history[d]) + 1
  <2>1. /\ IsFiniteSet(1 .. Len(history[d]))
        /\ Cardinality(1 .. Len(history[d])) = Len(history[d])
    BY <1>1, FS_Interval
  <2>2. earlier \subseteq 1 .. Len(history[d])
    BY <1>1
  <2>3. Cardinality(earlier) \in Nat /\ Cardinality(earlier) <= Len(history[d])
    <3> HIDE DEF earlier
    <3> QED
      BY <2>1, <2>2, FS_Subset, FS_CardinalityType
  <2> HIDE DEF earlier
  <2> QED
    BY <1>1, <2>3
<1>3. InRecordedOrder(c, d, e) = InsertAt(history[d], n, e)
  BY DEF InRecordedOrder
<1> HIDE DEF n
<1> DEFINE next == InsertAt(history[d], n, e)
<1>4. /\ next \in Seq(Stored)
      /\ next # <<>>
      /\ \A i \in DOMAIN next : next[i] = e \/ \E j \in DOMAIN history[d] : history[d][j] = next[i]
      /\ \A j \in DOMAIN history[d] : \E i \in DOMAIN next : next[i] = history[d][j]
      /\ \E i \in DOMAIN next : next[i] = e
  <2>1. ASSUME NEW s \in Seq(Stored), NEW m \in 1 .. Len(s) + 1
        PROVE  LET t == InsertAt(s, m, e) IN
               /\ t \in Seq(Stored)
               /\ t # <<>>
               /\ \A i \in DOMAIN t : t[i] = e \/ \E j \in DOMAIN s : s[j] = t[i]
               /\ \A j \in DOMAIN s : \E i \in DOMAIN t : t[i] = s[j]
               /\ \E i \in DOMAIN t : t[i] = e
    BY Inserted
  <2> QED
    BY <1>1, <1>2, <2>1
<1> HIDE DEF next
<1>5. InRecordedOrder(c, d, e) = next
  BY <1>3 DEF next
<1> QED
  BY <1>4, <1>5

-----------------------------------------------------------------------------
(* The shape of the state is kept.                                         *)

LEMMA BeginKeepsShape ==
  ASSUME Shape, NEW c \in Clients, NEW to \in Steps, NEW asked \in Transactions,
         Begins(c, to, asked), UNCHANGED monthVars
  PROVE  Shape'
  BY DEF Shape, Begins, Goes, monthVars, attendanceVars, requestVars, closingVars

LEMMA EndKeepsShape ==
  ASSUME Shape, NEW c \in Clients, NEW from, NEW left, Ends(c, from, left)
  PROVE  pc' \in [Clients -> Steps] /\ tx' \in [Clients -> Transactions]
<1>1. "idle" \in Steps
  BY DEF Steps
<1>2. pc' = [pc EXCEPT ![c] = "idle"] /\ tx' = [tx EXCEPT ![c] = Blank]
  BY DEF Ends, Goes
<1>3. pc \in [Clients -> Steps] /\ tx \in [Clients -> Transactions]
  BY DEF Shape
<1> QED
  BY <1>1, <1>2, <1>3, BlankIsTransaction

LEMMA AttendShape ==
  ASSUME Shape, AllPrepared, NEW c \in Clients, Attend(c)
  PROVE  Shape'
<1> USE DEF Shape
<1>t. Types \subseteq PunchTypes /\ Instants \subseteq Nat
  BY MonthAssumption
<1>1. CASE Punch(c)
  <2> PICK at \in Instants, id \in Ids, type \in Types :
        Begins(c, "punching", [Blank EXCEPT !.at = at, !.id = id, !.type = type])
    BY <1>1 DEF Punch
  <2>1. [Blank EXCEPT !.at = at, !.id = id, !.type = type] \in Transactions
    BY <1>t, BlankIsTransaction DEF Transactions
  <2>2. "punching" \in Steps
    BY DEF Steps
  <2> HIDE DEF Shape
  <2> QED
    BY <1>1, <2>1, <2>2, BeginKeepsShape DEF Punch
<1>2. CASE AddRecord(c)
  <2> PICK at \in Instants, d \in Days, id \in Ids, type \in Types :
        Begins(c, "correcting",
               [Blank EXCEPT !.day = d, !.at = at, !.id = id, !.type = type, !.action = "add"])
    BY <1>2 DEF AddRecord
  <2>1. [Blank EXCEPT !.day = d, !.at = at, !.id = id, !.type = type, !.action = "add"]
          \in Transactions
    BY <1>t, BlankIsTransaction, DaysAreNatural DEF Transactions, Actions
  <2>2. "correcting" \in Steps
    BY DEF Steps
  <2> HIDE DEF Shape
  <2> QED
    BY <1>2, <2>1, <2>2, BeginKeepsShape DEF AddRecord
<1>3. CASE VoidRecord(c)
  <2>1. PICK d \in Days, id \in Ids : \E target \in Range(history[d]) :
          Begins(c, "correcting",
                 [Blank EXCEPT !.day = d, !.id = id, !.action = "void", !.corrects = target.id,
                               !.at = target.at, !.type = target.type])
    BY <1>3 DEF VoidRecord
  <2>2. history[d] \in Seq(Stored)
    OBVIOUS
  <2> HIDE DEF Shape
  <2>3. PICK target \in Range(history[d]) :
          Begins(c, "correcting",
                 [Blank EXCEPT !.day = d, !.id = id, !.action = "void", !.corrects = target.id,
                               !.at = target.at, !.type = target.type])
    BY <2>1
  <2>r. target \in Stored
    <3>1. PICK i \in DOMAIN history[d] : target = history[d][i]
      BY DEF Range
    <3>2. i \in 1 .. Len(history[d])
      BY <2>2
    <3> QED
      BY <2>2, <3>1, <3>2, ElementOfSeq
  <2>4. [Blank EXCEPT !.day = d, !.id = id, !.action = "void", !.corrects = target.id,
                      !.at = target.at, !.type = target.type] \in Transactions
    BY <2>r, BlankIsTransaction, DaysAreNatural DEF Transactions, Actions, Stored
  <2>5. "correcting" \in Steps
    BY DEF Steps
  <2> QED
    BY <1>3, <2>3, <2>4, <2>5, BeginKeepsShape DEF VoidRecord
<1>10. CASE AdjustRecord(c)
  <2>1. PICK d \in Days, id \in Ids, at \in Instants,
             type \in Types : \E target \in Range(history[d]) :
          Begins(c, "correcting",
                 [Blank EXCEPT !.day = d, !.id = id, !.action = "adjust", !.corrects = target.id,
                               !.at = at, !.type = type])
    BY <1>10 DEF AdjustRecord
  <2>2. history[d] \in Seq(Stored)
    OBVIOUS
  <2> HIDE DEF Shape
  <2>3. PICK target \in Range(history[d]) :
          Begins(c, "correcting",
                 [Blank EXCEPT !.day = d, !.id = id, !.action = "adjust", !.corrects = target.id,
                               !.at = at, !.type = type])
    BY <2>1
  <2>r. target \in Stored
    <3>1. PICK i \in DOMAIN history[d] : target = history[d][i]
      BY DEF Range
    <3>2. i \in 1 .. Len(history[d])
      BY <2>2
    <3> QED
      BY <2>2, <3>1, <3>2, ElementOfSeq
  <2>4. [Blank EXCEPT !.day = d, !.id = id, !.action = "adjust", !.corrects = target.id,
                      !.at = at, !.type = type] \in Transactions
    BY <2>r, <1>t, BlankIsTransaction, DaysAreNatural DEF Transactions, Actions, Stored
  <2>5. "correcting" \in Steps
    BY DEF Steps
  <2> QED
    BY <1>10, <2>3, <2>4, <2>5, BeginKeepsShape DEF AdjustRecord
<1>4. CASE LockEmployee(c)
  <2> DEFINE d == IF pc[c] = "punching" THEN ResolveBusinessDate(tx[c].at, tx[c].type)
                  ELSE tx[c].day
  <2>1. d \in Days
    BY <1>4, ResolvedDayIsKnown DEF LockEmployee, Goes, AllPrepared, Prepared, OfADay
  <2>2. history[d] \in Seq(Stored) /\ d \in Nat
    BY <2>1, DaysAreNatural
  <2>3. tx' = [tx EXCEPT ![c].day = d, ![c].events = history[d]]
    BY <1>4 DEF LockEmployee
  <2>4. tx' \in [Clients -> Transactions]
    <3>1. [tx[c] EXCEPT !.day = d, !.events = history[d]] \in Transactions
      <4> HIDE DEF d
      <4> QED
        BY <2>2, ZenonT(40) DEF Transactions
    <3>2. tx' = [tx EXCEPT ![c] = [tx[c] EXCEPT !.day = d, !.events = history[d]]]
      BY <2>3
    <3> HIDE DEF d
    <3> QED
      BY <3>1, <3>2
  <2> QED
    BY <1>4, <2>4 DEF LockEmployee, Goes, Steps, monthVars, attendanceVars, requestVars, closingVars
<1>5. CASE Duplicate(c)
  BY <1>5, EndKeepsShape
     DEF Duplicate, RollsBack, EndsUnrecorded, monthVars, attendanceVars, requestVars, closingVars
<1>6. CASE ReadRequest(c)
  <2>1. request[tx[c].day] \in RequestStates
    BY <1>6 DEF ReadRequest, Goes, AllPrepared, Prepared, OfADay
  <2>2. [tx[c] EXCEPT !.request = request[tx[c].day]] \in Transactions
    BY <2>1, ZenonT(40) DEF Transactions
  <2>3. tx' = [tx EXCEPT ![c] = [tx[c] EXCEPT !.request = request[tx[c].day]]]
    BY <1>6 DEF ReadRequest
  <2>4. tx' \in [Clients -> Transactions]
    BY <2>2, <2>3
  <2> QED
    BY <1>6, <2>4 DEF ReadRequest, Goes, Steps, monthVars, attendanceVars, requestVars, closingVars
<1>7. CASE ReadClosing(c)
  <2>1. [tx[c] EXCEPT !.closing = closing] \in Transactions
    BY ZenonT(40) DEF Transactions
  <2>2. tx' = [tx EXCEPT ![c] = [tx[c] EXCEPT !.closing = closing]]
    BY <1>7 DEF ReadClosing
  <2>3. tx' \in [Clients -> Transactions]
    BY <2>1, <2>2
  <2> QED
    BY <1>7, <2>3 DEF ReadClosing, Goes, Steps, monthVars, attendanceVars, requestVars, closingVars
<1>8. CASE Record(c)
  <2> DEFINE e == [id |-> tx[c].id, type |-> tx[c].type, at |-> tx[c].at,
                   action |-> tx[c].action, corrects |-> tx[c].corrects]
  <2>1. tx[c].day \in Days
    BY <1>8 DEF Record, Ends, Goes, AllPrepared, Prepared, OfADay
  <2>2. e \in Stored
    BY DEF Stored, Transactions
  <2>3. InRecordedOrder(c, tx[c].day, e) \in Seq(Stored)
    <3> HIDE DEF e, Shape
    <3> QED
      BY <2>1, <2>2, InsertedInOrder
  <2>4. InsertEvent(c, tx[c].day, e)
    BY <1>8 DEF Record
  <2>5. history' \in [Days -> Seq(Stored)] /\ version' \in [Days -> Nat]
    <3> HIDE DEF e
    <3>1. version[tx[c].day] \in Nat
      BY <2>1
    <3>2. history' = [history EXCEPT ![tx[c].day] = InRecordedOrder(c, tx[c].day, e)]
      BY <2>4 DEF InsertEvent
    <3> DEFINE v == IF /\ version[tx[c].day] > 0
                       /\ Effective(InRecordedOrder(c, tx[c].day, e))
                            = Effective(history[tx[c].day])
                    THEN version[tx[c].day] ELSE version[tx[c].day] + 1
    <3>3. version' = [version EXCEPT ![tx[c].day] = v] /\ v \in Nat
      BY <2>4, <3>1 DEF InsertEvent
    <3> HIDE DEF v
    <3> QED
      BY <2>1, <2>3, <3>2, <3>3
  <2> QED
    BY <1>8, <2>5, EndKeepsShape DEF Record, requestVars, closingVars
<1>9. CASE RefuseRecord(c)
  BY <1>9, EndKeepsShape
     DEF RefuseRecord, RollsBack, EndsUnrecorded, monthVars, attendanceVars, requestVars,
         closingVars
<1> HIDE DEF Shape
<1> QED
  BY <1>1, <1>2, <1>3, <1>4, <1>5, <1>6, <1>7, <1>8, <1>9, <1>10 DEF Attend

\* Where the state machine allows an event, it leads to one state, by a row of its table.
LEMMA ApplyFollowsTable ==
  ASSUME NEW state, NEW event, CanApply(state, event)
  PROVE  /\ <<state, event, Apply(state, event)>> \in RequestTable
         /\ Apply(state, event) \in RequestStates
  BY DEF CanApply, Apply

LEMMA ApproveShape ==
  ASSUME Shape, AllPrepared, NEW c \in Clients, Approve(c)
  PROVE  Shape'
<1> USE DEF Shape
<1>1. ASSUME NEW d \in Days, BeginSubmit(c, d) PROVE Shape'
  <2>1. [Blank EXCEPT !.day = d] \in Transactions
    BY BlankIsTransaction, DaysAreNatural DEF Transactions
  <2>2. "submitting" \in Steps
    BY DEF Steps
  <2> HIDE DEF Shape
  <2> QED
    BY <1>1, <2>1, <2>2, BeginKeepsShape DEF BeginSubmit
<1>2. CASE ReadRequestToSubmit(c)
  <2>1. CASE CanApply(request[tx[c].day], "SUBMIT")
    <3>1. request[tx[c].day] \in RequestStates
      BY <1>2 DEF ReadRequestToSubmit, AllPrepared, Prepared, OfADay
    <3>2. [tx[c] EXCEPT !.request = request[tx[c].day]] \in Transactions
      BY <3>1 DEF Transactions
    <3>3. tx' = [tx EXCEPT ![c] = [tx[c] EXCEPT !.request = request[tx[c].day]]]
      BY <1>2, <2>1 DEF ReadRequestToSubmit
    <3>4. tx' \in [Clients -> Transactions]
      BY <3>2, <3>3
    <3> QED
      BY <1>2, <2>1, <3>4
         DEF ReadRequestToSubmit, Goes, Steps, monthVars, attendanceVars, requestVars, closingVars
  <2>2. CASE ~CanApply(request[tx[c].day], "SUBMIT")
    BY <1>2, <2>2, EndKeepsShape
       DEF ReadRequestToSubmit, RollsBack, EndsUnrecorded, monthVars, attendanceVars, requestVars,
           closingVars
  <2> QED
    BY <2>1, <2>2
<1>3. ASSUME NEW d \in Days, NEW event \in {"APPROVE", "RETURN", "CANCEL"}, BeginDecide(c, d, event)
      PROVE  Shape'
  <2>1. [Blank EXCEPT !.day = d, !.event = event, !.request = request[d]] \in Transactions
    <3>1. request[d] \in RequestStates /\ event \in RequestEvents
      BY DEF RequestEvents
    <3> QED
      BY <3>1, BlankIsTransaction, DaysAreNatural DEF Transactions
  <2>2. "deciding" \in Steps
    BY DEF Steps
  <2> HIDE DEF Shape
  <2> QED
    BY <1>3, <2>1, <2>2, BeginKeepsShape DEF BeginDecide
<1>4. CASE SaveRequest(c)
  <2> DEFINE d == tx[c].day
             to == Apply(tx[c].request, tx[c].event)
  <2>1. d \in Days /\ to \in RequestStates
    BY <1>4, ApplyFollowsTable DEF SaveRequest, EndsUnrecorded, Ends, Goes, AllPrepared, Prepared,
                                   OfADay
  <2>2. <<tx[c].request, tx[c].event, to>> \in Logged
    BY <2>1 DEF Logged, Transactions
  <2>3. /\ request' = [request EXCEPT ![d] = to]
        /\ transitions' =
             [transitions EXCEPT ![d] = Append(@, <<tx[c].request, tx[c].event, to>>)]
    BY <1>4 DEF SaveRequest
  <2>4. request' \in [Days -> RequestStates] /\ transitions' \in [Days -> Seq(Logged)]
    <3>1. Append(transitions[d], <<tx[c].request, tx[c].event, to>>) \in Seq(Logged)
      <4>1. transitions[d] \in Seq(Logged)
        BY <2>1
      <4> HIDE DEF d, to
      <4> QED
        BY <4>1, <2>2, AppendProperties
    <3> HIDE DEF d, to
    <3> QED
      BY <2>1, <2>3, <3>1
  <2> QED
    BY <1>4, <2>4, EndKeepsShape DEF SaveRequest, EndsUnrecorded, attendanceVars, closingVars
<1> HIDE DEF Shape
<1> QED
  BY <1>1, <1>2, <1>3, <1>4 DEF Approve

LEMMA MonthShape ==
  ASSUME Shape, AllPrepared, NEW c \in Clients, Month(c)
  PROVE  Shape'
<1> USE DEF Shape
<1>1. CASE BeginClose(c) \/ BeginReopen(c)
  <2>1. [Blank EXCEPT !.reopens = reopens] \in Transactions
    BY BlankIsTransaction DEF Transactions
  <2>2. {"closing", "reopening"} \subseteq Steps
    BY DEF Steps
  <2> HIDE DEF Shape
  <2> QED
    BY <1>1, <2>1, <2>2, BeginKeepsShape DEF BeginClose, BeginReopen
<1>2. CASE CountUnapprovedDays(c)
  <2>1. CASE UnapprovedDays = {}
    BY <1>2, <2>1
       DEF CountUnapprovedDays, Goes, Steps, monthVars, attendanceVars, requestVars, closingVars
  <2>2. CASE UnapprovedDays # {}
    BY <1>2, <2>2, EndKeepsShape
       DEF CountUnapprovedDays, RollsBack, EndsUnrecorded, monthVars, attendanceVars, requestVars,
           closingVars
  <2> QED
    BY <2>1, <2>2
<1>3. CASE SaveClosing(c)
  <2>1. [tx[c] EXCEPT !.versions = version] \in Transactions
    BY ZenonT(40) DEF Transactions
  <2>2. tx' = [tx EXCEPT ![c] = [tx[c] EXCEPT !.versions = version]]
    BY <1>3 DEF SaveClosing
  <2>3. tx' \in [Clients -> Transactions]
    BY <2>1, <2>2
  <2> QED
    BY <1>3, <2>3 DEF SaveClosing, Goes, Steps, monthVars, attendanceVars, requestVars, closingVars
<1>4. CASE Close(c)
  <2>1. tx[c].versions \in [Days -> Nat] /\ tx[c].reopens \in Nat
    BY <1>4 DEF Close, EndsUnrecorded, Ends, Goes, Transactions, AllPrepared, Prepared
  <2>2. snapshots' \in Seq([Days -> Nat])
    BY <1>4, <2>1, AppendProperties DEF Close
  <2> QED
    BY <1>4, <2>1, <2>2, EndKeepsShape DEF Close, EndsUnrecorded, attendanceVars, requestVars
<1>5. CASE Reopen(c)
  <2>1. tx[c].reopens + 1 \in Nat
    BY DEF Transactions
  <2>2. request' \in [Days -> RequestStates]
    BY <1>5 DEF Reopen, RequestStates
  <2>3. transitions' \in [Days -> Seq(Logged)]
    <3>1. <<"approved", "REOPEN", "returned">> \in Logged
      BY DEF Logged, RequestStates, RequestEvents
    <3>2. \A d \in Days :
            Append(transitions[d], <<"approved", "REOPEN", "returned">>) \in Seq(Logged)
      BY <3>1, AppendProperties
    <3> QED
      BY <1>5, <3>2 DEF Reopen
  <2> QED
    BY <1>5, <2>1, <2>2, <2>3, EndKeepsShape DEF Reopen, EndsUnrecorded, attendanceVars
<1> HIDE DEF Shape
<1> QED
  BY <1>1, <1>2, <1>3, <1>4, <1>5 DEF Month

-----------------------------------------------------------------------------
(* What each transaction may rely on.                                      *)

ClientStep(c) == Attend(c) \/ Approve(c) \/ Month(c)

\* A step of one client is none of another's.
LEMMA OthersStay ==
  ASSUME Shape, NEW c \in Clients, ClientStep(c), NEW o \in Clients \ {c}
  PROVE  pc'[o] = pc[o] /\ tx'[o] = tx[o]
<1> USE DEF Shape
<1>1. CASE Attend(c)
  BY <1>1 DEF Attend, Punch, AddRecord, VoidRecord, AdjustRecord, LockEmployee, Duplicate,
              ReadRequest,
              ReadClosing, Record, RefuseRecord, Begins, Ends, EndsUnrecorded, RollsBack, Goes
<1>2. CASE Approve(c)
  BY <1>2 DEF Approve, BeginSubmit, ReadRequestToSubmit, BeginDecide, SaveRequest, Begins, Ends,
              EndsUnrecorded, RollsBack, Goes
<1>3. CASE Month(c)
  BY <1>3 DEF Month, BeginClose, CountUnapprovedDays, SaveClosing, Close, BeginReopen, Reopen,
              Begins, Ends, EndsUnrecorded, RollsBack, Goes
<1> QED
  BY <1>1, <1>2, <1>3 DEF ClientStep

LEMMA PreparedStays ==
  ASSUME Shape, AllPrepared, NEW c \in Clients, ClientStep(c)
  PROVE  AllPrepared'
<1>1. ASSUME NEW o \in Clients \ {c} PROVE Prepared(o)'
  BY <1>1, OthersStay DEF AllPrepared, Prepared, CanApply
<1>2. Prepared(c)'
  <2>0. Prepared(c) /\ pc \in [Clients -> Steps] /\ tx \in [Clients -> Transactions]
    BY DEF AllPrepared, Shape
  <2>1. CASE Punch(c)
    BY <2>0, <2>1 DEF Punch, Begins, Goes, Prepared, OfADay, Blank
  <2>2. CASE AddRecord(c)
    BY <2>0, <2>2 DEF AddRecord, Begins, Goes, Prepared, OfADay, Blank
  <2>3. CASE VoidRecord(c) \/ AdjustRecord(c)
    <3>1. \E asked : Begins(c, "correcting", asked) /\ asked.day \in Days
      <4>1. CASE VoidRecord(c)
        <5>1. PICK d \in Days, id \in Ids : \E target \in Range(history[d]) :
                Begins(c, "correcting",
                       [Blank EXCEPT !.day = d, !.id = id, !.action = "void",
                                     !.corrects = target.id, !.at = target.at,
                                     !.type = target.type])
          BY <4>1 DEF VoidRecord
        <5>2. PICK target \in Range(history[d]) :
                Begins(c, "correcting",
                       [Blank EXCEPT !.day = d, !.id = id, !.action = "void",
                                     !.corrects = target.id, !.at = target.at,
                                     !.type = target.type])
          BY <5>1
        <5> DEFINE asked == [Blank EXCEPT !.day = d, !.id = id, !.action = "void",
                                          !.corrects = target.id, !.at = target.at,
                                          !.type = target.type]
        <5>3. Begins(c, "correcting", asked) /\ asked.day = d
          BY <5>2 DEF Blank
        <5> HIDE DEF asked
        <5> QED
          BY <5>3
      <4>2. CASE AdjustRecord(c)
        <5>1. PICK d \in Days, id \in Ids, at \in Instants, type \in Types :
                \E target \in Range(history[d]) :
                  Begins(c, "correcting",
                         [Blank EXCEPT !.day = d, !.id = id, !.action = "adjust",
                                       !.corrects = target.id, !.at = at, !.type = type])
          BY <4>2 DEF AdjustRecord
        <5>2. PICK target \in Range(history[d]) :
                Begins(c, "correcting",
                       [Blank EXCEPT !.day = d, !.id = id, !.action = "adjust",
                                     !.corrects = target.id, !.at = at, !.type = type])
          BY <5>1
        <5> DEFINE asked == [Blank EXCEPT !.day = d, !.id = id, !.action = "adjust",
                                          !.corrects = target.id, !.at = at, !.type = type]
        <5>3. Begins(c, "correcting", asked) /\ asked.day = d
          BY <5>2 DEF Blank
        <5> HIDE DEF asked
        <5> QED
          BY <5>3
      <4> QED
        BY <2>3, <4>1, <4>2
    <3>2. pc'[c] = "correcting" /\ tx'[c].day \in Days
      BY <2>0, <3>1 DEF Begins, Goes
    <3> QED
      BY <3>2 DEF Prepared, OfADay
  <2>4. CASE LockEmployee(c)
    <3> DEFINE d == IF pc[c] = "punching" THEN ResolveBusinessDate(tx[c].at, tx[c].type)
                    ELSE tx[c].day
    <3>1. d \in Days
      BY <2>0, <2>4, ResolvedDayIsKnown DEF LockEmployee, Goes, Prepared, OfADay
    <3>2. tx'[c].day = d /\ pc'[c] = "locked"
      BY <2>0, <2>4 DEF LockEmployee, Goes, Transactions
    <3> QED
      BY <3>1, <3>2 DEF Prepared
  <2>5. CASE Duplicate(c) \/ RefuseRecord(c) \/ Record(c)
    BY <2>0, <2>5 DEF Duplicate, RefuseRecord, Record, RollsBack, EndsUnrecorded, Ends, Goes,
                      Prepared,
                      OfADay
  <2>6. CASE ReadRequest(c) \/ ReadClosing(c)
    <3>1. /\ pc[c] \in OfADay /\ pc'[c] \in {"request read", "day read"}
          /\ tx'[c].day = tx[c].day
      BY <2>0, <2>6, ZenonT(40) DEF ReadRequest, ReadClosing, Goes, OfADay, Transactions
    <3> QED
      BY <2>0, <3>1 DEF Prepared
  <2>7. ASSUME NEW d \in Days, BeginSubmit(c, d) PROVE Prepared(c)'
    BY <2>0, <2>7 DEF BeginSubmit, Begins, Goes, Prepared, OfADay, Blank
  <2>8. CASE ReadRequestToSubmit(c)
    <3>1. CASE CanApply(request[tx[c].day], "SUBMIT")
      <4>1. /\ pc[c] = "submitting" /\ pc'[c] = "deciding"
            /\ tx'[c].day = tx[c].day /\ tx'[c].event = tx[c].event
            /\ tx'[c].request = request[tx[c].day]
        BY <2>0, <2>8, <3>1 DEF ReadRequestToSubmit, Goes, Transactions
      <4> QED
        BY <2>0, <3>1, <4>1 DEF Prepared, OfADay, CanApply
    <3>2. CASE ~CanApply(request[tx[c].day], "SUBMIT")
      BY <2>0, <2>8, <3>2
         DEF ReadRequestToSubmit, RollsBack, EndsUnrecorded, Ends, Goes, Prepared, OfADay
    <3> QED
      BY <3>1, <3>2
  <2>9. ASSUME NEW d \in Days, NEW event \in {"APPROVE", "RETURN", "CANCEL"},
               BeginDecide(c, d, event)
        PROVE  Prepared(c)'
    BY <2>0, <2>9 DEF BeginDecide, Begins, Goes, Prepared, OfADay, Blank, CanApply
  <2>10. CASE SaveRequest(c) \/ Close(c) \/ Reopen(c)
    BY <2>0, <2>10 DEF SaveRequest, Close, Reopen, EndsUnrecorded, Ends, Goes, Prepared, OfADay
  <2>11. CASE BeginClose(c) \/ BeginReopen(c)
    BY <2>0, <2>11 DEF BeginClose, BeginReopen, Begins, Goes, Prepared, OfADay
  <2>12. CASE CountUnapprovedDays(c)
    BY <2>0, <2>12 DEF CountUnapprovedDays, RollsBack, EndsUnrecorded, Ends, Goes, Prepared, OfADay
  <2>13. CASE SaveClosing(c)
    <3>1. pc'[c] = "saved" /\ tx'[c].versions = version
      BY <2>0, <2>13 DEF SaveClosing, Goes, Transactions
    <3> QED
      BY <3>1 DEF Prepared, OfADay, Shape
  <2> QED
    BY <2>1, <2>2, <2>3, <2>4, <2>5, <2>6, <2>7, <2>8, <2>9, <2>10, <2>11, <2>12, <2>13
       DEF ClientStep, Attend, Approve, Month
<1> QED
  BY <1>1, <1>2 DEF AllPrepared

LEMMA ShapeStays ==
  ASSUME Shape, AllPrepared, NEW c \in Clients, ClientStep(c)
  PROVE  Shape'
  BY AttendShape, ApproveShape, MonthShape DEF ClientStep

-----------------------------------------------------------------------------
(* The lock on the employee.                                               *)

Attending == {"locked", "request read", "day read"}

\* Who works on the records of the employee holds the lock, with a key that is new and
\* the day's records as they are.
LockProtects ==
  \A c \in Clients : pc[c] \in Attending =>
    /\ employeeLock = c
    /\ ~Recorded(tx[c].id)
    /\ tx[c].events = history[tx[c].day]

\* Only Record writes records.
LEMMA OnlyRecordInserts ==
  ASSUME NEW c \in Clients, ClientStep(c), ~Record(c)
  PROVE  history' = history /\ version' = version
<1> USE DEF monthVars, attendanceVars
<1>1. CASE Attend(c)
  BY <1>1 DEF Attend, Punch, AddRecord, VoidRecord, AdjustRecord, LockEmployee, Duplicate,
              ReadRequest,
              ReadClosing, RefuseRecord, RollsBack
<1>2. CASE Approve(c)
  BY <1>2 DEF Approve, BeginSubmit, ReadRequestToSubmit, BeginDecide, SaveRequest, RollsBack
<1>3. CASE Month(c)
  BY <1>3 DEF Month, BeginClose, CountUnapprovedDays, SaveClosing, Close, BeginReopen, Reopen,
              RollsBack
<1> QED
  BY <1>1, <1>2, <1>3 DEF ClientStep

\* Nobody takes the lock from its holder.
LEMMA LockStays ==
  ASSUME NEW c \in Clients, ClientStep(c), NEW o \in Clients \ {c}, employeeLock = o
  PROVE  employeeLock' = o
<1>0. o # Nobody
  BY MonthAssumption
<1>1. CASE Attend(c)
  BY <1>0, <1>1 DEF Attend, Punch, AddRecord, VoidRecord, AdjustRecord, LockEmployee, Duplicate,
                    ReadRequest,
              ReadClosing, Record, RefuseRecord, RollsBack, EndsUnrecorded, Ends
<1>2. CASE Approve(c)
  BY <1>2 DEF Approve, BeginSubmit, ReadRequestToSubmit, BeginDecide, SaveRequest, RollsBack,
              EndsUnrecorded, Ends
<1>3. CASE Month(c)
  BY <1>3 DEF Month, BeginClose, CountUnapprovedDays, SaveClosing, Close, BeginReopen, Reopen,
              RollsBack, EndsUnrecorded, Ends
<1> QED
  BY <1>1, <1>2, <1>3 DEF ClientStep

\* Where a step leaves a client that works on records.
LEMMA AttendingSteps ==
  ASSUME Shape, NEW c \in Clients, ClientStep(c), pc'[c] \in Attending
  PROVE  LockEmployee(c) \/ ReadRequest(c) \/ ReadClosing(c)
<1> USE DEF Shape, Attending
<1>1. CASE Attend(c)
  BY <1>1 DEF Attend, Punch, AddRecord, VoidRecord, AdjustRecord, Duplicate, Record, RefuseRecord,
              RollsBack,
              EndsUnrecorded, Begins, Ends, Goes
<1>2. CASE Approve(c)
  BY <1>2 DEF Approve, BeginSubmit, ReadRequestToSubmit, BeginDecide, SaveRequest, RollsBack,
              EndsUnrecorded, Begins, Ends, Goes
<1>3. CASE Month(c)
  BY <1>3 DEF Month, BeginClose, CountUnapprovedDays, SaveClosing, Close, BeginReopen, Reopen,
              RollsBack, EndsUnrecorded, Begins, Ends, Goes
<1> QED
  BY <1>1, <1>2, <1>3 DEF ClientStep

LEMMA LockProtectsStays ==
  ASSUME Shape, LockProtects, NEW c \in Clients, ClientStep(c)
  PROVE  LockProtects'
<1>1. ASSUME NEW o \in Clients \ {c}, pc'[o] \in Attending
      PROVE  /\ employeeLock' = o
             /\ ~Recorded(tx[o].id)'
             /\ tx'[o].events = history'[tx'[o].day]
  <2>1. pc[o] \in Attending /\ tx'[o] = tx[o]
    BY <1>1, OthersStay
  <2>2. employeeLock = o /\ ~Recorded(tx[o].id) /\ tx[o].events = history[tx[o].day]
    BY <2>1 DEF LockProtects
  <2>3. ~Record(c)
    BY <2>2 DEF Record, Ends, Goes, LockProtects, Attending
  <2>4. history' = history
    BY <2>3, OnlyRecordInserts
  <2> QED
    BY <2>1, <2>2, <2>4, LockStays DEF Recorded
<1>2. ASSUME pc'[c] \in Attending
      PROVE  /\ employeeLock' = c
             /\ ~Recorded(tx[c].id)'
             /\ tx'[c].events = history'[tx'[c].day]
  <2>0. tx \in [Clients -> Transactions]
    BY DEF Shape
  <2>1. CASE LockEmployee(c)
    <3>1. /\ history' = history /\ employeeLock' = c /\ ~Recorded(tx[c].id)
          /\ tx'[c].id = tx[c].id
          /\ tx'[c].events = history[tx'[c].day]
      BY <2>0, <2>1 DEF LockEmployee, monthVars, attendanceVars, Transactions
    <3> QED
      BY <3>1 DEF Recorded
  <2>2. CASE ReadRequest(c) \/ ReadClosing(c)
    <3>1. /\ history' = history /\ employeeLock' = employeeLock
          /\ tx'[c].id = tx[c].id
          /\ tx'[c].events = tx[c].events /\ tx'[c].day = tx[c].day
      BY <2>0, <2>2, ZenonT(40)
         DEF ReadRequest, ReadClosing, monthVars, attendanceVars, Transactions
    <3>2. pc[c] \in Attending
      BY <2>2 DEF ReadRequest, ReadClosing, Goes, Attending
    <3> QED
      BY <3>1, <3>2 DEF Recorded, LockProtects
  <2> QED
    BY <1>2, <2>1, <2>2, AttendingSteps
<1> QED
  BY <1>1, <1>2 DEF LockProtects

-----------------------------------------------------------------------------
(* Any number of clients.                                                  *)

LockInv == Shape /\ AllPrepared /\ LockProtects

LEMMA InitLockInv == Init => LockInv
<1> SUFFICES ASSUME Init PROVE LockInv
  OBVIOUS
<1>1. Shape
  BY BlankIsTransaction DEF Init, Shape, Steps, RequestStates
<1>2. AllPrepared /\ LockProtects
  BY DEF Init, AllPrepared, Prepared, LockProtects, OfADay, Attending
<1> QED
  BY <1>1, <1>2 DEF LockInv

LEMMA StepLockInv == LockInv /\ [Next]_vars => LockInv'
<1> SUFFICES ASSUME LockInv, [Next]_vars PROVE LockInv'
  OBVIOUS
<1>1. ASSUME NEW c \in Clients, ClientStep(c) PROVE LockInv'
  BY <1>1, ShapeStays, PreparedStays, LockProtectsStays DEF LockInv
<1>2. CASE UNCHANGED vars
  <2> USE <1>2 DEF LockInv, vars, monthVars, attendanceVars, requestVars, closingVars
  <2>1. Shape'
    BY DEF Shape
  <2>2. AllPrepared'
    BY DEF AllPrepared, Prepared, CanApply
  <2>3. LockProtects'
    BY DEF LockProtects, Recorded
  <2> QED
    BY <2>1, <2>2, <2>3
<1> QED
  BY <1>1, <1>2 DEF Next, ClientStep

LEMMA AlwaysLockInv == Spec => []LockInv
  BY InitLockInv, StepLockInv, PTL DEF Spec

(***************************************************************************)
(* Whatever retries run beside each other, a transaction that is about to  *)
(* insert has a key nobody has recorded (record.ts, recordAttendanceEvent).*)
(***************************************************************************)
THEOREM RetriesDoNotInsert == Spec => []InsertsAreFresh
<1>1. LockInv => InsertsAreFresh
  BY DEF LockInv, LockProtects, Attending, InsertsAreFresh
<1> QED
  BY <1>1, AlwaysLockInv, PTL

(***************************************************************************)
(* Whoever else punches or corrects, a punch is recorded on a day whose    *)
(* state accepts it at that moment (record.ts, recordAttendanceEvent).     *)
(***************************************************************************)
THEOREM LockSerialisesPunches == Spec => PunchesAreAccepted
<1>1. ASSUME LockInv, [Next]_vars, NEW d \in Days, NEW e \in Added(d), e.action = "punch"
      PROVE  Accepts(StateOf(history[d]), e.type)
  <2>1. PICK i \in DOMAIN history'[d] : e = history'[d][i] /\ e \notin Range(history[d])
    BY <1>1 DEF Added, Range
  <2>2. history'[d] # history[d]
    BY <2>1 DEF Range
  <2>3. PICK c \in Clients : Record(c)
    BY <1>1, <2>2, OnlyRecordInserts
       DEF Next, ClientStep, vars, monthVars, attendanceVars
  <2> DEFINE new == [id |-> tx[c].id, type |-> tx[c].type, at |-> tx[c].at,
                     action |-> tx[c].action, corrects |-> tx[c].corrects]
             next == InRecordedOrder(c, tx[c].day, new)
  <2>4. pc[c] = "day read" /\ Allowed(c) /\ tx[c] \in Transactions /\ tx[c].day \in Days
    BY <1>1, <2>3 DEF Record, Ends, Goes, LockInv, Shape, AllPrepared, Prepared, OfADay
  <2>5. history' = [history EXCEPT ![tx[c].day] = next]
    BY <2>3 DEF Record, InsertEvent
  <2>6. d = tx[c].day /\ history'[d] = next
    <3> HIDE DEF next
    <3> QED
      BY <1>1, <2>2, <2>4, <2>5 DEF LockInv, Shape
  <2>7. new \in Stored
    BY <2>4 DEF Stored, Transactions
  <2>8. e = new
    <3> HIDE DEF new
    <3>1. \A k \in DOMAIN next :
            next[k] = new \/ \E j \in DOMAIN history[d] : history[d][j] = next[k]
      BY <1>1, <2>4, <2>6, <2>7, InsertedInOrder DEF LockInv
    <3>2. i \in DOMAIN next /\ next[i] = e
      <4> HIDE DEF next
      <4> QED
        BY <2>1, <2>6
    <3> HIDE DEF next
    <3> QED
      BY <2>1, <3>1, <3>2 DEF Range
  <2>9. tx[c].action = "punch" /\ tx[c].type = e.type
    BY <1>1, <2>8
  <2>10. tx[c].events = history[d]
    BY <1>1, <2>4, <2>6 DEF LockInv, LockProtects, Attending
  <2> QED
    BY <2>4, <2>9, <2>10 DEF Allowed
<1>2. LockInv /\ [Next]_vars =>
        [\A d \in Days : \A e \in Added(d) :
           e.action = "punch" => Accepts(StateOf(history[d]), e.type)]_vars
  BY <1>1
<1> QED
  BY <1>2, AlwaysLockInv, PTL DEF Spec, PunchesAreAccepted

-----------------------------------------------------------------------------
(* The order of recorded_at.                                               *)

\* What was recorded after a record, by transactions that are listed, is listed behind it.
Ordered(records, order) ==
  \A i, j \in DOMAIN records, p \in DOMAIN order :
    i < j /\ order[p] = records[i].id => \E q \in DOMAIN order : p < q /\ order[q] = records[j].id

\* An open transaction is listed once.
Once(order) ==
  \A p, q \in DOMAIN order : order[p] \in Clients /\ order[p] = order[q] => p = q

Open(order) == {c \in Clients : \E p \in DOMAIN order : order[p] = c}
Marked(order) == {x \in Ids : \E p \in DOMAIN order : order[p] = x}

Orders == Seq(Clients \union Ids)
Keyed(records) == \A i \in DOMAIN records : records[i].id \in Ids

\* What is left of an order when its first k entries are dropped.
Drops(k, order, left) ==
  /\ left \in Orders /\ Len(left) = Len(order) - k
  /\ \A p \in 1 .. Len(left) : left[p] = order[p + k]

LEMMA Smallest ==
  ASSUME NEW S \in SUBSET Nat, S # {}
  PROVE  Min(S) \in S /\ \A y \in S : Min(S) <= y
<1>1. PICK x \in S : \A y \in S : ~(<<y, x>> \in OpToRel(<, Nat))
  BY NatLessThanWellFounded, WFMin
<1>2. \A y \in S : <<y, x>> \in Nat \X Nat /\ <<y, x>>[1] = y /\ <<y, x>>[2] = x
  OBVIOUS
<1>3. \A y \in S : ~(y < x)
  BY <1>1, <1>2 DEF OpToRel
<1>4. \A y \in S : x <= y
  BY <1>3
<1> QED
  BY <1>4 DEF Min

LEMMA SinceOpenDrops ==
  ASSUME NEW order \in Orders
  PROVE  \E k \in 0 .. Len(order) :
           Drops(k, order, SinceOpen(order)) /\ \A p \in 1 .. k : order[p] \notin Clients
<1> DEFINE opened == {i \in 1 .. Len(order) : order[i] \in Clients}
<1>0. order \in Seq(Clients \union Ids) /\ Len(order) \in Nat
  BY DEF Orders
<1>1. CASE opened = {}
  <2>1. SinceOpen(order) = <<>>
    BY <1>1 DEF SinceOpen, SelectInSeq
  <2>2. Drops(Len(order), order, <<>>)
    BY <1>0 DEF Drops, Orders
  <2>3. \A p \in 1 .. Len(order) : order[p] \notin Clients
    BY <1>1
  <2> QED
    BY <1>0, <2>1, <2>2, <2>3
<1>2. CASE opened # {}
  <2>1. Min(opened) \in opened /\ \A i \in opened : Min(opened) <= i
    <3>1. opened \in SUBSET Nat
      OBVIOUS
    <3> HIDE DEF opened
    <3> QED
      BY <1>2, <3>1, Smallest
  <2>2. PICK first \in 1 .. Len(order) :
          /\ first = Min(opened) /\ order[first] \in Clients
          /\ \A i \in opened : first <= i
    BY <2>1
  <2>3. SinceOpen(order)
          = IF Min(opened) = 0 THEN <<>> ELSE SubSeq(order, Min(opened), Len(order))
    BY <1>2 DEF SinceOpen, SelectInSeq
  <2>4. SinceOpen(order) = SubSeq(order, first, Len(order))
    <3>1. first # 0 /\ first = Min(opened)
      BY <1>0, <2>2
    <3> QED
      BY <2>3, <3>1, Zenon
  <2> DEFINE left == SubSeq(order, first, Len(order))
  <2>5. Drops(first - 1, order, left)
    <3>1. /\ left \in Seq(Clients \union Ids) /\ Len(left) = Len(order) - first + 1
          /\ \A i \in 1 .. Len(order) - first + 1 : left[i] = order[first + i - 1]
      <4>1. PICK S : S = Clients \union Ids
        OBVIOUS
      <4>2. /\ left \in Seq(S) /\ Len(left) = Len(order) - first + 1
            /\ \A i \in 1 .. Len(order) - first + 1 : left[i] = order[first + i - 1]
        <5>1. order \in Seq(S)
          BY <1>0, <4>1
        <5> QED
          BY <5>1, SubSeqProperties
      <4> QED
        BY <4>1, <4>2
    <3> HIDE DEF left
    <3>2. Len(left) = Len(order) - (first - 1)
      BY <1>0, <2>2, <3>1
    <3>3. ASSUME NEW p \in 1 .. Len(left) PROVE left[p] = order[p + (first - 1)]
      <4>1. p \in 1 .. Len(order) - first + 1 /\ first + p - 1 = p + (first - 1)
        BY <1>0, <2>2, <3>1
      <4> QED
        BY <3>1, <4>1
    <3> QED
      BY <3>1, <3>2, <3>3 DEF Drops, Orders
  <2>6. \A p \in 1 .. first - 1 : order[p] \notin Clients
    BY <1>0, <2>2
  <2>7. first - 1 \in 0 .. Len(order)
    BY <1>0, <2>2
  <2> HIDE DEF left
  <2> QED
    BY <2>4, <2>5, <2>6, <2>7 DEF left
<1> QED
  BY <1>1, <1>2

\* Dropping what began before every open transaction loses none, and keeps the order.
LEMMA SinceOpenKeeps ==
  ASSUME NEW order \in Orders
  PROVE  /\ SinceOpen(order) \in Orders
         /\ Once(order) => Once(SinceOpen(order))
         /\ Open(SinceOpen(order)) = Open(order)
         /\ Marked(SinceOpen(order)) \subseteq Marked(order)
         /\ \A records : Ordered(records, order) => Ordered(records, SinceOpen(order))
<1>1. PICK k \in 0 .. Len(order) :
        Drops(k, order, SinceOpen(order)) /\ \A p \in 1 .. k : order[p] \notin Clients
  BY SinceOpenDrops
<1>2. PICK left : left = SinceOpen(order)
  OBVIOUS
<1>3. /\ left \in Orders /\ Len(left) = Len(order) - k /\ Len(order) \in Nat /\ k \in Nat
      /\ DOMAIN left = 1 .. Len(order) - k /\ DOMAIN order = 1 .. Len(order)
      /\ \A p \in DOMAIN left : left[p] = order[p + k] /\ p + k \in DOMAIN order
  BY <1>1, <1>2 DEF Drops, Orders
<1>4. ASSUME NEW q \in DOMAIN order, q > k
      PROVE  q - k \in DOMAIN left /\ left[q - k] = order[q]
  BY <1>3, <1>4
<1>5. Once(order) => Once(left)
  BY <1>3 DEF Once
<1>6. Open(left) = Open(order)
  <2>1. Open(left) \subseteq Open(order)
    BY <1>3 DEF Open
  <2>2. ASSUME NEW c \in Open(order) PROVE c \in Open(left)
    <3>1. PICK q \in DOMAIN order : order[q] = c
      BY <2>2 DEF Open
    <3>2. q > k
      BY <1>1, <1>3, <2>2, <3>1 DEF Open
    <3> QED
      BY <1>4, <2>2, <3>1, <3>2 DEF Open
  <2> QED
    BY <2>1, <2>2
<1>7. Marked(left) \subseteq Marked(order)
  BY <1>3 DEF Marked
<1>8. ASSUME NEW records, Ordered(records, order) PROVE Ordered(records, left)
  <2> SUFFICES ASSUME NEW i \in DOMAIN records, NEW j \in DOMAIN records, NEW p \in DOMAIN left,
                      i < j, left[p] = records[i].id
               PROVE  \E q \in DOMAIN left : p < q /\ left[q] = records[j].id
    BY DEF Ordered
  <2>1. p + k \in DOMAIN order /\ order[p + k] = records[i].id
    BY <1>3
  <2>2. PICK q \in DOMAIN order : p + k < q /\ order[q] = records[j].id
    BY <1>8, <2>1 DEF Ordered
  <2>3. q > k /\ p < q - k
    BY <1>3, <2>2
  <2> QED
    BY <1>4, <2>2, <2>3
<1> QED
  BY <1>2, <1>3, <1>5, <1>6, <1>7, <1>8

LEMMA RemovedAt ==
  ASSUME NEW S, NEW s \in Seq(S), NEW n \in 1 .. Len(s)
  PROVE  /\ RemoveAt(s, n) \in Seq(S)
         /\ Len(RemoveAt(s, n)) = Len(s) - 1
         /\ \A p \in 1 .. Len(s) - 1 : RemoveAt(s, n)[p] = s[IF p < n THEN p ELSE p + 1]
<1> DEFINE front == SubSeq(s, 1, n - 1)
           back == SubSeq(s, n + 1, Len(s))
<1>1. front \in Seq(S) /\ Len(front) = n - 1 /\ \A i \in 1 .. n - 1 : front[i] = s[i]
  BY SubSeqProperties
<1>2. /\ back \in Seq(S) /\ Len(back) = Len(s) - n
      /\ \A i \in 1 .. Len(s) - n : back[i] = s[n + 1 + i - 1]
  BY SubSeqProperties
<1>3. RemoveAt(s, n) = front \o back
  BY DEF RemoveAt
<1>4. Len(s) \in Nat /\ n \in Nat
  OBVIOUS
<1> HIDE DEF front, back
<1>5. front \o back \in Seq(S) /\ Len(front \o back) = Len(s) - 1
  BY <1>1, <1>2
<1>6. ASSUME NEW p \in 1 .. Len(s) - 1
      PROVE  (front \o back)[p] = s[IF p < n THEN p ELSE p + 1]
  <2>1. CASE p < n
    BY <1>1, <1>2, <1>4, <2>1
  <2>2. CASE p >= n
    <3>1. (front \o back)[p] = back[p - (n - 1)]
      BY <1>1, <1>2, <1>4, <2>2
    <3>2. p - (n - 1) \in 1 .. Len(s) - n /\ n + 1 + (p - (n - 1)) - 1 = p + 1
      BY <1>4, <2>2
    <3> QED
      BY <1>2, <1>4, <2>2, <3>1, <3>2
  <2>3. p < n \/ p >= n
    BY <1>4
  <2> QED
    BY <2>1, <2>2, <2>3
<1> QED
  BY <1>3, <1>5, <1>6

\* A transaction that ends without a record leaves the order of the others.
LEMMA RemovalKeeps ==
  ASSUME NEW order \in Orders, NEW n \in DOMAIN order, order[n] \in Clients, Once(order)
  PROVE  /\ RemoveAt(order, n) \in Orders
         /\ Once(RemoveAt(order, n))
         /\ Open(RemoveAt(order, n)) = Open(order) \ {order[n]}
         /\ Marked(RemoveAt(order, n)) \subseteq Marked(order)
         /\ \A records :
              Keyed(records) /\ Ordered(records, order) => Ordered(records, RemoveAt(order, n))
<1>1. PICK left : left = RemoveAt(order, n)
  OBVIOUS
<1>2. order \in Seq(Clients \union Ids) /\ Len(order) \in Nat /\ n \in 1 .. Len(order)
  BY DEF Orders
<1>3. /\ left \in Orders /\ Len(left) = Len(order) - 1
      /\ \A p \in 1 .. Len(order) - 1 : left[p] = order[IF p < n THEN p ELSE p + 1]
  <2>1. \A s \in Seq(Clients \union Ids) : \A m \in 1 .. Len(s) :
          /\ RemoveAt(s, m) \in Seq(Clients \union Ids)
          /\ Len(RemoveAt(s, m)) = Len(s) - 1
          /\ \A p \in 1 .. Len(s) - 1 : RemoveAt(s, m)[p] = s[IF p < m THEN p ELSE p + 1]
    BY RemovedAt
  <2> QED
    BY <1>1, <1>2, <2>1 DEF Orders
<1>4. DOMAIN left = 1 .. Len(order) - 1 /\ DOMAIN order = 1 .. Len(order) /\ n \in Nat
  BY <1>2, <1>3 DEF Orders
<1>5. ASSUME NEW p \in DOMAIN left
      PROVE  \E q \in DOMAIN order :
               left[p] = order[q] /\ q # n /\ q = IF p < n THEN p ELSE p + 1
  BY <1>2, <1>3, <1>4
<1>6. ASSUME NEW q \in DOMAIN order, q # n
      PROVE  \E p \in DOMAIN left : left[p] = order[q] /\ p = IF q < n THEN q ELSE q - 1
  <2>1. CASE q < n
    BY <1>2, <1>3, <1>4, <2>1
  <2>2. CASE q > n
    <3>1. q - 1 \in DOMAIN left /\ ~(q - 1 < n) /\ (q - 1) + 1 = q
      BY <1>2, <1>4, <2>2
    <3>2. left[q - 1] = order[q]
      BY <1>3, <1>4, <3>1
    <3> QED
      BY <1>4, <2>2, <3>1, <3>2
  <2> QED
    BY <1>4, <1>6, <2>1, <2>2
<1>7. Once(left)
  <2> SUFFICES ASSUME NEW p \in DOMAIN left, NEW q \in DOMAIN left, left[p] \in Clients,
                      left[p] = left[q]
               PROVE  p = q
    BY DEF Once
  <2>1. PICK a \in DOMAIN order : left[p] = order[a] /\ a = IF p < n THEN p ELSE p + 1
    BY <1>5
  <2>2. PICK b \in DOMAIN order : left[q] = order[b] /\ b = IF q < n THEN q ELSE q + 1
    BY <1>5
  <2>3. a = b
    BY <2>1, <2>2 DEF Once
  <2> QED
    BY <1>4, <2>1, <2>2, <2>3
<1>8. Open(left) = Open(order) \ {order[n]}
  <2>1. ASSUME NEW c \in Open(left) PROVE c \in Open(order) \ {order[n]}
    <3>1. PICK p \in DOMAIN left : left[p] = c /\ c \in Clients
      BY <2>1 DEF Open
    <3>2. PICK q \in DOMAIN order : order[q] = c /\ q # n
      BY <1>5, <3>1
    <3> QED
      BY <3>1, <3>2 DEF Open, Once
  <2>2. ASSUME NEW c \in Open(order) \ {order[n]} PROVE c \in Open(left)
    <3>1. PICK q \in DOMAIN order : order[q] = c /\ q # n /\ c \in Clients
      BY <2>2 DEF Open
    <3> QED
      BY <1>6, <3>1 DEF Open
  <2> QED
    BY <2>1, <2>2
<1>9. Marked(left) \subseteq Marked(order)
  BY <1>5 DEF Marked
<1>10. ASSUME NEW records, Keyed(records), Ordered(records, order) PROVE Ordered(records, left)
  <2> SUFFICES ASSUME NEW i \in DOMAIN records, NEW j \in DOMAIN records, NEW p \in DOMAIN left,
                      i < j, left[p] = records[i].id
               PROVE  \E q \in DOMAIN left : p < q /\ left[q] = records[j].id
    BY DEF Ordered
  <2>1. PICK a \in DOMAIN order : left[p] = order[a] /\ a = IF p < n THEN p ELSE p + 1
    BY <1>5
  <2>2. PICK b \in DOMAIN order : a < b /\ order[b] = records[j].id
    BY <1>10, <2>1 DEF Ordered
  <2>3. b # n
    BY <1>10, <2>2, MonthAssumption DEF Keyed
  <2>4. PICK q \in DOMAIN left : left[q] = order[b] /\ q = IF b < n THEN b ELSE b - 1
    BY <1>6, <2>3
  <2>5. p < q
    BY <1>4, <2>1, <2>2, <2>3, <2>4
  <2> QED
    BY <2>2, <2>4, <2>5
<1> QED
  BY <1>1, <1>3, <1>7, <1>8, <1>9, <1>10

\* A transaction that begins is listed behind the others.
LEMMA AppendKeeps ==
  ASSUME NEW order \in Orders, NEW c \in Clients \ Open(order), Once(order)
  PROVE  /\ Append(order, c) \in Orders
         /\ Once(Append(order, c))
         /\ Open(Append(order, c)) = Open(order) \union {c}
         /\ Marked(Append(order, c)) \subseteq Marked(order)
         /\ \A records :
              Keyed(records) /\ Ordered(records, order) => Ordered(records, Append(order, c))
<1>1. PICK next : next = Append(order, c)
  OBVIOUS
<1>2. order \in Seq(Clients \union Ids) /\ Len(order) \in Nat /\ c \in Clients \union Ids
  BY DEF Orders
<1>3. /\ next \in Orders /\ Len(next) = Len(order) + 1 /\ next[Len(order) + 1] = c
      /\ \A p \in 1 .. Len(order) : next[p] = order[p]
  BY <1>1, <1>2, AppendProperties DEF Orders
<1>4. DOMAIN next = 1 .. Len(order) + 1 /\ DOMAIN order = 1 .. Len(order)
  BY <1>2, <1>3 DEF Orders
<1>5. \A p \in DOMAIN order : p \in DOMAIN next /\ next[p] = order[p]
  BY <1>2, <1>3, <1>4
<1>6. \A p \in DOMAIN next : p \in DOMAIN order \/ (p = Len(order) + 1 /\ next[p] = c)
  BY <1>2, <1>3, <1>4
<1>7. Len(order) + 1 \in DOMAIN next
  BY <1>2, <1>4
<1>8. \A p \in DOMAIN order : order[p] # c
  BY DEF Open
<1>9. c \notin Ids
  BY MonthAssumption
<1>10. Once(next)
  BY <1>5, <1>6, <1>8 DEF Once
<1>11. Open(next) = Open(order) \union {c}
  BY <1>3, <1>5, <1>6, <1>7 DEF Open
<1>12. Marked(next) \subseteq Marked(order)
  BY <1>5, <1>6, <1>9 DEF Marked
<1>13. ASSUME NEW records, Keyed(records), Ordered(records, order) PROVE Ordered(records, next)
  BY <1>5, <1>6, <1>9, <1>13 DEF Keyed, Ordered
<1> QED
  BY <1>1, <1>3, <1>10, <1>11, <1>12, <1>13

\* A transaction that records leaves its record where it began.
LEMMA MarkKeeps ==
  ASSUME NEW order \in Orders, NEW n \in DOMAIN order, order[n] \in Clients, Once(order),
         NEW x \in Ids
  PROVE  LET marked == [order EXCEPT ![n] = x] IN
         /\ marked \in Orders
         /\ Once(marked)
         /\ Open(marked) = Open(order) \ {order[n]}
         /\ Marked(marked) \subseteq Marked(order) \union {x}
         /\ \A records :
              /\ Keyed(records) /\ Ordered(records, order)
              /\ \A i \in DOMAIN records : records[i].id # x
              => Ordered(records, marked)
<1>1. PICK marked : marked = [order EXCEPT ![n] = x]
  OBVIOUS
<1>2. order \in Seq(Clients \union Ids) /\ x \notin Clients /\ order[n] \notin Ids
  BY MonthAssumption DEF Orders
<1>3. marked \in Orders /\ DOMAIN marked = DOMAIN order
  BY <1>1, <1>2 DEF Orders
<1>4. marked[n] = x /\ \A p \in DOMAIN order \ {n} : marked[p] = order[p]
  BY <1>1
<1>5. Once(marked)
  BY <1>2, <1>3, <1>4 DEF Once
<1>6. Open(marked) = Open(order) \ {order[n]}
  BY <1>2, <1>3, <1>4 DEF Open, Once
<1>7. Marked(marked) \subseteq Marked(order) \union {x}
  BY <1>3, <1>4 DEF Marked
<1>8. ASSUME NEW records, Keyed(records), Ordered(records, order),
             \A i \in DOMAIN records : records[i].id # x
      PROVE  Ordered(records, marked)
  <2> SUFFICES ASSUME NEW i \in DOMAIN records, NEW j \in DOMAIN records, NEW p \in DOMAIN marked,
                      i < j, marked[p] = records[i].id
               PROVE  \E q \in DOMAIN marked : p < q /\ marked[q] = records[j].id
    BY DEF Ordered
  <2>1. p # n /\ order[p] = records[i].id
    BY <1>3, <1>4, <1>8
  <2>2. PICK q \in DOMAIN order : p < q /\ order[q] = records[j].id
    BY <1>3, <1>8, <2>1 DEF Ordered
  <2>3. q # n
    BY <1>2, <1>8, <2>2 DEF Keyed
  <2> QED
    BY <1>3, <1>4, <2>2, <2>3
<1> QED
  BY <1>1, <1>3, <1>5, <1>6, <1>7, <1>8

\* What transactions recorded that are listed behind the n-th.
Behind(order, n) == {order[i] : i \in {i \in DOMAIN order : i > n}} \intersect Ids

\* The records that are not.
Ahead(records, order, n) == {i \in DOMAIN records : records[i].id \notin Behind(order, n)}

LEMMA Largest ==
  ASSUME NEW n \in Nat, NEW S \in SUBSET (1 .. n), S # {}
  PROVE  \E m \in S : \A k \in S : k <= m
<1> DEFINE above == {k \in Nat : \A y \in S : y <= k}
<1>1. n \in above /\ above \in SUBSET Nat
  OBVIOUS
<1>2. PICK m \in above : \A k \in above : m <= k
  <2> HIDE DEF above
  <2> QED
    BY <1>1, Smallest
<1>3. m \in Nat /\ \A y \in S : y <= m
  OBVIOUS
<1>4. m \in S
  <2> SUFFICES ASSUME m \notin S PROVE FALSE
    OBVIOUS
  <2>1. \A y \in S : y < m
    BY <1>3
  <2>2. m > 0
    <3>1. PICK y \in S : TRUE
      OBVIOUS
    <3> QED
      BY <1>3, <2>1, <3>1
  <2>3. m - 1 \in above
    BY <1>3, <2>1, <2>2
  <2>4. m <= m - 1
    <3> HIDE DEF above
    <3> QED
      BY <1>2, <2>3
  <2> QED
    BY <1>3, <2>4
<1> QED
  BY <1>3, <1>4

\* The records that do not lie behind an entry are the first ones.
LEMMA EarlierComeFirst ==
  ASSUME NEW S, NEW records \in Seq(S), NEW order \in Orders, NEW n \in DOMAIN order,
         Keyed(records), Ordered(records, order)
  PROVE  /\ Cardinality(Ahead(records, order, n)) \in 0 .. Len(records)
         /\ Ahead(records, order, n) = 1 .. Cardinality(Ahead(records, order, n))
<1>0. PICK earlier : earlier = Ahead(records, order, n)
  OBVIOUS
<1>1. earlier = {i \in DOMAIN records : records[i].id \notin Behind(order, n)}
  BY <1>0 DEF Ahead
<1>2. earlier \subseteq 1 .. Len(records) /\ Len(records) \in Nat
  BY <1>1
<1>3. ASSUME NEW j \in earlier, NEW i \in DOMAIN records, i < j
      PROVE  i \in earlier
  <2> SUFFICES ASSUME records[i].id \in Behind(order, n) PROVE FALSE
    BY <1>1
  <2>1. PICK p \in DOMAIN order : p > n /\ order[p] = records[i].id
    BY DEF Behind
  <2>2. j \in DOMAIN records /\ records[j].id \notin Behind(order, n)
    BY <1>1
  <2>3. PICK q \in DOMAIN order : p < q /\ order[q] = records[j].id
    BY <1>3, <2>1, <2>2 DEF Ordered
  <2>4. q > n /\ records[j].id \in Ids
    <3>1. DOMAIN order \subseteq Int
      BY DEF Orders
    <3> QED
      BY <2>1, <2>2, <2>3, <3>1 DEF Keyed
  <2> QED
    BY <2>2, <2>3, <2>4 DEF Behind
<1>4. \E m \in 0 .. Len(records) : earlier = 1 .. m
  <2>1. CASE earlier = {}
    BY <1>2, <2>1
  <2>2. CASE earlier # {}
    <3>1. PICK m \in earlier : \A k \in earlier : k <= m
      BY <1>2, <2>2, Largest
    <3>2. m \in Nat /\ m \in 1 .. Len(records)
      BY <1>2, <3>1
    <3>3. \A k \in earlier : k \in 1 .. m
      BY <1>2, <3>1, <3>2
    <3>4. \A k \in 1 .. m : k = m \/ (k \in DOMAIN records /\ k < m)
      BY <1>2, <3>2
    <3>5. \A k \in 1 .. m : k \in earlier
      BY <1>3, <3>1, <3>4
    <3>6. earlier = 1 .. m
      BY <3>3, <3>5
    <3> QED
      BY <1>2, <3>2, <3>6
  <2> QED
    BY <2>1, <2>2
<1>5. PICK m \in 0 .. Len(records) : earlier = 1 .. m
  BY <1>4
<1>6. Cardinality(earlier) = m
  <2>1. m \in Nat
    OBVIOUS
  <2>2. Cardinality(1 .. m) = IF 1 > m THEN 0 ELSE m - 1 + 1
    BY <2>1, FS_Interval
  <2> QED
    BY <1>5, <2>1, <2>2
<1> QED
  BY <1>0, <1>5, <1>6

\* The record of the n-th entry, put behind those that are not behind the entry.
LEMMA InsertionKeeps ==
  ASSUME NEW S, NEW records \in Seq(S), NEW order \in Orders, NEW n \in DOMAIN order,
         NEW m \in 0 .. Len(records), NEW e \in S,
         Keyed(records), Ordered(records, order), Once(order), order[n] \in Clients,
         e.id \in Ids \ Marked(order), \A i \in DOMAIN records : records[i].id # e.id,
         Ahead(records, order, n) = 1 .. m
  PROVE  Ordered(InsertAt(records, m + 1, e), [order EXCEPT ![n] = e.id])
<1>1. PICK next : next = InsertAt(records, m + 1, e)
  OBVIOUS
<1>2. PICK marked : marked = [order EXCEPT ![n] = e.id]
  OBVIOUS
<1>3. /\ Len(records) \in Nat /\ m \in Nat /\ m + 1 \in 1 .. Len(records) + 1
      /\ DOMAIN records = 1 .. Len(records)
  OBVIOUS
<1>4. /\ next \in Seq(S) /\ Len(next) = Len(records) + 1
      /\ \A i \in 1 .. m : next[i] = records[i]
      /\ next[m + 1] = e
      /\ \A i \in m + 2 .. Len(records) + 1 : next[i] = records[i - 1]
  <2>1. PICK k : k = m + 1
    OBVIOUS
  <2>2. k \in 1 .. Len(records) + 1 /\ k - 1 = m /\ k + 1 = m + 2
    BY <1>3, <2>1
  <2>3. Placed(InsertAt(records, k, e), S, records, k, e)
    BY <2>2, InsertedAt
  <2>4. Placed(next, S, records, k, e)
    BY <1>1, <2>1, <2>3
  <2> QED
    BY <2>1, <2>2, <2>4 DEF Placed
<1>5. DOMAIN next = 1 .. Len(records) + 1
  BY <1>4
<1>6. /\ DOMAIN marked = DOMAIN order /\ DOMAIN order \subseteq Nat
      /\ marked[n] = e.id /\ \A p \in DOMAIN order \ {n} : marked[p] = order[p]
  BY <1>2 DEF Orders
<1>7. order[n] \notin Ids /\ e.id \in Ids /\ \A p \in DOMAIN order : order[p] # e.id
  BY MonthAssumption DEF Marked
<1>8. \A i \in DOMAIN records : i <= m <=> records[i].id \notin Behind(order, n)
  BY <1>3 DEF Ahead
<1> SUFFICES ASSUME NEW i \in DOMAIN next, NEW j \in DOMAIN next, NEW p \in DOMAIN marked,
                    i < j, marked[p] = next[i].id
             PROVE  \E q \in DOMAIN marked : p < q /\ marked[q] = next[j].id
  BY <1>1, <1>2 DEF Ordered
<1>9. CASE i = m + 1
  <2>1. p = n
    BY <1>4, <1>6, <1>7, <1>9
  <2>a. j \in m + 2 .. Len(records) + 1 /\ j - 1 \in 1 .. Len(records) /\ ~(j - 1 <= m)
    BY <1>3, <1>5, <1>9
  <2>b. next[j] = records[j - 1]
    BY <1>4, <2>a
  <2>2. j - 1 \in DOMAIN records /\ next[j] = records[j - 1] /\ ~(j - 1 <= m)
    BY <1>3, <2>a, <2>b
  <2>3. records[j - 1].id \in Behind(order, n)
    BY <1>8, <2>2
  <2>4. PICK q \in DOMAIN order : q > n /\ order[q] = records[j - 1].id
    BY <2>3 DEF Behind
  <2> QED
    BY <1>6, <2>1, <2>2, <2>4
<1>10. CASE i # m + 1
  <2>1. PICK a \in DOMAIN records : next[i] = records[a] /\ a = IF i <= m THEN i ELSE i - 1
    BY <1>3, <1>4, <1>5, <1>10
  <2>2. p # n /\ order[p] = records[a].id
    BY <1>6, <2>1
  <2>3. CASE j = m + 1
    <3>1. records[a].id \notin Behind(order, n) /\ records[a].id \in Ids
      BY <1>3, <1>5, <1>8, <2>1, <2>3 DEF Keyed
    <3>2. ~(p > n)
      BY <1>6, <2>2, <3>1 DEF Behind
    <3>3. p < n
      BY <1>6, <2>2, <3>2
    <3> QED
      BY <1>4, <1>6, <2>3, <3>3
  <2>4. CASE j # m + 1
    <3>1. PICK b \in DOMAIN records : next[j] = records[b] /\ b = IF j <= m THEN j ELSE j - 1
      BY <1>3, <1>4, <1>5, <2>4
    <3>2. a < b
      BY <1>3, <1>5, <1>10, <2>1, <2>4, <3>1
    <3>3. PICK q \in DOMAIN order : p < q /\ order[q] = records[b].id
      BY <1>6, <2>2, <3>2 DEF Ordered
    <3>4. q # n
      BY <1>7, <3>3 DEF Keyed
    <3> QED
      BY <1>6, <3>1, <3>3, <3>4
  <2> QED
    BY <2>3, <2>4
<1> QED
  BY <1>9, <1>10

\* Transactions hold keys from when they are asked to record until they did.
Asking == {"punching", "correcting"} \union Attending

TimeInv ==
  /\ begun \in Orders
  /\ Once(begun)
  /\ Open(begun) = {c \in Clients : pc[c] # "idle"}
  /\ \A x \in Marked(begun) : Recorded(x)
  /\ \A d \in Days : Keyed(history[d])
  /\ \A c \in Clients : pc[c] \in Asking => tx[c].id \in Ids
  /\ \A d \in Days : Ordered(history[d], begun)

LEMMA OpenBegan ==
  ASSUME TimeInv, NEW c \in Clients, pc[c] # "idle"
  PROVE  BeganAt(c) \in DOMAIN begun /\ begun[BeganAt(c)] = c
<1>1. \E p \in DOMAIN begun : begun[p] = c
  <2>1. c \in Open(begun)
    BY DEF TimeInv
  <2> QED
    BY <2>1 DEF Open
<1> QED
  BY <1>1 DEF BeganAt

\* A transaction begins, goes on or ends.
LEMMA KindsOfStep ==
  ASSUME Shape, NEW c \in Clients, ClientStep(c), ~Record(c)
  PROVE  \/ pc[c] = "idle" /\ pc'[c] # "idle" /\ begun' = Append(begun, c)
         \/ pc[c] # "idle" /\ pc'[c] = "idle" /\ begun' = SinceOpen(RemoveAt(begun, BeganAt(c)))
         \/ pc[c] # "idle" /\ pc'[c] # "idle" /\ begun' = begun
<1> USE DEF Shape
<1>1. CASE Attend(c)
  <2>1. CASE Punch(c) \/ AddRecord(c) \/ VoidRecord(c) \/ AdjustRecord(c)
    BY <2>1 DEF Punch, AddRecord, VoidRecord, AdjustRecord, Begins, Goes
  <2>2. CASE LockEmployee(c) \/ ReadRequest(c) \/ ReadClosing(c)
    BY <2>2 DEF LockEmployee, ReadRequest, ReadClosing, Goes
  <2>3. CASE Duplicate(c) \/ RefuseRecord(c)
    BY <2>3 DEF Duplicate, RefuseRecord, RollsBack, EndsUnrecorded, Ends, Goes
  <2> QED
    BY <1>1, <2>1, <2>2, <2>3 DEF Attend
<1>2. CASE Approve(c)
  <2>1. ASSUME NEW d \in Days, BeginSubmit(c, d)
        PROVE  pc[c] = "idle" /\ pc'[c] # "idle" /\ begun' = Append(begun, c)
    BY <2>1 DEF BeginSubmit, Begins, Goes
  <2>2. ASSUME NEW d \in Days, NEW event, BeginDecide(c, d, event)
        PROVE  pc[c] = "idle" /\ pc'[c] # "idle" /\ begun' = Append(begun, c)
    BY <2>2 DEF BeginDecide, Begins, Goes
  <2>3. CASE ReadRequestToSubmit(c)
    BY <2>3 DEF ReadRequestToSubmit, RollsBack, EndsUnrecorded, Ends, Goes
  <2>4. CASE SaveRequest(c)
    BY <2>4 DEF SaveRequest, EndsUnrecorded, Ends, Goes
  <2> QED
    BY <1>2, <2>1, <2>2, <2>3, <2>4 DEF Approve
<1>3. CASE Month(c)
  <2>1. CASE BeginClose(c) \/ BeginReopen(c)
    BY <2>1 DEF BeginClose, BeginReopen, Begins, Goes
  <2>2. CASE CountUnapprovedDays(c)
    BY <2>2 DEF CountUnapprovedDays, RollsBack, EndsUnrecorded, Ends, Goes
  <2>3. CASE SaveClosing(c)
    BY <2>3 DEF SaveClosing, Goes
  <2>4. CASE Close(c) \/ Reopen(c)
    BY <2>4 DEF Close, Reopen, EndsUnrecorded, Ends, Goes
  <2> QED
    BY <1>3, <2>1, <2>2, <2>3, <2>4 DEF Month
<1> QED
  BY <1>1, <1>2, <1>3 DEF ClientStep

\* Who is asked to record has a key, and keeps it.
LEMMA KeysStay ==
  ASSUME Shape, TimeInv, NEW c \in Clients, ClientStep(c), NEW o \in Clients, pc'[o] \in Asking
  PROVE  tx'[o].id \in Ids
<1>0. tx \in [Clients -> Transactions] /\ pc \in [Clients -> Steps]
  BY DEF Shape
<1>1. CASE o # c
  BY <1>1, OthersStay DEF TimeInv
<1>2. CASE o = c /\ pc'[c] \in Attending
  <2>1. /\ pc[c] \in Asking /\ tx'[c].id = tx[c].id
    <3>1. CASE LockEmployee(c)
      BY <1>0, <3>1 DEF LockEmployee, Goes, Asking, Transactions
    <3>2. CASE ReadRequest(c) \/ ReadClosing(c)
      BY <1>0, <3>2 DEF ReadRequest, ReadClosing, Goes, Asking, Attending, Transactions
    <3> QED
      BY <1>2, <3>1, <3>2, AttendingSteps
  <2> QED
    BY <1>2, <2>1 DEF TimeInv
<1>3. CASE o = c /\ pc'[c] \in {"punching", "correcting"}
  <2>0. pc'[c] \in {"punching", "correcting"}
    BY <1>3
  <2>1. Punch(c) \/ AddRecord(c) \/ VoidRecord(c) \/ AdjustRecord(c)
    <3>1. CASE Attend(c)
      BY <1>0, <2>0, <3>1
         DEF Attend, LockEmployee, Duplicate, ReadRequest, ReadClosing, Record, RefuseRecord,
             RollsBack, EndsUnrecorded, Ends, Goes
    <3>2. CASE Approve(c)
      BY <1>0, <2>0, <3>2
         DEF Approve, BeginSubmit, ReadRequestToSubmit, BeginDecide, SaveRequest, RollsBack,
             EndsUnrecorded, Begins, Ends, Goes
    <3>3. CASE Month(c)
      BY <1>0, <2>0, <3>3
         DEF Month, BeginClose, CountUnapprovedDays, SaveClosing, Close, BeginReopen, Reopen,
             RollsBack, EndsUnrecorded, Begins, Ends, Goes
    <3> QED
      BY <3>1, <3>2, <3>3 DEF ClientStep
  <2>2. \E key \in Ids : \E asked : asked.id = key /\ tx' = [tx EXCEPT ![c] = asked]
    <3>1. CASE Punch(c)
      <4>1. PICK at \in Instants, id \in Ids, type \in Types :
              Begins(c, "punching", [Blank EXCEPT !.at = at, !.id = id, !.type = type])
        BY <3>1 DEF Punch
      <4>2. [Blank EXCEPT !.at = at, !.id = id, !.type = type].id = id
        BY DEF Blank
      <4> QED
        BY <4>1, <4>2 DEF Begins
    <3>2. CASE AddRecord(c)
      <4>1. PICK at \in Instants, d \in Days, id \in Ids, type \in Types :
              Begins(c, "correcting",
                     [Blank EXCEPT !.day = d, !.at = at, !.id = id, !.type = type,
                                   !.action = "add"])
        BY <3>2 DEF AddRecord
      <4>2. [Blank EXCEPT !.day = d, !.at = at, !.id = id, !.type = type, !.action = "add"].id = id
        BY DEF Blank
      <4> QED
        BY <4>1, <4>2 DEF Begins
    <3>3. CASE VoidRecord(c)
      <4>1. PICK d \in Days, id \in Ids : \E target \in Range(history[d]) :
              Begins(c, "correcting",
                     [Blank EXCEPT !.day = d, !.id = id, !.action = "void", !.corrects = target.id,
                                   !.at = target.at, !.type = target.type])
        BY <3>3 DEF VoidRecord
      <4>2. PICK target \in Range(history[d]) :
              Begins(c, "correcting",
                     [Blank EXCEPT !.day = d, !.id = id, !.action = "void", !.corrects = target.id,
                                   !.at = target.at, !.type = target.type])
        BY <4>1
      <4>3. [Blank EXCEPT !.day = d, !.id = id, !.action = "void", !.corrects = target.id,
                          !.at = target.at, !.type = target.type].id = id
        BY DEF Blank
      <4> QED
        BY <4>2, <4>3 DEF Begins
    <3>4. CASE AdjustRecord(c)
      <4>1. PICK d \in Days, id \in Ids, at \in Instants, type \in Types :
              \E target \in Range(history[d]) :
                Begins(c, "correcting",
                       [Blank EXCEPT !.day = d, !.id = id, !.action = "adjust",
                                     !.corrects = target.id, !.at = at, !.type = type])
        BY <3>4 DEF AdjustRecord
      <4>2. PICK target \in Range(history[d]) :
              Begins(c, "correcting",
                     [Blank EXCEPT !.day = d, !.id = id, !.action = "adjust",
                                   !.corrects = target.id, !.at = at, !.type = type])
        BY <4>1
      <4>3. [Blank EXCEPT !.day = d, !.id = id, !.action = "adjust", !.corrects = target.id,
                          !.at = at, !.type = type].id = id
        BY DEF Blank
      <4> QED
        BY <4>2, <4>3 DEF Begins
    <3> QED
      BY <2>1, <3>1, <3>2, <3>3, <3>4
  <2> QED
    BY <1>0, <1>3, <2>2
<1> QED
  BY <1>1, <1>2, <1>3 DEF Asking

\* What Record does to the records and to the order.
RecordOf(c) == [id |-> tx[c].id, type |-> tx[c].type, at |-> tx[c].at,
                action |-> tx[c].action, corrects |-> tx[c].corrects]

EarlierThan(c, d) == Ahead(history[d], begun, BeganAt(c))

LEMMA RecordInserts ==
  ASSUME LockInv, TimeInv, NEW c \in Clients, Record(c)
  PROVE  LET d == tx[c].day
             e == RecordOf(c)
             m == Cardinality(EarlierThan(c, d))
             marked == [begun EXCEPT ![BeganAt(c)] = e.id] IN
         /\ d \in Days /\ e \in Stored /\ e.id \in Ids /\ ~Recorded(e.id)
         /\ pc[c] = "day read" /\ BeganAt(c) \in DOMAIN begun /\ begun[BeganAt(c)] = c
         /\ m \in 0 .. Len(history[d]) /\ EarlierThan(c, d) = 1 .. m
         /\ history' = [history EXCEPT ![d] = InsertAt(history[d], m + 1, e)]
         /\ begun' = SinceOpen(marked)
         /\ Ordered(InsertAt(history[d], m + 1, e), marked)
<1>1. PICK d : d = tx[c].day
  OBVIOUS
<1>2. PICK e : e = RecordOf(c)
  OBVIOUS
<1>3. PICK m : m = Cardinality(EarlierThan(c, d))
  OBVIOUS
<1>4. pc[c] = "day read" /\ tx[c] \in Transactions /\ d \in Days /\ history[d] \in Seq(Stored)
  BY <1>1 DEF Record, Ends, Goes, LockInv, Shape, AllPrepared, Prepared, OfADay
<1>5. e \in Stored /\ e.id = tx[c].id
  BY <1>2, <1>4 DEF Stored, Transactions, RecordOf
<1>6. e.id \in Ids /\ ~Recorded(e.id)
  BY <1>4, <1>5 DEF LockInv, LockProtects, Attending, TimeInv, Asking
<1>7. BeganAt(c) \in DOMAIN begun /\ begun[BeganAt(c)] = c
  BY <1>4, OpenBegan
<1>8. RecordedLater(c) = Behind(begun, BeganAt(c))
  BY DEF RecordedLater, Behind
<1>9. /\ begun \in Orders /\ Keyed(history[d]) /\ Ordered(history[d], begun) /\ Once(begun)
      /\ begun[BeganAt(c)] \in Clients
  BY <1>4, <1>7 DEF TimeInv
<1>10. EarlierThan(c, d) = {i \in DOMAIN history[d] : history[d][i].id \notin RecordedLater(c)}
  BY <1>8 DEF EarlierThan, Ahead
<1>11. m \in 0 .. Len(history[d]) /\ EarlierThan(c, d) = 1 .. m
  <2>1. \A records \in Seq(Stored) :
          Keyed(records) /\ Ordered(records, begun) =>
            /\ Cardinality(Ahead(records, begun, BeganAt(c))) \in 0 .. Len(records)
            /\ Ahead(records, begun, BeganAt(c))
                 = 1 .. Cardinality(Ahead(records, begun, BeganAt(c)))
    BY <1>7, <1>9, EarlierComeFirst
  <2> QED
    BY <1>3, <1>4, <1>9, <2>1 DEF EarlierThan
<1>12. history' = [history EXCEPT ![d] = InsertAt(history[d], m + 1, e)]
  BY <1>1, <1>2, <1>3, <1>10 DEF Record, InsertEvent, InRecordedOrder, RecordOf
<1>13. begun' = SinceOpen([begun EXCEPT ![BeganAt(c)] = e.id])
  BY <1>5 DEF Record, Ends
<1>14. e.id \notin Marked(begun) /\ \A i \in DOMAIN history[d] : history[d][i].id # e.id
  BY <1>4, <1>6 DEF TimeInv, Recorded
<1>15. Ordered(InsertAt(history[d], m + 1, e), [begun EXCEPT ![BeganAt(c)] = e.id])
  BY <1>4, <1>5, <1>6, <1>7, <1>9, <1>11, <1>14, InsertionKeeps DEF EarlierThan
<1> QED
  BY <1>1, <1>2, <1>3, <1>4, <1>5, <1>6, <1>7, <1>11, <1>12, <1>13, <1>15

LEMMA RecordKeepsTime ==
  ASSUME LockInv, TimeInv, NEW c \in Clients, Record(c)
  PROVE  TimeInv'
<1>1. PICK d : d = tx[c].day
  OBVIOUS
<1>2. PICK e : e = RecordOf(c)
  OBVIOUS
<1>3. PICK m : m = Cardinality(EarlierThan(c, d))
  OBVIOUS
<1>4. PICK n : n = BeganAt(c)
  OBVIOUS
<1>5. PICK marked : marked = [begun EXCEPT ![n] = e.id]
  OBVIOUS
<1>6. PICK next : next = InsertAt(history[d], m + 1, e)
  OBVIOUS
<1>7. /\ d \in Days /\ e \in Stored /\ e.id \in Ids /\ ~Recorded(e.id)
      /\ pc[c] = "day read" /\ n \in DOMAIN begun /\ begun[n] = c
      /\ m \in 0 .. Len(history[d])
      /\ history' = [history EXCEPT ![d] = next]
      /\ begun' = SinceOpen(marked)
      /\ Ordered(next, marked)
  BY <1>1, <1>2, <1>3, <1>4, <1>5, <1>6, RecordInserts
<1>8. /\ begun \in Orders /\ Once(begun) /\ begun[n] \in Clients
      /\ Open(begun) = {o \in Clients : pc[o] # "idle"}
      /\ \A x \in Marked(begun) : Recorded(x)
      /\ \A x \in Days : Keyed(history[x]) /\ Ordered(history[x], begun)
  BY <1>7 DEF TimeInv
<1>9. /\ marked \in Orders /\ Once(marked) /\ Open(marked) = Open(begun) \ {c}
      /\ Marked(marked) \subseteq Marked(begun) \union {e.id}
      /\ \A records :
           /\ Keyed(records) /\ Ordered(records, begun)
           /\ \A i \in DOMAIN records : records[i].id # e.id
           => Ordered(records, marked)
  BY <1>5, <1>7, <1>8, MarkKeeps
<1>10. /\ begun' \in Orders /\ Once(begun') /\ Open(begun') = Open(begun) \ {c}
       /\ Marked(begun') \subseteq Marked(begun) \union {e.id}
       /\ \A records : Ordered(records, marked) => Ordered(records, begun')
  BY <1>7, <1>9, SinceOpenKeeps
<1>11. /\ \A i \in DOMAIN next : next[i] = e \/ \E j \in DOMAIN history[d] : history[d][j] = next[i]
       /\ \A j \in DOMAIN history[d] : \E i \in DOMAIN next : next[i] = history[d][j]
       /\ \E i \in DOMAIN next : next[i] = e
  <2>1. d \in Days /\ e \in Stored /\ m \in 0 .. Len(history[d])
    BY <1>7
  <2>2. history[d] \in Seq(Stored)
    BY <2>1 DEF LockInv, Shape
  <2>3. m + 1 \in 1 .. Len(history[d]) + 1
    BY <2>1, <2>2
  <2>4. ASSUME NEW s \in Seq(Stored), NEW k \in 1 .. Len(s) + 1
        PROVE  LET t == InsertAt(s, k, e) IN
               /\ \A i \in DOMAIN t : t[i] = e \/ \E j \in DOMAIN s : s[j] = t[i]
               /\ \A j \in DOMAIN s : \E i \in DOMAIN t : t[i] = s[j]
               /\ \E i \in DOMAIN t : t[i] = e
    BY <2>1, Inserted
  <2> QED
    BY <1>6, <2>2, <2>3, <2>4
<1>12. history'[d] = next /\ \A x \in Days \ {d} : history'[x] = history[x]
  BY <1>7 DEF LockInv, Shape
<1>13. \A x : Recorded(x) \/ x = e.id => Recorded(x)'
  <2>1. ASSUME NEW x, Recorded(x) PROVE \E y \in Days : \E i \in DOMAIN history'[y] :
                                          history'[y][i].id = x
    <3>0. PICK y \in Days : \E j \in DOMAIN history[y] : history[y][j].id = x
      BY <2>1 DEF Recorded
    <3>1. PICK j \in DOMAIN history[y] : history[y][j].id = x
      BY <3>0
    <3>2. CASE y = d
      <4>1. PICK i \in DOMAIN next : next[i] = history[d][j]
        BY <1>11, <3>1, <3>2
      <4>2. d \in Days /\ i \in DOMAIN history'[d] /\ history'[d][i].id = x
        BY <1>7, <1>12, <3>1, <3>2, <4>1
      <4> QED
        BY <4>2
    <3>3. CASE y # d
      BY <1>12, <3>1, <3>3
    <3> QED
      BY <3>2, <3>3
  <2>2. d \in Days /\ \E i \in DOMAIN history'[d] : history'[d][i].id = e.id
    BY <1>7, <1>11, <1>12
  <2>3. \A x : Recorded(x)' <=> \E y \in Days : \E i \in DOMAIN history'[y] : history'[y][i].id = x
    BY DEF Recorded
  <2> QED
    BY <2>1, <2>2, <2>3
<1>14. \A x \in Days : Keyed(history'[x]) /\ Ordered(history'[x], begun')
  <2>1. Keyed(next)
    BY <1>7, <1>8, <1>11 DEF Keyed
  <2>2. Ordered(next, begun')
    BY <1>7, <1>10
  <2>3. ASSUME NEW x \in Days PROVE Ordered(history[x], begun')
    <3>1. \A i \in DOMAIN history[x] : history[x][i].id # e.id
      BY <1>7 DEF Recorded
    <3> QED
      BY <1>8, <1>9, <1>10, <3>1
  <2> QED
    BY <1>8, <1>12, <2>1, <2>2, <2>3
<1>15. Open(begun') = {o \in Clients : pc'[o] # "idle"}
  <2>1. pc' = [pc EXCEPT ![c] = "idle"] /\ pc \in [Clients -> Steps]
    BY DEF Record, Ends, Goes, LockInv, Shape
  <2> QED
    BY <1>8, <1>10, <2>1
<1>16. \A x \in Marked(begun') : Recorded(x)'
  BY <1>8, <1>10, <1>13
<1>17. \A o \in Clients : pc'[o] \in Asking => tx'[o].id \in Ids
  <2>1. ClientStep(c) /\ Shape
    BY DEF ClientStep, Attend, LockInv
  <2> QED
    BY <2>1, KeysStay
<1> QED
  BY <1>10, <1>14, <1>15, <1>16, <1>17 DEF TimeInv

LEMMA StepKeepsTime ==
  ASSUME LockInv, TimeInv, NEW c \in Clients, ClientStep(c)
  PROVE  TimeInv'
<1>1. CASE Record(c)
  BY <1>1, RecordKeepsTime
<1>2. CASE ~Record(c)
  <2>0. Shape /\ pc \in [Clients -> Steps]
    BY DEF LockInv, Shape
  <2>1. history' = history /\ \A x : Recorded(x)' <=> Recorded(x)
    BY <1>2, OnlyRecordInserts DEF Recorded
  <2>2. \A o \in Clients \ {c} : pc'[o] = pc[o]
    BY <2>0, OthersStay
  <2>3. \A o \in Clients : pc'[o] \in Asking => tx'[o].id \in Ids
    BY <2>0, KeysStay
  <2>4. /\ begun \in Orders /\ Once(begun) /\ Open(begun) = {o \in Clients : pc[o] # "idle"}
        /\ \A x \in Marked(begun) : Recorded(x)
        /\ \A d \in Days : Keyed(history[d]) /\ Ordered(history[d], begun)
    BY DEF TimeInv
  <2>5. SUFFICES /\ begun' \in Orders /\ Once(begun')
                 /\ Open(begun') = {o \in Clients : pc'[o] # "idle"}
                 /\ Marked(begun') \subseteq Marked(begun)
                 /\ \A records :
                      Keyed(records) /\ Ordered(records, begun) => Ordered(records, begun')
    BY <2>1, <2>3, <2>4 DEF TimeInv
  <2>6. CASE pc[c] = "idle" /\ pc'[c] # "idle" /\ begun' = Append(begun, c)
    <3>1. c \in Clients \ Open(begun)
      BY <2>4, <2>6
    <3> QED
      BY <2>2, <2>4, <2>6, <3>1, AppendKeeps
  <2>7. CASE pc[c] # "idle" /\ pc'[c] = "idle"
             /\ begun' = SinceOpen(RemoveAt(begun, BeganAt(c)))
    <3>1. PICK n : n = BeganAt(c)
      OBVIOUS
    <3>2. PICK left : left = RemoveAt(begun, n)
      OBVIOUS
    <3>3. n \in DOMAIN begun /\ begun[n] = c /\ begun[n] \in Clients
      BY <2>7, <3>1, OpenBegan
    <3>4. /\ left \in Orders /\ Once(left) /\ Open(left) = Open(begun) \ {c}
          /\ Marked(left) \subseteq Marked(begun)
          /\ \A records : Keyed(records) /\ Ordered(records, begun) => Ordered(records, left)
      BY <2>4, <3>2, <3>3, RemovalKeeps
    <3>5. begun' = SinceOpen(left)
      BY <2>7, <3>1, <3>2
    <3>6. /\ begun' \in Orders /\ Once(begun') /\ Open(begun') = Open(left)
          /\ Marked(begun') \subseteq Marked(left)
          /\ \A records : Ordered(records, left) => Ordered(records, begun')
      BY <3>4, <3>5, SinceOpenKeeps
    <3>7. Open(begun') = {o \in Clients : pc'[o] # "idle"}
      BY <2>2, <2>4, <2>7, <3>4, <3>6
    <3> QED
      BY <3>4, <3>6, <3>7
  <2>8. CASE pc[c] # "idle" /\ pc'[c] # "idle" /\ begun' = begun
    BY <2>2, <2>4, <2>8
  <2> QED
    BY <1>2, <2>0, <2>6, <2>7, <2>8, KindsOfStep
<1> QED
  BY <1>1, <1>2

LEMMA AlwaysTimeInv == Spec => []TimeInv
<1>1. Init => TimeInv
  <2> SUFFICES ASSUME Init PROVE TimeInv
    OBVIOUS
  <2>1. begun = <<>> /\ \A d \in Days : history[d] = <<>>
    BY DEF Init
  <2>2. begun \in Orders /\ DOMAIN begun = {}
    BY <2>1 DEF Orders
  <2>3. \A c \in Clients : pc[c] = "idle"
    BY DEF Init
  <2>4. \A d \in Days : DOMAIN history[d] = {}
    BY <2>1
  <2> QED
    BY <2>2, <2>3, <2>4
       DEF TimeInv, Once, Open, Marked, Keyed, Ordered, Asking, Attending
<1>2. LockInv /\ TimeInv /\ [Next]_vars => TimeInv'
  <2> SUFFICES ASSUME LockInv, TimeInv, [Next]_vars PROVE TimeInv'
    OBVIOUS
  <2>1. ASSUME NEW c \in Clients, ClientStep(c) PROVE TimeInv'
    BY <2>1, StepKeepsTime
  <2>2. CASE UNCHANGED vars
    BY <2>2 DEF vars, monthVars, attendanceVars, TimeInv, Recorded
  <2> QED
    BY <2>1, <2>2 DEF Next, ClientStep
<1> QED
  BY <1>1, <1>2, AlwaysLockInv, PTL DEF Spec

(***************************************************************************)
(* Whoever else corrects, and however long transactions wait for the lock, *)
(* a correction that is accepted is in effect unless one whose transaction *)
(* began after it has been recorded before it (corrections.ts,             *)
(* resolveEffectiveEvents).                                                *)
(***************************************************************************)
THEOREM CorrectionsTakeEffect == Spec => OnlyOvertakenCorrectionsAreLost
<1>1. ASSUME LockInv, TimeInv, [Next]_vars, NEW c \in Clients, NEW d \in Days,
             NEW e \in Added(d), pc[c] = "day read", tx[c].id = e.id,
             e.action \in {"adjust", "void"}, NEW i \in DOMAIN history'[d],
             history'[d][i].id = e.corrects
      PROVE  LET inEffect == history'[d][Correction(history'[d], i)] IN
             inEffect = e \/ inEffect.id \in RecordedLater(c)
  <2>1. PICK k \in DOMAIN history'[d] : e = history'[d][k] /\ e \notin Range(history[d])
    BY <1>1 DEF Added, Range
  <2>2. history'[d] # history[d]
    BY <2>1 DEF Range
  <2>3. PICK b \in Clients : Record(b)
    BY <1>1, <2>2, OnlyRecordInserts
       DEF Next, ClientStep, vars, monthVars, attendanceVars
  <2>4. b = c
    <3>1. pc[b] = "day read"
      BY <2>3 DEF Record, Ends, Goes
    <3> QED
      BY <1>1, <3>1 DEF LockInv, LockProtects, Attending
  <2>5. PICK m : m = Cardinality(EarlierThan(c, tx[c].day))
    OBVIOUS
  <2>6. PICK new : new = RecordOf(c)
    OBVIOUS
  <2>7. PICK next : next = InsertAt(history[tx[c].day], m + 1, new)
    OBVIOUS
  <2>8. /\ tx[c].day \in Days /\ new \in Stored /\ new.id \in Ids
        /\ m \in 0 .. Len(history[tx[c].day]) /\ EarlierThan(c, tx[c].day) = 1 .. m
        /\ history' = [history EXCEPT ![tx[c].day] = next]
    BY <1>1, <2>3, <2>4, <2>5, <2>6, <2>7, RecordInserts
  <2>9. d = tx[c].day /\ history'[d] = next /\ history[d] \in Seq(Stored)
    BY <1>1, <2>2, <2>8 DEF LockInv, Shape
  <2>10. PICK n \in Nat : n = m + 1
    BY <2>8, <2>9
  <2>11. /\ next \in Seq(Stored) /\ DOMAIN next = 1 .. Len(history[d]) + 1
         /\ DOMAIN history[d] = 1 .. Len(history[d]) /\ Len(history[d]) \in Nat
         /\ n \in 1 .. Len(history[d]) + 1 /\ next[n] = new
         /\ \A j \in 1 .. n - 1 : next[j] = history[d][j]
         /\ \A j \in n + 1 .. Len(history[d]) + 1 : next[j] = history[d][j - 1]
    <3>1. /\ new \in Stored /\ history[d] \in Seq(Stored)
          /\ n \in 1 .. Len(history[d]) + 1 /\ next = InsertAt(history[d], n, new)
      BY <2>7, <2>8, <2>9, <2>10
    <3>2. Placed(InsertAt(history[d], n, new), Stored, history[d], n, new)
      BY <3>1, InsertedAt
    <3>3. Placed(next, Stored, history[d], n, new)
      BY <3>1, <3>2
    <3> QED
      BY <3>1, <3>3 DEF Placed
  <2>13. e = new
    <3>1. k \in DOMAIN next /\ next[k] = e
      BY <2>1, <2>9
    <3>2. \A j \in DOMAIN history[d] : history[d][j] # e
      BY <2>1 DEF Range
    <3>3. k < n => next[k] = history[d][k] /\ k \in DOMAIN history[d]
      BY <2>11, <3>1
    <3>4. k > n => next[k] = history[d][k - 1] /\ k - 1 \in DOMAIN history[d]
      BY <2>11, <3>1
    <3>5. k = n
      BY <2>11, <3>1, <3>2, <3>3, <3>4
    <3> QED
      BY <2>11, <3>1, <3>5
  <2> DEFINE later == {j \in DOMAIN next : /\ next[j].action \in {"adjust", "void"}
                                           /\ next[j].corrects = next[i].id}
  <2>14. n \in later
    <3>1. n \in DOMAIN next
      BY <2>11
    <3>2. next[n] = e /\ next[i].id = e.corrects
      BY <1>1, <2>9, <2>11, <2>13
    <3> QED
      BY <1>1, <3>1, <3>2
  <2>15. later \in SUBSET (1 .. Len(history[d]) + 1) /\ Len(history[d]) + 1 \in Nat
    BY <2>11
  <2>16. Correction(next, i) = CHOOSE j \in later : \A x \in later : x <= j
    BY <2>14 DEF Correction
  <2>17. PICK last \in later : last = Correction(next, i) /\ \A x \in later : x <= last
    <3> HIDE DEF later
    <3>1. \E j \in later : \A x \in later : x <= j
      BY <2>14, <2>15, Largest
    <3> QED
      BY <2>16, <3>1
  <2>18. n <= last /\ last \in 1 .. Len(history[d]) + 1
    BY <2>11, <2>14, <2>15, <2>17
  <2>19. CASE last = n
    BY <2>9, <2>11, <2>13, <2>17, <2>19
  <2>20. CASE last # n
    <3>0. m \in Nat /\ last \in n + 1 .. Len(history[d]) + 1 /\ last - 1 > m
      BY <2>8, <2>9, <2>10, <2>11, <2>18, <2>20
    <3>a. next[last] = history[d][last - 1]
      BY <2>11, <3>0
    <3>b. last - 1 \in 1 .. Len(history[d]) /\ ~(last - 1 <= m)
      BY <2>11, <3>0
    <3>1. next[last] = history[d][last - 1] /\ last - 1 \in DOMAIN history[d] /\ ~(last - 1 <= m)
      BY <2>11, <3>a, <3>b
    <3>2. last - 1 \notin EarlierThan(c, d)
      BY <2>8, <2>9, <3>1
    <3>3. history[d][last - 1].id \in RecordedLater(c)
      BY <3>1, <3>2 DEF EarlierThan, Ahead, RecordedLater, Behind
    <3> QED
      BY <2>9, <2>17, <3>1, <3>3
  <2> QED
    BY <2>19, <2>20
<1>2. LockInv /\ TimeInv /\ [Next]_vars =>
        [\A c \in Clients, d \in Days : \A e \in Added(d) :
           (pc[c] = "day read" /\ tx[c].id = e.id /\ e.action \in {"adjust", "void"}) =>
             \A i \in DOMAIN history'[d] :
               history'[d][i].id = e.corrects =>
                 LET inEffect == history'[d][Correction(history'[d], i)] IN
                 inEffect = e \/ inEffect.id \in RecordedLater(c)]_vars
  BY <1>1
<1> QED
  BY <1>2, AlwaysLockInv, AlwaysTimeInv, PTL DEF Spec, OnlyOvertakenCorrectionsAreLost

-----------------------------------------------------------------------------
(* Approved days and closed months.                                        *)

\* Only deciding, closing and reopening change requests and the closing.
LEMMA AttendLeavesRequests ==
  ASSUME NEW c \in Clients, Attend(c)
  PROVE  UNCHANGED <<requestVars, closingVars>>
  BY DEF Attend, Punch, AddRecord, VoidRecord, AdjustRecord, LockEmployee, Duplicate, ReadRequest,
         ReadClosing, Record, RefuseRecord, RollsBack, monthVars

\* Nothing but a decision and a reopening changes requests and transitions; nothing but
\* closing and reopening changes the closing and its snapshots.
LEMMA OnlyDecisionsChangeRequests ==
  ASSUME NEW c \in Clients, ClientStep(c), ~SaveRequest(c), ~Reopen(c)
  PROVE  UNCHANGED requestVars
<1> USE DEF monthVars
<1>1. CASE Approve(c)
  BY <1>1 DEF Approve, BeginSubmit, ReadRequestToSubmit, BeginDecide, RollsBack
<1>2. CASE Month(c)
  BY <1>2 DEF Month, BeginClose, CountUnapprovedDays, SaveClosing, Close, BeginReopen, RollsBack
<1> QED
  BY <1>1, <1>2, AttendLeavesRequests DEF ClientStep

LEMMA OnlyMonthChangesClosing ==
  ASSUME NEW c \in Clients, ClientStep(c), ~Close(c), ~Reopen(c)
  PROVE  UNCHANGED closingVars
<1> USE DEF monthVars
<1>1. CASE Approve(c)
  BY <1>1 DEF Approve, BeginSubmit, ReadRequestToSubmit, BeginDecide, SaveRequest, RollsBack
<1>2. CASE Month(c)
  BY <1>2 DEF Month, BeginClose, CountUnapprovedDays, SaveClosing, BeginReopen, RollsBack
<1> QED
  BY <1>1, <1>2, AttendLeavesRequests DEF ClientStep

\* Where the last steps of transactions start and end.
LEMMA LastSteps ==
  ASSUME LockInv, NEW c \in Clients, ClientStep(c)
  PROVE  /\ Close(c) => Closes(c)
         /\ Reopen(c) => Reopens(c)
         /\ Closes(c) => Close(c)
         /\ SaveRequest(c) => pc[c] = "deciding" /\ pc'[c] = "idle"
         /\ Record(c) => pc[c] = "day read" /\ pc'[c] = "idle"
<1> USE DEF LockInv, Shape
<1>1. /\ Close(c) => Closes(c)
      /\ Reopen(c) => Reopens(c)
      /\ SaveRequest(c) => pc[c] = "deciding" /\ pc'[c] = "idle"
      /\ Record(c) => pc[c] = "day read" /\ pc'[c] = "idle"
  BY DEF Close, Reopen, SaveRequest, Record, EndsUnrecorded, Ends, Goes, Closes, Reopens
<1>2. ASSUME pc[c] = "saved" PROVE Close(c)
  <2>1. ~Attend(c)
    BY <1>2 DEF Attend, Punch, AddRecord, VoidRecord, AdjustRecord, LockEmployee, Duplicate,
                ReadRequest, ReadClosing, Record, RefuseRecord, RollsBack, EndsUnrecorded, Begins,
                Ends, Goes
  <2>2. ~Approve(c)
    BY <1>2 DEF Approve, BeginSubmit, ReadRequestToSubmit, BeginDecide, SaveRequest, RollsBack,
                EndsUnrecorded, Begins, Ends, Goes
  <2>3. Month(c) => Close(c)
    BY <1>2 DEF Month, BeginClose, CountUnapprovedDays, SaveClosing, BeginReopen, Reopen,
                RollsBack, EndsUnrecorded, Begins, Ends, Goes
  <2> QED
    BY <2>1, <2>2, <2>3 DEF ClientStep
<1> QED
  BY <1>1, <1>2 DEF Closes

\* A record is new to its day, whose figures are calculated for it; other days stay.
LEMMA RecordWrites ==
  ASSUME LockInv, NEW c \in Clients, Record(c)
  PROVE  /\ tx[c].day \in Days /\ Allowed(c)
         /\ history'[tx[c].day] # history[tx[c].day]
         /\ \A d \in Days \ {tx[c].day} : history'[d] = history[d] /\ version'[d] = version[d]
<1>1. pc[c] = "day read" /\ tx[c] \in Transactions
  BY DEF LockInv, Shape, Record, Ends, Goes
<1>2. PICK d \in Days : d = tx[c].day
  BY <1>1 DEF LockInv, AllPrepared, Prepared, OfADay
<1>3. PICK e \in Stored : e = [id |-> tx[c].id, type |-> tx[c].type, at |-> tx[c].at,
                               action |-> tx[c].action, corrects |-> tx[c].corrects]
  BY <1>1 DEF Stored, Transactions
<1>4. PICK next : next = InRecordedOrder(c, d, e)
  OBVIOUS
<1>5. PICK i \in DOMAIN next : next[i] = e
  BY <1>4, InsertedInOrder DEF LockInv
<1>6. ~\E j \in DOMAIN history[d] : history[d][j].id = tx[c].id
  BY <1>1 DEF LockInv, LockProtects, Attending, Recorded
<1>7. next # history[d]
  BY <1>3, <1>5, <1>6
<1>8. history' = [history EXCEPT ![d] = next]
  BY <1>2, <1>3, <1>4 DEF Record, InsertEvent
<1>9. \A x \in Days \ {d} : version'[x] = version[x]
  BY <1>2 DEF Record, InsertEvent, LockInv, Shape
<1> QED
  BY <1>2, <1>7, <1>8, <1>9 DEF Record, LockInv, Shape

\* A decision writes one request, by a row of the table, and its transition.
LEMMA DecisionWrites ==
  ASSUME LockInv, NEW c \in Clients, SaveRequest(c)
  PROVE  LET d == tx[c].day
             to == Apply(tx[c].request, tx[c].event) IN
         /\ d \in Days
         /\ <<tx[c].request, tx[c].event, to>> \in RequestTable
         /\ request'[d] = to /\ RequestIsWritten(d) /\ Last(transitions'[d])[1] = tx[c].request
         /\ \A x \in Days \ {d} : request'[x] = request[x] /\ ~RequestIsWritten(x)
<1>1. pc[c] = "deciding"
  BY DEF SaveRequest, EndsUnrecorded, Ends, Goes
<1>2. PICK d \in Days : d = tx[c].day
  BY <1>1 DEF LockInv, AllPrepared, Prepared, OfADay
<1>3. CanApply(tx[c].request, tx[c].event)
  BY <1>1 DEF LockInv, AllPrepared, Prepared
<1>4. PICK to : to = Apply(tx[c].request, tx[c].event)
  OBVIOUS
<1>5. <<tx[c].request, tx[c].event, to>> \in RequestTable
  BY <1>3, <1>4, ApplyFollowsTable
<1>6. PICK entry \in Logged : entry = <<tx[c].request, tx[c].event, to>>
  BY <1>5 DEF RequestTable, Logged, RequestStates, RequestEvents
<1>7. /\ request' = [request EXCEPT ![d] = to]
      /\ transitions' = [transitions EXCEPT ![d] = Append(@, entry)]
  BY <1>2, <1>4, <1>6 DEF SaveRequest
<1>8. PICK log \in Seq(Logged) : log = transitions[d]
  BY DEF LockInv, Shape
<1>9. /\ Append(log, entry) # log
      /\ Last(Append(log, entry)) = entry
  BY <1>8, AppendProperties DEF Last
<1>10. transitions'[d] = Append(log, entry)
  BY <1>7, <1>8 DEF LockInv, Shape
<1>11. RequestIsWritten(d) /\ Last(transitions'[d])[1] = tx[c].request
  BY <1>6, <1>8, <1>9, <1>10 DEF RequestIsWritten
<1>12. request'[d] = to /\ \A x \in Days \ {d} : request'[x] = request[x] /\ ~RequestIsWritten(x)
  BY <1>7 DEF LockInv, Shape, RequestIsWritten
<1> QED
  BY <1>2, <1>4, <1>5, <1>11, <1>12

\* A reopening writes the requests that are approved, and their transitions.
LEMMA ReopeningWrites ==
  ASSUME LockInv, NEW c \in Clients, Reopen(c), NEW d \in Days
  PROVE  IF request[d] = "approved"
         THEN /\ request'[d] = "returned" /\ RequestIsWritten(d)
              /\ Last(transitions'[d])[1] = "approved"
         ELSE request'[d] = request[d] /\ ~RequestIsWritten(d)
<1>1. PICK log \in Seq(Logged) : log = transitions[d]
  BY DEF LockInv, Shape
<1>2. PICK entry \in Logged : entry = <<"approved", "REOPEN", "returned">>
  BY DEF Logged, RequestStates, RequestEvents
<1>3. Append(log, entry) # log /\ Last(Append(log, entry)) = entry
  BY <1>1, AppendProperties DEF Last
<1>4. CASE request[d] = "approved"
  <2>1. transitions'[d] = Append(log, entry) /\ request'[d] = "returned"
    BY <1>1, <1>2, <1>4 DEF Reopen
  <2>2. entry[1] = "approved"
    BY <1>2
  <2> QED
    BY <1>1, <1>3, <1>4, <2>1, <2>2 DEF RequestIsWritten
<1>5. CASE request[d] # "approved"
  BY <1>5 DEF Reopen, RequestIsWritten
<1> QED
  BY <1>4, <1>5

\* A request that changes is written to.
LEMMA ChangesAreWritten ==
  ASSUME LockInv, NEW c \in Clients, ClientStep(c), NEW d \in Days, ~RequestIsWritten(d)
  PROVE  request'[d] = request[d]
<1>1. CASE SaveRequest(c)
  BY <1>1, DecisionWrites
<1>2. CASE Reopen(c)
  BY <1>2, ReopeningWrites
<1>3. CASE ~SaveRequest(c) /\ ~Reopen(c)
  BY <1>3, OnlyDecisionsChangeRequests DEF requestVars
<1> QED
  BY <1>1, <1>2, <1>3

\* A record that is written is one of a client's that had read the day.
LEMMA RecordsAreWritten ==
  ASSUME LockInv, NEW c \in Clients, ClientStep(c), NEW d \in Days
  PROVE  /\ RecordIsWritten(d) => Record(c) /\ d = tx[c].day
         /\ ~RecordIsWritten(d) => history'[d] = history[d] /\ version'[d] = version[d]
<1>1. CASE Record(c)
  BY <1>1, RecordWrites DEF RecordIsWritten
<1>2. CASE ~Record(c)
  BY <1>2, OnlyRecordInserts DEF RecordIsWritten
<1> QED
  BY <1>1, <1>2

\* What the transactions have read is as they read it, or they are among those remembered.
ReadsAreRemembered(c) ==
  /\ pc[c] \in {"request read", "day read", "deciding"} =>
       c \in overtaken[tx[c].day] \/ tx[c].request = request[tx[c].day]
  /\ pc[c] = "day read" /\ closing = "closed" => tx[c].closing = "closed" \/ c \in early
  /\ pc[c] \in {"submitting", "deciding"} => tx[c].event # "REOPEN"
  /\ pc[c] \in {"counted", "saved"} => UnapprovedDays \subseteq beside[c]
  /\ pc[c] = "saved" => \A d \in Days \ beside[c] : tx[c].versions[d] = version[d]

RaceShape ==
  /\ overtaken \in [Days -> SUBSET Clients]
  /\ early \subseteq Clients
  /\ beside \in [Clients -> SUBSET Days]

RaceInv ==
  /\ LockInv /\ RaceShape
  /\ \A c \in Clients : ReadsAreRemembered(c)
  /\ ClosedMonthStands

\* An approval that a step undoes is one of the days the step overturns.
LEMMA UndoneIsOverturned ==
  ASSUME RaceInv, NEW c \in Clients, ClientStep(c), NEW d \in Days,
         request[d] = "approved", request'[d] # "approved"
  PROVE  d \in Overturned(c)
<1> USE DEF RaceInv
<1>1. RequestIsWritten(d)
  BY ChangesAreWritten
<1>2. CASE SaveRequest(c)
  <2>1. /\ tx[c].day = d /\ <<tx[c].request, tx[c].event, request'[d]>> \in RequestTable
    BY <1>1, <1>2, DecisionWrites
  <2>2. pc[c] = "deciding"
    BY <1>2, LastSteps
  <2>3. tx[c].event # "REOPEN" /\ (c \in overtaken[d] \/ tx[c].request = "approved")
    BY <2>1, <2>2 DEF ReadsAreRemembered
  <2>4. tx[c].request # "approved"
    BY <2>1, <2>3 DEF RequestTable
  <2> QED
    BY <1>1, <2>3, <2>4 DEF Overturned
<1>3. CASE Reopen(c)
  BY <1>1, <1>3, LastSteps DEF Overturned
<1>4. CASE ~SaveRequest(c) /\ ~Reopen(c)
  BY <1>4, OnlyDecisionsChangeRequests DEF requestVars
<1> QED
  BY <1>2, <1>3, <1>4

\* A day becomes unapproved by a record or as the step overturns it.
LEMMA UnapprovedAreWritten ==
  ASSUME RaceInv, NEW c \in Clients, ClientStep(c), NEW d \in Days,
         d \in UnapprovedDays', d \notin UnapprovedDays
  PROVE  RecordIsWritten(d) \/ d \in Overturned(c)
<1>1. history'[d] # <<>> /\ request'[d] # "approved"
  BY DEF UnapprovedDays
<1>2. history[d] = <<>> \/ request[d] = "approved"
  BY DEF UnapprovedDays
<1>3. CASE history[d] = <<>>
  BY <1>1, <1>3 DEF RecordIsWritten
<1>4. CASE request[d] = "approved"
  BY <1>1, <1>4, UndoneIsOverturned
<1> QED
  BY <1>2, <1>3, <1>4

LEMMA OthersStayRemembered ==
  ASSUME RaceInv, NEW c \in Clients, ClientStep(c), Remembers(c), NEW o \in Clients \ {c}
  PROVE  ReadsAreRemembered(o)'
<1> USE DEF RaceInv
<1>1. pc'[o] = pc[o] /\ tx'[o] = tx[o] /\ o \notin Leaves(c)
  BY OthersStay DEF LockInv, Leaves
<1>2. ReadsAreRemembered(o)
  OBVIOUS
<1>3. ASSUME pc[o] \in {"request read", "day read", "deciding"}
      PROVE  o \in overtaken'[tx[o].day] \/ tx[o].request = request'[tx[o].day]
  <2>1. PICK d \in Days : d = tx[o].day
    BY <1>3 DEF LockInv, AllPrepared, Prepared, OfADay
  <2>2. overtaken'[d] = (IF RequestIsWritten(d) THEN overtaken[d] \union HasRead(d)
                         ELSE overtaken[d]) \ Leaves(c)
    BY DEF Remembers
  <2>3. CASE RequestIsWritten(d)
    BY <1>1, <1>3, <2>1, <2>2, <2>3 DEF HasRead
  <2>4. CASE ~RequestIsWritten(d)
    <3>1. request'[d] = request[d]
      BY <2>4, ChangesAreWritten
    <3> QED
      BY <1>1, <1>2, <1>3, <2>1, <2>2, <2>4, <3>1 DEF ReadsAreRemembered
  <2> QED
    BY <2>1, <2>3, <2>4
<1>4. ASSUME pc[o] = "day read", closing' = "closed"
      PROVE  tx[o].closing = "closed" \/ o \in early'
  <2>1. early' = (IF Closes(c) THEN {x \in Clients : pc[x] = "day read"} ELSE early) \ Leaves(c)
    BY DEF Remembers
  <2>2. CASE Closes(c)
    BY <1>1, <1>4, <2>1, <2>2
  <2>3. CASE ~Closes(c)
    <3>1. closing = "closed"
      <4>1. ~Close(c) /\ ~Reopen(c)
        BY <1>4, <2>3, LastSteps DEF Reopen
      <4> QED
        BY <1>4, <4>1, OnlyMonthChangesClosing DEF closingVars
    <3> QED
      BY <1>1, <1>2, <1>4, <2>1, <2>3, <3>1 DEF ReadsAreRemembered
  <2> QED
    BY <2>2, <2>3
<1>5. ASSUME pc[o] \in {"counted", "saved"}
      PROVE  /\ beside'[o] = beside[o] \union {d \in Days : RecordIsWritten(d)} \union Overturned(c)
             /\ UnapprovedDays' \subseteq beside'[o]
  <2>1. beside'[o] = beside[o] \union {d \in Days : RecordIsWritten(d)} \union Overturned(c)
    BY <1>1, <1>5 DEF Remembers
  <2>2. ASSUME NEW d \in Days, d \in UnapprovedDays' PROVE d \in beside'[o]
    <3>1. CASE d \in UnapprovedDays
      BY <1>2, <1>5, <2>1, <3>1 DEF ReadsAreRemembered
    <3>2. CASE d \notin UnapprovedDays
      BY <2>1, <2>2, <3>2, UnapprovedAreWritten
    <3> QED
      BY <3>1, <3>2
  <2>3. UnapprovedDays' \subseteq Days
    BY DEF UnapprovedDays
  <2> QED
    BY <2>1, <2>2, <2>3
<1>6. ASSUME pc[o] = "saved", NEW d \in Days \ beside'[o]
      PROVE  tx[o].versions[d] = version'[d]
  <2>1. d \notin beside[o] /\ ~RecordIsWritten(d)
    BY <1>5, <1>6
  <2>2. version'[d] = version[d]
    BY <2>1, RecordsAreWritten
  <2> QED
    BY <1>2, <1>6, <2>1, <2>2 DEF ReadsAreRemembered
<1>7. pc[o] \in {"submitting", "deciding"} => tx[o].event # "REOPEN"
  BY <1>2 DEF ReadsAreRemembered
<1> QED
  BY <1>1, <1>3, <1>4, <1>5, <1>6, <1>7 DEF ReadsAreRemembered

LEMMA OwnStepIsRemembered ==
  ASSUME RaceInv, NEW c \in Clients, ClientStep(c), Remembers(c)
  PROVE  ReadsAreRemembered(c)'
<1> USE DEF RaceInv, LockInv, Shape
<1>0. ReadsAreRemembered(c)
  OBVIOUS
<1>1. CASE Punch(c) \/ AddRecord(c) \/ VoidRecord(c) \/ AdjustRecord(c)
  BY <1>1 DEF Punch, AddRecord, VoidRecord, AdjustRecord, Begins, Goes, ReadsAreRemembered
<1>2. CASE LockEmployee(c)
  BY <1>2 DEF LockEmployee, Goes, ReadsAreRemembered
<1>3. CASE Duplicate(c) \/ RefuseRecord(c) \/ Record(c)
  BY <1>3 DEF Duplicate, RefuseRecord, Record, RollsBack, EndsUnrecorded, Ends, Goes,
              ReadsAreRemembered
<1>4. CASE ReadRequest(c)
  <2>1. /\ pc'[c] = "request read" /\ request' = request
        /\ tx'[c].request = request[tx[c].day] /\ tx'[c].day = tx[c].day
    BY <1>4 DEF ReadRequest, Goes, Transactions, monthVars, requestVars
  <2> QED
    BY <2>1 DEF ReadsAreRemembered
<1>5. CASE ReadClosing(c)
  <2>1. /\ pc[c] = "request read" /\ pc'[c] = "day read"
        /\ request' = request /\ transitions' = transitions /\ closing' = closing
        /\ tx'[c].request = tx[c].request /\ tx'[c].day = tx[c].day
        /\ tx'[c].closing = closing
    BY <1>5 DEF ReadClosing, Goes, Transactions, monthVars, requestVars, closingVars
  <2>2. PICK d \in Days : d = tx[c].day
    BY <2>1 DEF AllPrepared, Prepared, OfADay
  <2>3. overtaken'[d] = overtaken[d]
    BY <2>1 DEF Remembers, RequestIsWritten, Leaves, RaceShape
  <2> QED
    BY <1>0, <2>1, <2>2, <2>3 DEF ReadsAreRemembered
<1>6. ASSUME NEW d \in Days, BeginSubmit(c, d) PROVE ReadsAreRemembered(c)'
  BY <1>6 DEF BeginSubmit, Begins, Goes, Blank, ReadsAreRemembered
<1>7. CASE ReadRequestToSubmit(c)
  <2>1. CASE CanApply(request[tx[c].day], "SUBMIT")
    <3>1. /\ pc[c] = "submitting" /\ pc'[c] = "deciding" /\ request' = request
          /\ tx'[c].request = request[tx[c].day] /\ tx'[c].day = tx[c].day
          /\ tx'[c].event = tx[c].event
      BY <1>7, <2>1 DEF ReadRequestToSubmit, Goes, Transactions, monthVars, requestVars
    <3> QED
      BY <1>0, <3>1 DEF ReadsAreRemembered
  <2>2. CASE ~CanApply(request[tx[c].day], "SUBMIT")
    BY <1>7, <2>2 DEF ReadRequestToSubmit, RollsBack, EndsUnrecorded, Ends, Goes,
                      ReadsAreRemembered
  <2> QED
    BY <2>1, <2>2
<1>8. ASSUME NEW d \in Days, NEW event \in {"APPROVE", "RETURN", "CANCEL"},
             BeginDecide(c, d, event)
      PROVE  ReadsAreRemembered(c)'
  BY <1>8 DEF BeginDecide, Begins, Goes, Blank, monthVars, requestVars, ReadsAreRemembered
<1>9. CASE SaveRequest(c) \/ Close(c) \/ Reopen(c)
  BY <1>9 DEF SaveRequest, Close, Reopen, EndsUnrecorded, Ends, Goes, ReadsAreRemembered
<1>10. CASE BeginClose(c) \/ BeginReopen(c)
  BY <1>10 DEF BeginClose, BeginReopen, Begins, Goes, ReadsAreRemembered
<1>11. CASE CountUnapprovedDays(c)
  <2>1. UnapprovedDays = {} => pc'[c] = "counted" /\ history' = history /\ request' = request
    BY <1>11 DEF CountUnapprovedDays, Goes, monthVars, attendanceVars, requestVars
  <2>2. UnapprovedDays # {} => pc'[c] = "idle"
    BY <1>11 DEF CountUnapprovedDays, RollsBack, EndsUnrecorded, Ends, Goes
  <2>3. UnapprovedDays = {} => UnapprovedDays' = {}
    BY <2>1 DEF UnapprovedDays
  <2> QED
    BY <2>1, <2>2, <2>3 DEF ReadsAreRemembered
<1>12. CASE SaveClosing(c)
  <2>1. /\ pc[c] = "counted" /\ pc'[c] = "saved"
        /\ history' = history /\ version' = version /\ request' = request
        /\ tx'[c].versions = version
    BY <1>12 DEF SaveClosing, Goes, Transactions, monthVars, attendanceVars, requestVars
  <2>2. UnapprovedDays' = UnapprovedDays
    BY <2>1 DEF UnapprovedDays
  <2>3. beside[c] \subseteq beside'[c]
    BY <2>1 DEF Remembers
  <2> QED
    BY <1>0, <2>1, <2>2, <2>3 DEF ReadsAreRemembered
<1> QED
  BY <1>1, <1>2, <1>3, <1>4, <1>5, <1>6, <1>7, <1>8, <1>9, <1>10, <1>11, <1>12
     DEF ClientStep, Attend, Approve, Month

LEMMA ClosedMonthStaysSo ==
  ASSUME RaceInv, NEW c \in Clients, ClientStep(c), Remembers(c)
  PROVE  ClosedMonthStands'
<1> USE DEF RaceInv
<1> SUFFICES ASSUME closing' = "closed"
             PROVE  /\ UnapprovedDays' \subseteq raced'
                    /\ \A d \in Days \ raced' : Last(snapshots')[d] = version'[d]
  BY DEF ClosedMonthStands
<1>1. UnapprovedDays' \subseteq Days
  BY DEF UnapprovedDays
<1>2. ~Reopen(c)
  BY DEF Reopen
<1>3. CASE Close(c)
  <2>1. pc[c] = "saved" /\ raced' = beside[c]
    BY <1>3, LastSteps DEF Closes, Remembers
  <2>2. /\ UnapprovedDays \subseteq beside[c]
        /\ \A d \in Days \ beside[c] : tx[c].versions[d] = version[d]
    BY <2>1 DEF ReadsAreRemembered
  <2>3. history' = history /\ version' = version /\ request' = request
    BY <1>3 DEF Close, attendanceVars, requestVars
  <2>4. UnapprovedDays' = UnapprovedDays
    BY <2>3 DEF UnapprovedDays
  <2>5. tx[c].versions \in [Days -> Nat] /\ snapshots \in Seq([Days -> Nat])
    BY <2>1 DEF LockInv, AllPrepared, Prepared, Shape
  <2>6. snapshots' = Append(snapshots, tx[c].versions)
    BY <1>3 DEF Close
  <2>7. Last(snapshots') = tx[c].versions
    BY <2>5, <2>6, AppendProperties DEF Last
  <2> QED
    BY <2>1, <2>2, <2>3, <2>4, <2>7
<1>4. CASE ~Close(c)
  <2>1. closing = "closed" /\ snapshots' = snapshots
    BY <1>2, <1>4, OnlyMonthChangesClosing DEF closingVars
  <2>2. /\ UnapprovedDays \subseteq raced
        /\ \A d \in Days \ raced : Last(snapshots)[d] = version[d]
    BY <2>1 DEF ClosedMonthStands
  <2>3. raced' = raced \union Overturned(c) \union {d \in Days : RecordIsWritten(d) /\ c \in early}
    BY <1>4, LastSteps DEF Remembers
  <2>4. ASSUME NEW d \in Days, RecordIsWritten(d) PROVE d \in raced'
    <3>1. Record(c)
      BY <2>4, RecordsAreWritten
    <3>2. pc[c] = "day read" /\ tx[c].closing # "closed"
      BY <3>1, LastSteps DEF Record, Allowed, ClosingAllowsEditing
    <3>3. c \in early
      BY <2>1, <3>2 DEF ReadsAreRemembered
    <3> QED
      BY <2>3, <2>4, <3>3
  <2>5. ASSUME NEW d \in Days, d \in UnapprovedDays' PROVE d \in raced'
    BY <2>2, <2>3, <2>4, <2>5, UnapprovedAreWritten
  <2>6. ASSUME NEW d \in Days \ raced' PROVE Last(snapshots')[d] = version'[d]
    <3>1. d \notin raced /\ version'[d] = version[d]
      BY <2>3, <2>4, <2>6, RecordsAreWritten
    <3> QED
      BY <2>1, <2>2, <3>1
  <2> QED
    BY <1>1, <2>5, <2>6
<1> QED
  BY <1>3, <1>4

\* The history variables only remember: what holds of the month holds beside them.
LEMMA RacesAreSteps == SpecRaces => Spec
<1>1. InitRaces => Init
  BY DEF InitRaces
<1>2. [NextRaces]_<<vars, raceVars>> => [Next]_vars
  BY DEF NextRaces, Next
<1> QED
  BY <1>1, <1>2, PTL DEF Spec, SpecRaces

LEMMA InitRaceInv == InitRaces => RaceInv
<1> SUFFICES ASSUME InitRaces PROVE RaceInv
  OBVIOUS
<1>1. LockInv
  BY InitLockInv DEF InitRaces
<1>2. RaceShape /\ (\A c \in Clients : pc[c] = "idle") /\ closing = "open"
  BY DEF InitRaces, Init, RaceShape
<1> QED
  BY <1>1, <1>2 DEF RaceInv, ReadsAreRemembered, ClosedMonthStands

LEMMA StepRaceInv == RaceInv /\ [NextRaces]_<<vars, raceVars>> => RaceInv'
<1> SUFFICES ASSUME RaceInv, [NextRaces]_<<vars, raceVars>> PROVE RaceInv'
  OBVIOUS
<1>1. ASSUME NEW c \in Clients, ClientStep(c), Remembers(c) PROVE RaceInv'
  <2>1. LockInv'
    BY <1>1, StepLockInv DEF RaceInv, Next, ClientStep
  <2>2. RaceShape'
    <3>1. overtaken' \in [Days -> SUBSET Clients]
      BY <1>1 DEF Remembers, RaceInv, RaceShape, HasRead
    <3>2. early' \subseteq Clients
      BY <1>1 DEF Remembers, RaceInv, RaceShape
    <3>3. beside' \in [Clients -> SUBSET Days]
      BY <1>1 DEF Remembers, RaceInv, RaceShape, Overturned
    <3> QED
      BY <3>1, <3>2, <3>3 DEF RaceShape
  <2>3. \A o \in Clients : ReadsAreRemembered(o)'
    BY <1>1, OthersStayRemembered, OwnStepIsRemembered
  <2>4. ClosedMonthStands'
    BY <1>1, ClosedMonthStaysSo
  <2> QED
    BY <2>1, <2>2, <2>3, <2>4 DEF RaceInv
<1>2. CASE UNCHANGED <<vars, raceVars>>
  <2> USE <1>2 DEF vars, raceVars, monthVars, attendanceVars, requestVars, closingVars
  <2>1. LockInv'
    BY StepLockInv DEF RaceInv
  <2>2. UnapprovedDays' = UnapprovedDays
    BY DEF UnapprovedDays
  <2>3. RaceShape' /\ \A c \in Clients : ReadsAreRemembered(c)'
    BY <2>2 DEF RaceInv, RaceShape, ReadsAreRemembered
  <2>4. ClosedMonthStands'
    BY <2>2 DEF RaceInv, ClosedMonthStands
  <2> QED
    BY <2>1, <2>3, <2>4 DEF RaceInv
<1> QED
  BY <1>1, <1>2 DEF NextRaces, ClientStep

LEMMA AlwaysRaceInv == SpecRaces => []RaceInv
  BY InitRaceInv, StepRaceInv, PTL DEF SpecRaces

(***************************************************************************)
(* However many transactions overlap, a closed month has no day with       *)
(* records that is not approved, and its figures are those of its records, *)
(* apart from the days that were written to beside the close (close,       *)
(* approval/service.ts; requireEditableDay, record.ts).                    *)
(***************************************************************************)
THEOREM MonthIsClosedAsCounted == SpecRaces => []ClosedMonthStands
<1>1. RaceInv => ClosedMonthStands
  BY DEF RaceInv
<1> QED
  BY <1>1, AlwaysRaceInv, PTL

(***************************************************************************)
(* However many transactions overlap, what is submitted or approved is     *)
(* only recorded to or undone by one that had read the request before its  *)
(* last change, or by a reopening (decide, reopen, approval/service.ts).   *)
(***************************************************************************)
THEOREM ApprovalsStand == SpecRaces => ApprovalStands
<1>1. ASSUME RaceInv, [NextRaces]_<<vars, raceVars>>, NEW c \in Clients, NEW d \in Days,
             pc'[c] # pc[c], c \notin overtaken[d]
      PROVE  /\ RecordIsWritten(d) => RequestAllowsEditing(request[d])
             /\ request[d] = "approved" /\ request'[d] # "approved" =>
                  Reopens(c) /\ request'[d] = "returned"
             /\ RequestIsWritten(d) => Last(transitions'[d])[1] = request[d]
  <2>1. ClientStep(c)
    <3>1. PICK x \in Clients : ClientStep(x)
      BY <1>1 DEF NextRaces, ClientStep, vars
    <3>2. x = c
      BY <1>1, <3>1, OthersStay DEF RaceInv, LockInv
    <3> QED
      BY <3>1, <3>2
  <2>2. ReadsAreRemembered(c)
    BY <1>1 DEF RaceInv
  <2>3. ASSUME RecordIsWritten(d) PROVE RequestAllowsEditing(request[d])
    <3>1. Record(c) /\ d = tx[c].day
      BY <1>1, <2>1, <2>3, RecordsAreWritten DEF RaceInv
    <3>2. pc[c] = "day read" /\ RequestAllowsEditing(tx[c].request)
      BY <1>1, <2>1, <3>1, LastSteps DEF RaceInv, Record, Allowed
    <3> QED
      BY <1>1, <2>2, <3>1, <3>2 DEF ReadsAreRemembered
  <2>4. ASSUME request[d] = "approved", request'[d] # "approved"
        PROVE  Reopens(c) /\ request'[d] = "returned"
    <3>1. Reopens(c)
      BY <1>1, <2>1, <2>4, UndoneIsOverturned DEF Overturned
    <3>2. ~SaveRequest(c)
      BY <1>1, <2>1, <3>1, LastSteps DEF Reopens, RaceInv
    <3>3. Reopen(c)
      BY <2>1, <2>4, <3>2, OnlyDecisionsChangeRequests DEF requestVars
    <3> QED
      BY <1>1, <2>4, <3>1, <3>3, ReopeningWrites DEF RaceInv
  <2>5. ASSUME RequestIsWritten(d) PROVE Last(transitions'[d])[1] = request[d]
    <3>1. CASE SaveRequest(c)
      <4>1. d = tx[c].day /\ pc[c] = "deciding" /\ Last(transitions'[d])[1] = tx[c].request
        BY <1>1, <2>1, <2>5, <3>1, DecisionWrites, LastSteps DEF RaceInv
      <4> QED
        BY <1>1, <2>2, <4>1 DEF ReadsAreRemembered
    <3>2. CASE Reopen(c)
      BY <1>1, <2>5, <3>2, ReopeningWrites DEF RaceInv
    <3>3. CASE ~SaveRequest(c) /\ ~Reopen(c)
      BY <2>1, <2>5, <3>3, OnlyDecisionsChangeRequests DEF requestVars, RequestIsWritten
    <3> QED
      BY <3>1, <3>2, <3>3
  <2> QED
    BY <2>3, <2>4, <2>5
<1>2. RaceInv /\ [NextRaces]_<<vars, raceVars>> =>
        [\A c \in Clients, d \in Days :
           pc'[c] # pc[c] /\ c \notin overtaken[d] =>
             /\ RecordIsWritten(d) => RequestAllowsEditing(request[d])
             /\ request[d] = "approved" /\ request'[d] # "approved" =>
                  Reopens(c) /\ request'[d] = "returned"
             /\ RequestIsWritten(d) => Last(transitions'[d])[1] = request[d]]_<<vars, raceVars>>
  BY <1>1
<1> QED
  BY <1>2, AlwaysRaceInv, PTL DEF SpecRaces, ApprovalStands
=============================================================================
