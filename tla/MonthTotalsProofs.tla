--------------------------- MODULE MonthTotalsProofs ---------------------------
(***************************************************************************)
(* Proofs about the stored calculations of a month, for any number of days *)
(* and of transactions at a time:                                          *)
(*                                                                         *)
(*  - the latest version of a day is that of its punches, schedule and     *)
(*    approvals, but for the two races that CurrentUnlessOvertaken names;  *)
(*  - the calculations of a closed month stand, but for schedules and what *)
(*    was under way;                                                       *)
(*  - so does what is exported of it;                                      *)
(*  - the minutes of a day add up, whatever its punches, schedule,         *)
(*    category and rules are.                                              *)
(***************************************************************************)
EXTENDS MonthTotals, SequenceTheorems, FiniteSetTheorems, WellFoundedInduction, TLAPS

-----------------------------------------------------------------------------
(***************************************************************************)
(* What a day is calculated from, without the rules.                       *)
(***************************************************************************)
Same(i, j) == Inputs(i) = Inputs(j)

\* What a transaction makes of one field of an input.
Part(t, k, v) ==
  IF k = "events" /\ t.op = "record" THEN t.own.events
  ELSE IF k = "schedule" /\ t.op = "schedule" THEN t.own.schedule
  ELSE IF k = "category" /\ t.op = "schedule" THEN t.own.category
  ELSE IF k = "limit" /\ t.op = "approve" THEN Max({v, t.own.limit})
  ELSE v

SeenBy(t, input) == [k \in DOMAIN input |-> Part(t, k, input[k])]

\* Two inputs are the same when they have the same fields, the rules aside.
LEMMA SameFields ==
  ASSUME NEW i, NEW j
  PROVE  Same(i, j) <=> /\ DOMAIN i \ {"rules"} = DOMAIN j \ {"rules"}
                        /\ \A k \in DOMAIN i \ {"rules"} : i[k] = j[k]
<1>1. /\ DOMAIN Inputs(i) = DOMAIN i \ {"rules"}
      /\ \A k \in DOMAIN i \ {"rules"} : Inputs(i)[k] = i[k]
  BY DEF Inputs
<1>2. /\ DOMAIN Inputs(j) = DOMAIN j \ {"rules"}
      /\ \A k \in DOMAIN j \ {"rules"} : Inputs(j)[k] = j[k]
  BY DEF Inputs
<1>3. ASSUME DOMAIN i \ {"rules"} = DOMAIN j \ {"rules"},
             \A k \in DOMAIN i \ {"rules"} : i[k] = j[k]
      PROVE  Inputs(i) = Inputs(j)
  BY <1>3 DEF Inputs
<1> QED
  BY <1>1, <1>2, <1>3 DEF Same

LEMMA SameIsEquivalence ==
  ASSUME NEW i, NEW j, NEW k
  PROVE  /\ Same(i, i)
         /\ Same(i, j) => Same(j, i)
         /\ Same(i, j) /\ Same(j, k) => Same(i, k)
  BY DEF Same

\* What a transaction sees, and what it leaves, is SeenBy but for the rules.
LEMMA SeenIsSeenBy ==
  ASSUME NEW c, NEW d
  PROVE  Same(Seen(c, d), SeenBy(tx[c], day[d])) /\ Same(Changed(c, d), SeenBy(tx[c], day[d]))
<1> DEFINE i == day[d]
           s == Seen(c, d)
           b == SeenBy(tx[c], i)
<1>1. DOMAIN s = DOMAIN i /\ DOMAIN b = DOMAIN i /\ DOMAIN Changed(c, d) = DOMAIN i
  BY DEF Seen, SeenBy, Changed
<1>2. \A k \in DOMAIN i \ {"rules"} : s[k] = Part(tx[c], k, i[k])
  <2> SUFFICES ASSUME NEW k \in DOMAIN i \ {"rules"} PROVE s[k] = Part(tx[c], k, i[k])
    OBVIOUS
  <2>1. CASE k = "events"
    BY <2>1 DEF Seen, Part
  <2>2. CASE k = "schedule"
    BY <2>2 DEF Seen, Part
  <2>3. CASE k = "category"
    BY <2>3 DEF Seen, Part
  <2>4. CASE k = "limit"
    BY <2>4 DEF Seen, Part
  <2>5. CASE k \notin {"events", "schedule", "category", "limit"}
    BY <2>5 DEF Seen, Part
  <2> QED
    BY <2>1, <2>2, <2>3, <2>4, <2>5
<1>3. \A k \in DOMAIN i : b[k] = Part(tx[c], k, i[k])
  BY DEF SeenBy
<1>4. \A k \in DOMAIN s \ {"rules"} : Changed(c, d)[k] = s[k]
  BY DEF Changed
<1>5. Same(s, b)
  BY <1>1, <1>2, <1>3, SameFields
<1>6. Same(Changed(c, d), b)
  <2> HIDE DEF s, b
  <2>1. \A k \in DOMAIN i \ {"rules"} : Changed(c, d)[k] = b[k]
    BY <1>1, <1>2, <1>3, <1>4
  <2> QED
    BY <2>1, <1>1, SameFields
<1> QED
  BY <1>5, <1>6

LEMMA SameIsSeenTheSame ==
  ASSUME NEW t, NEW i, NEW j, Same(i, j)
  PROVE  Same(SeenBy(t, i), SeenBy(t, j))
<1>1. /\ DOMAIN i \ {"rules"} = DOMAIN j \ {"rules"}
      /\ \A k \in DOMAIN i \ {"rules"} : i[k] = j[k]
  BY SameFields
<1>2. /\ DOMAIN SeenBy(t, i) = DOMAIN i
      /\ \A k \in DOMAIN i : SeenBy(t, i)[k] = Part(t, k, i[k])
      /\ DOMAIN SeenBy(t, j) = DOMAIN j
      /\ \A k \in DOMAIN j : SeenBy(t, j)[k] = Part(t, k, j[k])
  BY DEF SeenBy
<1>3. \A k \in DOMAIN SeenBy(t, i) \ {"rules"} : SeenBy(t, i)[k] = SeenBy(t, j)[k]
  <2> SUFFICES ASSUME NEW k \in DOMAIN i \ {"rules"} PROVE SeenBy(t, i)[k] = SeenBy(t, j)[k]
    BY <1>2
  <2>1. i[k] = j[k] /\ k \in DOMAIN i /\ k \in DOMAIN j
    BY <1>1
  <2>2. SeenBy(t, i)[k] = Part(t, k, i[k]) /\ SeenBy(t, j)[k] = Part(t, k, j[k])
    BY <1>2, <2>1
  <2> QED
    BY <2>1, <2>2
<1> QED
  BY <1>1, <1>2, <1>3, SameFields

LEMMA LargerOfTwo ==
  ASSUME NEW a \in Int, NEW b \in Int
  PROVE  Max({a, b}) = IF a >= b THEN a ELSE b
<1>1. Max({a, b}) = CHOOSE x \in {a, b} : \A y \in {a, b} : x >= y
  BY DEF Max
<1>2. \E x \in {a, b} : \A y \in {a, b} : x >= y
  OBVIOUS
<1>3. Max({a, b}) \in {a, b} /\ \A y \in {a, b} : Max({a, b}) >= y
  BY <1>1, <1>2
<1> QED
  BY <1>3

\* To change what has been changed alters nothing.
LEMMA SeenTwice ==
  ASSUME NEW t, NEW i, i.limit \in Int, t.op = "approve" => t.own.limit \in Int
  PROVE  Same(SeenBy(t, SeenBy(t, i)), SeenBy(t, i))
<1> DEFINE b == SeenBy(t, i)
<1>1. DOMAIN b = DOMAIN i /\ \A k \in DOMAIN i : b[k] = Part(t, k, i[k])
  BY DEF SeenBy
<1>2. DOMAIN SeenBy(t, b) = DOMAIN b /\ \A k \in DOMAIN b : SeenBy(t, b)[k] = Part(t, k, b[k])
  BY DEF SeenBy
<1> HIDE DEF b
<1>3. ASSUME NEW k \in DOMAIN i PROVE Part(t, k, Part(t, k, i[k])) = Part(t, k, i[k])
  <2>1. CASE k = "limit" /\ t.op = "approve"
    <3>1. Max({i.limit, t.own.limit}) \in Int
      BY <2>1, LargerOfTwo
    <3>2. Max({Max({i.limit, t.own.limit}), t.own.limit}) = Max({i.limit, t.own.limit})
      <4> DEFINE m == Max({i.limit, t.own.limit})
      <4>1. m >= t.own.limit
        BY <2>1, LargerOfTwo
      <4>2. m \in Int
        BY <3>1
      <4> HIDE DEF m
      <4>3. Max({m, t.own.limit}) = m
        BY <4>1, <4>2, <2>1, LargerOfTwo
      <4> QED
        BY <4>3 DEF m
    <3> QED
      BY <2>1, <3>2 DEF Part
  <2>2. CASE ~(k = "limit" /\ t.op = "approve")
    BY <2>2 DEF Part
  <2> QED
    BY <2>1, <2>2
<1>4. \A k \in DOMAIN b : SeenBy(t, b)[k] = b[k]
  BY <1>1, <1>2, <1>3
<1>5. Same(SeenBy(t, b), b)
  BY <1>2, <1>4, SameFields
<1> QED
  BY <1>5 DEF b
-----------------------------------------------------------------------------
(***************************************************************************)
(* The inductive invariant.                                                *)
(***************************************************************************)
Fields == {"op", "at", "of", "days", "own", "read", "version", "pending", "totals"}

\* The days a transaction has to do, and those it has added a version for.
Covers(t) ==
  /\ t.days \subseteq t.of /\ t.of \subseteq Days
  /\ \A p \in t.pending : p.day \in t.of /\ (p.day \in t.days => p.day = Min(t.days))
  /\ t.op = "approve" => t.own.limit \in Int
  /\ t.op \in {"close", "reopen"} => t.of = {}

AtADay(t) == t.at \in {"latest", "insert", "share"}

Staged(t) ==
  /\ AtADay(t) => t.days # {}
  /\ t.at = "commit" => t.days = {}
  /\ IF t.at = "share" THEN \E p \in t.pending : p.day = Min(t.days)
     ELSE \A p \in t.pending : p.day \notin t.days

\* What was read of the day in hand contains the change, and is the day but for what was missed.
ReadFits(c, t, days, m) ==
  AtADay(t) =>
    /\ Same(SeenBy(t, t.read), t.read)
    /\ <<c, Min(t.days)>> \notin m => Same(t.read, SeenBy(t, days[Min(t.days)]))

\* So does a version that is added.
AddedFits(c, t, days, m) ==
  \A p \in t.pending : <<c, p.day>> \notin m => Same(p.row.input, SeenBy(t, days[p.day]))

\* And so does the latest of a day for which none is added.
SatisfiedFits(c, t, days, latest, r, s) ==
  \A d \in t.of \ t.days :
    (\A p \in t.pending : p.day # d) /\ d \notin s /\ <<c, d>> \notin r
      => Same(latest[d].input, SeenBy(t, days[d]))

TxFits(c, t, days, latest, m, r, s) ==
  /\ DOMAIN t = Fields
  /\ Covers(t)
  /\ Staged(t)
  /\ ReadFits(c, t, days, m)
  /\ AddedFits(c, t, days, m)
  /\ SatisfiedFits(c, t, days, latest, r, s)

LimitsFit == \A d \in Days : "limit" \in DOMAIN day[d] /\ day[d].limit \in Int

\* Whatever is open while the month is closed was open before, or may be.
ClosedFits ==
  closing = "closed" =>
    \A c \in Clients : Open(c) => c \in underway \/ tx[c].op \in {"schedule", "reopen"}

IInv ==
  /\ DOMAIN tx = Clients
  /\ \A c \in Clients : TxFits(c, tx[c], day, rows, missed, replaced, stale)
  /\ LimitsFit
  /\ CurrentUnlessOvertaken
  /\ ClosedFits

-----------------------------------------------------------------------------
(***************************************************************************)
(* The steps of one transaction before it commits.                         *)
(***************************************************************************)
LEMMA Smallest ==
  ASSUME NEW S \in SUBSET Nat, S # {}
  PROVE  Min(S) \in S
<1>1. PICK x \in S : \A y \in S : ~(<<y, x>> \in OpToRel(<, Nat))
  BY NatLessThanWellFounded, WFMin
<1>2. \A y \in S : <<y, x>> \in Nat \X Nat /\ <<y, x>>[1] = y /\ <<y, x>>[2] = x
  OBVIOUS
<1>3. \A y \in S : ~(y < x)
  BY <1>1, <1>2 DEF OpToRel
<1>4. \A y \in S : x <= y
  BY <1>3
<1> QED
  BY <1>4 DEF Min

LEMMA NoTxFits ==
  ASSUME NEW c, NEW days, NEW latest, NEW m, NEW r, NEW s
  PROVE  TxFits(c, NoTx, days, latest, m, r, s)
BY DEF TxFits, Fields, NoTx, Covers, Staged, AtADay, ReadFits, AddedFits, SatisfiedFits

\* A transaction that only goes on with its own work leaves the invariant as it is.
LEMMA GoesOn ==
  ASSUME IInv, NEW c \in Clients, NEW t,
         TxFits(c, t, day, rows, missed, replaced, stale),
         tx' = [tx EXCEPT ![c] = t], UNCHANGED <<dataVars, historyVars>>,
         closing = "closed" => t.op \in {"schedule", "reopen"} \/ t.op = tx[c].op
  PROVE  IInv'
<1>1. DOMAIN tx' = Clients /\ \A x \in Clients : tx'[x] = IF x = c THEN t ELSE tx[x]
  BY DEF IInv
<1>2. UNCHANGED <<day, rows, closing, missed, replaced, stale, underway>>
  BY DEF dataVars, historyVars
<1>3. (\A x \in Clients : TxFits(x, tx[x], day, rows, missed, replaced, stale))'
  BY <1>1, <1>2 DEF IInv
<1>4. LimitsFit'
  BY <1>2 DEF IInv, LimitsFit
<1>5. CurrentUnlessOvertaken'
  BY <1>2 DEF IInv, CurrentUnlessOvertaken
<1>6. ClosedFits'
  <2> SUFFICES ASSUME closing' = "closed", NEW x \in Clients, Open(x)'
               PROVE  x \in underway' \/ tx'[x].op \in {"schedule", "reopen"}
    BY DEF ClosedFits
  <2>1. Open(x) => x \in underway \/ tx[x].op \in {"schedule", "reopen"}
    BY <1>2 DEF IInv, ClosedFits
  <2>2. CASE x = c
    BY <1>1, <1>2, <2>1, <2>2 DEF Open
  <2>3. CASE x # c
    <3>1. Open(x)
      BY <1>1, <2>3 DEF Open
    <3> QED
      BY <1>1, <1>2, <2>1, <2>3, <3>1
  <2> QED
    BY <2>2, <2>3
<1> QED
  BY <1>1, <1>3, <1>4, <1>5, <1>6 DEF IInv

LEMMA Begins ==
  ASSUME IInv, NEW c \in Clients, NEW op, NEW days \in SUBSET Days, NEW own,
         Begin(c, op, days, own), UNCHANGED <<dataVars, historyVars>>,
         op = "approve" => own.limit \in Int,
         op \in {"close", "reopen"} => days = {},
         closing = "closed" => op \in {"schedule", "reopen"}
  PROVE  IInv'
<1> DEFINE t == [NoTx EXCEPT !.op = op, !.at = "read", !.of = days, !.days = days, !.own = own]
<1>1. tx' = [tx EXCEPT ![c] = t]
  BY DEF Begin
<1>2. /\ DOMAIN t = Fields /\ t.op = op /\ t.at = "read" /\ t.of = days /\ t.days = days
      /\ t.own = own /\ t.pending = {}
  BY DEF NoTx, Fields
<1> HIDE DEF t
<1>3. TxFits(c, t, day, rows, missed, replaced, stale)
  BY <1>2 DEF TxFits, Covers, Staged, AtADay, ReadFits, AddedFits, SatisfiedFits
<1> QED
  BY <1>1, <1>2, <1>3, GoesOn

\* The day in hand is done: a version is added, or none is needed.
Done(t) ==
  LET rest == t.days \ {Min(t.days)}
  IN  [t EXCEPT !.days = rest, !.at = IF rest = {} THEN "commit" ELSE "read"]

Settled(c, t) ==
  (\A p \in t.pending : p.day # Min(t.days)) /\ Min(t.days) \notin stale
    => Same(rows[Min(t.days)].input, SeenBy(t, day[Min(t.days)]))

LEMMA Advances ==
  ASSUME NEW c, NEW t, DOMAIN t = Fields, Covers(t), t.days # {}, Days \subseteq Nat,
         AddedFits(c, t, day, missed), SatisfiedFits(c, t, day, rows, replaced, stale),
         Settled(c, t)
  PROVE  TxFits(c, Done(t), day, rows, missed, replaced, stale) /\ Done(t).op = t.op
<1> DEFINE d == Min(t.days)
           rest == t.days \ {d}
           next == Done(t)
<1>1. /\ DOMAIN next = Fields /\ next.days = rest
      /\ next.at = IF rest = {} THEN "commit" ELSE "read"
      /\ next.of = t.of /\ next.op = t.op /\ next.own = t.own /\ next.pending = t.pending
  BY DEF Fields, Done
<1> HIDE DEF next
<1>2. \A i : SeenBy(next, i) = SeenBy(t, i)
  BY <1>1 DEF SeenBy, Part
<1>3. d \in t.days
  BY Smallest DEF Covers
<1>4. Covers(next)
  BY <1>1 DEF Covers
<1>5. Staged(next)
  BY <1>1 DEF Staged, AtADay, Covers
<1>6. ReadFits(c, next, day, missed)
  BY <1>1 DEF ReadFits, AtADay
<1>7. AddedFits(c, next, day, missed)
  BY <1>1, <1>2 DEF AddedFits
<1>8. SatisfiedFits(c, next, day, rows, replaced, stale)
  BY <1>1, <1>2 DEF SatisfiedFits, Settled
<1> QED
  BY <1>1, <1>4, <1>5, <1>6, <1>7, <1>8 DEF TxFits, next

LEMMA OperationsBegin ==
  ASSUME IInv, MonthAssumption, NEW c \in Clients, Operate(c)
  PROVE  IInv'
<1>1. CASE \E d \in Days : \E events \in Recordings(day[d].events) : Record(c, d, events)
  <2>a. PICK d \in Days : \E events \in Recordings(day[d].events) : Record(c, d, events)
    BY <1>1
  <2>1. PICK events \in Recordings(day[d].events) : Record(c, d, events)
    BY <2>a
  <2>2. /\ closing # "closed" /\ UNCHANGED <<dataVars, historyVars>>
        /\ Begin(c, "record", {d}, [day[d] EXCEPT !.events = events])
    BY <2>1 DEF Record
  <2> QED
    BY <2>2, Begins
<1>2. CASE \E d \in Days, s \in Schedules : PutSchedule(c, d, s)
  <2>1. PICK d \in Days, s \in Schedules : PutSchedule(c, d, s)
    BY <1>2
  <2>2. /\ UNCHANGED <<dataVars, historyVars>>
        /\ Begin(c, "schedule", {d}, [day[d] EXCEPT !.schedule = s[1], !.category = s[2]])
    BY <2>1 DEF PutSchedule
  <2> QED
    BY <2>2, Begins
<1>3. CASE \E d \in Days, limit \in Limits : ApproveOvertime(c, d, limit)
  <2>1. PICK d \in Days, limit \in Limits : ApproveOvertime(c, d, limit)
    BY <1>3
  <2> DEFINE own == [day[d] EXCEPT !.limit = limit]
  <2>2. /\ closing # "closed" /\ UNCHANGED <<dataVars, historyVars>>
        /\ Begin(c, "approve", {d}, own)
    BY <2>1 DEF ApproveOvertime
  <2>3. own.limit \in Int
    BY DEF IInv, LimitsFit, MonthAssumption
  <2> HIDE DEF own
  <2> QED
    BY <2>2, <2>3, Begins
<1>4. CASE Recalculate(c)
  BY <1>4, Begins DEF Recalculate
<1>5. CASE \E op \in {"close", "reopen"} : ReadClosing(c, op)
  <2>1. PICK op \in {"close", "reopen"} : ReadClosing(c, op)
    BY <1>5
  <2>2. /\ UNCHANGED <<dataVars, historyVars>> /\ Begin(c, op, {}, NoInput)
        /\ closing = "closed" => op = "reopen"
    BY <2>1 DEF ReadClosing
  <2> QED
    BY <2>1, <2>2, Begins
<1> QED
  BY <1>1, <1>2, <1>3, <1>4, <1>5 DEF Operate

\* What a day is read as contains the change already.
LEMMA ReadDayFits ==
  ASSUME IInv, MonthAssumption, NEW c \in Clients, ReadDay(c)
  PROVE  IInv'
<1> DEFINE t == tx[c]
           d == Min(t.days)
           next == [t EXCEPT !.read = Seen(c, d), !.at = "latest"]
<1>1. TxFits(c, t, day, rows, missed, replaced, stale) /\ DOMAIN tx = Clients
  BY DEF IInv
<1>2. t.at = "read" /\ t.days # {} /\ UNCHANGED <<dataVars, historyVars>>
  BY DEF ReadDay
<1>3. tx' = [tx EXCEPT ![c] = next]
  BY <1>1 DEF ReadDay, Today
<1>4. /\ DOMAIN next = Fields /\ next.read = Seen(c, d) /\ next.at = "latest"
      /\ next.op = t.op /\ next.of = t.of /\ next.days = t.days /\ next.own = t.own
      /\ next.pending = t.pending
  BY <1>1 DEF TxFits, Fields
<1>5. d \in Days /\ d \in t.days
  BY <1>1, <1>2, Smallest DEF TxFits, Covers, MonthAssumption
<1> HIDE DEF t, next, d
<1>6. \A i : SeenBy(next, i) = SeenBy(t, i)
  BY <1>4 DEF SeenBy, Part
<1>7. Same(Seen(c, d), SeenBy(t, day[d]))
  BY SeenIsSeenBy DEF t
<1>8. Same(SeenBy(t, SeenBy(t, day[d])), SeenBy(t, day[d]))
  <2>1. day[d].limit \in Int /\ (t.op = "approve" => t.own.limit \in Int)
    BY <1>1, <1>5 DEF IInv, LimitsFit, TxFits, Covers
  <2> QED
    BY <2>1, SeenTwice
<1>9. Same(SeenBy(t, Seen(c, d)), Seen(c, d))
  <2>1. Same(SeenBy(t, Seen(c, d)), SeenBy(t, SeenBy(t, day[d])))
    BY <1>7, SameIsSeenTheSame
  <2> QED
    BY <1>7, <1>8, <2>1 DEF Same
<1>10. TxFits(c, next, day, rows, missed, replaced, stale)
  <2>1. Covers(next) /\ Staged(next)
    BY <1>1, <1>2, <1>4 DEF TxFits, Covers, Staged, AtADay
  <2>2. ReadFits(c, next, day, missed)
    BY <1>4, <1>6, <1>7, <1>9 DEF ReadFits, d
  <2>3. AddedFits(c, next, day, missed) /\ SatisfiedFits(c, next, day, rows, replaced, stale)
    BY <1>1, <1>4, <1>6 DEF TxFits, AddedFits, SatisfiedFits
  <2> QED
    BY <1>4, <2>1, <2>2, <2>3 DEF TxFits
<1> QED
  BY <1>2, <1>3, <1>4, <1>10, GoesOn DEF t

\* No version is needed when the latest contains the change and is the day as it stands.
LEMMA FindLatestFits ==
  ASSUME IInv, MonthAssumption, NEW c \in Clients, FindLatest(c)
  PROVE  IInv'
<1> DEFINE t == tx[c]
           d == Min(t.days)
<1>1. TxFits(c, t, day, rows, missed, replaced, stale) /\ DOMAIN tx = Clients
  BY DEF IInv
<1>2. t.at = "latest" /\ t.days # {} /\ UNCHANGED <<dataVars, historyVars>>
  BY <1>1 DEF FindLatest, TxFits, Staged, AtADay
<1>3. d \in Days /\ d \in t.days
  BY <1>1, <1>2, Smallest DEF TxFits, Covers, MonthAssumption
<1>4. CASE rows[d].input = t.read
  <2>1. Advance(c, t)
    BY <1>4 DEF FindLatest, Today, Fingerprint
  <2>2. tx' = [tx EXCEPT ![c] = Done(t)]
    BY <2>1 DEF Advance, Today, Done
  <2>3. Settled(c, t)
    <3> SUFFICES ASSUME d \notin stale PROVE Same(rows[d].input, SeenBy(t, day[d]))
      BY DEF Settled
    <3>1. Same(rows[d].input, day[d])
      BY <1>3 DEF IInv, CurrentUnlessOvertaken, Same
    <3>2. Same(SeenBy(t, rows[d].input), rows[d].input)
      BY <1>1, <1>2, <1>4 DEF TxFits, ReadFits, AtADay
    <3>3. Same(SeenBy(t, rows[d].input), SeenBy(t, day[d]))
      BY <3>1, SameIsSeenTheSame
    <3> QED
      BY <3>2, <3>3 DEF Same
  <2> HIDE DEF t
  <2>4. TxFits(c, Done(t), day, rows, missed, replaced, stale) /\ Done(t).op = t.op
    BY <1>1, <1>2, <2>3, Advances DEF TxFits, MonthAssumption
  <2> QED
    BY <1>2, <2>2, <2>4, GoesOn DEF t
<1>5. CASE rows[d].input # t.read
  <2> DEFINE next == [t EXCEPT !.version = rows[d].version + 1, !.at = "insert"]
  <2>1. tx' = [tx EXCEPT ![c] = next]
    BY <1>1, <1>5 DEF FindLatest, Today, Fingerprint
  <2>2. /\ DOMAIN next = Fields /\ next.read = t.read /\ next.at = "insert"
        /\ next.op = t.op /\ next.of = t.of /\ next.days = t.days /\ next.own = t.own
        /\ next.pending = t.pending
    BY <1>1 DEF TxFits, Fields
  <2> HIDE DEF t, next
  <2>3. \A i : SeenBy(next, i) = SeenBy(t, i)
    BY <2>2 DEF SeenBy, Part
  <2>4. Covers(next) /\ Staged(next)
    BY <1>1, <1>2, <2>2 DEF TxFits, Covers, Staged, AtADay
  <2>5. ReadFits(c, next, day, missed)
    BY <1>1, <1>2, <2>2, <2>3 DEF TxFits, ReadFits, AtADay
  <2>6. AddedFits(c, next, day, missed) /\ SatisfiedFits(c, next, day, rows, replaced, stale)
    BY <1>1, <2>2, <2>3 DEF TxFits, AddedFits, SatisfiedFits
  <2>7. TxFits(c, next, day, rows, missed, replaced, stale)
    BY <2>2, <2>4, <2>5, <2>6 DEF TxFits
  <2> QED
    BY <1>2, <2>1, <2>2, <2>7, GoesOn DEF t
<1> QED
  BY <1>4, <1>5

\* The version that is added is of what was read.
LEMMA InsertVersionFits ==
  ASSUME IInv, MonthAssumption, NEW c \in Clients, InsertVersion(c)
  PROVE  IInv'
<1> DEFINE t == tx[c]
           d == Min(t.days)
           inserted == [day |-> d, row |-> Row(t.version, t.read)]
           more == [t EXCEPT !.pending = @ \union {inserted}]
           waits == [more EXCEPT !.at = "share"]
<1>1. TxFits(c, t, day, rows, missed, replaced, stale) /\ DOMAIN tx = Clients
  BY DEF IInv
<1>2. t.at = "insert" /\ t.days # {} /\ UNCHANGED <<dataVars, historyVars>>
  BY <1>1 DEF InsertVersion, TxFits, Staged, AtADay
<1>3. d \in Days /\ d \in t.days
  BY <1>1, <1>2, Smallest DEF TxFits, Covers, MonthAssumption
<1>4. \/ tx' = [tx EXCEPT ![c] = [more EXCEPT
            !.days = t.days \ {d}, !.at = IF t.days \ {d} = {} THEN "commit" ELSE "read"]]
      \/ tx' = [tx EXCEPT ![c] = waits]
  BY DEF InsertVersion, Advance, Today
<1>5. inserted.day = d /\ inserted.row.input = t.read
  BY DEF Row
<1>6. /\ DOMAIN more = Fields /\ more.read = t.read /\ more.at = "insert"
      /\ more.op = t.op /\ more.of = t.of /\ more.days = t.days /\ more.own = t.own
      /\ more.pending = t.pending \union {inserted}
  BY <1>1, <1>2 DEF TxFits, Fields
<1>7. /\ DOMAIN waits = Fields /\ waits.read = t.read /\ waits.at = "share"
      /\ waits.op = t.op /\ waits.of = t.of /\ waits.days = t.days /\ waits.own = t.own
      /\ waits.pending = t.pending \union {inserted}
  BY <1>6 DEF Fields
<1> HIDE DEF t, inserted, more, waits
<1>8. tx' = [tx EXCEPT ![c] = Done(more)] \/ tx' = [tx EXCEPT ![c] = waits]
  BY <1>4, <1>6 DEF Done
<1>9. \A i : SeenBy(more, i) = SeenBy(t, i) /\ SeenBy(waits, i) = SeenBy(t, i)
  BY <1>6, <1>7 DEF SeenBy, Part
<1>10. <<c, d>> \notin missed => Same(t.read, SeenBy(t, day[d]))
  BY <1>1, <1>2 DEF TxFits, ReadFits, AtADay
<1>11. Covers(more) /\ AddedFits(c, more, day, missed)
       /\ SatisfiedFits(c, more, day, rows, replaced, stale)
  <2>1. Covers(more)
    BY <1>1, <1>3, <1>5, <1>6 DEF TxFits, Covers
  <2>2. AddedFits(c, more, day, missed)
    BY <1>1, <1>5, <1>6, <1>9, <1>10 DEF TxFits, AddedFits
  <2>3. SatisfiedFits(c, more, day, rows, replaced, stale)
    BY <1>1, <1>6, <1>9 DEF TxFits, SatisfiedFits
  <2> QED
    BY <2>1, <2>2, <2>3
<1>12. CASE tx' = [tx EXCEPT ![c] = Done(more)]
  <2>1. Settled(c, more)
    BY <1>5, <1>6 DEF Settled
  <2>2. TxFits(c, Done(more), day, rows, missed, replaced, stale) /\ Done(more).op = more.op
    BY <1>2, <1>6, <1>11, <2>1, Advances DEF MonthAssumption
  <2> QED
    BY <1>2, <1>6, <1>12, <2>2, GoesOn DEF t
<1>13. CASE tx' = [tx EXCEPT ![c] = waits]
  <2>1. Covers(waits) /\ Staged(waits)
    BY <1>2, <1>5, <1>6, <1>7, <1>11 DEF Covers, Staged, AtADay, d
  <2>2. ReadFits(c, waits, day, missed)
    BY <1>1, <1>2, <1>7, <1>9 DEF TxFits, ReadFits, AtADay
  <2>3. AddedFits(c, waits, day, missed) /\ SatisfiedFits(c, waits, day, rows, replaced, stale)
    BY <1>6, <1>7, <1>9, <1>11 DEF AddedFits, SatisfiedFits
  <2>4. TxFits(c, waits, day, rows, missed, replaced, stale)
    BY <1>7, <2>1, <2>2, <2>3 DEF TxFits
  <2> QED
    BY <1>2, <1>7, <1>13, <2>4, GoesOn DEF t
<1> QED
  BY <1>8, <1>12, <1>13

LEMMA ShareFits ==
  ASSUME IInv, MonthAssumption, NEW c \in Clients, Share(c)
  PROVE  IInv'
<1> DEFINE t == tx[c]
<1>1. TxFits(c, t, day, rows, missed, replaced, stale) /\ DOMAIN tx = Clients
  BY DEF IInv
<1>2. t.at = "share" /\ t.days # {} /\ UNCHANGED <<dataVars, historyVars>>
  BY <1>1 DEF Share, TxFits, Staged, AtADay
<1>3. Settled(c, t)
  BY <1>1, <1>2 DEF TxFits, Staged, Settled
<1>4. tx' = [tx EXCEPT ![c] = Done(t)]
  BY DEF Share, Advance, Today, Done
<1> HIDE DEF t
<1>5. TxFits(c, Done(t), day, rows, missed, replaced, stale) /\ Done(t).op = t.op
  BY <1>1, <1>2, <1>3, Advances DEF TxFits, MonthAssumption
<1> QED
  BY <1>2, <1>4, <1>5, GoesOn DEF t

LEMMA SaveClosingFits ==
  ASSUME IInv, NEW c \in Clients, SaveClosing(c)
  PROVE  IInv'
<1> DEFINE t == tx[c]
           totals == IF t.op = "close" THEN Live ELSE <<>>
           next == [t EXCEPT !.at = "commit", !.totals = totals]
<1>1. TxFits(c, t, day, rows, missed, replaced, stale) /\ DOMAIN tx = Clients
  BY DEF IInv
<1>2. t.op \in {"close", "reopen"} /\ UNCHANGED <<dataVars, historyVars>>
  BY DEF SaveClosing
<1>3. tx' = [tx EXCEPT ![c] = next]
  BY <1>1 DEF SaveClosing
<1>4. /\ DOMAIN next = Fields /\ next.at = "commit" /\ next.op = t.op /\ next.of = t.of
      /\ next.days = t.days /\ next.own = t.own /\ next.pending = t.pending
  BY <1>1 DEF TxFits, Fields
<1> HIDE DEF t, next
<1>5. t.of = {} /\ t.days = {} /\ t.pending = {}
  <2>1. t.of = {} /\ t.days = {}
    BY <1>1, <1>2 DEF TxFits, Covers
  <2>2. \A p \in t.pending : p.day \in t.of
    BY <1>1 DEF TxFits, Covers
  <2> QED
    BY <2>1, <2>2
<1>6. TxFits(c, next, day, rows, missed, replaced, stale)
  BY <1>1, <1>4, <1>5
    DEF TxFits, Covers, Staged, AtADay, ReadFits, AddedFits, SatisfiedFits
<1> QED
  BY <1>2, <1>3, <1>4, <1>6, GoesOn DEF t

-----------------------------------------------------------------------------
(***************************************************************************)
(* The end of a transaction.                                               *)
(***************************************************************************)
LEMMA PairParts ==
  ASSUME NEW x, NEW d
  PROVE  <<x, d>>[1] = x /\ <<x, d>>[2] = d
OBVIOUS

\* What a client has missed is not forgotten when another one ends.
LEMMA OthersKeep ==
  ASSUME NEW pairs, NEW c, NEW x, x # c, NEW d
  PROVE  <<x, d>> \in OfOthers(pairs, c) <=> <<x, d>> \in pairs
BY PairParts DEF OfOthers

\* Nothing but the rows, inputs and histories decides whether a transaction fits them.
LEMMA FitsWhenKept ==
  ASSUME NEW c, NEW t, NEW m, NEW r, NEW m2, NEW r2, NEW days, NEW latest, NEW s,
         TxFits(c, t, days, latest, m, r, s),
         \A d : <<c, d>> \in m => <<c, d>> \in m2, \A d : <<c, d>> \in r => <<c, d>> \in r2
  PROVE  TxFits(c, t, days, latest, m2, r2, s)
BY DEF TxFits, ReadFits, AddedFits, SatisfiedFits

LEMMA FailFits ==
  ASSUME IInv, NEW c \in Clients, Fail(c)
  PROVE  IInv'
<1>1. /\ tx' = [tx EXCEPT ![c] = NoTx] /\ UNCHANGED <<day, rows, closing, stale>>
      /\ missed' = OfOthers(missed, c) /\ replaced' = OfOthers(replaced, c)
      /\ underway' = underway \ {c}
  BY DEF Fail, Ended, dataVars
<1>2. DOMAIN tx' = Clients /\ \A x \in Clients : tx'[x] = IF x = c THEN NoTx ELSE tx[x]
  BY <1>1 DEF IInv
<1>3. ASSUME NEW x \in Clients PROVE TxFits(x, tx'[x], day, rows, missed', replaced', stale)
  <2>1. CASE x = c
    BY <2>1, <1>2, NoTxFits
  <2>2. CASE x # c
    <3>1. TxFits(x, tx[x], day, rows, missed, replaced, stale)
      BY DEF IInv
    <3>2. /\ \A d : <<x, d>> \in missed => <<x, d>> \in missed'
          /\ \A d : <<x, d>> \in replaced => <<x, d>> \in replaced'
      BY <1>1, <2>2, OthersKeep
    <3>3. TxFits(x, tx[x], day, rows, missed', replaced', stale)
      BY <3>1, <3>2, FitsWhenKept
    <3> QED
      BY <1>2, <2>2, <3>3
  <2> QED
    BY <2>1, <2>2
<1>4. LimitsFit' /\ CurrentUnlessOvertaken'
  BY <1>1 DEF IInv, LimitsFit, CurrentUnlessOvertaken
<1>5. ClosedFits'
  BY <1>1, <1>2 DEF IInv, ClosedFits, Open, NoTx
<1> QED
  BY <1>1, <1>2, <1>3, <1>4, <1>5 DEF IInv

LEMMA CommitClosingFits ==
  ASSUME IInv, NEW c \in Clients, CommitClosing(c)
  PROVE  IInv'
<1>1. tx' = [tx EXCEPT ![c] = NoTx] /\ UNCHANGED <<day, rows, missed, replaced, stale>>
  BY DEF CommitClosing, Ended
<1>2. DOMAIN tx' = Clients /\ \A x \in Clients : tx'[x] = IF x = c THEN NoTx ELSE tx[x]
  BY <1>1 DEF IInv
<1>3. (\A x \in Clients : TxFits(x, tx[x], day, rows, missed, replaced, stale))'
  BY <1>1, <1>2, NoTxFits DEF IInv
<1>4. LimitsFit' /\ CurrentUnlessOvertaken'
  BY <1>1 DEF IInv, LimitsFit, CurrentUnlessOvertaken
<1>5. ClosedFits'
  <2>1. closing' = "closed" => underway' = {x \in Clients \ {c} : Open(x)}
    BY DEF CommitClosing
  <2>2. ~Open(c)'
    BY <1>2 DEF Open, NoTx
  <2>3. \A x \in Clients \ {c} : Open(x)' => Open(x)
    BY <1>2 DEF Open
  <2> QED
    BY <2>1, <2>2, <2>3 DEF ClosedFits
<1> QED
  BY <1>1, <1>2, <1>3, <1>4, <1>5 DEF IInv

\* What a commit makes of a day and its latest version.
LEMMA CommitLeaves ==
  ASSUME IInv, NEW c \in Clients, Commit(c), NEW d \in Days, d \notin stale'
  PROVE  Same(rows'[d].input, day'[d])
<1> DEFINE t == tx[c]
<1>1. TxFits(c, t, day, rows, missed, replaced, stale)
  BY DEF IInv
<1>2. /\ day'[d] = IF d \in t.of THEN Changed(c, d) ELSE day[d]
      /\ rows'[d] = IF Pending(c, d) = {} THEN rows[d]
                    ELSE (CHOOSE p \in Pending(c, d) : TRUE).row
      /\ t.at = "commit"
      /\ IF Pending(c, d) # {} THEN <<c, d>> \notin missed
         ELSE d \notin stale /\ <<c, d>> \notin replaced
  BY DEF Commit
<1>3. Same(Changed(c, d), SeenBy(t, day[d]))
  BY SeenIsSeenBy
<1>4. CASE Pending(c, d) # {}
  <2> DEFINE q == CHOOSE p \in Pending(c, d) : TRUE
  <2>1. q \in Pending(c, d)
    BY <1>4
  <2> HIDE DEF q
  <2>2. q \in t.pending /\ q.day = d
    BY <2>1 DEF Pending
  <2>3. d \in t.of
    BY <1>1, <2>2 DEF TxFits, Covers
  <2>4. Same(q.row.input, SeenBy(t, day[d]))
    BY <1>1, <1>2, <1>4, <2>2 DEF TxFits, AddedFits
  <2>5. rows'[d] = q.row /\ day'[d] = Changed(c, d)
    BY <1>2, <1>4, <2>3 DEF q
  <2> QED
    BY <1>3, <2>4, <2>5 DEF Same
<1>5. CASE Pending(c, d) = {} /\ d \in t.of
  <2>1. d \in t.of \ t.days
    BY <1>1, <1>2, <1>5 DEF TxFits, Staged
  <2>2. \A p \in t.pending : p.day # d
    BY <1>5 DEF Pending
  <2>3. Same(rows[d].input, SeenBy(t, day[d]))
    BY <1>1, <1>2, <1>5, <2>1, <2>2 DEF TxFits, SatisfiedFits
  <2> QED
    BY <1>2, <1>3, <1>5, <2>3 DEF Same
<1>6. CASE Pending(c, d) = {} /\ d \notin t.of
  <2>1. Same(rows[d].input, day[d])
    BY <1>2, <1>6 DEF IInv, CurrentUnlessOvertaken, Same
  <2> QED
    BY <1>2, <1>6, <2>1
<1> QED
  BY <1>4, <1>5, <1>6

\* A client that has read a day misses every change of it.
LEMMA ChangesAreMissed ==
  ASSUME NEW c \in Clients, Commit(c), NEW x \in Clients, x # c, NEW d \in Days,
         <<x, d>> \notin missed'
  PROVE  <<x, d>> \notin missed /\ (HasRead(x, d) => day'[d] = day[d])
<1>1. missed' = OfOthers(missed, c) \union
        {m \in (Clients \ {c}) \X Days : Changes(c, m[2]) /\ HasRead(m[1], m[2])}
  BY DEF Commit
<1>2. <<x, d>> \notin missed
  BY <1>1, OthersKeep
<1>3. <<x, d>> \in (Clients \ {c}) \X Days
  OBVIOUS
<1>4. ASSUME HasRead(x, d) PROVE ~Changes(c, d)
  BY <1>1, <1>3, <1>4, PairParts
<1>5. day'[d] = IF d \in tx[c].of THEN Changed(c, d) ELSE day[d]
  BY DEF Commit
<1> QED
  BY <1>2, <1>4, <1>5 DEF Changes

\* The day that a client was satisfied with keeps its version, if nothing was replaced.
LEMMA ReplacementsAreSeen ==
  ASSUME NEW c \in Clients, Commit(c), NEW x \in Clients, x # c, NEW d \in Days,
         <<x, d>> \notin replaced', Satisfied(x, d)
  PROVE  <<x, d>> \notin replaced /\ Pending(c, d) = {} /\ rows'[d] = rows[d]
<1>1. replaced' = OfOthers(replaced, c) \union
        {m \in (Clients \ {c}) \X Days : Pending(c, m[2]) # {} /\ Satisfied(m[1], m[2])}
  BY DEF Commit
<1>2. <<x, d>> \notin replaced
  BY <1>1, OthersKeep
<1>3. <<x, d>> \in (Clients \ {c}) \X Days
  OBVIOUS
<1>4. Pending(c, d) = {}
  BY <1>1, <1>3, PairParts
<1>5. rows'[d] = IF Pending(c, d) = {} THEN rows[d]
                 ELSE (CHOOSE p \in Pending(c, d) : TRUE).row
  BY DEF Commit
<1> QED
  BY <1>2, <1>4, <1>5

LEMMA CommitFitsOthers ==
  ASSUME IInv, MonthAssumption, NEW c \in Clients, Commit(c), NEW x \in Clients, x # c
  PROVE  TxFits(x, tx[x], day', rows', missed', replaced', stale')
<1> DEFINE t == tx[x]
<1>1. TxFits(x, t, day, rows, missed, replaced, stale)
  BY DEF IInv
<1>2. Covers(t) /\ Staged(t) /\ DOMAIN t = Fields
  BY <1>1 DEF TxFits
<1>3. ReadFits(x, t, day', missed')
  <2> DEFINE d == Min(t.days)
  <2> SUFFICES ASSUME AtADay(t)
               PROVE  /\ Same(SeenBy(t, t.read), t.read)
                      /\ <<x, d>> \notin missed' => Same(t.read, SeenBy(t, day'[d]))
    BY DEF ReadFits
  <2>1. Same(SeenBy(t, t.read), t.read)
    BY <1>1 DEF TxFits, ReadFits
  <2>2. ASSUME <<x, d>> \notin missed' PROVE Same(t.read, SeenBy(t, day'[d]))
    <3>1. d \in t.days /\ d \in t.of /\ d \in Days
      BY <1>2, Smallest DEF Covers, Staged, MonthAssumption
    <3>2. HasRead(x, d)
      BY <3>1 DEF HasRead, Today, AtADay
    <3>3. <<x, d>> \notin missed /\ day'[d] = day[d]
      BY <2>2, <3>1, <3>2, ChangesAreMissed
    <3> QED
      BY <1>1, <3>3 DEF TxFits, ReadFits
  <2> QED
    BY <2>1, <2>2
<1>4. AddedFits(x, t, day', missed')
  <2> SUFFICES ASSUME NEW p \in t.pending, <<x, p.day>> \notin missed'
               PROVE  Same(p.row.input, SeenBy(t, day'[p.day]))
    BY DEF AddedFits
  <2>1. p.day \in t.of /\ p.day \in Days
    BY <1>2 DEF Covers
  <2>2. HasRead(x, p.day)
    BY <1>2, <2>1 DEF HasRead, Today, Covers, Staged
  <2>3. <<x, p.day>> \notin missed /\ day'[p.day] = day[p.day]
    BY <2>1, <2>2, ChangesAreMissed
  <2> QED
    BY <1>1, <2>3 DEF TxFits, AddedFits
<1>5. SatisfiedFits(x, t, day', rows', replaced', stale')
  <2> SUFFICES ASSUME NEW d \in t.of \ t.days, \A p \in t.pending : p.day # d,
                      d \notin stale', <<x, d>> \notin replaced'
               PROVE  Same(rows'[d].input, SeenBy(t, day'[d]))
    BY DEF SatisfiedFits
  <2>1. d \in Days
    BY <1>2 DEF Covers
  <2>2. Satisfied(x, d)
    BY DEF Satisfied, Pending
  <2>3. <<x, d>> \notin replaced /\ Pending(c, d) = {} /\ rows'[d] = rows[d]
    BY <2>1, <2>2, ReplacementsAreSeen
  <2>4. d \notin stale
    BY <2>1, <2>3 DEF Commit
  <2>5. Same(rows[d].input, SeenBy(t, day[d]))
    BY <1>1, <2>3, <2>4 DEF TxFits, SatisfiedFits
  <2>6. Same(rows[d].input, day[d])
    BY <2>1, <2>4 DEF IInv, CurrentUnlessOvertaken, Same
  <2>7. Same(rows[d].input, day'[d])
    BY <2>1, <2>3, CommitLeaves
  <2>8. Same(SeenBy(t, day[d]), SeenBy(t, day'[d]))
    BY <2>6, <2>7, SameIsSeenTheSame DEF Same
  <2> QED
    BY <2>3, <2>5, <2>8 DEF Same
<1> QED
  BY <1>2, <1>3, <1>4, <1>5 DEF TxFits

LEMMA CommitFits ==
  ASSUME IInv, MonthAssumption, NEW c \in Clients, Commit(c)
  PROVE  IInv'
<1>1. /\ tx' = [tx EXCEPT ![c] = NoTx] /\ closing' = closing /\ underway' = underway \ {c}
      /\ \A d \in Days : day'[d] = IF d \in tx[c].of THEN Changed(c, d) ELSE day[d]
  BY DEF Commit, Ended
<1>2. DOMAIN tx' = Clients /\ \A x \in Clients : tx'[x] = IF x = c THEN NoTx ELSE tx[x]
  BY <1>1 DEF IInv
<1>3. ASSUME NEW x \in Clients PROVE TxFits(x, tx'[x], day', rows', missed', replaced', stale')
  <2>1. CASE x = c
    BY <2>1, <1>2, NoTxFits
  <2>2. CASE x # c
    BY <2>2, <1>2, CommitFitsOthers
  <2> QED
    BY <2>1, <2>2
<1>4. LimitsFit'
  <2> SUFFICES ASSUME NEW d \in Days, d \in tx[c].of
               PROVE  "limit" \in DOMAIN Changed(c, d) /\ Changed(c, d).limit \in Int
    BY <1>1 DEF IInv, LimitsFit
  <2> DEFINE b == SeenBy(tx[c], day[d])
  <2>1. "limit" \in DOMAIN day[d] /\ day[d].limit \in Int
    BY DEF IInv, LimitsFit
  <2>2. DOMAIN b = DOMAIN day[d] /\ b.limit = Part(tx[c], "limit", day[d].limit)
    BY <2>1 DEF SeenBy
  <2>3. tx[c].op = "approve" => tx[c].own.limit \in Int
    BY DEF IInv, TxFits, Covers
  <2>4. b.limit \in Int
    BY <2>1, <2>2, <2>3, LargerOfTwo DEF Part
  <2>5. Same(Changed(c, d), b)
    BY SeenIsSeenBy
  <2> HIDE DEF b
  <2>6. "limit" \in DOMAIN b \ {"rules"}
    BY <2>1, <2>2
  <2>7. "limit" \in DOMAIN Changed(c, d) \ {"rules"} /\ Changed(c, d)["limit"] = b["limit"]
    BY <2>5, <2>6, SameFields
  <2> QED
    BY <2>4, <2>7
<1>5. CurrentUnlessOvertaken'
  BY CommitLeaves DEF CurrentUnlessOvertaken, Same
<1>6. ClosedFits'
  BY <1>1, <1>2 DEF IInv, ClosedFits, Open, NoTx
<1> QED
  BY <1>2, <1>3, <1>4, <1>5, <1>6 DEF IInv

-----------------------------------------------------------------------------
(***************************************************************************)
(* What is current, and what stands while a month is closed.               *)
(***************************************************************************)
LEMMA InitFits ==
  ASSUME Init, MonthAssumption
  PROVE  IInv
<1>1. DOMAIN tx = Clients /\ \A c \in Clients : tx[c] = NoTx
  BY DEF Init
<1>2. \A c \in Clients : TxFits(c, tx[c], day, rows, missed, replaced, stale)
  BY <1>1, NoTxFits
<1>3. LimitsFit
  <2>1. day \in [Days -> CalculationInput]
    BY DEF Init, MonthAssumption
  <2>2. \A d \in Days : day[d] \in CalculationInput
    BY <2>1
  <2> QED
    BY <2>2 DEF LimitsFit, CalculationInput
<1>4. \A d \in Days : rows[d].input = day[d]
  BY DEF Init, Row
<1>5. CurrentUnlessOvertaken
  BY <1>4 DEF CurrentUnlessOvertaken
<1>6. ClosedFits
  BY DEF Init, ClosedFits
<1> QED
  BY <1>1, <1>2, <1>3, <1>5, <1>6 DEF IInv

LEMMA NextFits ==
  ASSUME IInv, MonthAssumption, [Next]_vars
  PROVE  IInv'
<1>1. CASE \E c \in Clients : Operate(c)
  BY <1>1, OperationsBegin
<1>2. CASE \E c \in Clients : Continue(c)
  BY <1>2, ReadDayFits, FindLatestFits, InsertVersionFits, ShareFits, FailFits, CommitFits,
     SaveClosingFits, CommitClosingFits DEF Continue
<1>3. CASE \E version \in RuleVersions : CreateRuleVersion(version)
  <2>1. UNCHANGED <<day, rows, closing, tx, missed, replaced, stale, underway>>
    BY <1>3 DEF CreateRuleVersion, historyVars
  <2> QED
    BY <2>1 DEF IInv, LimitsFit, CurrentUnlessOvertaken, ClosedFits, Open
<1>4. CASE UNCHANGED vars
  <2>1. UNCHANGED <<day, rows, closing, tx, missed, replaced, stale, underway>>
    BY <1>4 DEF vars, dataVars, historyVars
  <2> QED
    BY <2>1 DEF IInv, LimitsFit, CurrentUnlessOvertaken, ClosedFits, Open
<1> QED
  BY <1>1, <1>2, <1>3, <1>4 DEF Next

\* What a transaction has read, added or found good is the day with its change, but for what
\* others committed since: in every reachable state.
THEOREM Invariance == Spec => []IInv
<1>1. Init => IInv
  BY InitFits, MonthAssumption
<1>2. IInv /\ [Next]_vars => IInv'
  BY NextFits, MonthAssumption
<1> QED
  BY <1>1, <1>2, PTL DEF Spec

\* The latest version of a day is that of its punches, schedule and approvals, but for the
\* two races that CurrentUnlessOvertaken names (recalculateWorkDay).
THEOREM LatestIsCurrent == Spec => []CurrentUnlessOvertaken
<1>1. IInv => CurrentUnlessOvertaken
  BY DEF IInv
<1> QED
  BY <1>1, Invariance, PTL

\* Only a commit writes versions, so that only it can change those of a closed month.
LEMMA CommitsWrite ==
  ASSUME [Next]_vars, rows' # rows
  PROVE  \E c \in Clients : Commit(c)
<1> SUFFICES ASSUME \A c \in Clients : ~Commit(c) PROVE rows' = rows
  OBVIOUS
<1>1. ASSUME NEW c \in Clients, Operate(c) PROVE rows' = rows
  BY <1>1 DEF Operate, Record, PutSchedule, ApproveOvertime, Recalculate, ReadClosing, dataVars
<1>2. ASSUME NEW c \in Clients, Continue(c) PROVE rows' = rows
  BY <1>2 DEF Continue, ReadDay, FindLatest, InsertVersion, Share, Fail, SaveClosing,
              CommitClosing, dataVars
<1>3. ASSUME NEW version, CreateRuleVersion(version) PROVE rows' = rows
  BY <1>3 DEF CreateRuleVersion
<1> QED
  BY <1>1, <1>2, <1>3 DEF Next, vars, dataVars

\* The calculations of a closed month change only by setting a schedule or by what was under
\* way when it was closed (recalculate, applyToAttendance and recordAttendanceEvent look at
\* the closing when they begin).
THEOREM ClosedMonthStands == Spec => ClosedDaysStand
<1>1. ASSUME IInv, [Next]_vars, closing = "closed", rows' # rows
      PROVE  \E c \in Clients : /\ Open(c) /\ tx'[c] = NoTx
                                /\ \/ c \in underway
                                   \/ tx[c].op = "schedule"
  <2>1. PICK c \in Clients : Commit(c)
    BY <1>1, CommitsWrite
  <2>2. tx[c].op \in {"record", "schedule", "approve", "recalculate"}
    BY <2>1 DEF Commit
  <2>3. tx'[c] = NoTx
    BY <1>1, <2>1 DEF Commit, Ended, IInv
  <2>4. c \in underway \/ tx[c].op \in {"schedule", "reopen"}
    BY <1>1, <2>2 DEF IInv, ClosedFits, Open
  <2> QED
    BY <2>2, <2>3, <2>4 DEF Open
<1>2. IInv /\ [Next]_vars =>
        [closing = "closed" /\ rows' # rows =>
           \E c \in Clients : /\ Open(c) /\ tx'[c] = NoTx
                             /\ \/ c \in underway
                                \/ tx[c].op = "schedule"]_vars
  BY <1>1
<1> QED
  BY <1>2, Invariance, PTL DEF Spec, ClosedDaysStand

\* What payrollCsv exports of a closed month stands, but for what the snapshot does not show.
THEOREM ClosedExportStands == Spec => ClosedPayStands
<1>1. closing = "closed" /\ closing' = "closed" /\ snapshots' = snapshots =>
        \A k \in PayColumns : Last(snapshots)[k] # Unset => Payroll'[k] = Payroll[k]
  BY DEF Payroll
<1> QED
  BY <1>1, PTL DEF Spec, ClosedPayStands

\* A month that is closed stands in both respects: the days that were calculated change only
\* through a schedule or what was under way, and payrollCsv exports what it exported.
THEOREM ClosedStands == Spec => WhatIsClosedStands
BY ClosedMonthStands, ClosedExportStands DEF WhatIsClosedStands

-----------------------------------------------------------------------------
(***************************************************************************)
(* Folds, and what holds of every finite set.                              *)
(***************************************************************************)
\* What holds of 0 and is kept by adding 1 holds of every number up to N.
LEMMA Climb ==
  ASSUME NEW N \in Nat, NEW S, 0 \in S, \A n \in Nat : n < N /\ n \in S => n + 1 \in S
  PROVE  \A n \in 0 .. N : n \in S
<1> DEFINE T == {n \in 0 .. N : n \notin S}
<1> SUFFICES ASSUME T # {} PROVE FALSE
  OBVIOUS
<1>1. T \subseteq Nat
  OBVIOUS
<1>2. PICK x \in T : \A y \in T : ~(<<y, x>> \in OpToRel(<, Nat))
  BY <1>1, NatLessThanWellFounded, WFMin
<1>3. \A y \in T : x <= y
  <2>1. \A y \in T : <<y, x>> \in Nat \X Nat /\ <<y, x>>[1] = y /\ <<y, x>>[2] = x
    BY <1>1
  <2>2. \A y \in T : ~(y < x)
    BY <1>2, <2>1 DEF OpToRel
  <2> QED
    BY <1>1, <2>2
<1>4. x \in Nat /\ x <= N /\ x # 0 /\ x \notin S
  OBVIOUS
<1>5. x - 1 \in Nat /\ x - 1 < N /\ x - 1 \notin T
  BY <1>3, <1>4
<1>6. x - 1 \in S
  BY <1>4, <1>5
<1> QED
  BY <1>4, <1>5, <1>6

\* What holds of the empty set, and of each set of which it holds without any one of its elements.
LEMMA OneLess ==
  ASSUME NEW S, IsFiniteSet(S), NEW Q, {} \in Q,
         \A s \in SUBSET S : s # {} /\ (\A x \in s : s \ {x} \in Q) => s \in Q
  PROVE  S \in Q
<1> DEFINE T == {n \in Nat : \A s \in SUBSET S : Cardinality(s) = n => s \in Q}
<1>1. Cardinality(S) \in Nat
  BY FS_CardinalityType
<1>2. 0 \in T
  <2>1. \A s \in SUBSET S : Cardinality(s) = 0 => s = {}
    BY FS_EmptySet, FS_Subset
  <2> QED
    BY <2>1
<1>3. ASSUME NEW n \in Nat, n \in T PROVE n + 1 \in T
  <2>1. ASSUME NEW s \in SUBSET S, Cardinality(s) = n + 1 PROVE s \in Q
    <3>1. IsFiniteSet(s)
      BY FS_Subset
    <3>2. n + 1 # 0 /\ (n + 1) - 1 = n
      OBVIOUS
    <3>3. s # {}
      BY <2>1, <3>2, FS_EmptySet
    <3>4. ASSUME NEW x \in s PROVE s \ {x} \in Q
      <4>1. Cardinality(s \ {x}) = Cardinality(s) - 1
        BY <3>1, FS_RemoveElement
      <4>2. s \ {x} \in SUBSET S
        OBVIOUS
      <4>3. Cardinality(s \ {x}) = n
        BY <2>1, <3>2, <4>1
      <4> QED
        BY <1>3, <4>2, <4>3
    <3> QED
      BY <3>3, <3>4
  <2> QED
    BY <2>1
<1> HIDE DEF T
<1>4. \A n \in 0 .. Cardinality(S) : n \in T
  BY <1>1, <1>2, <1>3, Climb
<1>5. Cardinality(S) \in T
  BY <1>1, <1>4
<1> QED
  BY <1>5 DEF T

\* A finite set of numbers has a largest element.
LEMMA LargestOf ==
  ASSUME NEW S \in SUBSET Int, IsFiniteSet(S), S # {}
  PROVE  Max(S) \in S /\ \A y \in S : y <= Max(S)
<1> DEFINE Q == {s \in SUBSET S : s # {} => \E m \in s : \A y \in s : y <= m}
<1>1. {} \in Q
  OBVIOUS
<1>2. ASSUME NEW s \in SUBSET S, s # {}, \A x \in s : s \ {x} \in Q PROVE s \in Q
  <2>0. PICK x \in s : s \ {x} \in Q
    BY <1>2
  <2>1. CASE s \ {x} = {}
    <3>1. \A y \in s : y <= x
      BY <2>1
    <3> QED
      BY <3>1
  <2>2. CASE s \ {x} # {}
    <3>1. PICK m \in s \ {x} : \A y \in s \ {x} : y <= m
      BY <2>0, <2>2
    <3>2. m \in Int /\ x \in Int /\ s \subseteq Int
      OBVIOUS
    <3>3. CASE m <= x
      <4>1. \A y \in s : y <= x
        BY <3>1, <3>2, <3>3
      <4> QED
        BY <4>1
    <3>4. CASE x <= m
      <4>1. \A y \in s : y <= m
        BY <3>1, <3>2, <3>4
      <4> QED
        BY <3>1, <4>1
    <3> QED
      BY <3>2, <3>3, <3>4
  <2> QED
    BY <2>1, <2>2
<1> HIDE DEF Q
<1>3. S \in Q
  BY <1>1, <1>2, OneLess
<1>4. \E m \in S : \A y \in S : m >= y
  BY <1>3 DEF Q
<1>5. Max(S) \in S /\ \A y \in S : Max(S) >= y
  BY <1>4 DEF Max
<1> QED
  BY <1>5

-----------------------------------------------------------------------------
(***************************************************************************)
(* What a fold over a set makes, step by step.                             *)
(***************************************************************************)
\* How a fold takes the elements of a set.
Picks(pick, S) == \A s \in SUBSET S : s # {} => pick[s] \in s

\* What a fold makes of a set, of what it makes of the set without an element.
Folded(h, S, base, step, pick) ==
  \A s \in SUBSET S : h[s] = IF s = {} THEN base ELSE step[pick[s]][h[s \ {pick[s]}]]

\* So there is a function that does as the fold does.
LEMMA FoldExists ==
  ASSUME NEW S, IsFiniteSet(S), NEW X, NEW base \in X, NEW step \in [S -> [X -> X]],
         NEW pick, Picks(pick, S)
  PROVE  \E h \in [SUBSET S -> X] : Folded(h, S, base, step, pick)
<1> DEFINE Fits(h, s) == h[s] = IF s = {} THEN base ELSE step[pick[s]][h[s \ {pick[s]}]]
           Q == {n \in Nat : \E h \in [SUBSET S -> X] :
                               \A s \in SUBSET S : Cardinality(s) <= n => Fits(h, s)}
<1>1. Cardinality(S) \in Nat
  BY FS_CardinalityType
<1>2. 0 \in Q
  <2>1. PICK h : h = [s \in SUBSET S |-> base]
    OBVIOUS
  <2>2. ASSUME NEW s \in SUBSET S, Cardinality(s) <= 0 PROVE Fits(h, s)
    <3>1. IsFiniteSet(s) /\ Cardinality(s) \in Nat
      BY FS_Subset, FS_CardinalityType
    <3>2. s = {}
      BY <2>2, <3>1, FS_EmptySet
    <3> QED
      BY <2>1, <3>2
  <2>3. h \in [SUBSET S -> X]
    BY <2>1
  <2> HIDE DEF Fits
  <2> QED
    BY <2>2, <2>3
<1>3. ASSUME NEW n \in Nat, n \in Q PROVE n + 1 \in Q
  <2>1. PICK h \in [SUBSET S -> X] : \A s \in SUBSET S : Cardinality(s) <= n => Fits(h, s)
    BY <1>3
  <2>2. PICK g : g = [s \in SUBSET S |-> IF s = {} THEN base
                                        ELSE step[pick[s]][h[s \ {pick[s]}]]]
    OBVIOUS
  <2>3. g \in [SUBSET S -> X]
    <3>1. ASSUME NEW s \in SUBSET S, s # {} PROVE step[pick[s]][h[s \ {pick[s]}]] \in X
      <4>1. pick[s] \in S /\ s \ {pick[s]} \in SUBSET S
        BY <3>1 DEF Picks
      <4>2. step[pick[s]] \in [X -> X] /\ h[s \ {pick[s]}] \in X
        BY <4>1
      <4> QED
        BY <4>2
    <3> QED
      BY <2>2, <3>1
  <2>4. ASSUME NEW s \in SUBSET S, Cardinality(s) <= n + 1 PROVE Fits(g, s)
    <3>1. CASE s = {}
      BY <2>2, <3>1
    <3>2. CASE s # {}
      <4>1. PICK x : x = pick[s]
        OBVIOUS
      <4>2. x \in s /\ s \ {x} \in SUBSET S
        BY <3>2, <4>1 DEF Picks
      <4>3. IsFiniteSet(s) /\ Cardinality(s) \in Nat
        BY FS_Subset, FS_CardinalityType
      <4>4. Cardinality(s \ {x}) = Cardinality(s) - 1
        BY <4>2, <4>3, FS_RemoveElement
      <4>5. Cardinality(s \ {x}) <= n
        BY <2>4, <4>3, <4>4
      <4>6. Fits(h, s \ {x})
        BY <2>1, <4>2, <4>5
      <4>7. g[s \ {x}] = h[s \ {x}]
        BY <2>2, <4>2, <4>6
      <4>8. g[s] = step[x][h[s \ {x}]]
        BY <2>2, <3>2, <4>1
      <4> QED
        BY <3>2, <4>1, <4>7, <4>8
    <3> QED
      BY <3>1, <3>2
  <2> HIDE DEF Fits
  <2> QED
    BY <2>3, <2>4
<1>4. \A n \in 0 .. Cardinality(S) : n \in Q
  <2> HIDE DEF Q
  <2> QED
    BY <1>1, <1>2, <1>3, Climb
<1>5. Cardinality(S) \in Q
  <2> HIDE DEF Q
  <2> QED
    BY <1>1, <1>4
<1>6. PICK h \in [SUBSET S -> X] :
        \A s \in SUBSET S : Cardinality(s) <= Cardinality(S) => Fits(h, s)
  BY <1>5
<1>7. \A s \in SUBSET S : Cardinality(s) <= Cardinality(S)
  BY FS_Subset
<1> QED
  BY <1>6, <1>7 DEF Folded

\* A step of the fold stays in X.
Stays(it, S, X, pick) ==
  it[{}] \in X /\ \A s \in SUBSET S : s # {} /\ it[s \ {pick[s]}] \in X => it[s] \in X

\* What each step of a fold keeps holds of the whole.
LEMMA FoldStays ==
  ASSUME NEW S, IsFiniteSet(S), NEW X, NEW it, NEW pick, Picks(pick, S), Stays(it, S, X, pick)
  PROVE  it[S] \in X
<1> DEFINE Q == {s \in SUBSET S : it[s] \in X}
<1>1. {} \in Q
  BY DEF Stays
<1>2. \A s \in SUBSET S : s # {} /\ (\A x \in s : s \ {x} \in Q) => s \in Q
  BY DEF Stays, Picks
<1> HIDE DEF Q
<1>3. S \in Q
  BY <1>1, <1>2, OneLess
<1> QED
  BY <1>3 DEF Q

-----------------------------------------------------------------------------
(***************************************************************************)
(* The sessions and breaks of a day (summarizeWorkDay).                    *)
(***************************************************************************)
Read == [state : DayStates, sessions : Seq(Spans), breaks : Seq(Spans)]

NoPunches == [state |-> "not_started", sessions |-> <<>>, breaks |-> <<>>]

\* What a punch makes of a day.
PunchOn(d, e) ==
  IF ~Accepts(d.state, e.type) THEN d
  ELSE [state |-> After(d.state, e.type),
        sessions |-> CASE e.type = "clock_in" -> Append(d.sessions, Period(e.at, Unset))
                       [] e.type = "clock_out" -> EndLast(d.sessions, e.at)
                       [] OTHER -> d.sessions,
        breaks |-> CASE e.type = "break_start" -> Append(d.breaks, Period(e.at, Unset))
                     [] e.type = "break_end" -> EndLast(d.breaks, e.at)
                     [] OTHER -> d.breaks]

Punches(events, it) ==
  it = [s \in SUBSET DOMAIN events |-> IF s = {} THEN NoPunches
                                       ELSE PunchOn(it[s \ {Max(s)}], events[Max(s)])]

\* The summary of a day is the fold of PunchOn over its punches.
LEMMA SummaryIsFold ==
  ASSUME NEW events
  PROVE  Summary(events) = (CHOOSE it : Punches(events, it))[DOMAIN events]
  BY Zenon DEF Summary, FoldLeft, MapThenFoldSet, Punches, PunchOn, NoPunches

\* Periods stay periods when one begins or the last one ends.
LEMMA SpansEnd ==
  ASSUME NEW spans \in Seq(Spans), NEW at \in Int
  PROVE  Append(spans, Period(at, Unset)) \in Seq(Spans) /\ EndLast(spans, at) \in Seq(Spans)
<1>1. Period(at, Unset) \in Spans
  BY DEF Period, Spans, Unset
<1>2. CASE spans = <<>>
  <2>1. Len(spans) \notin DOMAIN spans
    BY <1>2
  <2>2. DOMAIN EndLast(spans, at) = DOMAIN spans
    BY DEF EndLast
  <2>3. \A i \in DOMAIN spans : EndLast(spans, at)[i] = spans[i]
    BY <2>1 DEF EndLast
  <2>4. EndLast(spans, at) = [i \in DOMAIN spans |-> EndLast(spans, at)[i]]
    BY <2>2 DEF EndLast
  <2>5. spans = [i \in DOMAIN spans |-> spans[i]]
    OBVIOUS
  <2>6. EndLast(spans, at) = spans
    BY <2>3, <2>4, <2>5
  <2> QED
    BY <1>1, <2>6
<1>3. CASE spans # <<>>
  <2>1. Len(spans) \in DOMAIN spans /\ spans[Len(spans)] \in Spans
    BY <1>3
  <2>2. [spans[Len(spans)] EXCEPT !.end = at] \in Spans
    BY <2>1 DEF Spans
  <2>3. EndLast(spans, at) = [spans EXCEPT ![Len(spans)] = [spans[Len(spans)] EXCEPT !.end = at]]
    BY <2>1 DEF EndLast
  <2> QED
    BY <1>1, <2>1, <2>2, <2>3
<1> QED
  BY <1>2, <1>3

\* A punch leaves a day that can be read.
LEMMA PunchKeeps ==
  ASSUME NEW d \in Read, NEW e \in [type : PunchTypes, at : Int]
  PROVE  PunchOn(d, e) \in Read
<1>1. d.state \in DayStates /\ d.sessions \in Seq(Spans) /\ d.breaks \in Seq(Spans) /\ e.at \in Int
  BY DEF Read
<1>2. After(d.state, e.type) \in DayStates
  BY <1>1 DEF After, Accepts
<1>3. /\ Append(d.sessions, Period(e.at, Unset)) \in Seq(Spans)
      /\ EndLast(d.sessions, e.at) \in Seq(Spans)
      /\ Append(d.breaks, Period(e.at, Unset)) \in Seq(Spans)
      /\ EndLast(d.breaks, e.at) \in Seq(Spans)
  BY <1>1, SpansEnd
<1> DEFINE sessions == CASE e.type = "clock_in" -> Append(d.sessions, Period(e.at, Unset))
                         [] e.type = "clock_out" -> EndLast(d.sessions, e.at)
                         [] OTHER -> d.sessions
           breaks == CASE e.type = "break_start" -> Append(d.breaks, Period(e.at, Unset))
                       [] e.type = "break_end" -> EndLast(d.breaks, e.at)
                       [] OTHER -> d.breaks
<1>4. sessions \in Seq(Spans)
  BY <1>1, <1>3
<1>5. breaks \in Seq(Spans)
  BY <1>1, <1>3
<1>6. PunchOn(d, e) = IF ~Accepts(d.state, e.type) THEN d
                      ELSE [state |-> After(d.state, e.type), sessions |-> sessions,
                            breaks |-> breaks]
  BY DEF PunchOn
<1> HIDE DEF sessions, breaks
<1> QED
  BY <1>2, <1>4, <1>5, <1>6 DEF Read

\* The largest of some places is one of them.
LEMMA LargestPlace ==
  ASSUME NEW T, NEW events \in Seq(T), NEW s \in SUBSET DOMAIN events, s # {}
  PROVE  Max(s) \in s
<1>1. s \in SUBSET Int /\ DOMAIN events = 1 .. Len(events) /\ Len(events) \in Nat
  OBVIOUS
<1>2. IsFiniteSet(s)
  <2>1. IsFiniteSet(1 .. Len(events))
    BY <1>1, FS_Interval
  <2> QED
    BY <1>1, <2>1, FS_Subset
<1> QED
  BY <1>1, <1>2, LargestOf

\* Whatever punches there are, the day they make can be read.
LEMMA SummaryIsRead ==
  ASSUME NEW events \in Punched
  PROVE  Summary(events) \in Read
<1> DEFINE step == [i \in DOMAIN events |-> [d \in Read |-> PunchOn(d, events[i])]]
           pick == [s \in SUBSET DOMAIN events |-> Max(s)]
<1>1. IsFiniteSet(DOMAIN events)
  BY FS_Interval DEF Punched
<1>2. NoPunches \in Read
  BY DEF NoPunches, Read, DayStates
<1>3. \A i \in DOMAIN events : events[i] \in [type : PunchTypes, at : Int]
  <2>1. PICK E : E = [type : PunchTypes, at : Int]
    OBVIOUS
  <2>2. events \in Seq(E)
    BY <2>1 DEF Punched
  <2>3. \A i \in DOMAIN events : events[i] \in E
    BY <2>2
  <2> QED
    BY <2>1, <2>3
<1>4. step \in [DOMAIN events -> [Read -> Read]]
  BY <1>3, PunchKeeps
<1>5. Picks(pick, DOMAIN events)
  BY LargestPlace DEF Punched, Picks
<1>6. /\ \A i \in DOMAIN events : \A d \in Read : step[i][d] = PunchOn(d, events[i])
      /\ \A s \in SUBSET DOMAIN events : pick[s] = Max(s)
  OBVIOUS
<1> HIDE DEF step, pick
<1>7. PICK h \in [SUBSET DOMAIN events -> Read] :
        Folded(h, DOMAIN events, NoPunches, step, pick)
  BY <1>1, <1>2, <1>4, <1>5, FoldExists
<1>8. Punches(events, h)
  <2>1. ASSUME NEW s \in SUBSET DOMAIN events, s # {}
        PROVE  h[s] = PunchOn(h[s \ {Max(s)}], events[Max(s)])
    <3>1. h[s] = step[pick[s]][h[s \ {pick[s]}]]
      BY <1>7, <2>1 DEF Folded
    <3>2. Max(s) \in DOMAIN events /\ pick[s] = Max(s) /\ h[s \ {Max(s)}] \in Read
      BY <1>5, <1>6, <2>1 DEF Picks
    <3> QED
      BY <1>6, <3>1, <3>2
  <2>2. h[{}] = NoPunches
    BY <1>7 DEF Folded
  <2>3. h = [s \in SUBSET DOMAIN events |-> h[s]]
    BY <1>7
  <2>4. [s \in SUBSET DOMAIN events |-> h[s]]
          = [s \in SUBSET DOMAIN events |-> IF s = {} THEN NoPunches
                                            ELSE PunchOn(h[s \ {Max(s)}], events[Max(s)])]
    BY <2>1, <2>2
  <2> QED
    BY <2>3, <2>4, Zenon DEF Punches
<1>9. PICK it : it = CHOOSE i : Punches(events, i)
  OBVIOUS
<1>10. Punches(events, it)
  BY <1>8, <1>9, Zenon
<1>11. it[{}] \in Read
  <2>1. it[{}] = NoPunches
    BY <1>10, Zenon DEF Punches
  <2> QED
    BY <1>2, <2>1
<1>12. ASSUME NEW s \in SUBSET DOMAIN events, s # {}, it[s \ {pick[s]}] \in Read
       PROVE  it[s] \in Read
  <2>1. pick[s] = Max(s) /\ Max(s) \in DOMAIN events
    BY <1>5, <1>6, <1>12 DEF Picks
  <2>2. it[s] = PunchOn(it[s \ {Max(s)}], events[Max(s)])
    BY <1>10, <1>12, Zenon DEF Punches
  <2>3. events[Max(s)] \in [type : PunchTypes, at : Int]
    BY <1>3, <2>1
  <2>4. it[s \ {Max(s)}] \in Read
    BY <1>12, <2>1
  <2> QED
    BY <2>2, <2>3, <2>4, PunchKeeps
<1>13. Stays(it, DOMAIN events, Read, pick)
  BY <1>11, <1>12 DEF Stays
<1>14. it[DOMAIN events] \in Read
  BY <1>1, <1>5, <1>13, FoldStays
<1> QED
  BY <1>9, <1>14, SummaryIsFold

-----------------------------------------------------------------------------
\* The end of a session, and the sessions of a day with their ends.
EndOf(d, s) ==
  LET later == {i \in DOMAIN d.breaks : d.breaks[i].start >= s.start}
      last == d.breaks[Max(later)]
  IN  IF s.end # Unset THEN s.end
      ELSE IF later = {} THEN s.start ELSE IF last.end # Unset THEN last.end ELSE last.start

WithEnds(d) ==
  [i \in DOMAIN d.sessions |-> Period(d.sessions[i].start, EndOf(d, d.sessions[i]))]

WithTime(kept, s) == IF s.end > s.start THEN Append(kept, s) ELSE kept

Keeps(ended, it) ==
  it = [s \in SUBSET DOMAIN ended |-> IF s = {} THEN <<>>
                                      ELSE WithTime(it[s \ {Max(s)}], ended[Max(s)])]

\* The sessions of a day are the fold of WithTime over those with their ends.
LEMMA SessionsIsFold ==
  ASSUME NEW d
  PROVE  Sessions(d) = (CHOOSE it : Keeps(WithEnds(d), it))[DOMAIN WithEnds(d)]
  BY Zenon DEF Sessions, FoldLeft, MapThenFoldSet, Keeps, WithTime, WithEnds, EndOf

\* Each session has an end, the last known one when it has not ended.
LEMMA WithEndsAreSpans ==
  ASSUME NEW d \in Read
  PROVE  WithEnds(d) \in Seq(Spans)
<1>1. d.sessions \in Seq(Spans) /\ d.breaks \in Seq(Spans)
  BY DEF Read
<1>2. ASSUME NEW s \in Spans PROVE EndOf(d, s) \in Int
  <2> DEFINE later == {i \in DOMAIN d.breaks : d.breaks[i].start >= s.start}
  <2>1. CASE later = {}
    BY <2>1 DEF EndOf, Spans
  <2>2. CASE later # {}
    <3>1. Max(later) \in later
      BY <1>1, <2>2, LargestPlace
    <3>2. Max(later) \in DOMAIN d.breaks
      BY <3>1
    <3>3. \A i \in DOMAIN d.breaks : d.breaks[i] \in Spans
      BY <1>1
    <3>4. d.breaks[Max(later)] \in Spans
      BY <3>2, <3>3
    <3> HIDE DEF later
    <3> QED
      BY <2>2, <3>4 DEF EndOf, Spans, later
  <2> QED
    BY <2>1, <2>2
<1>3. \A i \in DOMAIN d.sessions : d.sessions[i] \in Spans
  BY <1>1
<1>4. \A i \in DOMAIN d.sessions :
        Period(d.sessions[i].start, EndOf(d, d.sessions[i])) \in Spans
  BY <1>2, <1>3 DEF Spans, Period
<1>5. DOMAIN d.sessions = 1 .. Len(d.sessions) /\ Len(d.sessions) \in Nat
  BY <1>1
<1> QED
  BY <1>4, <1>5 DEF WithEnds

\* The sessions that last any time are periods.
LEMMA SessionsAreSpans ==
  ASSUME NEW d \in Read
  PROVE  Sessions(d) \in Seq(Spans)
<1>1. PICK ended \in Seq(Spans) : ended = WithEnds(d)
  BY WithEndsAreSpans
<1> DEFINE D == DOMAIN ended
           step == [i \in D |-> [kept \in Seq(Spans) |-> WithTime(kept, ended[i])]]
           pick == [s \in SUBSET D |-> Max(s)]
<1>2. IsFiniteSet(D)
  BY FS_Interval
<1>3. <<>> \in Seq(Spans)
  OBVIOUS
<1>4. \A i \in D : ended[i] \in Spans
  OBVIOUS
<1>5. \A kept \in Seq(Spans) : \A i \in D : WithTime(kept, ended[i]) \in Seq(Spans)
  BY <1>4 DEF WithTime
<1>6. step \in [D -> [Seq(Spans) -> Seq(Spans)]]
  BY <1>5
<1>7. Picks(pick, D)
  BY LargestPlace DEF Picks
<1>8. /\ \A i \in D : \A kept \in Seq(Spans) : step[i][kept] = WithTime(kept, ended[i])
      /\ \A s \in SUBSET D : pick[s] = Max(s)
  OBVIOUS
<1> HIDE DEF step, pick
<1>9. PICK h \in [SUBSET D -> Seq(Spans)] : Folded(h, D, <<>>, step, pick)
  BY <1>2, <1>3, <1>6, <1>7, FoldExists
<1>10. Keeps(ended, h)
  <2>1. ASSUME NEW s \in SUBSET D, s # {}
        PROVE  h[s] = WithTime(h[s \ {Max(s)}], ended[Max(s)])
    <3>1. h[s] = step[pick[s]][h[s \ {pick[s]}]]
      BY <1>9, <2>1 DEF Folded
    <3>2. Max(s) \in D /\ pick[s] = Max(s) /\ h[s \ {Max(s)}] \in Seq(Spans)
      BY <1>7, <1>8, <2>1 DEF Picks
    <3> QED
      BY <1>8, <3>1, <3>2
  <2>2. h[{}] = <<>>
    BY <1>9 DEF Folded
  <2>3. h = [s \in SUBSET D |-> h[s]]
    BY <1>9
  <2>4. [s \in SUBSET D |-> h[s]]
          = [s \in SUBSET D |-> IF s = {} THEN <<>> ELSE WithTime(h[s \ {Max(s)}], ended[Max(s)])]
    BY <2>1, <2>2
  <2> QED
    BY <2>3, <2>4, Zenon DEF Keeps
<1>11. PICK it : it = CHOOSE i : Keeps(ended, i)
  OBVIOUS
<1>12. Keeps(ended, it)
  BY <1>10, <1>11, Zenon
<1>13. it[{}] = <<>>
  BY <1>12, Zenon DEF Keeps
<1>14. ASSUME NEW s \in SUBSET D, s # {}, it[s \ {pick[s]}] \in Seq(Spans)
       PROVE  it[s] \in Seq(Spans)
  <2>1. pick[s] = Max(s) /\ Max(s) \in D
    BY <1>7, <1>8, <1>14 DEF Picks
  <2>2. it[s] = WithTime(it[s \ {Max(s)}], ended[Max(s)])
    BY <1>12, <1>14, Zenon DEF Keeps
  <2> QED
    BY <1>5, <1>14, <2>1, <2>2
<1>15. Stays(it, D, Seq(Spans), pick)
  BY <1>3, <1>13, <1>14 DEF Stays
<1>16. it[D] \in Seq(Spans)
  BY <1>2, <1>7, <1>15, FoldStays
<1> QED
  BY <1>1, <1>11, <1>16, SessionsIsFold

\* The gap before a session.
GapBefore(sessions, i) == AtLeastZero(sessions[i].start - sessions[i - 1].end)

GapsOf(sessions, it) ==
  it = [s \in SUBSET (2 .. Len(sessions)) |->
          IF s = {} THEN 0
          ELSE GapBefore(sessions, CHOOSE i \in s : TRUE) + it[s \ {CHOOSE i \in s : TRUE}]]

\* The gaps of a day are the sum of those before each session.
LEMMA GapsIsFold ==
  ASSUME NEW sessions
  PROVE  Gaps(sessions) = (CHOOSE it : GapsOf(sessions, it))[2 .. Len(sessions)]
  BY Zenon DEF Gaps, MapThenSumSet, MapThenFoldSet, GapsOf, GapBefore

\* What is between the sessions is never negative.
LEMMA GapsAreNat ==
  ASSUME NEW sessions \in Seq(Spans)
  PROVE  Gaps(sessions) \in Nat
<1> DEFINE D == 2 .. Len(sessions)
           step == [i \in D |-> [n \in Nat |-> GapBefore(sessions, i) + n]]
           pick == [s \in SUBSET D |-> CHOOSE i \in s : TRUE]
<1>1. IsFiniteSet(D) /\ D \in SUBSET Int
  BY FS_Interval
<1>2. ASSUME NEW i \in D PROVE GapBefore(sessions, i) \in Nat
  <2>1. i \in 1 .. Len(sessions) /\ i - 1 \in 1 .. Len(sessions)
    OBVIOUS
  <2>2. sessions[i] \in Spans /\ sessions[i - 1] \in Spans
    BY <2>1
  <2>3. sessions[i].start \in Int /\ sessions[i - 1].end \in Int
    BY <2>2 DEF Spans
  <2> QED
    BY <2>3 DEF GapBefore, AtLeastZero
<1>3. step \in [D -> [Nat -> Nat]]
  BY <1>2
<1>4. Picks(pick, D)
  BY DEF Picks
<1>5. /\ \A i \in D : \A n \in Nat : step[i][n] = GapBefore(sessions, i) + n
      /\ \A s \in SUBSET D : pick[s] = CHOOSE i \in s : TRUE
  OBVIOUS
<1> HIDE DEF step, pick, D
<1>6. PICK h \in [SUBSET D -> Nat] : Folded(h, D, 0, step, pick)
  BY <1>1, <1>3, <1>4, FoldExists
<1>7. GapsOf(sessions, h)
  <2>1. ASSUME NEW s \in SUBSET D, s # {}
        PROVE  h[s] = GapBefore(sessions, CHOOSE i \in s : TRUE) + h[s \ {CHOOSE i \in s : TRUE}]
    <3>1. h[s] = step[pick[s]][h[s \ {pick[s]}]]
      BY <1>6, <2>1 DEF Folded
    <3>2. pick[s] \in D /\ pick[s] = (CHOOSE i \in s : TRUE) /\ h[s \ {pick[s]}] \in Nat
      BY <1>4, <1>5, <2>1 DEF Picks
    <3>3. h[s] = GapBefore(sessions, pick[s]) + h[s \ {pick[s]}]
      BY <1>5, <3>1, <3>2
    <3> QED
      BY <3>2, <3>3, Zenon
  <2>2. h[{}] = 0
    BY <1>6 DEF Folded
  <2>3. h = [s \in SUBSET D |-> h[s]]
    BY <1>6
  <2>4. [s \in SUBSET D |-> h[s]]
          = [s \in SUBSET D |-> IF s = {} THEN 0
               ELSE GapBefore(sessions, CHOOSE i \in s : TRUE) + h[s \ {CHOOSE i \in s : TRUE}]]
    BY <2>1, <2>2
  <2> QED
    BY <2>3, <2>4, Zenon DEF GapsOf, D
<1>8. PICK it : it = CHOOSE i : GapsOf(sessions, i)
  OBVIOUS
<1>9. GapsOf(sessions, it)
  BY <1>7, <1>8, Zenon
<1>10. it[{}] = 0
  BY <1>9, Zenon DEF GapsOf
<1>11. ASSUME NEW s \in SUBSET D, s # {}, it[s \ {pick[s]}] \in Nat
       PROVE  it[s] \in Nat
  <2>1. pick[s] = (CHOOSE i \in s : TRUE) /\ pick[s] \in D
    BY <1>4, <1>5, <1>11 DEF Picks
  <2>2. it[s] = GapBefore(sessions, CHOOSE i \in s : TRUE) + it[s \ {CHOOSE i \in s : TRUE}]
    BY <1>9, <1>11, Zenon DEF GapsOf, D
  <2>3. it[s] = GapBefore(sessions, pick[s]) + it[s \ {pick[s]}]
    BY <2>1, <2>2, Zenon
  <2> QED
    BY <1>2, <1>11, <2>1, <2>3
<1>12. Stays(it, D, Nat, pick)
  BY <1>10, <1>11 DEF Stays
<1>13. it[D] \in Nat
  BY <1>1, <1>4, <1>12, FoldStays
<1> QED
  BY <1>8, <1>13, GapsIsFold DEF D

\* What is covered is finitely many instants.
LEMMA CoveredIsFinite ==
  ASSUME NEW sessions \in Seq(Spans)
  PROVE  IsFiniteSet(Covered(ToSet(sessions))) /\ Covered(ToSet(sessions)) \in SUBSET Int
<1> DEFINE spans == {Instants(p) : p \in ToSet(sessions)}
           nth == [i \in 1 .. Len(sessions) |-> Instants(sessions[i])]
<1>1. ToSet(sessions) = {sessions[i] : i \in 1 .. Len(sessions)}
  BY DEF ToSet
<1>2. ASSUME NEW p \in ToSet(sessions) PROVE IsFiniteSet(Instants(p)) /\ Instants(p) \in SUBSET Int
  <2>1. p \in Spans
    BY <1>1
  <2>2. p.start \in Int /\ p.end - 1 \in Int
    BY <2>1 DEF Spans
  <2> QED
    BY <2>2, FS_Interval DEF Instants
<1>3. nth \in Surjection(1 .. Len(sessions), spans)
  BY <1>1 DEF Surjection
<1>4. IsFiniteSet(1 .. Len(sessions))
  BY FS_Interval
<1>5. IsFiniteSet(spans)
  <2> HIDE DEF spans, nth
  <2> QED
    BY <1>3, <1>4, FS_Surjection
<1>6. Covered(ToSet(sessions)) = UNION spans
  BY DEF Covered
<1>7. \A T \in spans : IsFiniteSet(T) /\ T \in SUBSET Int
  BY <1>2
<1> HIDE DEF spans
<1> QED
  BY <1>5, <1>6, <1>7, FS_UNION

-----------------------------------------------------------------------------
(***************************************************************************)
(* The latest instants of a set.                                           *)
(***************************************************************************)
Above(S, i) == {j \in S : j > i}

\* The instants after one can be counted.
LEMMA AboveCounts ==
  ASSUME NEW S \in SUBSET Int, IsFiniteSet(S), NEW i \in Int
  PROVE  IsFiniteSet(Above(S, i)) /\ Cardinality(Above(S, i)) \in Nat
  BY FS_Subset, FS_CardinalityType DEF Above

\* The latest n are the last one and the latest n - 1 of the others.
LEMMA LatestWithoutLargest ==
  ASSUME NEW S \in SUBSET Int, IsFiniteSet(S), NEW m \in S, \A i \in S : i <= m,
         NEW n \in Nat, n # 0
  PROVE  Latest(S, n) = {m} \union Latest(S \ {m}, n - 1)
<1> DEFINE r == S \ {m}
<1>1. r \in SUBSET Int /\ IsFiniteSet(r)
  BY FS_Subset
<1>2. Cardinality(Above(S, m)) < n
  <2>1. \A j \in S : ~(j > m)
    OBVIOUS
  <2>2. Above(S, m) = {}
    BY <2>1 DEF Above
  <2> QED
    BY <2>2, FS_EmptySet
<1>3. ASSUME NEW i \in r
      PROVE  Cardinality(Above(S, i)) < n <=> Cardinality(Above(r, i)) < n - 1
  <2>1. Above(S, i) = Above(r, i) \union {m} /\ m \notin Above(r, i)
    BY <1>3 DEF Above
  <2>2. IsFiniteSet(Above(r, i)) /\ Cardinality(Above(r, i)) \in Nat
    BY <1>1, AboveCounts
  <2>3. Cardinality(Above(S, i)) = Cardinality(Above(r, i)) + 1
    BY <2>1, <2>2, FS_AddElement
  <2> QED
    BY <2>2, <2>3
<1>4. Latest(S, n) = {i \in S : Cardinality(Above(S, i)) < n}
  BY DEF Latest, Above
<1>5. Latest(r, n - 1) = {i \in r : Cardinality(Above(r, i)) < n - 1}
  BY DEF Latest, Above
<1> QED
  BY <1>2, <1>3, <1>4, <1>5

\* The n latest instants are n, or all there are.
LEMMA LatestCounts ==
  ASSUME NEW S \in SUBSET Int, IsFiniteSet(S), NEW n \in Nat
  PROVE  Latest(S, n) \subseteq S /\ Cardinality(Latest(S, n)) = Least(n, Cardinality(S))
<1> DEFINE Q == {s \in SUBSET S : \A k \in Nat :
                   Cardinality(Latest(s, k)) = Least(k, Cardinality(s))}
<1>1. {} \in Q
  <2>1. \A k \in Nat : Latest({}, k) = {}
    BY DEF Latest
  <2>2. \A k \in Nat : Least(k, 0) = 0
    BY DEF Least
  <2> QED
    BY <2>1, <2>2, FS_EmptySet
<1>2. ASSUME NEW s \in SUBSET S, s # {}, \A x \in s : s \ {x} \in Q PROVE s \in Q
  <2> DEFINE m == Max(s)
             r == s \ {m}
  <2>1. s \in SUBSET Int /\ IsFiniteSet(s)
    BY FS_Subset
  <2>2. m \in s /\ \A i \in s : i <= m
    BY <1>2, <2>1, LargestOf
  <2>3. IsFiniteSet(r) /\ Cardinality(r) \in Nat /\ Cardinality(s) \in Nat
    BY <2>1, FS_Subset, FS_CardinalityType
  <2>4. Cardinality(s) = Cardinality(r) + 1
    <3> HIDE DEF m
    <3>1. Cardinality(r) = Cardinality(s) - 1
      BY <2>1, <2>2, FS_RemoveElement
    <3> QED
      BY <2>3, <3>1
  <2>5. r \in Q
    BY <1>2, <2>2
  <2>6. ASSUME NEW k \in Nat PROVE Cardinality(Latest(s, k)) = Least(k, Cardinality(s))
    <3>1. CASE k = 0
      <4>1. \A i \in s : Cardinality(Above(s, i)) \in Nat
        BY <2>1, AboveCounts
      <4>2. Latest(s, k) = {i \in s : Cardinality(Above(s, i)) < k}
        BY DEF Latest, Above
      <4>3. \A i \in s : ~(Cardinality(Above(s, i)) < k)
        BY <2>1, <3>1, <4>1
      <4>6. Latest(s, k) = {}
        BY <4>2, <4>3
      <4>4. Least(k, Cardinality(s)) = 0
        BY <2>3, <3>1 DEF Least
      <4> QED
        BY <4>4, <4>6, FS_EmptySet
    <3>2. CASE k # 0
      <4> DEFINE L == Latest(r, k - 1)
      <4>1. k - 1 \in Nat
        BY <3>2
      <4>2. Latest(s, k) = {m} \union L
        <5> HIDE DEF m
        <5> QED
          BY <2>1, <2>2, <3>2, LatestWithoutLargest
      <4>3. m \notin L /\ IsFiniteSet(L)
        <5>1. L \subseteq r
          BY DEF Latest
        <5> QED
          BY <5>1, <2>3, FS_Subset
      <4>4. Cardinality(L) = Least(k - 1, Cardinality(r))
        BY <2>5, <4>1
      <4>5. Cardinality(Latest(s, k)) = Cardinality(L) + 1
        <5> HIDE DEF L, m
        <5>1. Cardinality(L \union {m}) = Cardinality(L) + 1
          BY <4>3, FS_AddElement
        <5>2. {m} \union L = L \union {m}
          OBVIOUS
        <5> QED
          BY <4>2, <5>1, <5>2
      <4> HIDE DEF L, m, r
      <4> QED
        BY <2>3, <2>4, <3>2, <4>1, <4>4, <4>5 DEF Least
    <3> QED
      BY <3>1, <3>2
  <2> HIDE DEF m, r
  <2> QED
    BY <2>6
<1>3. S \in Q
  <2> HIDE DEF Q
  <2> QED
    BY <1>1, <1>2, OneLess
<1>4. Latest(S, n) \subseteq S
  BY DEF Latest
<1> QED
  BY <1>3, <1>4

\* What is later than one of the latest is one of them.
LEMMA LatestIsLate ==
  ASSUME NEW S \in SUBSET Int, IsFiniteSet(S), NEW n \in Nat,
         NEW i \in S \ Latest(S, n), NEW j \in Latest(S, n)
  PROVE  i < j
<1>1. Latest(S, n) = {k \in S : Cardinality(Above(S, k)) < n}
  BY DEF Latest, Above
<1>2. Cardinality(Above(S, i)) \in Nat /\ Cardinality(Above(S, j)) \in Nat
  BY <1>1, AboveCounts
<1>3. Cardinality(Above(S, j)) < n /\ ~(Cardinality(Above(S, i)) < n)
  BY <1>1
<1>4. CASE j <= i
  <2>1. Above(S, i) \subseteq Above(S, j)
    <3>1. i \in Int /\ j \in Int
      BY <1>1
    <3>2. \A k \in Int : k > i => k > j
      BY <3>1, <1>4
    <3> QED
      BY <3>2 DEF Above
  <2>2. IsFiniteSet(Above(S, j))
    BY <1>1, AboveCounts
  <2>3. Cardinality(Above(S, i)) <= Cardinality(Above(S, j))
    BY <2>1, <2>2, FS_Subset
  <2> QED
    BY <1>2, <1>3, <2>3
<1>5. i \in Int /\ j \in Int
  BY <1>1
<1> QED
  BY <1>4, <1>5

-----------------------------------------------------------------------------
(***************************************************************************)
(* Rounding.                                                               *)
(***************************************************************************)
RoundingRules == [unit : Nat, mode : {"none", "down", "nearest"}]

\* A quotient grows with its dividend.
LEMMA QuotientGrows ==
  ASSUME NEW a \in Nat, NEW b \in Nat, NEW u \in Nat \ {0}, a <= b
  PROVE  a \div u \in Nat /\ a \div u <= b \div u
<1> DEFINE p == a \div u
           q == b \div u
<1>1. p \in Int /\ q \in Int
  OBVIOUS
<1>2. p * u <= a /\ a < (p + 1) * u /\ q * u <= b /\ b < (q + 1) * u
  OBVIOUS
<1> HIDE DEF p, q
<1>3. p <= q
  <2>1. CASE q + 1 <= p
    <3>1. (q + 1) * u <= p * u
      BY <1>1, <2>1
    <3>2. (q + 1) * u \in Int /\ p * u \in Int
      BY <1>1
    <3> QED
      BY <1>2, <3>1, <3>2
  <2> QED
    BY <1>1, <2>1
<1>4. 0 <= p
  <2>1. CASE p + 1 <= 0
    <3>1. (p + 1) * u <= 0
      BY <1>1, <2>1
    <3> QED
      BY <1>1, <1>2, <3>1
  <2> QED
    BY <1>1, <2>1
<1> QED
  BY <1>1, <1>3, <1>4 DEF p, q

\* A product grows with its factor.
LEMMA ProductGrows ==
  ASSUME NEW a \in Nat, NEW b \in Nat, NEW u \in Nat, a <= b
  PROVE  a * u \in Nat /\ a * u <= b * u
  OBVIOUS

\* Rounding keeps the order of minutes, and what is none.
LEMMA RoundingKeepsOrder ==
  ASSUME NEW a \in Nat, NEW b \in Nat, a <= b, NEW r,
         r.unit \in Nat, r.mode \in {"none", "down", "nearest"}
  PROVE  Rounded(a, r) \in Nat /\ Rounded(a, r) <= Rounded(b, r) /\ Rounded(0, r) = 0
<1> DEFINE u == r.unit
<1>1. CASE u = 0 \/ r.mode = "none"
  <2>1. \A n \in Nat : Rounded(n, r) = n
    BY <1>1 DEF Rounded
  <2> QED
    BY <2>1
<1>2. CASE u # 0 /\ r.mode = "down"
  <2>1. \A n \in Nat : Rounded(n, r) = (n \div u) * u
    BY <1>2 DEF Rounded
  <2>2. a \div u \in Nat /\ b \div u \in Nat /\ a \div u <= b \div u
    BY <1>2, QuotientGrows
  <2>3. (a \div u) * u \in Nat /\ (a \div u) * u <= (b \div u) * u
    BY <1>2, <2>2, ProductGrows
  <2>4. (0 \div u) * u = 0
    BY <1>2
  <2> QED
    BY <2>1, <2>3, <2>4
<1>3. CASE u # 0 /\ r.mode = "nearest"
  <2>1. \A n \in Nat : Rounded(n, r) = ((2 * n + u) \div (2 * u)) * u
    BY <1>3 DEF Rounded
  <2>2. /\ 2 * a + u \in Nat /\ 2 * b + u \in Nat /\ 2 * u \in Nat \ {0}
        /\ 2 * a + u <= 2 * b + u
    BY <1>3
  <2>3. /\ (2 * a + u) \div (2 * u) \in Nat /\ (2 * b + u) \div (2 * u) \in Nat
        /\ (2 * a + u) \div (2 * u) <= (2 * b + u) \div (2 * u)
    BY <2>2, QuotientGrows
  <2>4. /\ ((2 * a + u) \div (2 * u)) * u \in Nat
        /\ ((2 * a + u) \div (2 * u)) * u <= ((2 * b + u) \div (2 * u)) * u
    BY <1>3, <2>3, ProductGrows
  <2>5. (2 * 0 + u) \div (2 * u) = 0
    BY <1>3
  <2> QED
    BY <2>1, <2>4, <2>5
<1> QED
  BY <1>1, <1>2, <1>3

-----------------------------------------------------------------------------
(***************************************************************************)
(* The minutes of a day.                                                   *)
(***************************************************************************)
\* The automatic break is a number of minutes, whichever thresholds are exceeded.
LEMMA AutomaticBreakIsNat ==
  ASSUME NEW breaks, IsFiniteSet(breaks), \A r \in breaks : r.additional \in Nat,
         NEW worked, NEW taken
  PROVE  AutomaticBreak(breaks, worked, taken) \in Nat
<1> DEFINE remaining == AtLeastZero(worked - Cardinality(taken))
           exceeded == {x \in breaks : remaining > x.threshold}
           minutes == {r.additional : r \in exceeded}
<1>1. IsFiniteSet(exceeded)
  BY FS_Subset
<1>2. IsFiniteSet(minutes) /\ minutes \in SUBSET Nat
  <2>1. [r \in exceeded |-> r.additional] \in Surjection(exceeded, minutes)
    BY DEF Surjection
  <2>2. minutes \in SUBSET Nat
    OBVIOUS
  <2> HIDE DEF minutes, exceeded
  <2> QED
    BY <1>1, <2>1, <2>2, FS_Surjection
<1>3. AutomaticBreak(breaks, worked, taken) = Max({0} \union minutes)
  BY DEF AutomaticBreak
<1> HIDE DEF minutes
<1>4. IsFiniteSet({0} \union minutes)
  <2>1. IsFiniteSet({0})
    BY FS_Singleton
  <2> QED
    BY <1>2, <2>1, FS_Union
<1>5. Max({0} \union minutes) \in {0} \union minutes
  <2>1. {0} \union minutes \in SUBSET Int /\ {0} \union minutes # {}
    BY <1>2
  <2> QED
    BY <1>4, <2>1, LargestOf
<1>6. {0} \union minutes \in SUBSET Nat
  BY <1>2
<1> QED
  BY <1>3, <1>5, <1>6

\* What was worked, of the attendance, and what the automatic break takes from its end.
WorkFits(w) ==
  /\ IsFiniteSet(w.attended) /\ w.attended \in SUBSET Int /\ w.work \in SUBSET w.attended
  /\ \E n \in Nat : /\ w.deducted = Least(n, Cardinality(w.work))
                    /\ w.kept = w.work \ Latest(w.work, n)
  /\ Gaps(w.sessions) \in Nat

\* What calculateWorkDay makes of any punches fits.
LEMMA WorkedFits ==
  ASSUME NEW input, input.events \in Punched,
         IsFiniteSet(input.category.automatic),
         \A r \in input.category.automatic : r.additional \in Nat
  PROVE  WorkFits(Worked(input))
<1>1. PICK d \in Read : d = Summary(input.events)
  BY SummaryIsRead
<1>2. PICK sessions \in Seq(Spans) : sessions = Sessions(d)
  BY SessionsAreSpans
<1> DEFINE w == WorkedIn(input, d, sessions)
           actual == ActualBreaks(d, sessions)
           taken == Covered(actual \union input.category.fixed)
           raw == IF sessions = <<>> THEN 0
                  ELSE TotalMinutes(ToSet(sessions)) - TotalMinutes(actual)
           automatic == AutomaticBreak(input.category.automatic, raw, taken)
<1>3. Worked(input) = w
  BY <1>1, <1>2 DEF Worked
<1>4. /\ w.sessions = sessions
      /\ w.attended = Covered(ToSet(sessions))
      /\ w.work = Covered(ToSet(sessions)) \ taken
      /\ w.deducted = Least(automatic, Cardinality(w.work))
      /\ w.kept = w.work \ Latest(w.work, automatic)
  BY DEF WorkedIn
<1>5. automatic \in Nat
  BY AutomaticBreakIsNat
<1>6. Gaps(sessions) \in Nat
  BY GapsAreNat
<1>7. IsFiniteSet(w.attended) /\ w.attended \in SUBSET Int
  BY <1>4, CoveredIsFinite
<1> HIDE DEF w, automatic, taken
<1> QED
  BY <1>3, <1>4, <1>5, <1>6, <1>7 DEF WorkFits

-----------------------------------------------------------------------------
\* What the minutes of a day have to do with each other before they are rounded.
Adds(m, gap) ==
  /\ m.worked \in Nat /\ m.break \in Nat /\ m.attended \in Nat
  /\ m.worked + m.break - m.attended \in (IF gap = "break" THEN Nat ELSE {0})
  /\ m.outsideSchedule \in Nat /\ m.withinSchedule \in Nat
  /\ m.withinSchedule + m.outsideSchedule = m.worked

Recognizes(m) ==
  \/ m.recognizedOvertime = Unset
  \/ m.recognizedOvertime \in Nat /\ m.recognizedOvertime <= m.outsideSchedule

NightFits(m) ==
  /\ m.night \in Nat /\ m.nonWorkingDay \in Nat /\ m.worked \in Nat
  /\ m.nightHoliday \in Nat /\ m.nightHoliday <= m.nonWorkingDay
  /\ \/ m.legalOvertime = Unset /\ m.nightOvertime = Unset
     \/ /\ m.legalOvertime \in Nat /\ m.legalOvertime <= m.worked
        /\ m.nightOvertime \in Nat /\ m.nightOvertime <= m.legalOvertime
        /\ m.nightOvertime <= m.night

\* A part of a finite set and what is left of it make up its size.
LEMMA CountOfPart ==
  ASSUME NEW S, IsFiniteSet(S), NEW T \in SUBSET S
  PROVE  /\ IsFiniteSet(T) /\ Cardinality(T) \in Nat /\ Cardinality(S) \in Nat
         /\ Cardinality(T) <= Cardinality(S)
         /\ IsFiniteSet(S \ T) /\ Cardinality(S \ T) = Cardinality(S) - Cardinality(T)
<1>1. IsFiniteSet(T) /\ Cardinality(T) <= Cardinality(S)
  BY FS_Subset
<1>2. IsFiniteSet(S \ T) /\ Cardinality(S \ T) = Cardinality(S) - Cardinality(S \intersect T)
  BY FS_Difference, <1>1
<1>3. S \intersect T = T
  OBVIOUS
<1> QED
  BY <1>1, <1>2, <1>3, FS_CardinalityType

\* The minutes that a record of work stands for.
LEMMA WorkCounts ==
  ASSUME NEW w, WorkFits(w)
  PROVE  /\ IsFiniteSet(w.work) /\ w.work \in SUBSET Int
         /\ Cardinality(w.work) \in Nat /\ Cardinality(w.attended) \in Nat
         /\ Cardinality(w.attended \ w.work) = Cardinality(w.attended) - Cardinality(w.work)
         /\ w.deducted \in Nat /\ w.deducted <= Cardinality(w.work)
         /\ w.kept \in SUBSET w.work /\ IsFiniteSet(w.kept)
         /\ Cardinality(w.kept) = Cardinality(w.work) - w.deducted
<1>1. PICK n \in Nat : /\ w.deducted = Least(n, Cardinality(w.work))
                       /\ w.kept = w.work \ Latest(w.work, n)
  BY DEF WorkFits
<1>2. IsFiniteSet(w.attended) /\ w.attended \in SUBSET Int /\ w.work \in SUBSET w.attended
  BY DEF WorkFits
<1>3. /\ IsFiniteSet(w.work) /\ Cardinality(w.work) \in Nat /\ Cardinality(w.attended) \in Nat
      /\ Cardinality(w.attended \ w.work) = Cardinality(w.attended) - Cardinality(w.work)
  BY <1>2, CountOfPart
<1>4. w.work \in SUBSET Int
  BY <1>2
<1>5. Latest(w.work, n) \in SUBSET w.work /\ Cardinality(Latest(w.work, n)) = w.deducted
  BY <1>1, <1>3, <1>4, LatestCounts
<1>6. w.deducted \in Nat /\ w.deducted <= Cardinality(w.work)
  BY <1>3, <1>5, CountOfPart
<1>7. IsFiniteSet(w.kept) /\ Cardinality(w.kept) = Cardinality(w.work) - w.deducted
  BY <1>1, <1>3, <1>5, CountOfPart
<1> QED
  BY <1>1, <1>2, <1>3, <1>4, <1>6, <1>7

\* The work after the schedule that is kept is within what is outside of it, less the break.
LEMMA RecognizedIsOutside ==
  ASSUME NEW w, WorkFits(w), NEW start \in Int, NEW end \in Int, NEW limit \in Int
  PROVE  LET hours == start .. end - 1
             out == Cardinality(w.work \ hours)
             late == {i \in w.kept : end <= i /\ i < limit}
         IN  /\ out \in Nat /\ out <= Cardinality(w.work)
             /\ Cardinality(late) \in Nat
             /\ Cardinality(late) <= out - Least(w.deducted, out)
<1> DEFINE hours == start .. end - 1
           O == w.work \ hours
           late == {i \in w.kept : end <= i /\ i < limit}
<1>1. PICK n \in Nat : /\ w.deducted = Least(n, Cardinality(w.work))
                       /\ w.kept = w.work \ Latest(w.work, n)
  BY DEF WorkFits
<1>2. /\ IsFiniteSet(w.work) /\ w.work \in SUBSET Int /\ Cardinality(w.work) \in Nat
      /\ w.deducted \in Nat
  BY WorkCounts
<1> DEFINE R == Latest(w.work, n)
<1>3. R \in SUBSET w.work /\ Cardinality(R) = w.deducted
  BY <1>1, <1>2, LatestCounts
<1>4. IsFiniteSet(O) /\ Cardinality(O) \in Nat /\ Cardinality(O) <= Cardinality(w.work)
  BY <1>2, CountOfPart
<1>5. late \in SUBSET O
  BY <1>1, <1>2
<1>6. Cardinality(late) \in Nat /\ Cardinality(late) <= Cardinality(O)
  BY <1>4, <1>5, CountOfPart
<1>7. Cardinality(late) <= Cardinality(O) - Least(w.deducted, Cardinality(O))
  <2>1. CASE late = {}
    <3>1. Cardinality(late) = 0
      BY <2>1, FS_EmptySet
    <3> QED
      BY <1>2, <1>4, <1>6, <3>1 DEF Least
  <2>2. CASE late # {}
    <3>1. PICK i \in late : TRUE
      BY <2>2
    <3>2. i \in w.work \ R /\ end <= i /\ i \in Int
      BY <1>1, <1>2, <3>1
    <3>3. ASSUME NEW j \in R PROVE j \in O
      <4>1. i < j
        <5> HIDE DEF late
        <5> QED
          BY <1>2, <3>2, LatestIsLate
      <4>2. j \in Int /\ j \in w.work
        BY <1>2, <1>3
      <4> QED
        BY <3>2, <4>1, <4>2
    <3>4. late \in SUBSET (O \ R)
      BY <1>1, <1>5
    <3>5. /\ IsFiniteSet(O \ R) /\ Cardinality(O \ R) = Cardinality(O) - Cardinality(R)
          /\ Cardinality(R) <= Cardinality(O)
      <4> HIDE DEF O, R, late
      <4> QED
        BY <1>4, <3>3, CountOfPart
    <3>6. Cardinality(late) <= Cardinality(O \ R)
      <4> HIDE DEF O, R, late
      <4> QED
        BY <3>4, <3>5, CountOfPart
    <3> HIDE DEF O, R, late
    <3> QED
      BY <1>2, <1>3, <1>4, <1>6, <3>5, <3>6 DEF Least
  <2> QED
    BY <2>1, <2>2
<1> HIDE DEF O, late
<1> QED
  BY <1>4, <1>6, <1>7 DEF O, late

NightOf(input, S) ==
  {i \in S : IsNight(i, IF input.category.night = {} THEN input.rules.night
                        ELSE CHOOSE band \in input.category.night : TRUE)}

HoursOf(schedule) == IF schedule.start # Unset THEN Instants(schedule) ELSE {}

\* Before they are rounded, the minutes of a day add up.
LEMMA MinutesAddUp ==
  ASSUME NEW input, NEW w, WorkFits(w),
         input.schedule.start \in Int, input.schedule.end \in Int, input.limit \in Int,
         input.rules.dailyLegal \in Nat \union {Unset}
  PROVE  LET m == Minutes(input, w)
         IN  /\ Adds(m, input.category.gap)
             /\ Recognizes(m) /\ NightFits(m)
<1> DEFINE m == Minutes(input, w)
           planned == input.schedule.dayType \in PlannedDays
           worked == Cardinality(w.work) - w.deducted
           out == Cardinality(w.work \ HoursOf(input.schedule))
           outside == out - Least(w.deducted, out)
           overtime == AtLeastZero(worked - input.rules.dailyLegal)
           gaps == IF input.category.gap = "break" THEN Gaps(w.sessions) ELSE 0
           legal == input.rules.dailyLegal # Unset
<1>1. /\ m.attended = Cardinality(w.attended)
      /\ m.worked = worked
      /\ m.break = Cardinality(w.attended \ w.work) + w.deducted + gaps
      /\ m.withinSchedule = worked - outside
      /\ m.outsideSchedule = outside
  BY Zenon DEF Minutes, HoursOf
<1>2. /\ m.night = Cardinality(NightOf(input, w.work))
      /\ m.nonWorkingDay = IF planned THEN 0 ELSE worked
      /\ m.legalOvertime = IF ~legal THEN Unset ELSE IF planned THEN overtime ELSE 0
      /\ m.nightOvertime = IF ~legal THEN Unset
                           ELSE IF planned
                             THEN Cardinality(NightOf(input, Latest(w.kept, overtime))) ELSE 0
      /\ m.nightHoliday = IF planned THEN 0 ELSE Cardinality(NightOf(input, w.kept))
  BY Zenon DEF Minutes, NightOf
<1>3. m.recognizedOvertime = RecognizedMinutes(input.schedule, input.limit, w.kept)
  BY Zenon DEF Minutes
<1>4. /\ IsFiniteSet(w.work) /\ w.work \in SUBSET Int
      /\ Cardinality(w.work) \in Nat /\ Cardinality(w.attended) \in Nat
      /\ Cardinality(w.attended \ w.work) = Cardinality(w.attended) - Cardinality(w.work)
      /\ w.deducted \in Nat /\ w.deducted <= Cardinality(w.work)
      /\ w.kept \in SUBSET w.work /\ IsFiniteSet(w.kept)
      /\ Cardinality(w.kept) = worked
      /\ Cardinality(w.work) <= Cardinality(w.attended)
  <2>1. IsFiniteSet(w.attended) /\ w.work \in SUBSET w.attended
    BY DEF WorkFits
  <2>2. Cardinality(w.work) <= Cardinality(w.attended)
    BY <2>1, CountOfPart
  <2> QED
    BY <2>2, WorkCounts
<1>5. gaps \in (IF input.category.gap = "break" THEN Nat ELSE {0}) /\ gaps \in Nat
  BY DEF WorkFits
<1>6. out \in Nat /\ out <= Cardinality(w.work)
  BY <1>4, CountOfPart
<1>7. worked \in Nat
  BY <1>4
<1>8. outside \in Nat /\ outside <= worked
  BY <1>4, <1>6 DEF Least
<1>9. Adds(m, input.category.gap)
  <2> DEFINE r == Cardinality(w.attended \ w.work)
  <2>1. r \in Nat /\ r = Cardinality(w.attended) - Cardinality(w.work)
    BY <1>4
  <2>2. m.worked \in Nat /\ m.break \in Nat /\ m.attended \in Nat
    <3> HIDE DEF m, worked, gaps, r
    <3>1. r + w.deducted + gaps \in Nat
      BY <1>4, <1>5, <2>1
    <3> QED
      BY <1>1, <1>4, <1>7, <3>1 DEF r
  <2>3. m.worked + m.break - m.attended = gaps
    <3> HIDE DEF m, gaps, outside
    <3> QED
      BY <1>1, <1>4, <1>5
  <2>4. /\ m.outsideSchedule \in Nat /\ m.withinSchedule \in Nat
        /\ m.withinSchedule + m.outsideSchedule = m.worked
    <3> HIDE DEF m, outside, worked
    <3> QED
      BY <1>1, <1>7, <1>8
  <2> HIDE DEF m, gaps
  <2> QED
    BY <1>5, <2>2, <2>3, <2>4 DEF Adds
<1>10. Recognizes(m)
  <2> DEFINE end == input.schedule.end
             late == {i \in w.kept : end <= i /\ i < input.limit}
  <2>1. \/ m.recognizedOvertime = 0
        \/ m.recognizedOvertime = Unset
        \/ input.schedule.start # Unset /\ m.recognizedOvertime = Cardinality(late)
    BY <1>3 DEF RecognizedMinutes
  <2>2. CASE m.recognizedOvertime = 0
    <3> HIDE DEF m, outside
    <3> QED
      BY <1>1, <1>8, <2>2 DEF Recognizes
  <2>3. CASE input.schedule.start # Unset /\ m.recognizedOvertime = Cardinality(late)
    <3>1. HoursOf(input.schedule) = input.schedule.start .. end - 1
      BY <2>3 DEF HoursOf, Instants
    <3>2. Cardinality(late) \in Nat /\ Cardinality(late) <= outside
      BY <3>1, RecognizedIsOutside
    <3> HIDE DEF m, outside, late
    <3> QED
      BY <1>1, <2>3, <3>2 DEF Recognizes
  <2> HIDE DEF m
  <2> QED
    BY <2>1, <2>2, <2>3 DEF Recognizes
<1>11. NightFits(m)
  <2>1. /\ IsFiniteSet(NightOf(input, w.work)) /\ Cardinality(NightOf(input, w.work)) \in Nat
        /\ Cardinality(NightOf(input, w.kept)) \in Nat
        /\ Cardinality(NightOf(input, w.kept)) <= worked
    <3>1. NightOf(input, w.work) \in SUBSET w.work /\ NightOf(input, w.kept) \in SUBSET w.kept
      BY DEF NightOf
    <3> HIDE DEF worked
    <3> QED
      BY <1>4, <3>1, CountOfPart
  <2>2. m.night \in Nat /\ m.nonWorkingDay \in Nat /\ m.worked \in Nat
    <3> HIDE DEF m, worked
    <3> QED
      BY <1>1, <1>2, <1>7, <2>1
  <2>3. m.nightHoliday \in Nat /\ m.nightHoliday <= m.nonWorkingDay
    <3> HIDE DEF m, worked
    <3> QED
      BY <1>2, <1>7, <2>1
  <2>4. CASE ~legal
    <3> HIDE DEF m
    <3> QED
      BY <1>2, <2>2, <2>3, <2>4 DEF NightFits
  <2>5. CASE legal /\ ~planned
    <3>1. m.legalOvertime = 0 /\ m.nightOvertime = 0
      BY <1>2, <2>5
    <3> HIDE DEF m
    <3> QED
      BY <2>2, <2>3, <3>1 DEF NightFits
  <2>6. CASE legal /\ planned
    <3> DEFINE L == Latest(w.kept, overtime)
               N == NightOf(input, L)
    <3>1. m.legalOvertime = overtime /\ m.nightOvertime = Cardinality(N)
      BY <1>2, <2>6
    <3>2. overtime \in Nat /\ overtime <= worked
      <4> HIDE DEF worked
      <4>1. input.rules.dailyLegal \in Nat
        BY <2>6
      <4> QED
        BY <1>7, <4>1 DEF AtLeastZero
    <3>3. w.kept \in SUBSET Int
      BY <1>4
    <3>4. L \in SUBSET w.kept /\ Cardinality(L) <= overtime
      <4> HIDE DEF overtime, worked
      <4>1. L \subseteq w.kept /\ Cardinality(L) = Least(overtime, Cardinality(w.kept))
        BY <1>4, <3>2, <3>3, LatestCounts
      <4>2. Cardinality(w.kept) \in Nat
        BY <1>4, <1>7
      <4> DEFINE k == Cardinality(w.kept)
      <4>3. Least(overtime, k) <= overtime
        <5> HIDE DEF k
        <5> QED
          BY <3>2, <4>2 DEF Least, k
      <4> QED
        BY <4>1, <4>3
    <3>5. IsFiniteSet(L) /\ Cardinality(L) \in Nat
      <4> HIDE DEF L
      <4> QED
        BY <1>4, <3>4, CountOfPart
    <3>6. N \in SUBSET L /\ N \in SUBSET NightOf(input, w.work)
      <4> HIDE DEF L
      <4> QED
        BY <1>4, <3>4 DEF NightOf
    <3>7. Cardinality(N) \in Nat /\ Cardinality(N) <= Cardinality(L)
      <4> HIDE DEF L, N
      <4> QED
        BY <3>5, <3>6, CountOfPart
    <3>8. Cardinality(N) <= m.night
      <4> HIDE DEF L, N, m
      <4> QED
        BY <1>2, <2>1, <3>6, CountOfPart
    <3> HIDE DEF m, L, N, overtime, worked
    <3>9. Cardinality(N) <= overtime
      BY <3>2, <3>4, <3>5, <3>7
    <3> QED
      BY <1>1, <2>2, <2>3, <3>1, <3>2, <3>7, <3>8, <3>9 DEF NightFits
  <2> QED
    BY <2>4, <2>5, <2>6
<1> QED
  BY <1>9, <1>10, <1>11

\* What DayAddsUp says of the totals of a day.
TotalsAddUp(t, input) ==
  /\ input.rules.unit = 0 =>
       /\ t.worked + t.break - t.attended \in
            IF input.category.gap = "break" THEN Nat ELSE {0}
       /\ t.withinSchedule + t.outsideSchedule = t.worked
  /\ t.recognizedOvertime # Unset /\ input.schedule.dayType \in PlannedDays =>
       t.recognizedOvertime + t.unapprovedOvertime = t.outsideSchedule
  /\ t.legalOvertime <= t.worked /\ t.nightOvertime <= t.legalOvertime
  /\ t.nightHoliday <= t.nonWorkingDay /\ t.nightOvertime <= t.night

RoundedTotal(n, r) == IF n = Unset THEN Unset ELSE Rounded(n, r)

MinuteNames ==
  {"attended", "worked", "break", "withinSchedule", "outsideSchedule", "night", "nonWorkingDay",
   "legalOvertime", "nightOvertime", "nightHoliday", "recognizedOvertime"}

\* The minutes that are compared are among those of the day.
LEMMA MinutesHaveNames ==
  ASSUME NEW input, NEW w
  PROVE  /\ MinuteNames \subseteq DOMAIN Minutes(input, w)
         /\ "unapprovedOvertime" \notin DOMAIN Minutes(input, w)
  BY DEF Minutes, MinuteNames

\* Each total is its minutes, rounded, but for what was not approved.
LEMMA TotalsAreRounded ==
  ASSUME NEW input, NEW m, MinuteNames \subseteq DOMAIN m, "unapprovedOvertime" \notin DOMAIN m
  PROVE  /\ \A k \in MinuteNames : Totals(input, m)[k] = RoundedTotal(m[k], input.rules)
         /\ Totals(input, m).unapprovedOvertime =
              IF m.recognizedOvertime = Unset THEN Unset
              ELSE IF input.schedule.dayType \in PlannedDays THEN Unapproved(m, input.rules) ELSE 0
<1> DEFINE rounded == [k \in DOMAIN m |-> IF m[k] = Unset THEN Unset
                                          ELSE Rounded(m[k], input.rules)]
           others ==
             [unapprovedOvertime |->
                IF m.recognizedOvertime = Unset THEN Unset
                ELSE IF input.schedule.dayType \in PlannedDays THEN Unapproved(m, input.rules)
                ELSE 0,
              unapprovedHoliday |-> AtLeastZero(rounded.nonWorkingDay - rounded.approvedHoliday),
              scheduled |-> ScheduledMinutes(input.schedule, input.category),
              deemed |-> IF input.discretionary # Unset THEN input.discretionary
                         ELSE input.category.deemed,
              countsAsWorkingDay |-> IF input.category.counts THEN 1 ELSE 0]
<1>1. Totals(input, m) = [k \in DOMAIN rounded \union DOMAIN others |->
                            IF k \in DOMAIN rounded THEN rounded[k] ELSE others[k]]
  BY Zenon DEF Totals
<1>2. DOMAIN rounded = DOMAIN m
  OBVIOUS
<1>3. \A k \in DOMAIN m : rounded[k] = RoundedTotal(m[k], input.rules)
  BY DEF RoundedTotal
<1>4. "unapprovedOvertime" \in DOMAIN others
  OBVIOUS
<1>5. others.unapprovedOvertime =
        IF m.recognizedOvertime = Unset THEN Unset
        ELSE IF input.schedule.dayType \in PlannedDays THEN Unapproved(m, input.rules) ELSE 0
  OBVIOUS
<1> HIDE DEF rounded, others
<1>6. \A k \in MinuteNames : Totals(input, m)[k] = RoundedTotal(m[k], input.rules)
  BY <1>1, <1>2, <1>3
<1>7. Totals(input, m).unapprovedOvertime = others.unapprovedOvertime
  BY <1>1, <1>2, <1>4
<1> QED
  BY <1>5, <1>6, <1>7

\* Rounding keeps what adds up.
LEMMA RoundedAddUp ==
  ASSUME NEW input, input.rules.unit \in Nat, input.rules.mode \in {"none", "down", "nearest"},
         NEW m, Adds(m, input.category.gap),
         Recognizes(m), NightFits(m),
         MinuteNames \subseteq DOMAIN m, "unapprovedOvertime" \notin DOMAIN m
  PROVE  TotalsAddUp(Totals(input, m), input)
<1> DEFINE t == Totals(input, m)
           r == input.rules
           gap == input.category.gap
           planned == input.schedule.dayType \in PlannedDays
<1>1. /\ t.attended = RoundedTotal(m.attended, r)
      /\ t.worked = RoundedTotal(m.worked, r)
      /\ t.break = RoundedTotal(m.break, r)
      /\ t.withinSchedule = RoundedTotal(m.withinSchedule, r)
      /\ t.outsideSchedule = RoundedTotal(m.outsideSchedule, r)
      /\ t.recognizedOvertime = RoundedTotal(m.recognizedOvertime, r)
  BY TotalsAreRounded DEF MinuteNames
<1>2. /\ t.night = RoundedTotal(m.night, r)
      /\ t.nonWorkingDay = RoundedTotal(m.nonWorkingDay, r)
      /\ t.legalOvertime = RoundedTotal(m.legalOvertime, r)
      /\ t.nightOvertime = RoundedTotal(m.nightOvertime, r)
      /\ t.nightHoliday = RoundedTotal(m.nightHoliday, r)
  BY TotalsAreRounded DEF MinuteNames
<1>3. t.unapprovedOvertime =
        IF m.recognizedOvertime = Unset THEN Unset
        ELSE IF planned THEN Unapproved(m, r) ELSE 0
  BY TotalsAreRounded
<1> HIDE DEF t
<1>4. \A a, b \in Nat : a <= b => /\ RoundedTotal(a, r) \in Nat /\ RoundedTotal(b, r) \in Nat
                                  /\ RoundedTotal(a, r) <= RoundedTotal(b, r)
  <2> SUFFICES ASSUME NEW a \in Nat, NEW b \in Nat, a <= b
               PROVE  /\ RoundedTotal(a, r) \in Nat /\ RoundedTotal(b, r) \in Nat
                      /\ RoundedTotal(a, r) <= RoundedTotal(b, r)
    OBVIOUS
  <2>1. a # Unset /\ b # Unset
    BY DEF Unset
  <2>2. b <= b
    OBVIOUS
  <2>3. Rounded(a, r) \in Nat /\ Rounded(a, r) <= Rounded(b, r) /\ Rounded(b, r) \in Nat
    BY <2>2, RoundingKeepsOrder
  <2> QED
    BY <2>1, <2>3 DEF RoundedTotal
<1>5. \A n \in Nat : RoundedTotal(n, r) = Rounded(n, r) /\ RoundedTotal(n, r) \in Nat
  <2>1. \A n \in Nat : n # Unset /\ n <= n
    BY DEF Unset
  <2> QED
    BY <1>4, <2>1 DEF RoundedTotal
<1>6. ASSUME r.unit = 0
      PROVE  /\ t.worked + t.break - t.attended \in IF gap = "break" THEN Nat ELSE {0}
             /\ t.withinSchedule + t.outsideSchedule = t.worked
  <2>1. \A n \in Nat : RoundedTotal(n, r) = n
    BY <1>5, <1>6 DEF Rounded
  <2>2. /\ m.worked \in Nat /\ m.break \in Nat /\ m.attended \in Nat
        /\ m.outsideSchedule \in Nat /\ m.withinSchedule \in Nat
    BY DEF Adds
  <2>3. /\ t.worked = m.worked /\ t.break = m.break /\ t.attended = m.attended
        /\ t.outsideSchedule = m.outsideSchedule /\ t.withinSchedule = m.withinSchedule
    BY <1>1, <2>1, <2>2
  <2> QED
    BY <2>3 DEF Adds
<1>7. ASSUME t.recognizedOvertime # Unset, planned
      PROVE  t.recognizedOvertime + t.unapprovedOvertime = t.outsideSchedule
  <2> DEFINE k == m.recognizedOvertime
             o == m.outsideSchedule
  <2>1. k # Unset
    BY <1>1, <1>7 DEF RoundedTotal
  <2>2. k \in Nat /\ o \in Nat /\ k <= o
    BY <2>1 DEF Recognizes, Adds
  <2>3. /\ RoundedTotal(k, r) = Rounded(k, r) /\ RoundedTotal(o, r) = Rounded(o, r)
        /\ Rounded(k, r) \in Nat /\ Rounded(o, r) \in Nat
    BY <1>5, <2>2
  <2>4. Rounded(k, r) <= Rounded(o, r)
    BY <1>4, <2>2, <2>3
  <2>5. t.unapprovedOvertime = AtLeastZero(Rounded(o, r) - Rounded(k, r))
    BY <1>3, <1>7, <2>1 DEF Unapproved
  <2>6. AtLeastZero(Rounded(o, r) - Rounded(k, r)) = Rounded(o, r) - Rounded(k, r)
    BY <2>3, <2>4 DEF AtLeastZero
  <2> QED
    BY <1>1, <2>3, <2>5, <2>6
<1>8. t.worked \in Nat /\ t.night \in Nat /\ t.nonWorkingDay \in Nat
  BY <1>1, <1>2, <1>5 DEF NightFits
<1>9. t.nightHoliday <= t.nonWorkingDay
  BY <1>2, <1>4 DEF NightFits
<1>10. t.legalOvertime <= t.worked /\ t.nightOvertime <= t.legalOvertime
       /\ t.nightOvertime <= t.night
  <2>1. CASE m.legalOvertime = Unset /\ m.nightOvertime = Unset
    <3>1. t.legalOvertime = Unset /\ t.nightOvertime = Unset
      BY <1>2, <2>1 DEF RoundedTotal
    <3> QED
      BY <1>8, <3>1 DEF Unset
  <2>2. CASE /\ m.legalOvertime \in Nat /\ m.legalOvertime <= m.worked
             /\ m.nightOvertime \in Nat /\ m.nightOvertime <= m.legalOvertime
             /\ m.nightOvertime <= m.night
    <3>1. m.worked \in Nat /\ m.night \in Nat
      BY DEF NightFits
    <3> QED
      BY <1>1, <1>2, <1>4, <2>2, <3>1
  <2> QED
    BY <2>1, <2>2 DEF NightFits
<1> QED
  BY <1>6, <1>7, <1>9, <1>10 DEF TotalsAddUp, t

\* The minutes of a day add up, whatever its punches, schedule, category and rules are.
LEMMA CalculateAddsUp ==
  ASSUME NEW input, input.events \in Punched,
         input.schedule.start \in Int, input.schedule.end \in Int, input.limit \in Int,
         IsFiniteSet(input.category.automatic),
         \A x \in input.category.automatic : x.additional \in Nat,
         input.rules.unit \in Nat, input.rules.mode \in {"none", "down", "nearest"},
         input.rules.dailyLegal \in Nat \union {Unset}
  PROVE  TotalsAddUp(Calculate(input), input)
<1> DEFINE w == Worked(input)
           m == Minutes(input, w)
<1>1. WorkFits(w)
  BY WorkedFits
<1>2. /\ Adds(m, input.category.gap)
      /\ Recognizes(m) /\ NightFits(m)
  <2> HIDE DEF w
  <2> QED
    BY <1>1, MinutesAddUp
<1>3. MinuteNames \subseteq DOMAIN m /\ "unapprovedOvertime" \notin DOMAIN m
  BY MinutesHaveNames
<1>4. Calculate(input) = Totals(input, m)
  BY DEF Calculate
<1> HIDE DEF m
<1> QED
  BY <1>2, <1>3, <1>4, RoundedAddUp

-----------------------------------------------------------------------------
(***************************************************************************)
(* What a recording makes of the punches of a day.                         *)
(***************************************************************************)
\* Punches stay punches when one is inserted, removed or moved.
LEMMA InsertedPunch ==
  ASSUME NEW S, NEW s \in Seq(S), NEW n \in 1 .. Len(s) + 1, NEW e \in S
  PROVE  InsertAt(s, n, e) \in Seq(S)
<1>1. SubSeq(s, 1, n - 1) \in Seq(S) /\ SubSeq(s, n, Len(s)) \in Seq(S)
  BY SubSeqProperties
<1>2. InsertAt(s, n, e) = SubSeq(s, 1, n - 1) \o <<e>> \o SubSeq(s, n, Len(s))
  BY DEF InsertAt
<1> DEFINE front == SubSeq(s, 1, n - 1)
           back == SubSeq(s, n, Len(s))
<1> HIDE DEF front, back
<1>3. front \o <<e>> \o back \in Seq(S)
  BY <1>1 DEF front, back
<1> QED
  BY <1>2, <1>3 DEF front, back

LEMMA RemovedPunch ==
  ASSUME NEW S, NEW s \in Seq(S), NEW n \in DOMAIN s
  PROVE  RemoveAt(s, n) \in Seq(S)
<1>1. SubSeq(s, 1, n - 1) \in Seq(S) /\ SubSeq(s, n + 1, Len(s)) \in Seq(S)
  BY SubSeqProperties
<1>2. RemoveAt(s, n) = SubSeq(s, 1, n - 1) \o SubSeq(s, n + 1, Len(s))
  BY DEF RemoveAt
<1> DEFINE front == SubSeq(s, 1, n - 1)
           back == SubSeq(s, n + 1, Len(s))
<1> HIDE DEF front, back
<1>3. front \o back \in Seq(S)
  BY <1>1 DEF front, back
<1> QED
  BY <1>2, <1>3 DEF front, back

LEMMA MovedPunch ==
  ASSUME NEW events \in Punched, NEW i \in DOMAIN events, NEW at \in Int
  PROVE  Moved(events, i, at) \in Punched
<1>1. PICK E : E = [type : PunchTypes, at : Int]
  OBVIOUS
<1>2. events \in Seq(E)
  BY <1>1 DEF Punched
<1> DEFINE rest == RemoveAt(events, i)
           before == {j \in DOMAIN rest : rest[j].at < at}
           e == [events[i] EXCEPT !.at = at]
<1>3. rest \in Seq(E)
  BY <1>2, RemovedPunch
<1>4. events[i] \in E
  BY <1>2
<1>5. e \in E
  BY <1>1, <1>4
<1> HIDE DEF rest, e
<1>6. DOMAIN rest = 1 .. Len(rest) /\ Len(rest) \in Nat
  BY <1>3
<1>7. IsFiniteSet(1 .. Len(rest)) /\ Cardinality(1 .. Len(rest)) = Len(rest)
  BY <1>6, FS_Interval
<1>8. Cardinality(before) \in Nat /\ Cardinality(before) <= Len(rest)
  BY <1>6, <1>7, CountOfPart
<1>9. Cardinality(before) + 1 \in 1 .. Len(rest) + 1
  BY <1>6, <1>8
<1>10. InsertAt(rest, Cardinality(before) + 1, e) \in Seq(E)
  <2> HIDE DEF before
  <2> QED
    BY <1>3, <1>5, <1>9, InsertedPunch
<1> QED
  BY <1>1, <1>10 DEF Moved, Punched, rest, e

\* Whatever is recorded next, the day has punches.
LEMMA RecordingsArePunches ==
  ASSUME MonthAssumption, NEW events \in Punched
  PROVE  Recordings(events) \subseteq Punched
<1>1. Free(events) \subseteq Int
  BY DEF Free, MonthAssumption
<1>2. PICK E : E = [type : PunchTypes, at : Int]
  OBVIOUS
<1>3. events \in Seq(E) /\ Punched = Seq(E)
  BY <1>2 DEF Punched
<1>4. ASSUME NEW type \in PunchTypes, NEW at \in Int
      PROVE  Added(events, type, at) \in Seq(E)
  <2>1. [type |-> type, at |-> at] \in E
    BY <1>2
  <2> QED
    BY <1>3, <2>1 DEF Added
<1>5. \A i \in DOMAIN events : RemoveAt(events, i) \in Seq(E)
  BY <1>3, RemovedPunch
<1>6. \A i \in DOMAIN events : \A at \in Int : Moved(events, i, at) \in Seq(E)
  BY <1>3, MovedPunch
<1> SUFFICES ASSUME NEW r \in Recordings(events) PROVE r \in Seq(E)
  BY <1>3
<1> DEFINE types == {t \in PunchTypes : Accepts(Summary(events).state, t)}
           times == {t \in Free(events) : \A i \in DOMAIN events : events[i].at < t}
           added == {Added(events, type, at) : type \in types, at \in times}
           voided == {RemoveAt(events, i) : i \in DOMAIN events}
           moved == {Moved(events, i, at) : i \in DOMAIN events, at \in Free(events)}
<1>7. r \in added \/ r \in voided \/ r \in moved
  BY DEF Recordings
<1>8. types \subseteq PunchTypes /\ times \subseteq Int
  BY <1>1
<1> HIDE DEF types, times
<1>9. CASE r \in added
  <2>1. PICK type \in types, at \in times : r = Added(events, type, at)
    BY <1>9
  <2> QED
    BY <1>4, <1>8, <2>1
<1>10. CASE r \in voided
  BY <1>5, <1>10
<1>11. CASE r \in moved
  BY <1>1, <1>6, <1>11
<1> HIDE DEF added, voided, moved
<1> QED
  BY <1>7, <1>9, <1>10, <1>11

-----------------------------------------------------------------------------
(***************************************************************************)
(* Whatever is stored was calculated from a day.                           *)
(***************************************************************************)
Calculated(row) == row.input \in CalculationInput /\ row.totals = Calculate(row.input)

\* What a transaction has in hand.
Holds(t) ==
  /\ t.op \in {"record", "schedule", "approve"} => t.own \in CalculationInput
  /\ t.at \in {"latest", "insert"} => t.read \in CalculationInput
  /\ \A p \in t.pending : Calculated(p.row)

StoredInv ==
  /\ rules \in RuleVersions
  /\ \A d \in Days : day[d] \in CalculationInput /\ Calculated(rows[d])
  /\ \A c \in Clients : Holds(tx[c])

\* What a transaction sees, and what it leaves, is what a day may be calculated from.
LEMMA SeenIsInput ==
  ASSUME MonthAssumption, StoredInv, NEW c \in Clients, NEW d \in Days
  PROVE  Seen(c, d) \in CalculationInput /\ Changed(c, d) \in CalculationInput
<1> DEFINE own == tx[c].own
           op == tx[c].op
           i == day[d]
           events == IF op = "record" THEN own.events ELSE i.events
           schedule == IF op = "schedule" THEN own.schedule ELSE i.schedule
           category == IF op = "schedule" THEN own.category ELSE i.category
           limit == IF op = "approve" THEN Max({i.limit, own.limit}) ELSE i.limit
<1>1. i \in CalculationInput /\ rules \in CalculationRules
  BY DEF StoredInv, MonthAssumption
<1>2. op \in {"record", "schedule", "approve"} => own \in CalculationInput
  BY DEF StoredInv, Holds
<1>3. limit \in Int
  <2>1. CASE op = "approve"
    <3>1. i.limit \in Int /\ own.limit \in Int
      BY <1>1, <1>2, <2>1 DEF CalculationInput
    <3> QED
      BY <2>1, <3>1, LargerOfTwo
  <2>2. CASE op # "approve"
    BY <1>1, <2>2 DEF CalculationInput
  <2> QED
    BY <2>1, <2>2
<1>4. events \in Punched /\ schedule \in WorkSchedule /\ category \in WorkCategory
  BY <1>1, <1>2 DEF CalculationInput
<1>5. Seen(c, d) = [i EXCEPT !.rules = rules, !.events = events, !.schedule = schedule,
                             !.category = category, !.limit = limit]
  <2>1. /\ i.events = i["events"] /\ DOMAIN i = {"events", "schedule", "category", "limit",
            "holidayWork", "discretionary", "rules"}
    BY <1>1 DEF CalculationInput
  <2> QED
    BY <2>1 DEF Seen
<1> HIDE DEF events, schedule, category, limit
<1>6. Seen(c, d) \in CalculationInput
  BY <1>1, <1>3, <1>4, <1>5 DEF CalculationInput
<1>7. Changed(c, d) \in CalculationInput
  <2>1. Changed(c, d) = [Seen(c, d) EXCEPT !.rules = i.rules]
    BY DEF Changed
  <2>2. i.rules \in CalculationRules
    BY <1>1 DEF CalculationInput
  <2> QED
    BY <1>6, <2>1, <2>2 DEF CalculationInput
<1> QED
  BY <1>6, <1>7

\* A transaction that writes nothing leaves what is stored.
LEMMA HoldsOn ==
  ASSUME IInv, StoredInv, NEW c \in Clients, NEW t, Holds(t), tx' = [tx EXCEPT ![c] = t],
         UNCHANGED <<day, rules, rows>>
  PROVE  StoredInv'
<1>1. \A x \in Clients : tx'[x] = IF x = c THEN t ELSE tx[x]
  BY DEF IInv
<1>2. \A x \in Clients : Holds(tx[x])'
  BY <1>1 DEF StoredInv, Holds, Calculated
<1> QED
  BY <1>2 DEF StoredInv, Holds, Calculated

LEMMA NoTxHolds == Holds(NoTx)
  BY DEF Holds, NoTx

\* So does one that begins.
LEMMA BeginHolds ==
  ASSUME IInv, StoredInv, NEW c \in Clients, NEW op, NEW days, NEW own,
         Begin(c, op, days, own), UNCHANGED dataVars,
         op \in {"record", "schedule", "approve"} => own \in CalculationInput
  PROVE  StoredInv'
<1> DEFINE t == [NoTx EXCEPT !.op = op, !.at = "read", !.of = days, !.days = days, !.own = own]
<1>1. tx' = [tx EXCEPT ![c] = t]
  BY DEF Begin
<1>2. t.op = op /\ t.own = own /\ t.at = "read" /\ t.pending = {}
  BY DEF NoTx
<1> HIDE DEF t
<1>3. Holds(t)
  BY <1>2 DEF Holds
<1> QED
  BY <1>1, <1>3, HoldsOn DEF dataVars

\* The operations begin with a change that a day may be calculated with.
LEMMA OperationsHold ==
  ASSUME IInv, StoredInv, MonthAssumption, NEW c \in Clients, Operate(c)
  PROVE  StoredInv'
<1>0. \A d \in Days : day[d] \in CalculationInput
  BY DEF StoredInv
<1>1. CASE \E d \in Days : \E events \in Recordings(day[d].events) : Record(c, d, events)
  <2>a. PICK d \in Days : \E events \in Recordings(day[d].events) : Record(c, d, events)
    BY <1>1
  <2>1. PICK events \in Recordings(day[d].events) : Record(c, d, events)
    BY <2>a
  <2>2. UNCHANGED dataVars /\ Begin(c, "record", {d}, [day[d] EXCEPT !.events = events])
    BY <2>1 DEF Record
  <2>3. day[d].events \in Punched
    BY <1>0 DEF CalculationInput
  <2>4. events \in Punched
    BY <2>3, RecordingsArePunches
  <2>5. [day[d] EXCEPT !.events = events] \in CalculationInput
    BY <1>0, <2>4 DEF CalculationInput
  <2> QED
    BY <2>2, <2>5, BeginHolds
<1>2. CASE \E d \in Days, s \in Schedules : PutSchedule(c, d, s)
  <2>1. PICK d \in Days, s \in Schedules : PutSchedule(c, d, s)
    BY <1>2
  <2>2. /\ UNCHANGED dataVars
        /\ Begin(c, "schedule", {d}, [day[d] EXCEPT !.schedule = s[1], !.category = s[2]])
    BY <2>1 DEF PutSchedule
  <2>3. s[1] \in WorkSchedule /\ s[2] \in WorkCategory
    BY DEF MonthAssumption
  <2>4. [day[d] EXCEPT !.schedule = s[1], !.category = s[2]] \in CalculationInput
    BY <1>0, <2>3 DEF CalculationInput
  <2> QED
    BY <2>2, <2>4, BeginHolds
<1>3. CASE \E d \in Days, limit \in Limits : ApproveOvertime(c, d, limit)
  <2>1. PICK d \in Days, limit \in Limits : ApproveOvertime(c, d, limit)
    BY <1>3
  <2>2. UNCHANGED dataVars /\ Begin(c, "approve", {d}, [day[d] EXCEPT !.limit = limit])
    BY <2>1 DEF ApproveOvertime
  <2>3. limit \in Int
    BY DEF MonthAssumption
  <2>4. [day[d] EXCEPT !.limit = limit] \in CalculationInput
    BY <1>0, <2>3 DEF CalculationInput
  <2> QED
    BY <2>2, <2>4, BeginHolds
<1>4. CASE Recalculate(c)
  BY <1>4, BeginHolds DEF Recalculate
<1>5. CASE \E op \in {"close", "reopen"} : ReadClosing(c, op)
  <2>1. PICK op \in {"close", "reopen"} : ReadClosing(c, op)
    BY <1>5
  <2>2. UNCHANGED dataVars /\ Begin(c, op, {}, NoInput)
    BY <2>1 DEF ReadClosing
  <2>3. op \notin {"record", "schedule", "approve"}
    OBVIOUS
  <2> QED
    BY <2>2, <2>3, BeginHolds
<1> QED
  BY <1>1, <1>2, <1>3, <1>4, <1>5 DEF Operate

\* Nothing in hand is lost when a day is done.
LEMMA DoneHolds ==
  ASSUME NEW t, DOMAIN t = Fields, Holds(t)
  PROVE  Holds(Done(t))
<1>1. /\ Done(t).op = t.op /\ Done(t).own = t.own /\ Done(t).pending = t.pending
      /\ Done(t).at \in {"commit", "read"}
  BY DEF Done, Fields
<1> QED
  BY <1>1 DEF Holds

\* A version that is added was calculated from what was read.
LEMMA ContinuationsHold ==
  ASSUME IInv, StoredInv, MonthAssumption, NEW c \in Clients, Continue(c), ~Commit(c)
  PROVE  StoredInv'
<1> DEFINE t == tx[c]
           d == Min(t.days)
<1>1. TxFits(c, t, day, rows, missed, replaced, stale) /\ DOMAIN t = Fields
  BY DEF IInv, TxFits
<1>2. Holds(t) /\ DOMAIN tx = Clients
  BY DEF StoredInv, IInv
<1>3. t.days # {} => d \in Days
  BY <1>1, Smallest DEF TxFits, Covers, MonthAssumption
<1>4. CASE ReadDay(c)
  <2> DEFINE next == [t EXCEPT !.read = Seen(c, d), !.at = "latest"]
  <2>1. tx' = [tx EXCEPT ![c] = next] /\ UNCHANGED <<day, rules, rows>> /\ t.days # {}
    BY <1>2, <1>4 DEF ReadDay, Today, dataVars
  <2>2. /\ next.read = Seen(c, d) /\ next.op = t.op /\ next.own = t.own
        /\ next.pending = t.pending
    BY <1>1 DEF Fields
  <2>3. Seen(c, d) \in CalculationInput
    BY <1>3, <2>1, SeenIsInput
  <2> HIDE DEF t, next, d
  <2>4. Holds(next)
    BY <1>2, <2>2, <2>3 DEF Holds
  <2> QED
    BY <2>1, <2>4, HoldsOn
<1>5. CASE FindLatest(c)
  <2> DEFINE next == [t EXCEPT !.version = rows[d].version + 1, !.at = "insert"]
  <2>1. t.at = "latest" /\ UNCHANGED <<day, rules, rows>>
    BY <1>5 DEF FindLatest, dataVars
  <2>2. tx' = [tx EXCEPT ![c] = Done(t)] \/ tx' = [tx EXCEPT ![c] = next]
    BY <1>2, <1>5 DEF FindLatest, Today, Advance, Done
  <2>3. /\ next.read = t.read /\ next.op = t.op /\ next.own = t.own
        /\ next.pending = t.pending
    BY <1>1 DEF Fields
  <2> HIDE DEF t, next
  <2>4. Holds(next)
    BY <1>2, <2>1, <2>3 DEF Holds
  <2>5. Holds(Done(t))
    BY <1>1, <1>2, DoneHolds
  <2> QED
    BY <2>1, <2>2, <2>4, <2>5, HoldsOn
<1>6. CASE InsertVersion(c)
  <2> DEFINE inserted == [day |-> d, row |-> Row(t.version, t.read)]
             more == [t EXCEPT !.pending = @ \union {inserted}]
             waits == [more EXCEPT !.at = "share"]
  <2>1. t.at = "insert" /\ UNCHANGED <<day, rules, rows>>
    BY <1>6 DEF InsertVersion, dataVars
  <2>2. \/ tx' = [tx EXCEPT ![c] = [more EXCEPT
              !.days = t.days \ {d}, !.at = IF t.days \ {d} = {} THEN "commit" ELSE "read"]]
        \/ tx' = [tx EXCEPT ![c] = waits]
    BY <1>6 DEF InsertVersion, Advance, Today
  <2>3. inserted.row = Row(t.version, t.read)
    OBVIOUS
  <2>4. /\ DOMAIN more = Fields /\ more.read = t.read /\ more.at = "insert"
        /\ more.op = t.op /\ more.own = t.own /\ more.days = t.days
        /\ more.pending = t.pending \union {inserted}
    BY <1>1, <2>1 DEF Fields
  <2>5. /\ waits.at = "share" /\ waits.op = t.op /\ waits.own = t.own
        /\ waits.pending = t.pending \union {inserted}
    BY <2>4 DEF Fields
  <2>6. Calculated(Row(t.version, t.read))
    BY <1>2, <2>1 DEF Holds, Calculated, Row
  <2> HIDE DEF t, inserted, more, waits
  <2>7. \A p \in t.pending \union {inserted} : Calculated(p.row)
    BY <1>2, <2>3, <2>6 DEF Holds
  <2>8. Holds(more) /\ Holds(waits)
    BY <1>2, <2>1, <2>4, <2>5, <2>7 DEF Holds
  <2>9. Holds(Done(more))
    BY <2>4, <2>8, DoneHolds
  <2>10. tx' = [tx EXCEPT ![c] = Done(more)] \/ tx' = [tx EXCEPT ![c] = waits]
    BY <2>2, <2>4 DEF Done
  <2> QED
    BY <2>1, <2>8, <2>9, <2>10, HoldsOn
<1>7. CASE Share(c)
  <2>1. tx' = [tx EXCEPT ![c] = Done(t)] /\ UNCHANGED <<day, rules, rows>>
    BY <1>7 DEF Share, Advance, Today, Done, dataVars
  <2> HIDE DEF t
  <2> QED
    BY <1>1, <1>2, <2>1, DoneHolds, HoldsOn
<1>8. CASE Fail(c) \/ CommitClosing(c)
  <2>1. tx' = [tx EXCEPT ![c] = NoTx] /\ UNCHANGED <<day, rules, rows>>
    BY <1>8 DEF Fail, CommitClosing, Ended, dataVars
  <2> QED
    BY <2>1, NoTxHolds, HoldsOn
<1>9. CASE SaveClosing(c)
  <2> DEFINE totals == IF t.op = "close" THEN Live ELSE <<>>
             next == [t EXCEPT !.at = "commit", !.totals = totals]
  <2>1. tx' = [tx EXCEPT ![c] = next] /\ UNCHANGED <<day, rules, rows>>
    BY <1>2, <1>9 DEF SaveClosing, dataVars
  <2>2. next.at = "commit" /\ next.op = t.op /\ next.own = t.own /\ next.pending = t.pending
    BY <1>1 DEF Fields
  <2> HIDE DEF t, next
  <2>3. Holds(next)
    BY <1>2, <2>2 DEF Holds
  <2> QED
    BY <2>1, <2>3, HoldsOn
<1> QED
  BY <1>4, <1>5, <1>6, <1>7, <1>8, <1>9 DEF Continue

\* A commit stores what was added.
LEMMA CommitHolds ==
  ASSUME IInv, StoredInv, MonthAssumption, NEW c \in Clients, Commit(c)
  PROVE  StoredInv'
<1>1. /\ tx' = [tx EXCEPT ![c] = NoTx] /\ rules' = rules
      /\ \A d \in Days : day'[d] = IF d \in tx[c].of THEN Changed(c, d) ELSE day[d]
      /\ \A d \in Days : rows'[d] = IF Pending(c, d) = {} THEN rows[d]
                                    ELSE (CHOOSE p \in Pending(c, d) : TRUE).row
  BY DEF Commit, Ended
<1>2. \A d \in Days : day'[d] \in CalculationInput
  BY <1>1, SeenIsInput DEF StoredInv
<1>3. ASSUME NEW d \in Days PROVE Calculated(rows'[d])
  <2>1. CASE Pending(c, d) = {}
    BY <1>1, <2>1 DEF StoredInv
  <2>2. CASE Pending(c, d) # {}
    <3> DEFINE p == CHOOSE p \in Pending(c, d) : TRUE
    <3>1. p \in Pending(c, d) /\ rows'[d] = p.row
      BY <1>1, <2>2
    <3> HIDE DEF p
    <3>2. p \in tx[c].pending
      BY <3>1 DEF Pending
    <3> QED
      BY <3>1, <3>2 DEF StoredInv, Holds
  <2> QED
    BY <2>1, <2>2
<1>4. \A x \in Clients : tx'[x] = IF x = c THEN NoTx ELSE tx[x]
  BY <1>1 DEF IInv
<1>5. \A x \in Clients : Holds(tx'[x])
  BY <1>4, NoTxHolds DEF StoredInv
<1> QED
  BY <1>1, <1>2, <1>3, <1>5 DEF StoredInv, Holds, Calculated

\* Every step keeps what is stored calculated.
LEMMA StoredFits ==
  ASSUME IInv, StoredInv, MonthAssumption, [Next]_vars
  PROVE  StoredInv'
<1>1. CASE \E c \in Clients : Operate(c)
  BY <1>1, OperationsHold
<1>2. CASE \E c \in Clients : Continue(c)
  <2>1. PICK c \in Clients : Continue(c)
    BY <1>2
  <2> QED
    BY <2>1, ContinuationsHold, CommitHolds
<1>3. CASE \E version \in RuleVersions : CreateRuleVersion(version)
  <2>1. UNCHANGED <<day, rows, tx>> /\ rules' \in RuleVersions
    BY <1>3 DEF CreateRuleVersion
  <2> QED
    BY <2>1 DEF StoredInv, Holds, Calculated
<1>4. CASE UNCHANGED vars
  <2>1. UNCHANGED <<day, rules, rows, tx>>
    BY <1>4 DEF vars, dataVars
  <2> QED
    BY <2>1 DEF StoredInv, Holds, Calculated
<1> QED
  BY <1>1, <1>2, <1>3, <1>4 DEF Next

\* The totals of a stored version are those of its day: it is one that was calculated.
THEOREM StoredIsCalculated == Spec => []StoredInv
<1>1. Init => StoredInv
  <2> SUFFICES ASSUME Init PROVE StoredInv
    OBVIOUS
  <2>1. day \in [Days -> CalculationInput]
    BY MonthAssumption DEF MonthAssumption, Init
  <2>2. \A d \in Days : day[d] \in CalculationInput
    BY <2>1
  <2>3. \A d \in Days : Calculated(rows[d])
    BY <2>2 DEF Init, Row, Calculated
  <2>4. \A c \in Clients : Holds(tx[c])
    BY NoTxHolds DEF Init
  <2> QED
    BY <2>2, <2>3, <2>4 DEF Init, StoredInv
<1>2. IInv /\ StoredInv /\ [Next]_vars => StoredInv'
  BY StoredFits, MonthAssumption
<1> QED
  BY <1>1, <1>2, Invariance, PTL DEF Spec

\* No minute of a day counts twice, whatever the punches, schedules, categories and rules are
\* (calculateWorkDay).
THEOREM DaysAddUp == Spec => []DayAddsUp
<1>1. StoredInv => DayAddsUp
  <2> SUFFICES ASSUME StoredInv, NEW d \in Days PROVE TotalsAddUp(rows[d].totals, rows[d].input)
    BY DEF DayAddsUp, TotalsAddUp
  <2>1. PICK input \in CalculationInput :
          input = rows[d].input /\ rows[d].totals = Calculate(input)
    BY DEF StoredInv, Calculated
  <2>2. /\ input.events \in Punched /\ input.schedule \in WorkSchedule
        /\ input.category \in WorkCategory /\ input.limit \in Int
        /\ input.rules \in CalculationRules
    BY DEF CalculationInput
  <2>3. input.schedule.start \in Int /\ input.schedule.end \in Int
    BY <2>2 DEF WorkSchedule
  <2>4. /\ IsFiniteSet(input.category.automatic)
        /\ \A x \in input.category.automatic : x.additional \in Nat
    BY <2>2 DEF WorkCategory
  <2>5. /\ input.rules.unit \in Nat /\ input.rules.mode \in {"none", "down", "nearest"}
        /\ input.rules.dailyLegal \in Nat \union {Unset}
    BY <2>2 DEF CalculationRules
  <2>6. TotalsAddUp(Calculate(input), input)
    BY <2>2, <2>3, <2>4, <2>5, CalculateAddsUp
  <2> QED
    BY <2>1, <2>6
<1> QED
  BY <1>1, StoredIsCalculated, PTL
=============================================================================
