---------------------------- MODULE LeaveBalance ----------------------------
(***************************************************************************)
(* The balance of one employee's leave of one type, built from the ledger: *)
(* packages/domain/src/leave/ledger.ts.                                    *)
(*                                                                         *)
(* A ledger is the sequence of the entries in the order buildLeaveBalance  *)
(* walks them, by the day they take effect on and, within a day, by their  *)
(* identifiers, which are random.  An entry that grants is positive and    *)
(* one that takes is negative; a reversed entry and the entry that         *)
(* reverses it are one entry with reversed set, for both are left out of   *)
(* every sum and they take effect on the same day.  Nothing in the         *)
(* repository writes an entry of type "expire".                            *)
(***************************************************************************)
EXTENDS Integers, Sequences, SequencesExt

CONSTANTS LastLedgerDay,      \* the days of the model are 1 .. LastLedgerDay
          UnitMinutes   \* leave_types.unit_minutes

ASSUME BalanceAssumption == LastLedgerDay \in Nat \ {0} /\ UnitMinutes \in Nat \ {0}

LedgerDays == 1 .. LastLedgerDay

\* The last day a grant can be used on; Never stands for no such day.
Never == LastLedgerDay + 1
Expiries == 1 .. Never

EntryTypes == {"grant", "consume", "adjust"}

Entry(type, minutes, on, expires) ==
  [type |-> type, minutes |-> minutes, on |-> on, expires |-> expires, reversed |-> FALSE]

AtLeastZero(n) == IF n < 0 THEN 0 ELSE n

-----------------------------------------------------------------------------
\* The buckets, kept per expiry because the order of buckets with the same expiry changes
\* no sum; owed is what the buckets marked UNALLOCATED add up to.
Empty == [left |-> [e \in Expiries |-> 0], owed |-> 0, lapsed |-> 0]

\* What is left in the buckets that expire before e.
LeftBefore(b, e) ==
  LET sum[n \in 0 .. Never] == IF n = 0 THEN 0 ELSE sum[n - 1] + b.left[n]
  IN  sum[AtLeastZero(e - 1)]

Left(b) == LeftBefore(b, Never + 1)

\* availableMinutes
Available(b) == Left(b) - b.owed

\* lapseBefore
Lapse(b, day) ==
  [b EXCEPT !.left = [e \in Expiries |-> IF e < day THEN 0 ELSE @[e]],
            !.lapsed = @ + LeftBefore(b, day)]

\* Mutant: the bucket that expires last is emptied first.
TakeFromLatest(b, n) ==
  LET After(e) == Left(b) - LeftBefore(b, e) - b.left[e] IN
  [b EXCEPT !.left = [e \in Expiries |-> AtLeastZero(@[e] - AtLeastZero(n - After(e)))],
            !.owed = @ + AtLeastZero(n - Left(b))]

\* take: the bucket that expires first is emptied first.
Take(b, n) ==
  [b EXCEPT !.left = [e \in Expiries |-> AtLeastZero(@[e] - AtLeastZero(n - LeftBefore(b, e)))],
            !.owed = @ + AtLeastZero(n - Left(b))]

Book(b, x) ==
  IF x.minutes > 0 THEN [b EXCEPT !.left[x.expires] = @ + x.minutes]
  ELSE Take(Lapse(b, x.on), -x.minutes)

\* buildLeaveBalance
Balance(ledger, asOf) ==
  LET b[n \in 0 .. Len(ledger)] ==
        IF n = 0 THEN Empty
        ELSE IF ledger[n].reversed \/ ledger[n].on > asOf THEN b[n - 1]
        ELSE Book(b[n - 1], ledger[n])
  IN  Lapse(b[Len(ledger)], asOf)

AvailableOn(ledger, day) == Available(Balance(ledger, day))

\* listExpirations: the minutes left on asOf that are lost on each day through another.
Expirations(ledger, asOf, through) ==
  [e \in asOf .. through |-> Balance(ledger, asOf).left[e]]

-----------------------------------------------------------------------------
\* The places at which an entry of a day may come to stand: identifiers are random.
Places(ledger, day) ==
  {p \in 1 .. Len(ledger) + 1 :
     /\ \A i \in 1 .. p - 1 : ledger[i].on <= day
     /\ \A i \in p .. Len(ledger) : ledger[i].on >= day}

\* The ledgers that may come of a set of entries, one for each day.
Placements(ledger, xs) ==
  LET placed[day \in 0 .. LastLedgerDay] ==
        IF day = 0 THEN {ledger}
        ELSE UNION {IF \E x \in xs : x.on = day
                    THEN {InsertAt(l, p, CHOOSE x \in xs : x.on = day) : p \in Places(l, day)}
                    ELSE {l} : l \in placed[day - 1]}
  IN  placed[LastLedgerDay]

\* localeCompare sorts "~proposed" before the digits and letters of an identifier.
PlaceProposed(ledger, x) ==
  InsertAt(ledger, CHOOSE p \in Places(ledger, x.on) : \A q \in Places(ledger, x.on) : p <= q, x)

\* The ledger with a set of proposed entries, one for each day.
WithProposed(ledger, xs) ==
  LET with[day \in 0 .. LastLedgerDay] ==
        IF day = 0 THEN ledger
        ELSE IF \E x \in xs : x.on = day
             THEN PlaceProposed(with[day - 1], CHOOSE x \in xs : x.on = day)
             ELSE with[day - 1]
  IN  with[LastLedgerDay]

\* Mutant: only the day of the consumption is looked at.
InsufficientThatDay(ledger, xs) ==
  \E x \in xs : AvailableOn(WithProposed(ledger, xs), x.on) < 0

\* validateLeaveConsumption(s): a set of entries, one for each day.
Insufficient(ledger, xs) ==
  LET proposed == WithProposed(ledger, xs) IN
  \E i \in DOMAIN proposed :
    /\ \E x \in xs : proposed[i].on >= x.on
    /\ AvailableOn(proposed, proposed[i].on) < 0

NotAMultiple(xs) == \E x \in xs : (-x.minutes) % UnitMinutes # 0

-----------------------------------------------------------------------------
\* summarizeLeaveRegister: one line of the register of leave.
SumOf(ledger, type, from, to) ==
  LET sum[n \in 0 .. Len(ledger)] ==
        IF n = 0 THEN 0
        ELSE sum[n - 1] +
             (IF /\ ledger[n].type = type /\ ~ledger[n].reversed
                 /\ ledger[n].on \in from .. to THEN ledger[n].minutes ELSE 0)
  IN  sum[Len(ledger)]

\* previousDay
OpeningDay(from) == from - 1

Register(ledger, from, to) ==
  LET opening == Balance(ledger, OpeningDay(from))
      closing == Balance(ledger, to)
  IN  [opening |-> Available(opening), granted |-> SumOf(ledger, "grant", from, to),
       consumed |-> -SumOf(ledger, "consume", from, to),
       expired |-> closing.lapsed - opening.lapsed,
       adjusted |-> SumOf(ledger, "adjust", from, to), closing |-> Available(closing)]
=============================================================================
