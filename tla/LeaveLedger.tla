---------------------------- MODULE LeaveLedger ----------------------------
(***************************************************************************)
(* The transactions that write one employee's leave ledger:                *)
(* packages/api/src/leave/{service,repository}.ts and consumeLeave of      *)
(* packages/api/src/request/service.ts.                                    *)
(*                                                                         *)
(* Grants, allowances and reversals insert one row and take no lock.  What *)
(* takes leave locks the employee's row, reads the ledger, refuses what    *)
(* the balance does not cover and inserts; plan holds the rows a client    *)
(* is about to insert under that lock.                                     *)
(***************************************************************************)
EXTENDS LeaveBalance

CONSTANTS LedgerClients,      \* transactions that may run at a time
          Amounts,      \* minutes that are granted, allowed or taken
          NonWorking,   \* days the schedule calls non-working
          MaxEntries    \* bound on the entries of the ledger

ASSUME LedgerAssumption ==
  Amounts \subseteq Nat \ {0} /\ NonWorking \subseteq LedgerDays /\ MaxEntries \in Nat

VARIABLES ledger, plan

ledgerVars == <<ledger, plan>>

Entries ==
  [type : EntryTypes, minutes : Int \ {0}, on : LedgerDays, expires : Expiries, reversed : BOOLEAN]

LedgerTypeOK ==
  /\ ledger \in Seq(Entries)
  /\ \A i, j \in DOMAIN ledger : i < j => ledger[i].on <= ledger[j].on
  /\ \A i \in DOMAIN ledger :
       /\ ledger[i].type = "grant" => ledger[i].minutes > 0 /\ ledger[i].expires >= ledger[i].on
       /\ ledger[i].type = "consume" => ledger[i].minutes < 0
       /\ ledger[i].type # "grant" => ledger[i].expires = Never
  /\ \A c \in LedgerClients : \A x \in plan[c] : x \in Entries /\ x.minutes < 0

InitLedger == ledger = <<>> /\ plan = [c \in LedgerClients |-> {}]

\* addEntry, for each of the entries: identifiers, and with them places, are random.
AddEntries(xs) == ledger' \in Placements(ledger, xs)

HasRoom(xs) == Len(ledger) + Cardinality(xs) <= MaxEntries

-----------------------------------------------------------------------------
\* grant, and the grants by rule and by import.
Grant(day, minutes, expires) ==
  LET xs == {Entry("grant", minutes, day, expires)} IN
  /\ expires >= day /\ HasRoom(xs)
  /\ AddEntries(xs)
  /\ UNCHANGED plan

\* adjust with a positive amount.
Allow(day, minutes) ==
  LET xs == {Entry("adjust", minutes, day, Never)} IN
  /\ HasRoom(xs)
  /\ AddEntries(xs)
  /\ UNCHANGED plan

\* findEntry
FindEntry(i) == ledger[i]

\* reverse; the unique index refuses to reverse an entry twice.
ReverseEntry(i) ==
  /\ ~FindEntry(i).reversed
  /\ ledger' = [ledger EXCEPT ![i].reversed = TRUE]
  /\ UNCHANGED plan

\* Mutant: the lock is not taken.
LockLedgerNever == TRUE

\* lockLedgerOf: another transaction that holds the lock has to end first.
LockLedger == \A c \in LedgerClients : plan[c] = {}

\* Lock, read the ledger and refuse what it does not cover.
Propose(c, xs) ==
  /\ plan[c] = {} /\ xs # {} /\ HasRoom(xs)
  /\ LockLedger
  /\ ~Insufficient(ledger, xs) /\ ~NotAMultiple(xs)
  /\ plan' = [plan EXCEPT ![c] = xs]
  /\ UNCHANGED ledger

\* adjust with a negative amount; the unit is not looked at.
Deduct(c, day, minutes) ==
  LET xs == {Entry("adjust", -minutes, day, Never)} IN
  /\ plan[c] = {} /\ HasRoom(xs)
  /\ LockLedger
  /\ ~Insufficient(ledger, xs)
  /\ plan' = [plan EXCEPT ![c] = xs]
  /\ UNCHANGED ledger

\* leaveDatesOf: the days of a request that the schedule does not call non-working.
LeaveDatesOf(from, to) == (from .. to) \ NonWorking

\* consumeLeave: every day of the request, together.
Consume(c, from, to, minutes) ==
  Propose(c, {Entry("consume", -minutes, day, Never) : day \in LeaveDatesOf(from, to)})

CommitEntries(c) ==
  /\ plan[c] # {}
  /\ AddEntries(plan[c])
  /\ plan' = [plan EXCEPT ![c] = {}]

RollbackEntries(c) ==
  /\ plan[c] # {}
  /\ plan' = [plan EXCEPT ![c] = {}]
  /\ UNCHANGED ledger

NextLedger ==
  \/ \E day \in LedgerDays, minutes \in Amounts, expires \in Expiries : Grant(day, minutes, expires)
  \/ \E day \in LedgerDays, minutes \in Amounts : Allow(day, minutes)
  \/ \E i \in DOMAIN ledger : ReverseEntry(i)
  \/ \E c \in LedgerClients :
       \/ \E day \in LedgerDays, minutes \in Amounts : Deduct(c, day, minutes)
       \/ \E from \in LedgerDays : \E to \in from .. LastLedgerDay : \E minutes \in Amounts :
            Consume(c, from, to, minutes)
       \/ CommitEntries(c) \/ RollbackEntries(c)

LedgerSpec == InitLedger /\ [][NextLedger]_ledgerVars
-----------------------------------------------------------------------------
(***************************************************************************)
(* Properties.                                                             *)
(***************************************************************************)
NothingReversed == \A i \in DOMAIN ledger : ~ledger[i].reversed

\* What was taken had been covered, so that as long as no entry is reversed the balance is
\* not negative on any day (ledger.ts: validateLeaveConsumptions).
NeverOverdrawn ==
  NothingReversed => \A day \in LedgerDays : AvailableOn(ledger, day) >= 0

\* Leave was taken and granted on one day, in which case random identifiers decide which
\* of the two is walked first.
TakenOnAGrantDay ==
  \E i, j \in DOMAIN ledger :
    ledger[i].minutes > 0 /\ ledger[j].minutes < 0 /\ ledger[i].on = ledger[j].on

\* Backdated, parallel and multi-day consumption, expiry and late grants leave no day
\* overdrawn unless leave was taken on a day on which it was granted.
OverdrawnOnlyOnAGrantDay == TakenOnAGrantDay \/ NeverOverdrawn

\* The register of any period adds up, whatever was backdated, reversed or has lapsed.
RegisterAddsUp ==
  \A from, to \in LedgerDays : from <= to =>
    LET r == Register(ledger, from, to) IN
    r.closing = r.opening + r.granted + r.adjusted - r.consumed - r.expired

\* Every way to take the leave that was taken from grants that had been walked before and
\* had not expired.
Counted(positive) ==
  {i \in DOMAIN ledger : ~ledger[i].reversed /\ (ledger[i].minutes > 0 <=> positive)}

Allocations ==
  LET grants == Counted(TRUE)
      takes  == Counted(FALSE)
      most   == IF Amounts = {} THEN 0 ELSE Max(Amounts)
      Total(f, cells) == FoldFunctionOnSet(+, 0, f, cells)
  IN  {f \in [takes \X grants -> 0 .. most] :
         /\ \A t \in takes : Total(f, {t} \X grants) = -ledger[t].minutes
         /\ \A g \in grants : Total(f, takes \X {g}) <= ledger[g].minutes
         /\ \A t \in takes, g \in grants :
              f[<<t, g>>] > 0 => g < t /\ ledger[g].expires >= ledger[t].on}

LapsedUnder(f) ==
  LET expired == {g \in Counted(TRUE) : ledger[g].expires < LastLedgerDay}
  IN  FoldFunctionOnSet(+, 0, [g \in DOMAIN ledger |-> ledger[g].minutes], expired)
        - FoldFunctionOnSet(+, 0, f, Counted(FALSE) \X expired)

\* No other way to take the same leave would have let fewer minutes lapse, and when there is
\* any way the employee owes nothing: "失効の近いものを残すと、使えたはずの分が消える" (ledger.ts:9).
NothingIsWasted ==
  LET last == Balance(ledger, LastLedgerDay) IN
  \A f \in Allocations : last.owed = 0 /\ last.lapsed <= LapsedUnder(f)

\* What the list of expirations announces is what the register then says has expired, unless
\* something takes effect before.
AnnouncedIsLost ==
  \A asOf, through \in LedgerDays :
    (asOf < through /\ \A i \in DOMAIN ledger :
        ledger[i].on \notin asOf + 1 .. through \/ ledger[i].reversed) =>
      FoldFunction(+, 0, Expirations(ledger, asOf, through - 1))
        = Register(ledger, asOf + 1, through).expired

\* The three together: every minute of leave is accounted for, and none lapses in vain or
\* unannounced.
EveryMinuteIsAccounted == RegisterAddsUp /\ NothingIsWasted /\ AnnouncedIsLost
=============================================================================
