------------------------------ MODULE Employment ------------------------------
(***************************************************************************)
(* The settings of employment: status and cards of employees, contracts    *)
(* and assignments between organizations, versions of the rules and labor  *)
(* systems (packages/api/src/organization, card/service.ts,                *)
(* shared/employee-visibility.ts, schedule/service.ts), who may see whom,  *)
(* and the periods that are summed up for an employee.                     *)
(*                                                                         *)
(* Registering or revoking a card and changing a status are transactions   *)
(* of several statements, each of which sees what is committed and waits   *)
(* for the rows that others wrote; the other operations are one statement. *)
(* The employer of an employee never changes.  Sessions that a status ends *)
(* are in Sessions; sites, names and codes are left out.                   *)
(***************************************************************************)
EXTENDS Periods

CONSTANTS Employees,
          EmployerOf,       \* the organization of each
          Organizations,
          ContractsOffered, \* contracts that may be made: [employer, host, from, to]
          Terms,            \* the dates an assignment may be made for: [from, to]
          VersionsOffered,  \* versions of the rules that may be made
          SystemsOffered,   \* labor systems that may be assigned
          Tokens,           \* registration tokens
          Fingerprints,     \* of cards
          Clients,
          MaxOperations     \* how many operations begin, a bound

VARIABLES status,      \* employees.status
          tokens,      \* card_registration_tokens: None, or [employee, used]
          cards,       \* card_credentials: [token, fingerprint, employee, state]
          contracts,   \* assignment_contracts
          assignments, \* employee_assignments: [employee, contract, from, to]
          versions,    \* calculation_rule_versions
          systems,     \* labor_system_assignments of one employee
          txn,         \* the transaction of each client
          begun        \* how many operations began

cardVars       == <<status, tokens, cards, txn>>
settingVars    == <<contracts, assignments, versions, systems>>
employmentVars == <<cardVars, settingVars, begun>>

Statuses == {"active", "suspended", "retired"}

Contracts   == [employer : Organizations, host : Organizations, from : Int, to : Int]
Assignments == [employee : Employees, contract : Contracts, from : Int, to : Int]
Versions    == [effectiveFrom : Int, weekStartsOn : Int]

\* Months are counted from 1 by a constraint of the table, and only where they are known.
Systems == [startsOn : Nat \union {None}, months : (Nat \ {0}) \union {None},
            from : Int, to : Int]

ASSUME EmploymentAssumption ==
  /\ EmployerOf \in [Employees -> Organizations]
  /\ ContractsOffered \subseteq Contracts
  /\ Terms \subseteq {t \in [from : Int, to : Int] : t.from <= t.to}
  /\ VersionsOffered \subseteq Versions /\ SystemsOffered \subseteq Systems
  /\ MaxOperations \in Nat
  /\ None \notin Employees \union Organizations \union Tokens
  /\ None \notin Assignments \union Systems /\ None \notin [employee : Employees, used : BOOLEAN]

Idle == [at |-> "idle", token |-> None, fingerprint |-> None, employee |-> None,
         status |-> None, locked |-> {}]

InitEmployment ==
  /\ status = [e \in Employees |-> "active"]
  /\ tokens = [t \in Tokens |-> None]
  /\ cards = {} /\ contracts = {} /\ assignments = {} /\ versions = {} /\ systems = {}
  /\ txn = [c \in Clients |-> Idle]
  /\ begun = 0

\* An operation that begins.
Operation == begun < MaxOperations /\ begun' = begun + 1

Overlaps(p, q) == p.from <= q.to /\ q.from <= p.to
-----------------------------------------------------------------------------
(* Cards (card/service.ts) and the status of an employee (organization/service.ts). *)

CreateRegistration(t, e) ==
  /\ Operation /\ tokens[t] = None
  /\ tokens' = [tokens EXCEPT ![t] = [employee |-> e, used |-> FALSE]]
  /\ UNCHANGED <<status, cards, txn, settingVars>>

Go(c, next) == txn' = [txn EXCEPT ![c] = next]

Abort(c) == Go(c, Idle) /\ UNCHANGED <<status, tokens, cards>>

Elsewhere(c) == {txn[d] : d \in Clients \ {c}}

\* Finds the token; what it finds decides only whether to go on.
RegisterCard(c, t, f) ==
  /\ txn[c] = Idle /\ tokens[t] # None /\ ~tokens[t].used
  /\ Operation
  /\ Go(c, [Idle EXCEPT !.at = "mark", !.token = t, !.fingerprint = f,
                        !.employee = tokens[t].employee])
  /\ UNCHANGED <<status, tokens, cards, settingVars>>

\* Mutant: the update has no condition on what is not used yet.
AvailableAsRead(t) == TRUE

Available(t) == ~tokens[t].used

MarkTokenUsed(c) ==
  LET t == txn[c].token IN
  /\ txn[c].at = "mark"
  /\ \A other \in Elsewhere(c) : other.token = t => other.at = "mark"
  /\ IF Available(t)
     THEN Go(c, [txn[c] EXCEPT !.at = "insert"]) /\ UNCHANGED <<status, tokens, cards>>
     ELSE Abort(c)

Active(f) == {card \in cards : card.fingerprint = f /\ card.state = "active"}

\* The index of active fingerprints waits for an insert or a revocation that may yet fail.
InsertCredential(c) ==
  LET f == txn[c].fingerprint IN
  /\ txn[c].at = "insert"
  /\ \A other \in Elsewhere(c) :
       /\ other.fingerprint = f => other.at # "registered"
       /\ other.locked \intersect Active(f) = {}
  /\ IF Active(f) = {}
     THEN Go(c, [txn[c] EXCEPT !.at = "registered"]) /\ UNCHANGED <<status, tokens, cards>>
     ELSE Abort(c)

CommitRegistration(c) ==
  LET t == txn[c].token IN
  /\ txn[c].at = "registered"
  /\ tokens' = [tokens EXCEPT ![t].used = TRUE]
  /\ cards' = cards \union {[token |-> t, fingerprint |-> txn[c].fingerprint,
                             employee |-> txn[c].employee, state |-> "active"]}
  /\ Go(c, Idle)
  /\ UNCHANGED status

Unlocked(c, card) == \A other \in Elsewhere(c) : card \notin other.locked

\* Reads the card, which is refused when it is revoked, and then writes it whatever it is.
RevokeCredential(c, card) ==
  /\ txn[c] = Idle /\ card.state = "active"
  /\ Operation
  /\ Go(c, [Idle EXCEPT !.at = "revoke", !.token = card.token, !.fingerprint = card.fingerprint])
  /\ UNCHANGED <<status, tokens, cards, settingVars>>

WriteRevocation(c) ==
  /\ txn[c].at = "revoke"
  /\ \E card \in cards :
       /\ card.token = txn[c].token /\ card.fingerprint = txn[c].fingerprint
       /\ Unlocked(c, card)
       /\ Go(c, [Idle EXCEPT !.at = "revoked", !.locked = {card}])
  /\ UNCHANGED <<status, tokens, cards>>

\* Changing a status locks the row of the employee until the end.
ChangeEmployeeStatus(c, e, to) ==
  /\ txn[c] = Idle
  /\ \A other \in Elsewhere(c) : other.status = None \/ other.employee # e
  /\ Operation
  /\ Go(c, [Idle EXCEPT !.at = "cards", !.employee = e, !.status = to])
  /\ UNCHANGED <<status, tokens, cards, settingVars>>

\* Only a retirement revokes cards: those that are active when it gets their rows.
RevokeCardsOfEmployee(c) ==
  LET hers == {card \in cards : card.employee = txn[c].employee /\ card.state = "active"} IN
  /\ txn[c].at = "cards"
  /\ txn[c].status = "retired" => \A card \in hers : Unlocked(c, card)
  /\ Go(c, [txn[c] EXCEPT !.at = "revoked",
                          !.locked = IF txn[c].status = "retired" THEN hers ELSE {}])
  /\ UNCHANGED <<status, tokens, cards>>

CommitRevocation(c) ==
  /\ txn[c].at = "revoked"
  /\ cards' = {IF card \in txn[c].locked THEN [card EXCEPT !.state = "revoked"] ELSE card
               : card \in cards}
  /\ status' = IF txn[c].status = None THEN status
               ELSE [status EXCEPT ![txn[c].employee] = txn[c].status]
  /\ Go(c, Idle)
  /\ UNCHANGED tokens

\* A token that has lapsed, a failed statement or the end of the process.
Rollback(c) == txn[c] # Idle /\ Abort(c)

CardStep(c) ==
  /\ \/ MarkTokenUsed(c) \/ InsertCredential(c) \/ CommitRegistration(c)
     \/ WriteRevocation(c) \/ RevokeCardsOfEmployee(c) \/ CommitRevocation(c) \/ Rollback(c)
  /\ UNCHANGED <<settingVars, begun>>
-----------------------------------------------------------------------------
(* Contracts, assignments, rules and labor systems. *)

CreateContract(contract) ==
  /\ Operation /\ contract \notin contracts /\ contract.from <= contract.to
  /\ contracts' = contracts \union {contract}
  /\ UNCHANGED <<cardVars, assignments, versions, systems>>

\* Whether the table takes an assignment beside others: no two of an employee overlap.
Fits(assignment, others) ==
  \A a \in others : a.employee = assignment.employee => ~Overlaps(a, assignment)

\* The contract names the organizations, and its employer must be that of the employee.
\* The dates of the contract are not looked at.
CreateAssignment(e, contract, term) ==
  LET new == [employee |-> e, contract |-> contract, from |-> term.from, to |-> term.to] IN
  /\ Operation /\ contract \in contracts /\ contract.employer = EmployerOf[e]
  /\ Fits(new, assignments)
  /\ assignments' = assignments \union {new}
  /\ UNCHANGED <<cardVars, contracts, versions, systems>>

\* The end may also be moved to a later date.
EndAssignment(assignment, endsOn) ==
  LET ended == [assignment EXCEPT !.to = endsOn] IN
  /\ Operation /\ assignment.from <= endsOn
  /\ Fits(ended, assignments \ {assignment})
  /\ assignments' = (assignments \ {assignment}) \union {ended}
  /\ UNCHANGED <<cardVars, contracts, versions, systems>>

CreateCalculationRuleVersion(version) ==
  /\ Operation /\ \A v \in versions : v.effectiveFrom # version.effectiveFrom
  /\ versions' = versions \union {version}
  /\ UNCHANGED <<cardVars, contracts, assignments, systems>>

AssignLaborSystem(system) ==
  /\ Operation /\ system.from <= system.to /\ \A s \in systems : ~Overlaps(s, system)
  /\ systems' = systems \union {system}
  /\ UNCHANGED <<cardVars, contracts, assignments, versions>>

EndLaborSystemAssignment(system, effectiveTo) ==
  LET ended == [system EXCEPT !.to = effectiveTo] IN
  /\ Operation /\ system.from <= effectiveTo
  /\ \A s \in systems \ {system} : ~Overlaps(s, ended)
  /\ systems' = (systems \ {system}) \union {ended}
  /\ UNCHANGED <<cardVars, contracts, assignments, versions>>

Begin ==
  \/ \E t \in Tokens, e \in Employees : CreateRegistration(t, e)
  \/ \E c \in Clients, t \in Tokens, f \in Fingerprints : RegisterCard(c, t, f)
  \/ \E c \in Clients, card \in cards : RevokeCredential(c, card)
  \/ \E c \in Clients, e \in Employees, to \in Statuses : ChangeEmployeeStatus(c, e, to)
  \/ \E contract \in ContractsOffered : CreateContract(contract)
  \/ \E e \in Employees, contract \in contracts, term \in Terms :
       CreateAssignment(e, contract, term)
  \/ \E assignment \in assignments, endsOn \in Dates : EndAssignment(assignment, endsOn)
  \/ \E version \in VersionsOffered : CreateCalculationRuleVersion(version)
  \/ \E system \in SystemsOffered : AssignLaborSystem(system)
  \/ \E system \in systems, effectiveTo \in Dates : EndLaborSystemAssignment(system, effectiveTo)

NextEmployment == Begin \/ \E c \in Clients : CardStep(c)

EmploymentSpec == InitEmployment /\ [][NextEmployment]_employmentVars
-----------------------------------------------------------------------------
(***************************************************************************)
(* Properties.                                                             *)
(***************************************************************************)
EmploymentTypeOK ==
  /\ status \in [Employees -> Statuses]
  /\ \A t \in Tokens : tokens[t] # None => tokens[t].employee \in Employees
  /\ \A card \in cards : card.state \in {"active", "revoked"}
  /\ \A a \in assignments : a.contract \in contracts /\ a.from <= a.to
  /\ begun \in 0 .. MaxOperations

\* A token is used up by registering one card, and only by that: not by two stations that
\* read it at the same time, and not by a registration that fails afterwards ("後続が失敗すれば、
\* この消費も一緒に取り消される", card/service.ts:229).
TokenRegistersOneCard ==
  \A t \in Tokens \ {u \in Tokens : tokens[u] = None} :
    Cardinality({card \in cards : card.token = t}) = IF tokens[t].used THEN 1 ELSE 0

\* A version took effect in the week of the first date, before or on that date.  Such a
\* range begins with a week that other ranges cut otherwise.
StartsInAChangedWeek(range) ==
  LET first == WeekStartOf(range.from, WeekStartsOnAt(versions, range.from))
  IN \E v \in versions : v.effectiveFrom \in first + 1 .. range.from

FollowOneAnother(weeks) == \A i \in 1 .. Len(weeks) - 1 : weeks[i + 1].from = weeks[i].to + 1

\* Whatever versions take effect on whatever dates, the weeks of a range follow one another
\* without a gap, hold each of its dates, and begin anew on each date on which a version
\* takes effect; and a date is in the same week whichever range asks for it ("週どうしが
\* 重ならず、範囲の全ての日がどれか 1 つの週へ入る", period.ts:76).
WeeksTile ==
  /\ \A range \in Ranges :
       LET weeks == WeeksBetween(versions, range) IN
       /\ FollowOneAnother(weeks)
       /\ Days(range) \subseteq weeks[1].from .. weeks[Len(weeks)].to
       /\ \A v \in versions :
            v.effectiveFrom \in Days(range) =>
              \E i \in DOMAIN weeks : weeks[i].from = v.effectiveFrom
  /\ LET seen == UNION {ToSet(WeeksBetween(versions, range)) :
                          range \in {r \in Ranges : ~StartsInAChangedWeek(r)}}
     IN \A w, x \in seen : w # x => Days(w) \intersect Days(x) = {}

\* The settlement periods of a labor system follow one another from the day on which it
\* starts, each as many months as it says also when a month is too short for that day; what
\* is answered for a range holds each of its dates on which the system is in effect in one
\* period, adds up all days of the period, also those outside of the range, and says of a
\* period that was cut that it was ("足りない合計は、正しい値の顔をして残る", period.ts:127).
SettlementsTile ==
  \A range \in Ranges :
    LET answer == Summaries(versions, systems, range) IN
    /\ \A entry \in answer : entry.days = Days(entry)
    /\ \A system \in Settled(systems) :
         LET periods == {entry \in answer : entry.system = system}
             Starts  == {SettlementStart(system, i) : i \in 0 .. Forever}
         IN
         /\ \A date \in Days(range) \intersect Days(system) :
              Cardinality({p \in periods : date \in Days(p)}) =
                IF date >= system.startsOn THEN 1 ELSE 0
         /\ \A p \in periods :
              /\ Days(p) \subseteq Days(system) /\ Days(p) \intersect Starts \subseteq {p.from}
              /\ ~p.partial => p.from \in Starts /\ p.to + 1 \in Starts

\* The two together: weeks and settlement periods tile the days.
PeriodsTile == WeeksTile /\ SettlementsTile
=============================================================================
