----------------------------- MODULE BrowserProofs -----------------------------
(***************************************************************************)
(* Proofs about what a browser and the server share: the sessions and      *)
(* login attempts (Sessions), the settings console (SettingsPages) and the *)
(* queue of punches (PunchQueue), for any users, sections, pages and       *)
(* requests.  No part cites a lemma of another.                            *)
(*                                                                         *)
(* Sessions: the argument is about what a request has read.  The end it is *)
(* to write into a session follows from the instant at which it            *)
(* authenticated, of which the clock is never far ahead; the number of the *)
(* password it set tells whether it is still the last change; and a count  *)
(* of failures that blocks a login already under way was written since     *)
(* that login began.                                                       *)
(*                                                                         *)
(* The console: a load that was begun last is for the choice made last, or *)
(* follows a save, and sees all that was reported before it began; and a   *)
(* filling that has a row is sent again only if its answer was lost, if    *)
(* the tables refuse it, or to replace that row.                           *)
(*                                                                         *)
(* The queue: what a page sends is the head of what it holds, what a page  *)
(* that knows the storage holds is what is stored, and what it could not   *)
(* parse it set aside.                                                     *)
(***************************************************************************)
EXTENDS Sessions, SettingsPages, PunchQueue, SequenceTheorems, TLAPS

-----------------------------------------------------------------------------
(***************************************************************************)
(* Sessions and login attempts.                                            *)
(***************************************************************************)

Counts == [failures : Nat, start : Int, until : Int, updated : Int]

Rows == [user : Users, issued : Nat, expires : Int, revoked : BOOLEAN, at : Nat, used : Int]

LoginSteps == {"source", "verify", "clear", "find account", "save account", "find source",
               "save source", "open"}

Logins == [op : {"login"}, step : LoginSteps, at : Nat, user : Users, source : Sources,
           row : Counts]

Kinds == {"use", "change", "others", "one", "all", "reset"}

Uses == [op : Kinds, step : Kinds \union {"renew", "revoke"}, at : Nat, session : SessionIds,
         target : Users \union SessionIds, number : Nat, expires : Int]

Changes == [keep : SessionIds \union {"none"}, done : BOOLEAN]

Shape ==
  /\ now \in Nat
  /\ hash \in [Users -> Nat]
  /\ sessions \in [SessionIds -> Rows \union {Unused}]
  /\ attempts \in [Keys -> Counts]
  /\ requests \in [Requests -> Logins \union Uses \union {Free}]
  /\ change \in [Users -> Changes]

\* Half of the idle lifetime is left after a use, or the session ends with its absolute one.
RowFits(row, t) ==
  /\ row.used <= t
  /\ row.expires <= AbsoluteEnd(row)
  /\ 2 * (row.expires - row.used) >= IdleLifetime \/ row.expires = AbsoluteEnd(row)

\* A session of an old password is revoked once the change is done, unless it is kept.
Ended(s, row, numbers, changes) ==
  ~row.revoked /\ row.at < numbers[row.user] =>
    ~changes[row.user].done \/ s = changes[row.user].keep

SessionsFit ==
  \A s \in SessionIds :
    sessions[s] \in Rows => RowFits(sessions[s], now) /\ Ended(s, sessions[s], hash, change)

\* A count whose block lies ahead of `t` was written since.
Noted(count, t) == count.until > t => count.updated >= t

LoginFits(q, counts) ==
  /\ Noted(counts[<<"account", q.user>>], q.at)
  /\ q.step # "source" => Noted(counts[<<"source", q.source>>], q.at)

Kept(q) == IF q.op = "change" THEN q.session ELSE "none"

UseFits(q, table, numbers, changes) ==
  /\ table[q.session] \in Rows
  /\ q.expires = RenewedExpiry(table[q.session], q.at)
  /\ q.at < AbsoluteEnd(table[q.session])
  /\ q.step = "renew" => q.at < table[q.session].expires
  /\ IF q.op = "one" THEN q.target \in SessionIds /\ table[q.target] \in Rows
     ELSE q.target \in Users
  /\ q.step \in {q.op, "renew"} \/ (q.step = "revoke" /\ q.op \in {"change", "reset"})
  /\ q.step = "revoke" =>
       /\ q.number <= numbers[q.target]
       /\ q.number = numbers[q.target] => changes[q.target].keep = Kept(q)

RequestFits(q, t, table, counts, numbers, changes) ==
  /\ q \in Logins \union Uses => q.at <= t /\ t - q.at <= SlowestRequest
  /\ q \in Logins => LoginFits(q, counts)
  /\ q \in Uses => UseFits(q, table, numbers, changes)

RequestsFit ==
  \A r \in Requests : RequestFits(requests[r], now, sessions, attempts, hash, change)

IInv == Shape /\ SessionsFit /\ RequestsFit
-----------------------------------------------------------------------------
(* What a request is, and where it stands.                                 *)

LEMMA LoginOrUse ==
  ASSUME NEW q \in Logins \union Uses \union {Free}, q.op # "none"
  PROVE  /\ q \in Logins \union Uses
         /\ q \in Logins <=> q.op = "login"
         /\ q \in Uses <=> q.op \in Kinds
BY DEF Logins, Uses, Free, Kinds

LEMMA FreeFits ==
  ASSUME NEW t, NEW table, NEW counts, NEW numbers, NEW changes
  PROVE  RequestFits(Free, t, table, counts, numbers, changes)
BY DEF RequestFits, Free, Logins, Uses, Kinds

LEMMA AtLogin ==
  ASSUME Shape, NEW r \in Requests, NEW step \in LoginSteps, At(r, step)
  PROVE  requests[r] \in Logins /\ requests[r] \notin Uses
<1>1. requests[r] \in Logins \union Uses
  BY LoginOrUse DEF Shape, At
<1>2. requests[r] \notin Uses
  BY DEF At, LoginSteps, Uses, Kinds
<1> QED
  BY <1>1, <1>2

LEMMA AtUse ==
  ASSUME Shape, NEW r \in Requests, NEW step \in Kinds \union {"renew", "revoke"}, At(r, step)
  PROVE  requests[r] \in Uses /\ requests[r] \notin Logins
<1>1. requests[r] \in Logins \union Uses
  BY LoginOrUse DEF Shape, At
<1>2. requests[r] \notin Logins
  BY DEF At, LoginSteps, Logins, Kinds
<1> QED
  BY <1>1, <1>2

\* A session that is not unused is a row.
LEMMA RowOrUnused ==
  ASSUME Shape, NEW s \in SessionIds
  PROVE  sessions[s] \in Rows <=> sessions[s] # Unused
BY DEF Shape, Rows, Unused, None

\* The writes of other requests leave a request what it has read.
\* What a request may find in a row that it has read before.
Follows(new, old, t) ==
  /\ new \in Rows /\ new.issued = old.issued
  /\ new.expires \in {old.expires, AbsoluteEnd(old)} \/ new.expires > t

LEMMA OthersFit ==
  ASSUME Shape, Shape', now' = now,
         NEW q \in Logins \union Uses \union {Free},
         RequestFits(q, now, sessions, attempts, hash, change),
         \A s \in SessionIds : sessions[s] \in Rows /\ sessions'[s] # sessions[s] =>
           Follows(sessions'[s], sessions[s], now),
         \A k \in Keys : \/ attempts'[k] = attempts[k]
                         \/ attempts'[k].until = None
                         \/ attempts'[k].updated = now,
         \A u \in Users : \/ hash'[u] = hash[u] /\ change'[u].keep = change[u].keep
                          \/ hash'[u] = hash[u] + 1
  PROVE  RequestFits(q, now', sessions', attempts', hash', change')
<1>1. ASSUME q \in Logins PROVE LoginFits(q, attempts')
  <2>1. <<"account", q.user>> \in Keys /\ <<"source", q.source>> \in Keys
    BY <1>1 DEF Logins, Keys
  <2>2. q.at \in Nat /\ q.at <= now /\ LoginFits(q, attempts)
    BY <1>1 DEF RequestFits, Logins
  <2>3. ASSUME NEW k \in Keys, Noted(attempts[k], q.at) PROVE Noted(attempts'[k], q.at)
    BY <2>2, <2>3 DEF Noted, None, Shape, Counts
  <2> QED
    BY <2>1, <2>2, <2>3 DEF LoginFits
<1>2. ASSUME q \in Uses PROVE UseFits(q, sessions', hash', change')
  <2>1. UseFits(q, sessions, hash, change) /\ q.session \in SessionIds /\ q.number \in Nat
    BY <1>2 DEF RequestFits, Uses
  <2>2. /\ sessions'[q.session] \in Rows
        /\ q.expires = RenewedExpiry(sessions'[q.session], q.at)
        /\ q.at < AbsoluteEnd(sessions'[q.session])
        /\ q.step = "renew" => q.at < sessions'[q.session].expires
    <3>1. /\ sessions[q.session] \in Rows /\ q.at \in Nat /\ now \in Nat /\ q.at <= now
          /\ q.at < AbsoluteEnd(sessions[q.session])
          /\ q.step = "renew" => q.at < sessions[q.session].expires
      BY <1>2, <2>1 DEF UseFits, RequestFits, Shape, Uses
    <3>2. CASE sessions'[q.session] = sessions[q.session]
      BY <2>1, <3>2 DEF UseFits
    <3>3. CASE sessions'[q.session] # sessions[q.session]
      <4>1. Follows(sessions'[q.session], sessions[q.session], now)
        BY <2>1, <3>1, <3>3
      <4>2. /\ sessions'[q.session] \in Rows
            /\ AbsoluteEnd(sessions'[q.session]) = AbsoluteEnd(sessions[q.session])
        BY <4>1 DEF Follows, AbsoluteEnd
      <4>3. q.step = "renew" => q.at < sessions'[q.session].expires
        BY <3>1, <4>1, <4>2 DEF Follows, Rows
      <4> QED
        BY <2>1, <4>2, <4>3 DEF UseFits, RenewedExpiry
    <3> QED
      BY <3>2, <3>3
  <2>3. q.op = "one" => q.target \in SessionIds /\ sessions'[q.target] \in Rows
    BY <2>1 DEF UseFits, Follows
  <2>4. q.step = "revoke" => q.op # "one" /\ q.target \in Users
    BY <1>2, <2>1 DEF UseFits, Uses, Kinds
  <2>5. q.step = "revoke" =>
          /\ q.number <= hash'[q.target]
          /\ q.number = hash'[q.target] => change'[q.target].keep = Kept(q)
    BY <2>1, <2>4 DEF UseFits, Shape
  <2>6. /\ q.op # "one" => q.target \in Users
        /\ q.step \in {q.op, "renew"} \/ (q.step = "revoke" /\ q.op \in {"change", "reset"})
    BY <2>1 DEF UseFits
  <2> QED
    BY <2>2, <2>3, <2>5, <2>6 DEF UseFits
<1> QED
  BY <1>1, <1>2 DEF RequestFits

LEMMA InitIInv == Init => IInv
<1> SUFFICES ASSUME Init PROVE IInv
  OBVIOUS
<1>1. Shape
  BY DEF Init, Shape, NoRow, None, Counts, Changes
<1>2. SessionsFit
  BY DEF Init, SessionsFit, Rows, Unused, None
<1>3. RequestsFit
  BY FreeFits DEF Init, RequestsFit
<1> QED
  BY <1>1, <1>2, <1>3 DEF IInv
-----------------------------------------------------------------------------
(* What each kind of write keeps.                                          *)

Revoked(row) == [row EXCEPT !.revoked = TRUE]

LEMMA Revoking ==
  ASSUME NEW row \in Rows
  PROVE  /\ Revoked(row) \in Rows
         /\ \A t : Follows(Revoked(row), row, t)
         /\ \A t : RowFits(row, t) => RowFits(Revoked(row), t)
         /\ \A s, numbers, changes : Ended(s, Revoked(row), numbers, changes)
<1> DEFINE new == Revoked(row)
<1>1. /\ new \in Rows /\ new.issued = row.issued /\ new.used = row.used
      /\ new.expires = row.expires /\ new.revoked = TRUE
  BY DEF Rows, Revoked
<1> HIDE DEF new
<1>2. \A t : RowFits(row, t) => RowFits(new, t)
  BY <1>1 DEF RowFits, AbsoluteEnd
<1>3. \A s, numbers, changes : Ended(s, new, numbers, changes)
  BY <1>1 DEF Ended
<1>4. \A t : Follows(new, row, t)
  BY <1>1 DEF Follows
<1> QED
  BY <1>1, <1>2, <1>3, <1>4 DEF new

\* A use that renews nothing finds half of the lifetime left, or the end of the absolute one.
LEMMA Using ==
  ASSUME NEW row \in Rows, NEW t \in Nat, RowFits(row, t), ActiveAt(row, t), ~ShouldRenew(row, t)
  PROVE  /\ [row EXCEPT !.used = t] \in Rows
         /\ Follows([row EXCEPT !.used = t], row, t)
         /\ RowFits([row EXCEPT !.used = t], t)
         /\ \A s, numbers, changes :
              Ended(s, row, numbers, changes) => Ended(s, [row EXCEPT !.used = t], numbers, changes)
<1> DEFINE new == [row EXCEPT !.used = t]
<1>1. /\ new \in Rows /\ new.issued = row.issued /\ new.expires = row.expires
      /\ new.user = row.user /\ new.at = row.at /\ new.revoked = row.revoked /\ new.used = t
  BY DEF Rows
<1> HIDE DEF new
<1>2. RowFits(new, t)
  BY <1>1, RequestAssumption DEF RowFits, ShouldRenew, RenewedExpiry, AbsoluteEnd, Rows
<1>3. \A s, numbers, changes : Ended(s, row, numbers, changes) => Ended(s, new, numbers, changes)
  BY <1>1 DEF Ended
<1>4. Follows(new, row, t)
  BY <1>1 DEF Follows
<1> QED
  BY <1>1, <1>2, <1>3, <1>4 DEF new

\* So does the write of a renewal, however late it is.
Rewritten(row, at) ==
  [Renewed(row, RenewedExpiry(row, at)) EXCEPT !.used = IF row.used > at THEN row.used ELSE at]

LEMMA Renewing ==
  ASSUME NEW row \in Rows, NEW t \in Nat, NEW at \in Nat, RowFits(row, t),
         at <= t, t - at <= SlowestRequest
  PROVE  /\ Rewritten(row, at) \in Rows /\ Follows(Rewritten(row, at), row, t)
         /\ RowFits(Rewritten(row, at), t)
         /\ \A s, numbers, changes :
              Ended(s, row, numbers, changes) => Ended(s, Rewritten(row, at), numbers, changes)
<1> DEFINE new == Rewritten(row, at)
<1>1. RenewedExpiry(row, at) \in Int
  BY RequestAssumption DEF RenewedExpiry, AbsoluteEnd, Rows
<1>2. /\ new \in Rows /\ new.issued = row.issued /\ new.expires = RenewedExpiry(row, at)
      /\ new.user = row.user /\ new.at = row.at /\ new.revoked = row.revoked
      /\ new.used = IF row.used > at THEN row.used ELSE at
  <2> DEFINE mid == Renewed(row, RenewedExpiry(row, at))
             last == IF row.used > at THEN row.used ELSE at
  <2>1. /\ mid \in Rows /\ mid.issued = row.issued /\ mid.expires = RenewedExpiry(row, at)
        /\ mid.user = row.user /\ mid.at = row.at /\ mid.revoked = row.revoked
        /\ mid.used = row.used
    BY <1>1 DEF Rows, Renewed
  <2>2. new = [mid EXCEPT !.used = last] /\ last \in Int
    BY <2>1 DEF Rows, Rewritten
  <2> HIDE DEF new
  <2> HIDE DEF mid, last
  <2>3. /\ new \in Rows /\ new.issued = mid.issued /\ new.expires = mid.expires
        /\ new.user = mid.user /\ new.at = mid.at /\ new.revoked = mid.revoked
        /\ new.used = last
    BY <2>1, <2>2 DEF Rows
  <2> QED
    BY <2>1, <2>3 DEF last
<1> HIDE DEF new
<1>3. new.used <= t /\ new.used <= at + SlowestRequest /\ new.used \in Int
  BY <1>2, RequestAssumption DEF RowFits, Rows
<1>4. RowFits(new, t)
  BY <1>2, <1>3, RequestAssumption DEF RowFits, RenewedExpiry, AbsoluteEnd, Rows
<1>5. \A s, numbers, changes : Ended(s, row, numbers, changes) => Ended(s, new, numbers, changes)
  BY <1>2 DEF Ended
<1>6. Follows(new, row, t)
  BY <1>2, RequestAssumption DEF Follows, RenewedExpiry, AbsoluteEnd, Rows
<1> QED
  BY <1>2, <1>4, <1>5, <1>6 DEF new

LEMMA SessionsStay ==
  ASSUME SessionsFit, UNCHANGED <<now, hash, sessions, change>>
  PROVE  SessionsFit'
BY DEF SessionsFit

\* What a request writes, apart from what the others have read.
LEMMA RequestsKeep ==
  ASSUME IInv, Shape', now' = now, NEW r \in Requests,
         \A q \in Requests \ {r} : requests'[q] = requests[q],
         RequestFits(requests'[r], now', sessions', attempts', hash', change'),
         \A s \in SessionIds : sessions[s] \in Rows /\ sessions'[s] # sessions[s] =>
           Follows(sessions'[s], sessions[s], now),
         \A k \in Keys : \/ attempts'[k] = attempts[k]
                         \/ attempts'[k].until = None
                         \/ attempts'[k].updated = now,
         \A u \in Users : \/ hash'[u] = hash[u] /\ change'[u].keep = change[u].keep
                          \/ hash'[u] = hash[u] + 1
  PROVE  RequestsFit'
<1> SUFFICES ASSUME NEW q \in Requests
             PROVE  RequestFits(requests'[q], now', sessions', attempts', hash', change')
  BY DEF RequestsFit
<1>1. CASE q = r
  BY <1>1
<1>2. CASE q # r
  <2>1. /\ requests'[q] = requests[q] /\ Shape
        /\ requests[q] \in Logins \union Uses \union {Free}
        /\ RequestFits(requests[q], now, sessions, attempts, hash, change)
    BY <1>2 DEF IInv, Shape, RequestsFit
  <2> QED
    BY <2>1, OthersFit
<1> QED
  BY <1>1, <1>2

LEMMA RequestsStay ==
  ASSUME IInv, Shape', UNCHANGED <<now, hash, requests, change>>,
         \A s \in SessionIds : sessions[s] \in Rows /\ sessions'[s] # sessions[s] =>
           Follows(sessions'[s], sessions[s], now),
         \A k \in Keys : attempts'[k] = attempts[k] \/ attempts'[k].until = None
  PROVE  RequestsFit'
<1> SUFFICES ASSUME NEW q \in Requests
             PROVE  RequestFits(requests'[q], now', sessions', attempts', hash', change')
  BY DEF RequestsFit
<1>1. /\ requests'[q] = requests[q] /\ Shape
      /\ requests[q] \in Logins \union Uses \union {Free}
      /\ RequestFits(requests[q], now, sessions, attempts, hash, change)
  BY DEF IInv, Shape, RequestsFit
<1> QED
  BY <1>1, OthersFit
-----------------------------------------------------------------------------
(* Every step keeps the invariant.                                         *)

LEMMA TickIInv == ASSUME IInv, Tick PROVE IInv'
<1>1. Shape'
  BY DEF IInv, Shape, Tick
<1>2. SessionsFit'
  <2> SUFFICES ASSUME NEW s \in SessionIds, sessions[s] \in Rows
               PROVE  RowFits(sessions[s], now + 1) /\ Ended(s, sessions[s], hash, change)
    BY DEF SessionsFit, Tick
  <2> QED
    BY DEF IInv, SessionsFit, RowFits, Rows, Shape
<1>3. RequestsFit'
  <2> SUFFICES ASSUME NEW r \in Requests
               PROVE  RequestFits(requests[r], now + 1, sessions, attempts, hash, change)
    BY DEF RequestsFit, Tick
  <2>1. RequestFits(requests[r], now, sessions, attempts, hash, change)
    BY DEF IInv, RequestsFit
  <2>2. requests[r] \in Logins \union Uses => requests[r] # Free /\ requests[r].at \in Nat
    BY DEF Logins, Uses, Free, Kinds
  <2> QED
    BY <2>1, <2>2, RequestAssumption DEF RequestFits, Tick, IInv, Shape
<1> QED
  BY <1>1, <1>2, <1>3 DEF IInv

LEMMA InterruptIInv == ASSUME IInv, NEW r \in Requests, Interrupt(r) PROVE IInv'
<1>1. Shape'
  BY DEF IInv, Shape, Interrupt, Finish
<1>2. requests'[r] = Free /\ \A q \in Requests \ {r} : requests'[q] = requests[q]
  BY DEF IInv, Shape, Interrupt, Finish
<1>3. RequestsFit'
  BY <1>1, <1>2, FreeFits, RequestsKeep DEF Interrupt
<1> QED
  BY <1>1, <1>3, SessionsStay DEF IInv, Interrupt
\* A login that goes on keeps what it is about.
LEMMA LoginGoes ==
  ASSUME Shape, NEW r \in Requests, requests[r] \in Logins, NEW step \in LoginSteps, Goto(r, step)
  PROVE  /\ requests'[r] \in Logins /\ requests'[r].at = requests[r].at
         /\ requests'[r].user = requests[r].user /\ requests'[r].source = requests[r].source
         /\ requests'[r].step = step
         /\ \A q \in Requests \ {r} : requests'[q] = requests[q]
         /\ requests' \in [Requests -> Logins \union Uses \union {Free}]
<1> DEFINE new == [requests[r] EXCEPT !.step = step]
<1>1. /\ new \in Logins /\ new.at = requests[r].at /\ new.step = step
      /\ new.user = requests[r].user /\ new.source = requests[r].source
  BY DEF Logins
<1>2. requests' = [requests EXCEPT ![r] = new]
  BY DEF Goto
<1> HIDE DEF new
<1>3. /\ requests'[r] = new /\ \A q \in Requests \ {r} : requests'[q] = requests[q]
      /\ requests' \in [Requests -> Logins \union Uses \union {Free}]
  BY <1>1, <1>2 DEF Shape
<1> QED
  BY <1>1, <1>3

LEMMA LoginKeys ==
  ASSUME NEW r \in Requests, requests[r] \in Logins, NEW scope \in Scopes
  PROVE  /\ KeyOf(r, scope) \in Keys
         /\ KeyOf(r, "account") = <<"account", requests[r].user>>
         /\ KeyOf(r, "source") = <<"source", requests[r].source>>
         /\ KeyOf(r, scope) = <<"account", requests[r].user>>
              \/ KeyOf(r, scope) = <<"source", requests[r].source>>
BY DEF KeyOf, Keys, Logins, Scopes

\* The account is looked at when the login begins,
LEMMA BeginLoginIInv ==
  ASSUME IInv, NEW r \in Requests, NEW u \in Users, NEW source \in Sources, BeginLogin(r, u, source)
  PROVE  IInv'
<1> DEFINE new == [op |-> "login", step |-> "source", at |-> now, user |-> u, source |-> source,
                   row |-> NoRow]
<1>1. new \in Logins /\ now \in Nat
  <2>1. NoRow \in Counts
    BY DEF Counts, NoRow, None
  <2> QED
    BY <2>1 DEF Logins, LoginSteps, IInv, Shape
<1>2. requests' = [requests EXCEPT ![r] = new]
  BY DEF BeginLogin
<1>3. RequestFits(new, now, sessions, attempts, hash, change)
  <2>1. Noted(attempts[<<"account", u>>], now)
    BY <1>1 DEF BeginLogin, BlockedAt, Noted, None, IInv, Shape, Counts, Keys
  <2>2. LoginFits(new, attempts)
    BY <2>1 DEF LoginFits
  <2>3. new \notin Uses
    BY DEF Uses, Kinds
  <2>4. new.at = now
    OBVIOUS
  <2> HIDE DEF new
  <2> QED
    BY <1>1, <2>2, <2>3, <2>4, RequestAssumption DEF RequestFits
<1> HIDE DEF new
<1>4. requests'[r] = new /\ \A q \in Requests \ {r} : requests'[q] = requests[q]
  BY <1>2 DEF IInv, Shape
<1>5. Shape'
  BY <1>1, <1>2 DEF IInv, Shape, BeginLogin
<1>6. RequestsFit'
  BY <1>3, <1>4, <1>5, RequestsKeep DEF BeginLogin
<1> QED
  BY <1>5, <1>6, SessionsStay DEF IInv, BeginLogin

\* and the source before the password.
LEMMA CheckSourceIInv == ASSUME IInv, NEW r \in Requests, CheckSource(r) PROVE IInv'
<1>1. requests[r] \in Logins /\ requests[r] \notin Uses
  BY AtLogin DEF CheckSource, IInv, LoginSteps
<1>2. RequestFits(requests[r], now, sessions, attempts, hash, change)
  BY DEF IInv, RequestsFit
<1>3. CASE BlockedAt(attempts[KeyOf(r, "source")], requests[r].at)
  <2>1. requests[r] # Free
    BY DEF CheckSource, At, Free
  <2>2. Interrupt(r)
    BY <1>3, <2>1 DEF CheckSource, Interrupt
  <2> QED
    BY <2>2, InterruptIInv
<1>4. CASE ~BlockedAt(attempts[KeyOf(r, "source")], requests[r].at)
  <2>1. Goto(r, "verify")
    BY <1>4 DEF CheckSource
  <2>2. /\ requests'[r] \in Logins /\ requests'[r].at = requests[r].at
        /\ requests'[r].user = requests[r].user /\ requests'[r].source = requests[r].source
        /\ \A q \in Requests \ {r} : requests'[q] = requests[q]
        /\ requests' \in [Requests -> Logins \union Uses \union {Free}]
    BY <1>1, <2>1, LoginGoes DEF IInv, LoginSteps
  <2>3. Shape'
    BY <2>2 DEF IInv, Shape, CheckSource
  <2>4. <<"source", requests[r].source>> \in Keys /\ requests[r].at \in Nat
    BY <1>1 DEF Logins, Keys
  <2>5. Noted(attempts[<<"source", requests[r].source>>], requests[r].at)
    BY <1>1, <1>4, <2>4, LoginKeys DEF BlockedAt, Noted, None, IInv, Shape, Counts, Scopes
  <2>6. LoginFits(requests'[r], attempts)
    BY <1>1, <1>2, <2>2, <2>5 DEF LoginFits, RequestFits
  <2>7. requests'[r] \notin Uses
    BY <2>2 DEF Logins, Uses, Kinds
  <2>8. RequestFits(requests'[r], now, sessions, attempts, hash, change)
    BY <1>1, <1>2, <2>2, <2>6, <2>7 DEF RequestFits
  <2>9. RequestsFit'
    BY <2>2, <2>3, <2>8, RequestsKeep DEF CheckSource
  <2> QED
    BY <2>3, <2>9, SessionsStay DEF IInv, CheckSource
<1> QED
  BY <1>3, <1>4

\* A login past these looks only goes on, and what it writes is dated now.
LEMMA LoginIInv ==
  ASSUME IInv, NEW r \in Requests, requests[r] \in Logins, requests[r].step # "source",
         UNCHANGED <<now, hash, sessions, change>>,
         Shape',
         requests'[r] \in Logins \union {Free},
         requests'[r] # Free =>
           /\ requests'[r].at = requests[r].at
           /\ requests'[r].user = requests[r].user /\ requests'[r].source = requests[r].source,
         \A q \in Requests \ {r} : requests'[q] = requests[q],
         \A k \in Keys : \/ attempts'[k] = attempts[k]
                         \/ attempts'[k].until = None
                         \/ attempts'[k].updated = now
  PROVE  IInv'
<1>1. RequestFits(requests[r], now, sessions, attempts, hash, change)
  BY DEF IInv, RequestsFit
<1>2. RequestFits(requests[r], now', sessions', attempts', hash', change')
  BY <1>1, OthersFit DEF IInv
<1>3. requests'[r] # Free => RequestFits(requests'[r], now', sessions', attempts', hash', change')
  BY <1>2 DEF RequestFits, LoginFits, Logins, Uses, Kinds
<1>4. RequestFits(requests'[r], now', sessions', attempts', hash', change')
  BY <1>3, FreeFits
<1>5. RequestsFit'
  BY <1>4, RequestsKeep
<1> QED
  BY <1>5, SessionsStay DEF IInv
LEMMA FinishGoes ==
  ASSUME Shape, NEW r \in Requests, Finish(r)
  PROVE  /\ requests'[r] = Free /\ \A q \in Requests \ {r} : requests'[q] = requests[q]
         /\ requests' \in [Requests -> Logins \union Uses \union {Free}]
BY DEF Shape, Finish

LEMMA VerifyIInv == ASSUME IInv, NEW r \in Requests, Verify(r) PROVE IInv'
<1>1. requests[r] \in Logins /\ requests[r].step # "source"
  BY AtLogin DEF Verify, IInv, LoginSteps, At
<1>2. PICK step \in {"clear", "find account"} : Goto(r, step)
  BY DEF Verify
<1>3. step \in LoginSteps
  BY DEF LoginSteps
<1>4. Shape'
  BY <1>1, <1>2, <1>3, LoginGoes DEF IInv, Shape, Verify
<1> QED
  BY <1>1, <1>2, <1>3, <1>4, LoginGoes, LoginIInv DEF Verify, IInv

LEMMA ScopeSteps ==
  ASSUME NEW scope \in Scopes
  PROVE  /\ FindStep[scope] \in LoginSteps \ {"source"}
         /\ SaveStep[scope] \in LoginSteps \ {"source"}
<1>1. FindStep["account"] = "find account" /\ FindStep["source"] = "find source"
  BY DEF FindStep
<1>2. SaveStep["account"] = "save account" /\ SaveStep["source"] = "save source"
  BY DEF SaveStep
<1> QED
  BY <1>1, <1>2 DEF Scopes, LoginSteps

LEMMA FindAttemptsIInv ==
  ASSUME IInv, NEW r \in Requests, NEW scope \in Scopes, FindAttempts(r, scope) PROVE IInv'
<1> DEFINE step == SaveStep[scope]
           count == attempts[KeyOf(r, scope)]
           new == [requests[r] EXCEPT !.step = step, !.row = count]
<1>1. requests[r] \in Logins /\ requests[r].step # "source" /\ step \in LoginSteps
  BY AtLogin, ScopeSteps DEF FindAttempts, IInv, At
<1>2. count \in Counts
  BY <1>1, LoginKeys DEF IInv, Shape
<1>3. requests' = [requests EXCEPT ![r] = new]
  BY DEF FindAttempts
<1> HIDE DEF step, count
<1>4. /\ new \in Logins /\ new.at = requests[r].at
      /\ new.user = requests[r].user /\ new.source = requests[r].source
  BY <1>1, <1>2 DEF Logins
<1> HIDE DEF new
<1>5. requests'[r] = new /\ \A q \in Requests \ {r} : requests'[q] = requests[q]
  BY <1>3 DEF IInv, Shape
<1>6. Shape'
  BY <1>3, <1>4 DEF IInv, Shape, FindAttempts
<1> QED
  BY <1>1, <1>4, <1>5, <1>6, LoginIInv DEF FindAttempts

LEMMA SaveAttemptsIInv ==
  ASSUME IInv, NEW r \in Requests, NEW scope \in Scopes, SaveAttempts(r, scope) PROVE IInv'
<1> DEFINE key == KeyOf(r, scope)
           count == AfterFailure(requests[r].row, requests[r].at, scope)
<1>1. requests[r] \in Logins /\ requests[r].step # "source"
  BY AtLogin, ScopeSteps DEF SaveAttempts, IInv, At
<1>2. key \in Keys
  BY <1>1, LoginKeys
<1>3. count \in Counts /\ count.updated = now
  BY <1>1, RetentionAssumption DEF AfterFailure, Logins, Counts, None, IInv, Shape
<1>4. attempts' = [attempts EXCEPT ![key] = count]
  BY DEF SaveAttempts
<1> HIDE DEF key, count
<1>5. attempts' \in [Keys -> Counts]
  BY <1>2, <1>3, <1>4 DEF IInv, Shape
<1>6. \A k \in Keys : attempts'[k] = attempts[k] \/ attempts'[k].updated = now
  BY <1>2, <1>3, <1>4 DEF IInv, Shape
<1>7. CASE scope = "account"
  <2>1. Goto(r, "find source") /\ "find source" \in LoginSteps
    BY <1>7 DEF SaveAttempts, LoginSteps
  <2>2. Shape'
    BY <1>1, <1>5, <2>1, LoginGoes DEF IInv, Shape, SaveAttempts
  <2> QED
    BY <1>1, <1>6, <2>1, <2>2, LoginGoes, LoginIInv DEF SaveAttempts, IInv
<1>8. CASE scope # "account"
  <2>1. Finish(r)
    BY <1>8 DEF SaveAttempts
  <2>2. Shape'
    BY <1>5, <2>1, FinishGoes DEF IInv, Shape, SaveAttempts
  <2> QED
    BY <1>1, <1>6, <2>1, <2>2, FinishGoes, LoginIInv DEF SaveAttempts, IInv
<1> QED
  BY <1>7, <1>8

LEMMA ClearAttemptsIInv == ASSUME IInv, NEW r \in Requests, ClearAttempts(r) PROVE IInv'
<1> DEFINE key == KeyOf(r, "account")
<1>1. requests[r] \in Logins /\ requests[r].step # "source"
  BY AtLogin DEF ClearAttempts, IInv, LoginSteps, At
<1>2. NoRow \in Counts /\ NoRow.until = None
  BY DEF NoRow, Counts, None
<1>3. attempts' = [attempts EXCEPT ![key] = NoRow]
  BY DEF ClearAttempts
<1> HIDE DEF key
<1>4. attempts' \in [Keys -> Counts]
  BY <1>2, <1>3 DEF IInv, Shape
<1>5. \A k \in Keys : attempts'[k] = attempts[k] \/ attempts'[k].until = None
  BY <1>2, <1>3 DEF IInv, Shape
<1>6. Goto(r, "open") /\ "open" \in LoginSteps
  BY DEF ClearAttempts, LoginSteps
<1>7. Shape'
  BY <1>1, <1>4, <1>6, LoginGoes DEF IInv, Shape, ClearAttempts
<1> QED
  BY <1>1, <1>5, <1>6, <1>7, LoginGoes, LoginIInv DEF ClearAttempts, IInv

LEMMA PurgeIInv == ASSUME IInv, Purge PROVE IInv'
<1>1. NoRow \in Counts /\ NoRow.until = None
  BY DEF NoRow, Counts, None
<1>2. Shape'
  BY <1>1 DEF IInv, Shape, Purge
<1>3. \A k \in Keys : attempts'[k] = attempts[k] \/ attempts'[k].until = None
  BY <1>1 DEF Purge
<1>4. RequestsFit'
  BY <1>2, <1>3, RequestsStay DEF Purge
<1> QED
  BY <1>2, <1>4, SessionsStay DEF IInv, Purge

\* A session is opened with the password of the moment.
LEMMA OpenSessionIInv ==
  ASSUME IInv, NEW r \in Requests, NEW s \in SessionIds, OpenSession(r, s) PROVE IInv'
<1> DEFINE u == requests[r].user
           new == [user |-> u, issued |-> now, expires |-> now + IdleLifetime,
                   revoked |-> FALSE, at |-> hash[u], used |-> now]
<1>1. requests[r] \in Logins /\ requests[r].step # "source"
  BY AtLogin DEF OpenSession, IInv, LoginSteps, At
<1>2. u \in Users /\ now \in Nat /\ hash[u] \in Nat
  BY <1>1 DEF Logins, IInv, Shape
<1>3. new \in Rows /\ new.user = u /\ new.at = hash[u] /\ RowFits(new, now)
  BY <1>2, RequestAssumption DEF Rows, RowFits, AbsoluteEnd
<1>4. sessions' = [sessions EXCEPT ![s] = new]
  BY DEF OpenSession
<1> HIDE DEF u, new
<1>5. sessions'[s] = new /\ \A x \in SessionIds \ {s} : sessions'[x] = sessions[x]
  BY <1>4 DEF IInv, Shape
<1>6. sessions[s] \notin Rows
  BY RowOrUnused DEF OpenSession, IInv
<1>7. Shape'
  <2>1. sessions' \in [SessionIds -> Rows \union {Unused}]
    BY <1>3, <1>4 DEF IInv, Shape
  <2> QED
    BY <2>1, FinishGoes DEF OpenSession, IInv, Shape
<1>8. SessionsFit'
  <2>1. Ended(s, new, hash, change)
    BY <1>2, <1>3 DEF Ended
  <2>2. ASSUME NEW x \in SessionIds, sessions'[x] \in Rows
        PROVE  RowFits(sessions'[x], now) /\ Ended(x, sessions'[x], hash, change)
    <3>1. CASE x = s
      BY <1>3, <1>5, <2>1, <3>1
    <3>2. CASE x # s
      BY <1>5, <2>2, <3>2 DEF IInv, SessionsFit
    <3> QED
      BY <3>1, <3>2
  <2> QED
    BY <2>2 DEF SessionsFit, OpenSession
<1>9. RequestsFit'
  <2>1. \A x \in SessionIds : sessions[x] \in Rows => sessions'[x] = sessions[x]
    BY <1>5, <1>6
  <2>2. Finish(r) /\ UNCHANGED <<now, hash, attempts, change>>
    BY DEF OpenSession
  <2>3. requests'[r] = Free /\ \A q \in Requests \ {r} : requests'[q] = requests[q]
    BY <2>2, FinishGoes DEF IInv
  <2> QED
    BY <1>7, <2>1, <2>2, <2>3, FreeFits, RequestsKeep
<1> QED
  BY <1>7, <1>8, <1>9 DEF IInv
-----------------------------------------------------------------------------
(* Requests with a session.                                                *)

\* One row of the table is written.
LEMMA RowWritten ==
  ASSUME IInv, NEW s \in SessionIds, sessions[s] \in Rows, NEW new \in Rows,
         sessions' = [sessions EXCEPT ![s] = new], UNCHANGED <<now, hash, change>>,
         Follows(new, sessions[s], now), RowFits(new, now), Ended(s, new, hash, change)
  PROVE  /\ sessions' \in [SessionIds -> Rows \union {Unused}]
         /\ SessionsFit'
         /\ \A x \in SessionIds : sessions[x] \in Rows /\ sessions'[x] # sessions[x] =>
              Follows(sessions'[x], sessions[x], now)
<1>1. sessions'[s] = new /\ \A x \in SessionIds \ {s} : sessions'[x] = sessions[x]
  BY DEF IInv, Shape
<1>2. sessions' \in [SessionIds -> Rows \union {Unused}]
  BY DEF IInv, Shape
<1>3. ASSUME NEW x \in SessionIds, sessions'[x] \in Rows
      PROVE  RowFits(sessions'[x], now) /\ Ended(x, sessions'[x], hash, change)
  <2>1. CASE x = s
    BY <1>1, <2>1
  <2>2. CASE x # s
    BY <1>1, <1>3, <2>2 DEF IInv, SessionsFit
  <2> QED
    BY <2>1, <2>2
<1> QED
  BY <1>1, <1>2, <1>3 DEF SessionsFit

LEMMA RowFound ==
  ASSUME IInv, NEW s \in SessionIds, sessions[s] \in Rows
  PROVE  /\ now \in Nat /\ RowFits(sessions[s], now) /\ Ended(s, sessions[s], hash, change)
BY DEF IInv, Shape, SessionsFit

LEMMA UseFound ==
  ASSUME IInv, NEW r \in Requests, requests[r] \in Uses
  PROVE  /\ UseFits(requests[r], sessions, hash, change)
         /\ requests[r].at \in Nat /\ requests[r].at <= now
         /\ now - requests[r].at <= SlowestRequest
         /\ requests[r].session \in SessionIds /\ sessions[requests[r].session] \in Rows
BY DEF IInv, RequestsFit, RequestFits, UseFits, Uses

LEMMA JustUseIInv == ASSUME IInv, NEW s \in SessionIds, JustUse(s) PROVE IInv'
<1> DEFINE new == [sessions[s] EXCEPT !.used = now]
<1>1. sessions[s] \in Rows
  BY RowOrUnused DEF JustUse, ActiveAt, IInv
<1>2. sessions' = [sessions EXCEPT ![s] = new]
  BY DEF JustUse
<1>3. /\ new \in Rows /\ Follows(new, sessions[s], now) /\ RowFits(new, now)
      /\ Ended(s, new, hash, change)
  BY <1>1, RowFound, Using DEF JustUse
<1> HIDE DEF new
<1>4. /\ sessions' \in [SessionIds -> Rows \union {Unused}]
      /\ SessionsFit'
      /\ \A x \in SessionIds : sessions[x] \in Rows /\ sessions'[x] # sessions[x] =>
           Follows(sessions'[x], sessions[x], now)
  BY <1>1, <1>2, <1>3, RowWritten DEF JustUse
<1>5. Shape'
  BY <1>4 DEF IInv, Shape, JustUse
<1>6. RequestsFit'
  BY <1>4, <1>5, RequestsStay DEF JustUse
<1> QED
  BY <1>4, <1>5, <1>6 DEF IInv

\* A request has read the row it renews, and the user of a row that is there.
LEMMA AuthenticateIInv ==
  ASSUME IInv, NEW r \in Requests, NEW s \in SessionIds,
         NEW w \in Wishes(sessions[s].user), Authenticate(r, s, w)
  PROVE  IInv'
<1> DEFINE renew == ShouldRenew(sessions[s], now)
           expires == RenewedExpiry(sessions[s], now)
           step == IF renew THEN "renew" ELSE w.op
           new == [op |-> w.op, step |-> step, at |-> now, session |-> s, target |-> w.target,
                   number |-> 0, expires |-> expires]
           used == [sessions[s] EXCEPT !.used = now]
<1>1. /\ sessions[s] \in Rows /\ now \in Nat /\ now < AbsoluteEnd(sessions[s])
      /\ now < sessions[s].expires
  BY RowOrUnused DEF Authenticate, ActiveAt, IInv, Shape
<1>2. /\ w.op \in Kinds
      /\ w.op = "one" => w.target \in SessionIds /\ sessions[w.target] \in Rows
      /\ w.op # "one" => w.target \in Users
  <2>1. sessions[s].user \in Users
    BY <1>1 DEF Rows
  <2> QED
    BY <2>1, RowOrUnused DEF Wishes, Kinds, IsOf, IInv
<1>3. expires \in Int
  BY <1>1, RequestAssumption DEF RenewedExpiry, AbsoluteEnd, Rows
<1>4. new \in Uses
  BY <1>1, <1>2, <1>3 DEF Uses
<1>5. /\ requests' = [requests EXCEPT ![r] = new]
      /\ sessions' = IF renew THEN sessions ELSE [sessions EXCEPT ![s] = used]
      /\ UNCHANGED <<now, hash, attempts, change>>
  BY DEF Authenticate
<1>6. /\ sessions' \in [SessionIds -> Rows \union {Unused}]
      /\ SessionsFit'
      /\ \A x \in SessionIds : sessions[x] \in Rows /\ sessions'[x] # sessions[x] =>
           Follows(sessions'[x], sessions[x], now)
  <2>1. CASE renew
    BY <1>5, <2>1, SessionsStay DEF IInv, Shape
  <2>2. CASE ~renew
    <3>1. /\ used \in Rows /\ Follows(used, sessions[s], now) /\ RowFits(used, now)
          /\ Ended(s, used, hash, change)
      BY <1>1, <2>2, RowFound, Using DEF Authenticate
    <3> HIDE DEF used
    <3> QED
      BY <1>1, <1>5, <2>2, <3>1, RowWritten
  <2> QED
    BY <2>1, <2>2
<1>7. RequestFits(new, now, sessions', attempts, hash, change)
  <2>1. new \notin Logins /\ step # "revoke" /\ step \in {w.op, "renew"}
    BY <1>2 DEF Logins, Kinds
  <2>2. /\ expires = RenewedExpiry(sessions'[s], now) /\ now < AbsoluteEnd(sessions'[s])
        /\ sessions'[s] \in Rows
    <3>1. CASE sessions'[s] = sessions[s]
      BY <1>1, <3>1
    <3>2. CASE sessions'[s] # sessions[s]
      BY <1>1, <1>6, <3>2 DEF RenewedExpiry, AbsoluteEnd, Follows
    <3> QED
      BY <3>1, <3>2
  <2>3. w.op = "one" => sessions'[w.target] \in Rows
    BY <1>2, <1>6 DEF Follows
  <2>5. step = "renew" => now < sessions'[s].expires
    BY <1>1, <1>2, <1>5 DEF Kinds
  <2> HIDE DEF step, expires
  <2>4. UseFits(new, sessions', hash, change)
    BY <1>2, <2>1, <2>2, <2>3, <2>5 DEF UseFits
  <2> QED
    BY <1>1, <2>1, <2>4, RequestAssumption DEF RequestFits
<1> HIDE DEF new, renew, used
<1>8. requests'[r] = new /\ \A q \in Requests \ {r} : requests'[q] = requests[q]
  BY <1>5 DEF IInv, Shape
<1>9. Shape'
  BY <1>4, <1>5, <1>6 DEF IInv, Shape
<1>10. RequestsFit'
  BY <1>5, <1>6, <1>7, <1>8, <1>9, RequestsKeep
<1> QED
  BY <1>6, <1>9, <1>10 DEF IInv

\* A request that goes on keeps what it has read.
LEMMA UseGoes ==
  ASSUME Shape, NEW r \in Requests, requests[r] \in Uses, Goto(r, requests[r].op)
  PROVE  /\ requests'[r] \in Uses /\ requests'[r].at = requests[r].at
         /\ requests'[r].op = requests[r].op /\ requests'[r].session = requests[r].session
         /\ requests'[r].target = requests[r].target /\ requests'[r].step = requests[r].op
         /\ requests'[r].number = requests[r].number
         /\ requests'[r].expires = requests[r].expires
         /\ \A q \in Requests \ {r} : requests'[q] = requests[q]
         /\ requests' \in [Requests -> Logins \union Uses \union {Free}]
<1> DEFINE op == requests[r].op
           new == [requests[r] EXCEPT !.step = op]
<1>1. op \in Kinds
  BY DEF Uses
<1>2. requests' = [requests EXCEPT ![r] = new]
  BY DEF Goto
<1> HIDE DEF op
<1>3. /\ new \in Uses /\ new.at = requests[r].at /\ new.op = requests[r].op
      /\ new.session = requests[r].session /\ new.target = requests[r].target
      /\ new.step = op /\ new.number = requests[r].number
      /\ new.expires = requests[r].expires
  BY <1>1 DEF Uses
<1> HIDE DEF new
<1>4. /\ requests'[r] = new /\ \A q \in Requests \ {r} : requests'[q] = requests[q]
      /\ requests' \in [Requests -> Logins \union Uses \union {Free}]
  BY <1>2, <1>3 DEF Shape
<1> QED
  BY <1>3, <1>4 DEF op

LEMMA RenewIInv == ASSUME IInv, NEW r \in Requests, Renew(r) PROVE IInv'
<1> DEFINE s == requests[r].session
           last == IF sessions[s].used > requests[r].at THEN sessions[s].used ELSE requests[r].at
           new == [Renewed(sessions[s], requests[r].expires) EXCEPT !.used = last]
<1>1. requests[r] \in Uses /\ requests[r] \notin Logins
  BY AtUse DEF Renew, IInv
<1>2. /\ s \in SessionIds /\ sessions[s] \in Rows
      /\ requests[r].expires = RenewedExpiry(sessions[s], requests[r].at)
      /\ requests[r].at \in Nat /\ requests[r].at <= now /\ now - requests[r].at <= SlowestRequest
  BY <1>1, UseFound DEF UseFits
<1>3. sessions' = [sessions EXCEPT ![s] = new] /\ UNCHANGED <<now, hash, attempts, change>>
  BY DEF Renew
<1>4. /\ new \in Rows /\ Follows(new, sessions[s], now) /\ RowFits(new, now)
      /\ Ended(s, new, hash, change)
  <2>1. now \in Nat /\ RowFits(sessions[s], now) /\ Ended(s, sessions[s], hash, change)
    BY <1>2, RowFound
  <2>2. new = Rewritten(sessions[s], requests[r].at)
    BY <1>2 DEF Rewritten
  <2> HIDE DEF new, last, s
  <2> QED
    BY <1>2, <2>1, <2>2, Renewing
<1> HIDE DEF new
<1>5. /\ sessions' \in [SessionIds -> Rows \union {Unused}]
      /\ SessionsFit'
      /\ \A x \in SessionIds : sessions[x] \in Rows /\ sessions'[x] # sessions[x] =>
           Follows(sessions'[x], sessions[x], now)
  BY <1>2, <1>3, <1>4, RowWritten
<1>6. CASE requests[r].op = "use"
  <2>1. Finish(r)
    BY <1>6 DEF Renew
  <2>2. requests'[r] = Free /\ \A q \in Requests \ {r} : requests'[q] = requests[q]
    BY <2>1, FinishGoes DEF IInv
  <2>3. Shape'
    BY <1>3, <1>5, <2>1, FinishGoes DEF IInv, Shape
  <2>4. RequestsFit'
    BY <1>3, <1>5, <2>2, <2>3, FreeFits, RequestsKeep
  <2> QED
    BY <1>5, <2>3, <2>4 DEF IInv
<1>7. CASE requests[r].op # "use"
  <2>1. Goto(r, requests[r].op)
    BY <1>7 DEF Renew
  <2>2. /\ requests'[r] \in Uses /\ requests'[r].at = requests[r].at
        /\ requests'[r].op = requests[r].op /\ requests'[r].session = s
        /\ requests'[r].target = requests[r].target /\ requests'[r].step = requests[r].op
        /\ requests'[r].number = requests[r].number
        /\ requests'[r].expires = requests[r].expires
        /\ \A q \in Requests \ {r} : requests'[q] = requests[q]
        /\ requests' \in [Requests -> Logins \union Uses \union {Free}]
    BY <1>1, <2>1, UseGoes DEF IInv
  <2>3. Shape'
    BY <1>3, <1>5, <2>2 DEF IInv, Shape
  <2>4. RequestFits(requests[r], now', sessions', attempts', hash', change')
    BY <1>1, <1>3, <1>5, <2>3, OthersFit DEF IInv, RequestsFit
  <2>5. RequestFits(requests'[r], now', sessions', attempts', hash', change')
    <3>1. requests'[r] \notin Logins /\ requests'[r].step # "revoke"
      BY <1>1, <2>2 DEF Uses, Logins, Kinds
    <3>2. UseFits(requests'[r], sessions', hash', change')
      BY <1>1, <2>2, <2>4, <3>1 DEF RequestFits, UseFits
    <3> QED
      BY <1>1, <2>2, <2>4, <3>1, <3>2 DEF RequestFits
  <2>6. RequestsFit'
    BY <1>3, <1>5, <2>2, <2>3, <2>5, RequestsKeep
  <2> QED
    BY <1>5, <2>3, <2>6 DEF IInv
<1> QED
  BY <1>6, <1>7
\* Whichever rows are revoked, the requests and what is said of the others stay.
LEMMA RevokedIInv ==
  ASSUME IInv, UNCHANGED <<now, hash, attempts>>,
         change' \in [Users -> Changes], \A u \in Users : change'[u].keep = change[u].keep,
         \A s \in SessionIds : sessions[s] \notin Rows => sessions'[s] = sessions[s],
         sessions' = [s \in SessionIds |-> sessions'[s]],
         \A s \in SessionIds : sessions[s] \in Rows =>
           \/ sessions'[s] = Revoked(sessions[s])
           \/ sessions'[s] = sessions[s] /\ Ended(s, sessions[s], hash, change'),
         \/ requests' = requests
         \/ \E r \in Requests : Finish(r)
  PROVE  IInv'
<1>1. ASSUME NEW s \in SessionIds, sessions[s] \in Rows
      PROVE  /\ sessions'[s] \in Rows /\ Follows(sessions'[s], sessions[s], now)
             /\ RowFits(sessions'[s], now) /\ Ended(s, sessions'[s], hash, change')
  <2>1. RowFits(sessions[s], now)
    BY <1>1, RowFound
  <2>2. CASE sessions'[s] = Revoked(sessions[s])
    BY <1>1, <2>1, <2>2, Revoking
  <2>3. CASE sessions'[s] = sessions[s] /\ Ended(s, sessions[s], hash, change')
    BY <1>1, <2>1, <2>3 DEF Follows
  <2> QED
    BY <1>1, <2>2, <2>3
<1>2. /\ sessions' \in [SessionIds -> Rows \union {Unused}]
      /\ \A s \in SessionIds : sessions'[s] \in Rows => sessions[s] \in Rows
  <2>1. ASSUME NEW s \in SessionIds PROVE sessions'[s] \in Rows \union {Unused}
    BY <1>1 DEF IInv, Shape
  <2>2. \A s \in SessionIds : sessions'[s] \in Rows => sessions[s] \in Rows
    OBVIOUS
  <2> QED
    BY <2>1, <2>2
<1>3. Shape'
  BY <1>2, FinishGoes DEF IInv, Shape
<1>4. SessionsFit'
  BY <1>1, <1>2 DEF SessionsFit
<1>5. RequestsFit'
  <2>1. CASE requests' = requests
    <3> SUFFICES ASSUME NEW q \in Requests
                 PROVE  RequestFits(requests[q], now', sessions', attempts', hash', change')
      BY <2>1 DEF RequestsFit
    <3> QED
      BY <1>1, <1>3, OthersFit DEF IInv, Shape, RequestsFit
  <2>2. ASSUME NEW r \in Requests, Finish(r) PROVE RequestsFit'
    BY <1>1, <1>3, <2>2, FinishGoes, FreeFits, RequestsKeep DEF IInv
  <2> QED
    BY <2>1, <2>2
<1> QED
  BY <1>3, <1>4, <1>5 DEF IInv

LEMMA RevokeIInv ==
  ASSUME IInv, NEW s \in SessionIds, sessions[s] \in Rows, Revoke(s),
         UNCHANGED <<now, hash, attempts, change>>,
         requests' = requests \/ \E r \in Requests : Finish(r)
  PROVE  IInv'
<1>1. /\ sessions' = [x \in SessionIds |-> sessions'[x]]
      /\ sessions'[s] = Revoked(sessions[s])
      /\ \A x \in SessionIds \ {s} : sessions'[x] = sessions[x]
  BY DEF Revoke, Revoked, IInv, Shape
<1>2. \A x \in SessionIds : sessions[x] \in Rows => Ended(x, sessions[x], hash, change)
  BY RowFound
<1>3. change' \in [Users -> Changes]
  BY DEF IInv, Shape
<1> QED
  BY <1>1, <1>2, <1>3, RevokedIInv

LEMMA LogoutIInv == ASSUME IInv, NEW s \in SessionIds, Logout(s) PROVE IInv'
BY RowOrUnused, RevokeIInv DEF Logout, IInv

LEMMA RevokeOneIInv == ASSUME IInv, NEW r \in Requests, RevokeOne(r) PROVE IInv'
<1>1. requests[r] \in Uses /\ requests[r].op = "one"
  <2>1. requests[r] \in Uses /\ requests[r].step = "one"
    BY AtUse DEF RevokeOne, IInv, At, Kinds
  <2> QED
    BY <2>1, UseFound DEF UseFits
<1>2. requests[r].target \in SessionIds /\ sessions[requests[r].target] \in Rows
  BY <1>1, UseFound DEF UseFits
<1> QED
  BY <1>2, RevokeIInv DEF RevokeOne

LEMMA RevokingOf ==
  ASSUME IInv, NEW u, NEW keep, sessions' = RevokedOf(u, keep)
  PROVE  /\ sessions' = [s \in SessionIds |-> sessions'[s]]
         /\ \A s \in SessionIds : sessions[s] \notin Rows => sessions'[s] = sessions[s]
         /\ \A s \in SessionIds : sessions[s] \in Rows =>
              IF sessions[s].user = u /\ s # keep
              THEN sessions'[s] = Revoked(sessions[s])
              ELSE sessions'[s] = sessions[s]
<1>1. \A s \in SessionIds : sessions[s] \in Rows <=> sessions[s] # Unused
  BY RowOrUnused DEF IInv
<1> QED
  BY <1>1 DEF RevokedOf, Revoked, IsOf

LEMMA RevokeManyIInv == ASSUME IInv, NEW r \in Requests, RevokeMany(r) PROVE IInv'
<1>1. PICK u, keep : sessions' = RevokedOf(u, keep)
  BY DEF RevokeMany
<1>2. \A x \in SessionIds : sessions[x] \in Rows => Ended(x, sessions[x], hash, change)
  BY RowFound
<1>3. /\ UNCHANGED <<now, hash, attempts, change>> /\ change' \in [Users -> Changes]
      /\ \E q \in Requests : Finish(q)
  BY DEF RevokeMany, IInv, Shape
<1>4. /\ sessions' = [s \in SessionIds |-> sessions'[s]]
      /\ \A s \in SessionIds : sessions[s] \notin Rows => sessions'[s] = sessions[s]
      /\ \A s \in SessionIds : sessions[s] \in Rows =>
           sessions'[s] \in {sessions[s], Revoked(sessions[s])}
  BY <1>1, RevokingOf
<1> QED
  BY <1>2, <1>3, <1>4, RevokedIInv

LEMMA AtRevoke ==
  ASSUME IInv, NEW r \in Requests, At(r, "revoke")
  PROVE  /\ requests[r] \in Uses /\ requests[r].op \in {"change", "reset"}
         /\ requests[r].target \in Users
         /\ requests[r].number = hash[requests[r].target] =>
              change[requests[r].target].keep = Kept(requests[r])
<1>1. requests[r] \in Uses /\ requests[r].step = "revoke"
  BY AtUse DEF IInv, At
<1>2. UseFits(requests[r], sessions, hash, change) /\ requests[r].op \in Kinds
  BY <1>1, UseFound DEF Uses
<1>3. requests[r].op \in {"change", "reset"}
  BY <1>1, <1>2 DEF UseFits, Kinds
<1> QED
  BY <1>1, <1>2, <1>3 DEF UseFits

\* Whoever revokes for the last change leaves open only what that change keeps.
LEMMA RevokeOldIInv == ASSUME IInv, NEW r \in Requests, RevokeOld(r) PROVE IInv'
<1> DEFINE u == requests[r].target
           keep == Kept(requests[r])
<1>1. /\ u \in Users
      /\ requests[r].number = hash[u] => change[u].keep = keep
  BY AtRevoke DEF RevokeOld
<1>2. sessions' = RevokedOf(u, keep)
  BY DEF RevokeOld, Kept
<1>3. /\ UNCHANGED <<now, hash, attempts>> /\ \E q \in Requests : Finish(q)
      /\ change' = IF hash[u] = requests[r].number
                    THEN [change EXCEPT ![u].done = TRUE] ELSE change
  BY DEF RevokeOld
<1> HIDE DEF u, keep
<1>4. /\ sessions' = [s \in SessionIds |-> sessions'[s]]
      /\ \A s \in SessionIds : sessions[s] \notin Rows => sessions'[s] = sessions[s]
      /\ \A s \in SessionIds : sessions[s] \in Rows =>
           IF sessions[s].user = u /\ s # keep
           THEN sessions'[s] = Revoked(sessions[s])
           ELSE sessions'[s] = sessions[s]
  BY <1>2, RevokingOf
<1>5. /\ change' \in [Users -> Changes]
      /\ \A v \in Users : change'[v].keep = change[v].keep
      /\ \A v \in Users \ {u} : change'[v] = change[v]
  <2>1. [change[u] EXCEPT !.done = TRUE] \in Changes
        /\ [change[u] EXCEPT !.done = TRUE].keep = change[u].keep
    BY <1>1 DEF Changes, IInv, Shape
  <2> QED
    BY <1>1, <1>3, <2>1 DEF IInv, Shape
<1>6. ASSUME NEW s \in SessionIds, sessions[s] \in Rows,
             sessions'[s] # Revoked(sessions[s])
      PROVE  sessions'[s] = sessions[s] /\ Ended(s, sessions[s], hash, change')
  <2>1. sessions'[s] = sessions[s] /\ (sessions[s].user # u \/ s = keep)
    BY <1>4, <1>6
  <2>2. Ended(s, sessions[s], hash, change)
    BY <1>6, RowFound
  <2>3. sessions[s].user \in Users
    BY <1>6 DEF Rows
  <2>4. CASE sessions[s].user # u \/ hash[u] # requests[r].number
    BY <1>3, <1>5, <2>1, <2>2, <2>3, <2>4 DEF Ended
  <2>5. CASE sessions[s].user = u /\ hash[u] = requests[r].number
    BY <1>1, <1>5, <2>1, <2>5 DEF Ended
  <2> QED
    BY <2>4, <2>5
<1> QED
  BY <1>3, <1>4, <1>5, <1>6, RevokedIInv

\* A new number: whoever revokes for an earlier change does not conclude this one.
LEMMA SetPasswordIInv == ASSUME IInv, NEW r \in Requests, SetPassword(r) PROVE IInv'
<1> DEFINE u == requests[r].target
           keep == IF At(r, "change") THEN requests[r].session ELSE "none"
           number == hash[u] + 1
           new == [requests[r] EXCEPT !.step = "revoke", !.number = number]
           last == [done |-> FALSE, keep |-> keep]
<1>1. /\ requests[r] \in Uses /\ requests[r] \notin Logins
      /\ requests[r].step = requests[r].op /\ requests[r].op \in {"change", "reset"}
  <2>1. /\ requests[r] \in Uses /\ requests[r] \notin Logins
        /\ requests[r].step \in {"change", "reset"}
    BY AtUse DEF SetPassword, IInv, At, Kinds
  <2> QED
    BY <2>1, UseFound DEF UseFits
<1>2. /\ u \in Users /\ UseFits(requests[r], sessions, hash, change)
      /\ requests[r].session \in SessionIds
  BY <1>1, UseFound DEF UseFits
<1>3. number \in Nat /\ number # hash[u] /\ number > hash[u]
  BY <1>2 DEF IInv, Shape
<1>4. keep = Kept(requests[r]) /\ last \in Changes
  BY <1>1, <1>2 DEF At, Kept, Changes
<1>5. /\ new \in Uses /\ new.op = requests[r].op /\ new.at = requests[r].at
      /\ new.session = requests[r].session /\ new.target = u /\ new.expires = requests[r].expires
      /\ new.step = "revoke" /\ new.number = number
  BY <1>1, <1>3 DEF Uses
<1>6. /\ hash' = [hash EXCEPT ![u] = number] /\ change' = [change EXCEPT ![u] = last]
      /\ requests' = [requests EXCEPT ![r] = new] /\ UNCHANGED <<now, sessions, attempts>>
  BY DEF SetPassword
<1>7. last.done = FALSE /\ last.keep = keep
  OBVIOUS
<1> HIDE DEF u, keep, number, new, last
<1>8. /\ hash' \in [Users -> Nat] /\ hash'[u] = number /\ change'[u] = last
      /\ change' \in [Users -> Changes] /\ requests'[r] = new
      /\ \A v \in Users \ {u} : hash'[v] = hash[v] /\ change'[v] = change[v]
      /\ \A q \in Requests \ {r} : requests'[q] = requests[q]
      /\ requests' \in [Requests -> Logins \union Uses \union {Free}]
  BY <1>2, <1>3, <1>4, <1>5, <1>6 DEF IInv, Shape
<1>9. Shape'
  BY <1>6, <1>8 DEF IInv, Shape
<1>10. SessionsFit'
  <2> SUFFICES ASSUME NEW s \in SessionIds, sessions[s] \in Rows
               PROVE  RowFits(sessions[s], now) /\ Ended(s, sessions[s], hash', change')
    BY <1>6 DEF SessionsFit
  <2>1. RowFits(sessions[s], now) /\ Ended(s, sessions[s], hash, change)
        /\ sessions[s].user \in Users
    BY RowFound DEF Rows
  <2> QED
    BY <1>7, <1>8, <2>1 DEF Ended
<1>11. RequestFits(new, now', sessions', attempts', hash', change')
  <2>1. new \notin Logins
    BY <1>1, <1>5 DEF Logins
  <2>2. Kept(new) = keep
    BY <1>4, <1>5 DEF Kept
  <2>3. UseFits(new, sessions', hash', change')
    BY <1>1, <1>2, <1>5, <1>6, <1>7, <1>8, <1>3, <2>2 DEF UseFits, RenewedExpiry, AbsoluteEnd
  <2> QED
    BY <1>1, <1>5, <1>6, <2>1, <2>3, UseFound DEF RequestFits
<1>12. \A v \in Users : \/ hash'[v] = hash[v] /\ change'[v].keep = change[v].keep
                      \/ hash'[v] = hash[v] + 1
  BY <1>8 DEF number
<1>13. RequestsFit'
  BY <1>6, <1>8, <1>9, <1>11, <1>12, RequestsKeep
<1> QED
  BY <1>9, <1>10, <1>13 DEF IInv
LEMMA StepIInv == IInv /\ [Next]_vars => IInv'
<1> SUFFICES ASSUME IInv, [Next]_vars PROVE IInv'
  OBVIOUS
<1>1. CASE UNCHANGED vars
  BY <1>1 DEF vars, IInv, Shape, SessionsFit, RequestsFit
<1>2. CASE Tick \/ Purge
  BY <1>2, TickIInv, PurgeIInv
<1>3. ASSUME NEW s \in SessionIds, JustUse(s) \/ Logout(s) PROVE IInv'
  BY <1>3, JustUseIInv, LogoutIInv
<1>4. ASSUME NEW r \in Requests, LoginStep(r) PROVE IInv'
  BY <1>4, BeginLoginIInv, CheckSourceIInv, VerifyIInv, FindAttemptsIInv, SaveAttemptsIInv,
     ClearAttemptsIInv, OpenSessionIInv DEF LoginStep
<1>5. ASSUME NEW r \in Requests, SessionStep(r) PROVE IInv'
  BY <1>5, AuthenticateIInv, RenewIInv, SetPasswordIInv, RevokeOldIInv, RevokeManyIInv,
     RevokeOneIInv DEF SessionStep
<1> QED
  BY <1>1, <1>2, <1>3, <1>4, <1>5, InterruptIInv DEF Next

-----------------------------------------------------------------------------
(* What a step does to the rows of sessions.                               *)

\* No more alive than before.
Subsides(new, old) ==
  /\ new.issued = old.issued /\ new.expires = old.expires
  /\ old.revoked => new.revoked

LEMMA SubsidedIsDead ==
  ASSUME NEW old \in Rows, NEW new \in Rows, Subsides(new, old), NEW t \in Nat, NEW u \in Nat,
         t <= u, ActiveAt(new, u), old # Unused
  PROVE  ActiveAt(old, t)
BY RequestAssumption DEF ActiveAt, Subsides, AbsoluteEnd, Rows

\* Only the write of a renewal makes a session live longer.
LEMMA OnlyRenewals ==
  ASSUME IInv, [Next]_vars, NEW s \in SessionIds, sessions[s] \in Rows,
         ~\E r \in Requests : Renew(r) /\ requests[r].session = s
  PROVE  now <= now' /\ (sessions'[s] = sessions[s] \/ Subsides(sessions'[s], sessions[s]))
<1>1. CASE UNCHANGED vars
  BY <1>1 DEF vars, IInv, Shape
<1>2. CASE Tick \/ Purge
  BY <1>2 DEF Tick, Purge, IInv, Shape
<1>3. ASSUME NEW x \in SessionIds, JustUse(x) \/ Logout(x)
      PROVE  now = now' /\ (sessions'[s] = sessions[s] \/ Subsides(sessions'[s], sessions[s]))
  <2>1. /\ now' = now
        /\ \/ sessions' = [sessions EXCEPT ![x].used = now]
           \/ sessions' = [sessions EXCEPT ![x].revoked = TRUE]
    BY <1>3 DEF JustUse, Logout, Revoke
  <2>2. CASE x = s
    BY <2>1, <2>2 DEF Subsides, Rows, IInv, Shape
  <2>3. CASE x # s
    BY <2>1, <2>3 DEF IInv, Shape
  <2> QED
    BY <2>1, <2>2, <2>3
<1>4. ASSUME NEW r \in Requests, LoginStep(r)
      PROVE  now = now' /\ sessions'[s] = sessions[s]
  <2>1. ASSUME NEW x \in SessionIds, OpenSession(r, x)
        PROVE  now = now' /\ sessions'[s] = sessions[s]
    <3>1. x # s
      BY <2>1, RowOrUnused DEF OpenSession, IInv
    <3> QED
      BY <2>1, <3>1 DEF OpenSession, IInv, Shape
  <2> QED
    BY <1>4, <2>1 DEF LoginStep, BeginLogin, CheckSource, Verify, FindAttempts, SaveAttempts,
       ClearAttempts
<1>5. ASSUME NEW r \in Requests, SessionStep(r)
      PROVE  now = now' /\ (sessions'[s] = sessions[s] \/ Subsides(sessions'[s], sessions[s]))
  <2>1. ASSUME NEW x \in SessionIds, NEW w \in Wishes(sessions[x].user), Authenticate(r, x, w)
        PROVE  now = now' /\ (sessions'[s] = sessions[s] \/ Subsides(sessions'[s], sessions[s]))
    <3>1. now' = now /\ (sessions' = sessions \/ sessions' = [sessions EXCEPT ![x].used = now])
      BY <2>1 DEF Authenticate
    <3>2. CASE x = s
      BY <3>1, <3>2 DEF Subsides, Rows, IInv, Shape
    <3>3. CASE x # s
      BY <3>1, <3>3 DEF IInv, Shape
    <3> QED
      BY <3>1, <3>2, <3>3
  <2>2. CASE Renew(r)
    <3>1. requests[r].session # s /\ now' = now
      BY <2>2 DEF Renew
    <3> QED
      BY <2>2, <3>1 DEF Renew, IInv, Shape
  <2>3. CASE RevokeOld(r) \/ RevokeMany(r)
    <3>1. PICK u, keep : sessions' = RevokedOf(u, keep)
      BY <2>3 DEF RevokeOld, RevokeMany
    <3>2. sessions'[s] = sessions[s] \/ sessions'[s] = Revoked(sessions[s])
      BY <3>1, RevokingOf
    <3>3. Subsides(Revoked(sessions[s]), sessions[s])
      BY DEF Subsides, Revoked, Rows
    <3> QED
      BY <2>3, <3>2, <3>3 DEF RevokeOld, RevokeMany
  <2>4. CASE RevokeOne(r)
    <3>1. now' = now /\ sessions' = [sessions EXCEPT ![requests[r].target].revoked = TRUE]
      BY <2>4 DEF RevokeOne, Revoke
    <3>2. CASE requests[r].target = s
      BY <3>1, <3>2 DEF Subsides, Rows, IInv, Shape
    <3>3. CASE requests[r].target # s
      BY <3>1, <3>3 DEF IInv, Shape
    <3> QED
      BY <3>1, <3>2, <3>3
  <2>5. CASE SetPassword(r)
    BY <2>5 DEF SetPassword
  <2> QED
    BY <1>5, <2>1, <2>2, <2>3, <2>4, <2>5 DEF SessionStep
<1>6. ASSUME NEW r \in Requests, Interrupt(r) PROVE now = now' /\ sessions'[s] = sessions[s]
  BY <1>6 DEF Interrupt
<1>7. now \in Nat
  BY DEF IInv, Shape
<1> QED
  BY <1>1, <1>2, <1>3, <1>4, <1>5, <1>6, <1>7 DEF Next

-----------------------------------------------------------------------------
(***************************************************************************)
(* Theorems.                                                               *)
(***************************************************************************)
\* The inductive invariant holds in every state.
THEOREM Invariance == Spec => []IInv
<1> QED
  BY InitIInv, StepIInv, PTL DEF Spec

\* A change of the password ends the sessions of the old one, whatever logins, renewals and
\* other changes its two statements overlap.
THEOREM ChangeEndsSessions == Spec => []PasswordChangeEndsSessions
<1>1. IInv => PasswordChangeEndsSessions
  BY RowOrUnused DEF IInv, SessionsFit, Ended, PasswordChangeEndsSessions, IsOpen
<1> QED
  BY <1>1, Invariance, PTL

\* A session in use has half of its idle lifetime left, however late renewals are written.
THEOREM UseKeepsSessions == Spec => []UseKeepsSession
<1>1. IInv => UseKeepsSession
  BY RowOrUnused DEF IInv, SessionsFit, RowFits, UseKeepsSession, IsOpen
<1> QED
  BY <1>1, Invariance, PTL
\* What is revoked or past its lifetimes stays so; only a renewal read in time brings back a
\* session that lapsed for want of use.
THEOREM DeadSessionsStayDead == Spec => DeadStaysDead
<1>1. ASSUME IInv, IInv', [Next]_vars, NEW s \in SessionIds, sessions[s] # Unused,
             ~ActiveAt(sessions[s], now), ActiveAt(sessions'[s], now')
      PROVE  /\ ~sessions[s].revoked
             /\ \E r \in Requests :
                  /\ At(r, "renew") /\ requests[r].session = s /\ ~At(r, "renew")'
                  /\ requests[r].at < sessions[s].expires
  <2>1. sessions[s] \in Rows /\ now \in Nat /\ now' \in Nat
    BY <1>1, RowOrUnused DEF IInv, Shape
  <2>2. PICK r \in Requests : Renew(r) /\ requests[r].session = s
    <3> SUFFICES ASSUME ~\E r \in Requests : Renew(r) /\ requests[r].session = s PROVE FALSE
      OBVIOUS
    <3>1. now <= now' /\ (sessions'[s] = sessions[s] \/ Subsides(sessions'[s], sessions[s]))
      BY <1>1, <2>1, OnlyRenewals
    <3>2. sessions'[s] \in Rows
      BY <1>1 DEF IInv, Shape, ActiveAt
    <3>3. Subsides(sessions'[s], sessions[s])
      BY <3>1 DEF Subsides
    <3> QED
      BY <1>1, <2>1, <3>1, <3>2, <3>3, SubsidedIsDead
  <2>3. At(r, "renew") /\ requests[r] \in Uses
    BY <1>1, <2>2, AtUse DEF Renew, IInv
  <2>4. requests[r].at < sessions[s].expires
    BY <1>1, <2>2, <2>3, UseFound DEF UseFits, At
  <2>5. ~sessions[s].revoked
    <3>1. sessions'[s].revoked = sessions[s].revoked
      <4> DEFINE mid == Renewed(sessions[s], requests[r].expires)
                 last == IF sessions[s].used > requests[r].at THEN sessions[s].used
                         ELSE requests[r].at
      <4>1. sessions'[s] = [mid EXCEPT !.used = last]
        BY <1>1, <2>2 DEF Renew, IInv, Shape
      <4>2. mid = [sessions[s] EXCEPT !.expires = requests[r].expires]
        BY DEF Renewed
      <4>3. mid.revoked = sessions[s].revoked
        BY <2>1, <4>2 DEF Rows
      <4>4. \A x, y : [x EXCEPT !.used = y].revoked = x.revoked
        OBVIOUS
      <4> HIDE DEF mid, last
      <4> QED
        BY <4>1, <4>3, <4>4
    <3> QED
      BY <1>1, <3>1 DEF ActiveAt
  <2>6. ~At(r, "renew")'
    <3>1. CASE requests[r].op = "use"
      <4>1. Finish(r) /\ Shape
        BY <1>1, <2>2, <3>1 DEF Renew, IInv
      <4>2. requests'[r] = Free
        BY <4>1, FinishGoes
      <4> QED
        BY <4>2 DEF At, Free
    <3>2. CASE requests[r].op # "use"
      <4>1. requests'[r].step = requests[r].op /\ requests[r].op \in Kinds
        BY <1>1, <2>2, <2>3, <3>2, UseGoes DEF Renew, Uses, IInv
      <4> QED
        BY <4>1 DEF At, Kinds
    <3> QED
      BY <3>1, <3>2
  <2> QED
    BY <2>2, <2>3, <2>4, <2>5, <2>6
<1>2. IInv /\ IInv' /\ [Next]_vars =>
        [\A s \in SessionIds :
           /\ sessions[s] # Unused
           /\ ~ActiveAt(sessions[s], now)
           /\ ActiveAt(sessions[s], now)'
           => /\ ~sessions[s].revoked
              /\ \E r \in Requests : /\ At(r, "renew") /\ requests[r].session = s
                                     /\ ~At(r, "renew")'
                                     /\ requests[r].at < sessions[s].expires]_vars
  BY <1>1
<1> QED
  BY <1>2, Invariance, PTL DEF Spec, DeadStaysDead

\* A failure during a block prolongs it only for a login under way when it was written.
THEOREM BlocksAreNotProlonged == Spec => BlockIsNotProlonged
<1>1. ASSUME IInv, NEW r \in Requests, NEW scope \in Scopes, At(r, SaveStep[scope]),
             BlockedAt(attempts[KeyOf(r, scope)], now)
      PROVE  requests[r].at <= attempts[KeyOf(r, scope)].updated
  <2>1. requests[r] \in Logins /\ requests[r].step # "source"
    BY <1>1, AtLogin, ScopeSteps DEF IInv, At
  <2>2. RequestFits(requests[r], now, sessions, attempts, hash, change)
    BY <1>1 DEF IInv, RequestsFit
  <2>3. Noted(attempts[KeyOf(r, scope)], requests[r].at)
    BY <2>1, <2>2, LoginKeys DEF RequestFits, LoginFits
  <2>4. /\ attempts[KeyOf(r, scope)] \in Counts /\ now \in Nat
        /\ requests[r].at \in Nat /\ requests[r].at <= now
    BY <1>1, <2>1, <2>2, LoginKeys DEF RequestFits, IInv, Shape, Logins
  <2> QED
    BY <1>1, <2>3, <2>4 DEF Noted, BlockedAt, Counts
<1>2. IInv =>
        [\A r \in Requests, scope \in Scopes :
           At(r, SaveStep[scope]) /\ ~At(r, SaveStep[scope])' =>
             LET k == KeyOf(r, scope)
             IN  BlockedAt(attempts[k], now) /\ attempts'[k].until > attempts[k].until
                   => requests[r].at <= attempts[k].updated]_vars
  BY <1>1
<1> QED
  BY <1>2, Invariance, PTL DEF BlockIsNotProlonged

-----------------------------------------------------------------------------
(***************************************************************************)
(* The settings console.                                                   *)
(***************************************************************************)

Chosen == Choosables \cup {Nothing}

SavedRows == [n : Nat, filling : Nat, of : Chosen]

SentWrites ==
  [n : Nat, kind : {"submit", "act", "import"}, filling : Nat, of : Chosen, again : Chosen,
   replaces : BOOLEAN, at : {"sent", "half", "stored"}]

Reasons4Load == {"choice", "submit", "act", "import"}

OpenLoads ==
  [n : Nat, of : Chosen, by : Reasons4Load, read : BOOLEAN, sees : SUBSET SavedRows]

ShownLists ==
  [status : {"closed", "loading", "ready", "failed", "forbidden"}, of : Chosen,
   by : Reasons4Load, n : Nat, rows : SUBSET SavedRows]

ConsoleShape ==
  /\ held \in HeldOffered
  /\ list.status = "closed" \/ Shown \in DOMAIN Sections
  /\ list.status = "closed" => loads = {} /\ writes = {}
  /\ choice \in Chosen
  /\ form = [empty |-> form.empty, filling |-> form.filling, row |-> form.row]
  /\ form.filling \in Nat
  /\ list \in ShownLists
  /\ loads \subseteq OpenLoads
  /\ writes \subseteq SentWrites
  /\ stored \subseteq SavedRows
  /\ reported \subseteq SavedRows
  /\ tally \in [loads : Nat, writes : Nat, fillings : Nat]

\* Writes and fillings are numbered as they come; of a write that was only sent there is no row.
NumbersFit ==
  /\ form.filling <= tally.fillings
  /\ \A w \in writes :
       /\ w.n <= tally.writes /\ w.filling <= tally.fillings
       /\ w.kind # "submit" => w.filling = 0
       /\ \A x \in writes : x.n = w.n => x = w
       /\ \A row \in reported : row.n # w.n
       /\ w.at = "sent" => \A row \in stored : row.n # w.n
  /\ \A row \in stored : row.n <= tally.writes /\ row.filling <= tally.fillings
  /\ \A row \in reported : row.n <= tally.writes

\* One form is saved at a time.
OneSaveAtATime ==
  \A w \in writes : w.kind = "submit" =>
    pending = "saving" /\ \A x \in writes : x.kind = "submit" => x = w

\* A filling that was written already, and may be written once more.
MayRepeat(filling) == filling \in lost \/ Here.form.once

\* What is sent and what stands in the form was not written yet, unless its answer was lost,
\* the tables refuse it, or it is on its way.
FillingsFit ==
  /\ FilledOnceWrittenOnce
  /\ \A w \in writes, row \in stored :
       w.kind = "submit" /\ w.at = "sent" /\ row.filling = w.filling /\ row.filling # 0
         => w.replaces \/ MayRepeat(w.filling)
  /\ \A row \in stored :
       row.filling = form.filling /\ row.filling # 0 /\ form.empty = {}
         => \/ MayRepeat(form.filling)
            \/ \E w \in writes : w.kind = "submit" /\ w.at # "sent" /\ w.filling = form.filling

\* The load that was begun last is for the choice that was made last, or follows a save, and
\* sees what was reported before it began.
Holds(rows, c) == \A row \in reported \cap stored : row.of = c => row \in rows

LoadsFit ==
  /\ \A l \in loads :
       /\ l.n <= tally.loads
       /\ l.n = tally.loads =>
            /\ l.by = "choice" => l.of = choice
            /\ l.read => Holds(l.sees, l.of)
  /\ list.n <= tally.loads
  /\ list.n = tally.loads =>
       /\ list.by = "choice" => list.of = choice
       /\ list.status = "ready" => Holds(list.rows, list.of)

ConsoleIInv ==
  ConsoleShape /\ NumbersFit /\ OneSaveAtATime /\ FillingsFit /\ LoadsFit

-----------------------------------------------------------------------------
LEMMA InitConsoleIInv == InitConsole => ConsoleIInv
<1> SUFFICES ASSUME InitConsole PROVE ConsoleIInv
  OBVIOUS
<1>1. ConsoleShape
  BY DEF InitConsole, ConsoleShape, ShownLists, Chosen, Reasons4Load
<1>2. /\ form.filling = 0 /\ tally.fillings = 0 /\ tally.loads = 0 /\ choice = Nothing
      /\ list.n = 0 /\ list.of = Nothing /\ list.status = "closed"
      /\ loads = {} /\ writes = {} /\ stored = {} /\ reported = {}
  BY DEF InitConsole
<1>3. NumbersFit /\ OneSaveAtATime
  BY <1>2 DEF NumbersFit, OneSaveAtATime
<1>4. FillingsFit
  BY <1>2 DEF FillingsFit, FilledOnceWrittenOnce
<1>5. LoadsFit
  BY <1>2 DEF LoadsFit
<1> QED BY <1>1, <1>3, <1>4, <1>5 DEF ConsoleIInv

\* Opening a section leaves nothing of the one before.
LEMMA NavigateIInv == ASSUME ConsoleIInv, NEW address \in Links, Navigate(address)
                      PROVE  ConsoleIInv'
<1> DEFINE section == Leads[held][address]
<1> USE DEF ConsoleIInv
<1>1. /\ section # Nothing /\ route' = address /\ held' = held
      /\ Opened(Sections[section])
  BY DEF Navigate
<1>2. held' \in HeldOffered /\ Shown' = section /\ section \in DOMAIN Sections
  BY <1>1, SectionsAssumption DEF ConsoleShape, Shown
<1> HIDE DEF section
<1>3. choice' \in Chosen
  BY <1>1 DEF Opened, Chosen
<1>4. Loading(1, choice', "choice") \in OpenLoads
  BY <1>3 DEF Loading, OpenLoads, Reasons4Load
<1>5. ConsoleShape'
  BY <1>1, <1>2, <1>3, <1>4 DEF ConsoleShape, Opened, Blank, ShownLists, Chosen, Reasons4Load
<1>6. NumbersFit' /\ OneSaveAtATime' /\ FillingsFit' /\ LoadsFit'
  BY <1>1 DEF Opened, Blank, Loading, NumbersFit, OneSaveAtATime, FillingsFit,
     FilledOnceWrittenOnce, LoadsFit, Holds
<1> QED BY <1>5, <1>6

\* A load that begins is the last one; it sees what was reported so far.
LEMMA BeginLoadFits ==
  ASSUME ConsoleIInv, NEW c \in Chosen, NEW by \in Reasons4Load,
         loads' = loads \cup {Loading(tally.loads + 1, c, by)},
         tally'.loads = tally.loads + 1, by = "choice" => c = choice', list' = list
  PROVE  LoadsFit' /\ loads' \subseteq OpenLoads
<1> USE DEF ConsoleIInv
<1>1. Loading(tally.loads + 1, c, by) \in OpenLoads
  BY DEF ConsoleShape, Loading, OpenLoads
<1>2. \A l \in loads : l.n \in Nat /\ l.n < tally'.loads
  BY DEF LoadsFit, ConsoleShape, OpenLoads
<1>3. list.n \in Nat /\ list.n < tally'.loads
  BY DEF LoadsFit, ConsoleShape, ShownLists
<1>4. loads' \subseteq OpenLoads
  BY <1>1 DEF ConsoleShape
<1>5. \A l \in loads' :
        /\ l.n <= tally'.loads
        /\ l.n = tally'.loads => l.of = c /\ l.by = by /\ ~l.read
  <2> SUFFICES ASSUME NEW l \in loads'
               PROVE  /\ l.n <= tally'.loads
                      /\ l.n = tally'.loads => l.of = c /\ l.by = by /\ ~l.read
    OBVIOUS
  <2>1. CASE l \in loads
    <3>1. l.n \in Nat /\ l.n < tally'.loads /\ tally'.loads \in Nat
      BY <1>2, <2>1 DEF ConsoleShape
    <3> QED BY <3>1
  <2>2. CASE l = Loading(tally.loads + 1, c, by)
    BY <2>2 DEF Loading, ConsoleShape
  <2> QED BY <2>1, <2>2
<1>6. list'.n <= tally'.loads /\ list'.n # tally'.loads
  <2>1. tally'.loads \in Nat
    BY DEF ConsoleShape
  <2> QED BY <1>3, <2>1
<1> QED BY <1>4, <1>5, <1>6 DEF LoadsFit

\* The numbers and the fillings depend on the rest of the state only.
LEMMA FillingsStay ==
  ASSUME ConsoleIInv,
         UNCHANGED <<held, route, form, writes, pending, stored, reported, lost>>,
         tally'.fillings = tally.fillings, tally'.writes = tally.writes
  PROVE  NumbersFit' /\ OneSaveAtATime' /\ FillingsFit'
<1> USE DEF ConsoleIInv
<1>1. Here' = Here
  BY DEF Here, Shown
<1> QED BY <1>1 DEF NumbersFit, OneSaveAtATime, FillingsFit, FilledOnceWrittenOnce, MayRepeat

LEMMA ChooseIInv == ASSUME ConsoleIInv, NEW c \in Choosables, Choose(c) PROVE ConsoleIInv'
<1> USE DEF ConsoleIInv
<1>1. LoadsFit' /\ loads' \subseteq OpenLoads
  <2>1. /\ loads' = loads \cup {Loading(tally.loads + 1, c, "choice")}
        /\ tally'.loads = tally.loads + 1 /\ choice' = c /\ list' = list
    BY DEF Choose, BeginLoad, ConsoleShape
  <2> QED BY <2>1, BeginLoadFits DEF Chosen, Reasons4Load
<1>2. NumbersFit' /\ OneSaveAtATime' /\ FillingsFit'
  BY FillingsStay DEF Choose, BeginLoad, ConsoleShape
<1>3. tally' \in [loads : Nat, writes : Nat, fillings : Nat]
  BY DEF Choose, BeginLoad, ConsoleShape
<1>4. ConsoleShape'
  BY <1>1, <1>3 DEF Choose, ConsoleShape, Chosen, Shown
<1> QED BY <1>1, <1>2, <1>4

LEMMA ReadRowsIInv == ASSUME ConsoleIInv, NEW l \in loads, ReadRows(l) PROVE ConsoleIInv'
<1> USE DEF ConsoleIInv
<1> DEFINE sees == {row \in stored : row.of = l.of}
           new  == [l EXCEPT !.read = TRUE, !.sees = sees]
<1>1. /\ new \in OpenLoads /\ new.n = l.n /\ new.of = l.of /\ new.by = l.by /\ new.sees = sees
  BY DEF ConsoleShape, OpenLoads
<1>2. loads' = (loads \ {l}) \cup {new}
  BY DEF ReadRows
<1>3. Holds(sees, l.of)
  BY DEF ReadRows, Holds
<1> HIDE DEF new, sees
<1>4. ConsoleShape'
  BY <1>1, <1>2 DEF ReadRows, ConsoleShape, Shown
<1>5. NumbersFit' /\ OneSaveAtATime' /\ FillingsFit'
  BY FillingsStay DEF ReadRows
<1>6. LoadsFit'
  <2>1. \A m \in loads' : m \in loads \/ m = new
    BY <1>2
  <2>2. \A m \in loads' :
          /\ m.n <= tally'.loads
          /\ m.n = tally'.loads =>
               /\ m.by = "choice" => m.of = choice'
               /\ m.read => Holds(m.sees, m.of)
    <3> SUFFICES ASSUME NEW m \in loads'
                 PROVE  /\ m.n <= tally'.loads
                        /\ m.n = tally'.loads =>
                             /\ m.by = "choice" => m.of = choice'
                             /\ m.read => Holds(m.sees, m.of)
      OBVIOUS
    <3>1. CASE m \in loads
      BY <3>1 DEF ReadRows, LoadsFit, Holds
    <3>2. CASE m = new
      BY <1>1, <1>3, <3>2 DEF ReadRows, LoadsFit
    <3> QED BY <2>1, <3>1, <3>2
  <2> QED BY <2>2 DEF ReadRows, LoadsFit, Holds
<1> QED BY <1>4, <1>5, <1>6

LEMMA EndLoadIInv ==
  ASSUME ConsoleIInv, NEW l \in loads, NEW status \in {"ready", "failed", "forbidden"},
         status = "ready" => l.read, EndLoad(l, status)
  PROVE  ConsoleIInv'
<1> USE DEF ConsoleIInv
<1> DEFINE rows == IF status = "ready" THEN l.sees ELSE {}
<1>1. list' = [status |-> status, of |-> l.of, by |-> l.by, n |-> l.n, rows |-> rows]
  BY DEF EndLoad
<1>2. l \in OpenLoads /\ rows \in SUBSET SavedRows /\ (status = "ready" => rows = l.sees)
  BY DEF ConsoleShape, OpenLoads
<1> HIDE DEF rows
<1>3. list' \in ShownLists /\ list'.status # "closed"
  BY <1>1, <1>2 DEF ShownLists, OpenLoads
<1>4. ConsoleShape'
  <2>1. Shown' = Shown /\ Shown \in DOMAIN Sections
    BY DEF EndLoad, ConsoleShape, Shown
  <2> QED BY <1>3, <2>1 DEF EndLoad, ConsoleShape
<1>5. NumbersFit'
  BY DEF EndLoad, NumbersFit
<1>6. OneSaveAtATime'
  BY DEF EndLoad, OneSaveAtATime, Awaited
<1>7. FillingsFit'
  <2>1. Here' = Here
    BY DEF EndLoad, Here, Shown
  <2> QED BY <2>1 DEF EndLoad, FillingsFit, FilledOnceWrittenOnce, MayRepeat
<1>8. LoadsFit'
  BY <1>1, <1>2 DEF EndLoad, LoadsFit, Holds
<1> QED BY <1>4, <1>5, <1>6, <1>7, <1>8

\* A new filling has no rows.
LEMMA NewFillingFits ==
  ASSUME ConsoleIInv, form'.filling = tally.fillings + 1, form'.filling = tally'.fillings,
         tally'.writes = tally.writes,
         UNCHANGED <<held, route, writes, pending, stored, reported, lost>>
  PROVE  NumbersFit' /\ OneSaveAtATime' /\ FillingsFit'
<1> USE DEF ConsoleIInv
<1>1. Here' = Here
  BY DEF Here, Shown
<1>2. /\ tally.fillings \in Nat
      /\ \A row \in stored : row.filling \in Nat /\ row.filling <= tally.fillings
      /\ \A w \in writes : w.filling \in Nat /\ w.filling <= tally.fillings
  BY DEF ConsoleShape, NumbersFit, SavedRows, SentWrites
<1>3. NumbersFit'
  BY <1>2 DEF NumbersFit
<1>4. OneSaveAtATime'
  BY DEF OneSaveAtATime
<1>5. FillingsFit'
  BY <1>1, <1>2 DEF FillingsFit, FilledOnceWrittenOnce, MayRepeat
<1> QED BY <1>3, <1>4, <1>5

LEMMA FillIInv == ASSUME ConsoleIInv, Fill PROVE ConsoleIInv'
<1> USE DEF ConsoleIInv
<1>1. /\ form' = [empty |-> {}, filling |-> tally.fillings + 1, row |-> form.row]
      /\ tally' \in [loads : Nat, writes : Nat, fillings : Nat]
      /\ tally'.fillings = tally.fillings + 1 /\ tally'.writes = tally.writes
      /\ tally'.loads = tally.loads /\ tally.fillings \in Nat
  <2>1. form' = [form EXCEPT !.empty = {}, !.filling = tally.fillings + 1]
    BY DEF Fill
  <2>2. form = [empty |-> form.empty, filling |-> form.filling, row |-> form.row]
    BY DEF ConsoleShape
  <2>3. form' = [empty |-> {}, filling |-> tally.fillings + 1, row |-> form.row]
    BY <2>1, <2>2
  <2>4. tally' = [tally EXCEPT !.fillings = @ + 1]
    BY DEF Fill
  <2>5. tally \in [loads : Nat, writes : Nat, fillings : Nat]
    BY DEF ConsoleShape
  <2> QED BY <2>3, <2>4, <2>5
<1>2. NumbersFit' /\ OneSaveAtATime' /\ FillingsFit'
  BY <1>1, NewFillingFits DEF Fill
<1>3. ConsoleShape'
  BY <1>1 DEF Fill, ConsoleShape, Shown
<1>4. LoadsFit'
  BY <1>1 DEF Fill, LoadsFit, Holds
<1> QED BY <1>2, <1>3, <1>4

LEMMA CopyIInv == ASSUME ConsoleIInv, Copy PROVE ConsoleIInv'
<1> USE DEF ConsoleIInv
<1>1. /\ form' = [empty |-> form'.empty, filling |-> form'.filling, row |-> form'.row]
      /\ form'.filling = tally.fillings + 1 /\ form'.filling = tally'.fillings
      /\ tally' \in [loads : Nat, writes : Nat, fillings : Nat]
      /\ tally'.writes = tally.writes
  <2>1. tally \in [loads : Nat, writes : Nat, fillings : Nat]
    BY DEF ConsoleShape
  <2>2. \/ tally' = [tally EXCEPT !.fillings = @ + 1, !.loads = @ + 1]
        \/ tally' = [tally EXCEPT !.fillings = @ + 1]
    BY DEF Copy
  <2>3. form' = [empty |-> Here.form.blanked, filling |-> tally.fillings + 1, row |-> TRUE]
    BY DEF Copy
  <2>4. /\ form' = [empty |-> form'.empty, filling |-> form'.filling, row |-> form'.row]
        /\ form'.filling = tally.fillings + 1
    BY <2>3
  <2>5. /\ tally'.fillings = tally.fillings + 1 /\ tally'.writes = tally.writes
        /\ tally' \in [loads : Nat, writes : Nat, fillings : Nat]
    <3>1. CASE tally' = [tally EXCEPT !.fillings = @ + 1, !.loads = @ + 1]
      <4>1. tally = [loads |-> tally.loads, writes |-> tally.writes,
                     fillings |-> tally.fillings]
        BY <2>1
      <4>2. tally' = [loads |-> tally.loads + 1, writes |-> tally.writes,
                      fillings |-> tally.fillings + 1]
        BY <3>1, <4>1
      <4> QED BY <2>1, <4>2
    <3>2. CASE tally' = [tally EXCEPT !.fillings = @ + 1]
      BY <2>1, <3>2
    <3> QED BY <2>2, <3>1, <3>2
  <2> QED BY <2>4, <2>5
<1>2. NumbersFit' /\ OneSaveAtATime' /\ FillingsFit'
  BY <1>1, NewFillingFits DEF Copy
<1>3. LoadsFit' /\ loads' \subseteq OpenLoads /\ choice' \in Chosen
  <2>1. CASE Here.form.moves /\ choice # list.of
    <3>1. /\ choice' = list.of /\ list' = list /\ tally'.loads = tally.loads + 1
          /\ loads' = loads \cup {Loading(tally.loads + 1, list.of, "choice")}
      BY <2>1 DEF Copy, ConsoleShape
    <3>2. list.of \in Chosen
      BY DEF ConsoleShape, ShownLists
    <3> QED BY <3>1, <3>2, BeginLoadFits DEF Reasons4Load
  <2>2. CASE ~(Here.form.moves /\ choice # list.of)
    <3>1. UNCHANGED <<choice, loads, list, stored, reported>> /\ tally'.loads = tally.loads
      BY <2>2 DEF Copy, ConsoleShape
    <3> QED BY <3>1 DEF LoadsFit, Holds, ConsoleShape
  <2> QED BY <2>1, <2>2
<1>4. ConsoleShape'
  BY <1>1, <1>3 DEF Copy, ConsoleShape, Shown, Writable
<1> QED BY <1>2, <1>3, <1>4

\* What is sent is new, and of its filling there are only rows that may be there.
LEMMA SendsIInv ==
  ASSUME ConsoleIInv, NEW kind \in {"submit", "act", "import"}, NEW filling \in Nat,
         NEW of \in Chosen, list.status # "closed",
         Sends(Write(kind, filling, of)),
         UNCHANGED <<held, route, choice, form, list, loads, stored, reported, lost>>,
         IF kind = "submit"
         THEN pending = "no" /\ pending' = "saving" /\ form.empty = {} /\ filling = form.filling
         ELSE pending' = pending /\ filling = 0
  PROVE  ConsoleIInv'
<1> USE DEF ConsoleIInv
<1> DEFINE new == Write(kind, filling, of)
<1>1. /\ new \in SentWrites /\ new.n = tally.writes + 1 /\ new.kind = kind
      /\ new.filling = filling /\ new.at = "sent"
  <2> DEFINE replaces == kind = "submit" /\ (Here.form.saves # "new row"
                                             \/ (Here.form.calls = 2 /\ form.row))
  <2>1. new = [n |-> tally.writes + 1, kind |-> kind, filling |-> filling, of |-> of,
               again |-> choice, replaces |-> replaces, at |-> "sent"]
    BY DEF Write
  <2>2. replaces \in BOOLEAN
    BY Zenon
  <2>3. tally.writes + 1 \in Nat /\ choice \in Chosen
    BY DEF ConsoleShape
  <2> HIDE DEF replaces, new
  <2> QED BY <2>1, <2>2, <2>3 DEF SentWrites
<1> HIDE DEF new
<1>2. writes' = writes \cup {new}
  BY DEF Sends, new
<1>3. /\ tally' \in [loads : Nat, writes : Nat, fillings : Nat]
      /\ tally'.writes = tally.writes + 1 /\ tally'.loads = tally.loads
      /\ tally'.fillings = tally.fillings /\ tally.writes \in Nat
  BY DEF Sends, ConsoleShape
<1>4. ConsoleShape'
  BY <1>1, <1>2, <1>3 DEF ConsoleShape, Shown
<1>5. LoadsFit'
  BY <1>3 DEF LoadsFit, Holds
<1>6. NumbersFit'
  <2>1. /\ \A w \in writes : w.n \in Nat /\ w.n <= tally.writes
        /\ \A row \in stored : row.n \in Nat /\ row.n <= tally.writes
        /\ \A row \in reported : row.n \in Nat /\ row.n <= tally.writes
    BY DEF NumbersFit, ConsoleShape, SavedRows, SentWrites
  <2>2. /\ filling <= tally.fillings /\ (kind # "submit" => filling = 0)
    BY DEF NumbersFit, ConsoleShape
  <2> QED BY <1>1, <1>2, <1>3, <2>1, <2>2 DEF NumbersFit
<1>7. OneSaveAtATime'
  BY <1>1, <1>2 DEF OneSaveAtATime
<1>8. FillingsFit'
  <2>1. Here' = Here
    BY DEF Here, Shown
  <2>2. kind = "submit" => \A w \in writes : w.kind # "submit"
    BY DEF OneSaveAtATime
  <2> QED BY <1>1, <1>2, <2>1, <2>2 DEF FillingsFit, FilledOnceWrittenOnce, MayRepeat
<1> QED BY <1>4, <1>5, <1>6, <1>7, <1>8

LEMMA SubmitIInv == ASSUME ConsoleIInv, Submit PROVE ConsoleIInv'
<1>1. list.status # "closed" /\ form.filling \in Nat /\ choice \in Chosen
  BY DEF ConsoleIInv, ConsoleShape, Submit, MaySubmit, Writable
<1> QED BY <1>1, SendsIInv DEF Submit, MaySubmit

LEMMA ActIInv == ASSUME ConsoleIInv, ActOnRow \/ Import PROVE ConsoleIInv'
<1>1. list.status # "closed" /\ choice \in Chosen /\ list.of \in Chosen
  BY DEF ConsoleIInv, ConsoleShape, ActOnRow, Import, RowsShown, Writable, ShownLists
<1>2. CASE ActOnRow
  <2> DEFINE of == IF Here.actsOn = "choice" THEN choice ELSE list.of
  <2>1. of \in Chosen /\ Sends(Write("act", 0, of))
    BY <1>1, <1>2 DEF ActOnRow
  <2> HIDE DEF of
  <2> QED BY <1>1, <1>2, <2>1, SendsIInv DEF ActOnRow
<1>3. CASE Import
  BY <1>1, <1>3, SendsIInv DEF Import
<1> QED BY <1>2, <1>3

LEMMA StoreIInv == ASSUME ConsoleIInv, NEW w \in writes, Store(w) PROVE ConsoleIInv'
<1> USE DEF ConsoleIInv
<1> DEFINE at  == IF w.kind = "submit" /\ Here.form.calls = 2 THEN "half" ELSE "stored"
           new == [w EXCEPT !.at = at]
<1>1. w \in SentWrites /\ list.status # "closed" /\ Shown \in DOMAIN Sections
  BY DEF ConsoleShape
<1>2. /\ new \in SentWrites /\ new.n = w.n /\ new.kind = w.kind /\ new.filling = w.filling
      /\ new.at # "sent"
  BY <1>1 DEF SentWrites
<1>3. /\ w.at = "sent" /\ writes' = (writes \ {w}) \cup {new}
      /\ stored' \subseteq stored \cup {RowOf(w)} /\ RowOf(w) \in stored'
  BY DEF Store
<1> HIDE DEF new, at
<1>4. /\ RowOf(w) \in SavedRows /\ RowOf(w).n = w.n /\ RowOf(w).filling = w.filling
  BY <1>1 DEF RowOf, SavedRows, SentWrites
<1>5. ConsoleShape'
  BY <1>1, <1>2, <1>3, <1>4 DEF Store, ConsoleShape, Shown
<1>6. NumbersFit'
  <2>1. \A row \in stored' : row \in stored \/ row = RowOf(w)
    BY <1>3
  <2>2. \A x \in writes' : x = new \/ (x \in writes /\ x.n # w.n)
    BY <1>3 DEF NumbersFit
  <2> QED BY <1>2, <1>3, <1>4, <2>1, <2>2 DEF Store, NumbersFit
<1>7. OneSaveAtATime'
  BY <1>2, <1>3 DEF Store, OneSaveAtATime
<1>8. LoadsFit'
  <2>1. RowOf(w) \notin reported
    BY <1>4 DEF NumbersFit
  <2> QED BY <1>3, <2>1 DEF Store, LoadsFit, Holds
<1>9. FillingsFit'
  <2>1. Here' = Here /\ UNCHANGED <<form, lost>>
    BY DEF Store, Here, Shown
  <2>2. \A row \in stored' : row.filling = w.filling /\ row.filling # 0 /\ row # RowOf(w)
          => w.filling \in lost
    <3> SUFFICES ASSUME NEW row \in stored', row.filling = w.filling, row.filling # 0,
                        row # RowOf(w)
                 PROVE  w.filling \in lost
      OBVIOUS
    <3>1. row \in stored /\ w.kind = "submit" /\ row.n # w.n
      BY <1>3 DEF NumbersFit
    <3>2. row \in Same(w)
      BY <3>1 DEF Same
    <3>3. ~w.replaces
      BY <3>2 DEF Store
    <3>4. ~Here.form.once
      BY <3>1, <3>2, <3>3 DEF Store
    <3> QED BY <1>3, <3>1, <3>3, <3>4 DEF FillingsFit, MayRepeat
  <2>3. FilledOnceWrittenOnce'
    BY <1>3, <1>4, <2>1, <2>2 DEF FillingsFit, FilledOnceWrittenOnce
  <2>4. \A x \in writes' : x.kind = "submit" /\ x.at = "sent" => FALSE \/ w.kind # "submit"
    BY <1>2, <1>3 DEF OneSaveAtATime
  <2>5. \A x \in writes', row \in stored' :
          x.kind = "submit" /\ x.at = "sent" /\ row.filling = x.filling /\ row.filling # 0
            => x.replaces \/ MayRepeat(x.filling)
    <3> SUFFICES ASSUME NEW x \in writes', NEW row \in stored', x.kind = "submit", x.at = "sent",
                        row.filling = x.filling, row.filling # 0
                 PROVE  x.replaces \/ MayRepeat(x.filling)
      OBVIOUS
    <3>1. x \in writes /\ w.kind # "submit" /\ w.filling = 0
      BY <1>2, <1>3, <2>4 DEF NumbersFit
    <3>2. row \in stored
      BY <1>3, <1>4, <3>1
    <3> QED BY <2>1, <3>1, <3>2 DEF FillingsFit, MayRepeat
  <2>6. \A row \in stored' :
          row.filling = form'.filling /\ row.filling # 0 /\ form'.empty = {}
            => \/ (form'.filling \in lost' \/ Here'.form.once)
               \/ \E x \in writes' : x.kind = "submit" /\ x.at # "sent" /\ x.filling = form'.filling
    <3> SUFFICES ASSUME NEW row \in stored', row.filling = form.filling, row.filling # 0,
                        form.empty = {}
                 PROVE  \/ MayRepeat(form.filling)
                        \/ \E x \in writes' :
                             x.kind = "submit" /\ x.at # "sent" /\ x.filling = form.filling
      BY <2>1 DEF MayRepeat
    <3>1. CASE row = RowOf(w)
      <4>1. w.kind = "submit" /\ w.filling = form.filling
        BY <1>4, <3>1 DEF NumbersFit
      <4> QED BY <1>2, <1>3, <4>1
    <3>2. CASE row \in stored
      <4>1. CASE MayRepeat(form.filling)
        BY <4>1
      <4>2. CASE \E x \in writes : x.kind = "submit" /\ x.at # "sent" /\ x.filling = form.filling
        BY <1>3, <4>2
      <4> QED BY <3>2, <4>1, <4>2 DEF FillingsFit
    <3> QED BY <1>3, <3>1, <3>2
  <2> QED BY <2>1, <2>3, <2>5, <2>6 DEF FillingsFit, MayRepeat
<1> QED BY <1>5, <1>6, <1>7, <1>8, <1>9

LEMMA StoreRestIInv == ASSUME ConsoleIInv, NEW w \in writes, StoreRest(w) PROVE ConsoleIInv'
<1> USE DEF ConsoleIInv
<1> DEFINE new == [w EXCEPT !.at = "stored"]
<1>1. w \in SentWrites /\ list.status # "closed"
  BY DEF ConsoleShape
<1>2. /\ new \in SentWrites /\ new.n = w.n /\ new.kind = w.kind /\ new.filling = w.filling
      /\ new.at # "sent"
  BY <1>1 DEF SentWrites
<1>3. w.at # "sent" /\ writes' = (writes \ {w}) \cup {new}
  BY DEF StoreRest
<1> HIDE DEF new
<1>4. ConsoleShape'
  BY <1>1, <1>2, <1>3 DEF StoreRest, ConsoleShape, Shown
<1>5. NumbersFit'
  <2>1. \A x \in writes' : x = new \/ (x \in writes /\ x.n # w.n)
    BY <1>3 DEF NumbersFit
  <2> QED BY <1>2, <1>3, <2>1 DEF StoreRest, NumbersFit
<1>6. OneSaveAtATime'
  BY <1>2, <1>3 DEF StoreRest, OneSaveAtATime
<1>7. LoadsFit'
  BY DEF StoreRest, LoadsFit, Holds
<1>8. FillingsFit'
  <2>1. Here' = Here
    BY DEF StoreRest, Here, Shown
  <2> QED BY <1>2, <1>3, <2>1 DEF StoreRest, FillingsFit, FilledOnceWrittenOnce, MayRepeat
<1> QED BY <1>4, <1>5, <1>6, <1>7, <1>8

\* A save that was answered empties the form, unless the tables refuse it when it is sent again.
LEMMA SavedIInv == ASSUME ConsoleIInv, NEW w \in writes, Saved(w) PROVE ConsoleIInv'
<1> USE DEF ConsoleIInv
<1>1. w \in SentWrites /\ list.status # "closed" /\ Shown \in DOMAIN Sections
  BY DEF ConsoleShape
<1>2. /\ w.at = "stored" /\ writes' = writes \ {w} /\ reported' = reported \cup {RowOf(w)}
      /\ UNCHANGED <<held, route, choice, list, stored, lost>>
      /\ loads' = loads \cup {Loading(tally.loads + 1, w.again, w.kind)}
  BY DEF Saved, BeginLoad
<1>3. /\ RowOf(w) \in SavedRows /\ RowOf(w).n = w.n
  BY <1>1 DEF RowOf, SavedRows, SentWrites
<1>4. /\ tally' \in [loads : Nat, writes : Nat, fillings : Nat]
      /\ tally'.loads = tally.loads + 1 /\ tally'.writes = tally.writes
      /\ tally'.fillings = tally.fillings
  BY DEF Saved, BeginLoad, ConsoleShape
<1>5. LoadsFit' /\ loads' \subseteq OpenLoads
  BY <1>1, <1>2, <1>4, BeginLoadFits DEF SentWrites, Reasons4Load
<1>6. /\ form' = [empty |-> form'.empty, filling |-> form'.filling, row |-> form'.row]
      /\ form'.filling = form.filling
      /\ form'.empty = IF w.kind = "submit" THEN form.empty \cup Here.form.cleared ELSE form.empty
  <2>1. form = [empty |-> form.empty, filling |-> form.filling, row |-> form.row]
    BY DEF ConsoleShape
  <2>2. CASE w.kind = "submit"
    <3> DEFINE empty == form.empty \cup Here.form.cleared
               row == Here.form.saves = "edited row" /\ form.row
    <3>1. form' = [form EXCEPT !.empty = empty, !.row = row]
      BY <2>2 DEF Saved
    <3> HIDE DEF empty, row
    <3>2. form' = [empty |-> empty, filling |-> form.filling, row |-> row]
      BY <2>1, <3>1
    <3> QED BY <2>2, <3>2 DEF empty
  <2>3. CASE w.kind # "submit"
    BY <2>1, <2>3 DEF Saved
  <2> QED BY <2>2, <2>3
<1>7. ConsoleShape'
  BY <1>1, <1>2, <1>3, <1>4, <1>5, <1>6 DEF ConsoleShape, Shown
<1>8. NumbersFit'
  <2>1. w.n \in Nat /\ w.n <= tally.writes
    BY <1>1 DEF NumbersFit, SentWrites
  <2>2. \A x \in writes' : x \in writes /\ x.n # w.n
    BY <1>2 DEF NumbersFit
  <2> QED BY <1>2, <1>3, <1>4, <1>6, <2>1, <2>2 DEF NumbersFit
<1>9. OneSaveAtATime'
  BY <1>2 DEF Saved, OneSaveAtATime
<1>10. FillingsFit'
  <2>1. Here' = Here
    BY <1>2 DEF Here, Shown
  <2>2. Here.form.once \/ Here.form.cleared # {}
    BY <1>1, SectionsAssumption DEF Here
  <2>3. w.kind = "submit" /\ form'.empty = {} => Here.form.once
    BY <1>6, <2>2
  <2>4. form'.empty = {} => form.empty = {}
    BY <1>6
  <2> QED BY <1>2, <1>6, <2>1, <2>3, <2>4
          DEF FillingsFit, FilledOnceWrittenOnce, MayRepeat
<1> QED BY <1>5, <1>7, <1>8, <1>9, <1>10

LEMMA NotSavedIInv == ASSUME ConsoleIInv, NEW w \in writes, NotSaved(w) PROVE ConsoleIInv'
<1> USE DEF ConsoleIInv
<1>1. writes' = writes \ {w} /\ lost \subseteq lost' /\ (w.at # "sent" => w.filling \in lost')
  BY DEF NotSaved
<1>2. ConsoleShape'
  BY <1>1 DEF NotSaved, ConsoleShape, Shown
<1>3. NumbersFit'
  BY <1>1 DEF NotSaved, NumbersFit
<1>4. OneSaveAtATime'
  BY <1>1 DEF NotSaved, OneSaveAtATime
<1>5. LoadsFit'
  BY DEF NotSaved, LoadsFit, Holds
<1>6. FillingsFit'
  <2>1. Here' = Here /\ UNCHANGED <<form, stored>>
    BY DEF NotSaved, Here, Shown
  <2> QED BY <1>1, <2>1 DEF FillingsFit, FilledOnceWrittenOnce, MayRepeat
<1> QED BY <1>2, <1>3, <1>4, <1>5, <1>6

LEMMA ConsoleStepIInv == ConsoleIInv /\ [NextConsole]_consoleVars => ConsoleIInv'
<1> SUFFICES ASSUME ConsoleIInv, [NextConsole]_consoleVars PROVE ConsoleIInv'
  OBVIOUS
<1>1. CASE \E address \in Links : Navigate(address)
  BY <1>1, NavigateIInv
<1>2. CASE \E c \in Choosables : Choose(c)
  BY <1>2, ChooseIInv
<1>3. CASE \E l \in loads : ReadRows(l) \/ Loaded(l) \/ LoadFailed(l)
  BY <1>3, ReadRowsIInv, EndLoadIInv DEF Loaded, LoadFailed
<1>4. CASE Fill \/ Copy \/ Submit \/ ActOnRow \/ Import
  BY <1>4, FillIInv, CopyIInv, SubmitIInv, ActIInv
<1>5. CASE \E w \in writes : Store(w) \/ StoreRest(w) \/ Saved(w) \/ NotSaved(w)
  BY <1>5, StoreIInv, StoreRestIInv, SavedIInv, NotSavedIInv
<1>6. CASE UNCHANGED consoleVars
  <2>1. UNCHANGED <<held, route, choice, form, list, loads, writes, pending, stored, reported,
                    lost, tally>>
    BY <1>6 DEF consoleVars
  <2>2. Shown' = Shown /\ Here' = Here
    BY <2>1 DEF Shown, Here
  <2> QED BY <2>1, <2>2 DEF ConsoleIInv, ConsoleShape, NumbersFit, OneSaveAtATime, FillingsFit,
          FilledOnceWrittenOnce, MayRepeat, LoadsFit, Holds
<1> QED BY <1>1, <1>2, <1>3, <1>4, <1>5, <1>6 DEF NextConsole

THEOREM ConsoleInvariance == ConsoleSpec => []ConsoleIInv
BY InitConsoleIInv, ConsoleStepIInv, PTL DEF ConsoleSpec

\* The console shows what was saved and saves once what was filled in once, in whatever order
\* lists and saves are answered, for any sections, choices and permissions.
THEOREM ConsoleSavesOnce == ConsoleSpec => []SavedOnceAndShown
<1>1. ConsoleIInv => SavedOnceAndShown
  BY DEF ConsoleIInv, LoadsFit, Holds, FillingsFit, SavedOnceAndShown, SavedIsShown
<1> QED BY <1>1, ConsoleInvariance, PTL

-----------------------------------------------------------------------------
(***************************************************************************)
(* The queue of punches.                                                   *)
(***************************************************************************)

Objects ==
  [phase : {"closed", "open", "left"}, pending : Seq(Punches), readable : BOOLEAN,
   unreadable : SUBSET Garbage, blocked : Reasons, sending : Sending,
   measuring : SUBSET Punches]

Ends == {"unused", "measuring", "late", "shown", "stands_for_stored", "refused", "rejected",
         "discarded", "ignored", "gone"}

\* A queue object: what is on its way is the head of what is held, and an object that could not
\* read the storage holds nothing.
Sound(o) ==
  /\ o \in Objects
  /\ o.phase = "closed" => o = Closed
  /\ o.phase # "open" => o.measuring = {}
  /\ o.sending # Idle => o.pending # <<>> /\ o.sending.punch = Head(o.pending)
  /\ ~o.readable => o.pending = <<>>

\* A press that was answered on the page: it was held, refused or left out.
Entered(p) == fate[p] \notin {"unused", "measuring", "late"}

Final(p) == fate[p] \in {"rejected", "discarded"}

QueueShape ==
  /\ disk = [queue |-> disk.queue, archive |-> disk.archive]
  /\ disk.queue \in Seq(Punches) \cup Garbage
  /\ page \in [Pages -> Objects]
  /\ \A id \in Pages : Sound(page[id])
  /\ recorded \subseteq Punches
  /\ fate \in [Punches -> Ends]
  /\ shown \in Seq(Punches)

\* What was accepted is recorded.
AnswersFit ==
  \A id \in Pages : page[id].sending.answer = "accepted" => page[id].sending.punch \in recorded

\* A press is measured by one page, and what is held and stored was pressed before.
PressesFit ==
  /\ \A id \in Pages : \A p \in Range(page[id].pending) : Entered(p)
  /\ \A p \in Stored : Entered(p)
  /\ \A id \in Pages : \A p \in page[id].measuring :
       fate[p] = "measuring" /\ \A other \in Pages : p \in page[other].measuring => other = id

\* An open page that read the storage set aside what it could not parse.
UnreadFits ==
  \A id \in Pages :
    page[id].phase # "closed" /\ page[id].readable /\ disk.queue \in Garbage
      => disk.queue \in page[id].unreadable \cup disk.archive

\* A page that knows what the storage holds holds the same.
CurrentFits ==
  \A id \in current :
    page[id].phase # "closed" /\ page[id].readable /\ disk.queue \notin Garbage
      => page[id].pending = disk.queue

QueueIInv ==
  QueueShape /\ AnswersFit /\ PressesFit /\ UnreadFits /\ CurrentFits /\ ShownIsKept

\* Content that cannot be parsed stays stored or archived.
UnreadStays ==
  \A g \in Garbage : disk.queue = g \/ g \in disk.archive =>
                       disk'.queue = g \/ g \in disk'.archive

-----------------------------------------------------------------------------
LEMMA AppendRange ==
  ASSUME NEW s \in Seq(Punches), NEW p \in Punches
  PROVE  /\ Append(s, p) \in Seq(Punches) /\ Append(s, p) # <<>>
         /\ Range(Append(s, p)) = Range(s) \cup {p}
         /\ s # <<>> => Head(Append(s, p)) = Head(s)
<1>1. /\ Append(s, p) \in Seq(Punches) /\ Append(s, p) # <<>>
      /\ Len(Append(s, p)) = Len(s) + 1
      /\ \A i \in 1..Len(s) : Append(s, p)[i] = s[i]
      /\ Append(s, p)[Len(s) + 1] = p
  BY AppendProperties
<1>2. /\ Range(Append(s, p)) = {Append(s, p)[i] : i \in 1..(Len(s) + 1)}
      /\ Range(s) = {s[i] : i \in 1..Len(s)}
  BY <1>1, RangeEquality
<1>3. Len(s) \in Nat /\ 1..(Len(s) + 1) = 1..Len(s) \cup {Len(s) + 1}
  OBVIOUS
<1>4. Range(Append(s, p)) = Range(s) \cup {p}
  BY <1>1, <1>2, <1>3
<1>5. s # <<>> => Head(Append(s, p)) = Head(s)
  BY HeadTailAppend
<1> QED BY <1>1, <1>4, <1>5

LEMMA TailRange ==
  ASSUME NEW s \in Seq(Punches), s # <<>>
  PROVE  /\ Tail(s) \in Seq(Punches) /\ Head(s) \in Punches
         /\ Range(s) = Range(Tail(s)) \cup {Head(s)}
<1>1. /\ Head(s) \in Punches /\ Tail(s) \in Seq(Punches) /\ Len(Tail(s)) = Len(s) - 1
      /\ \A i \in 1..Len(Tail(s)) : Tail(s)[i] = s[i + 1]
  BY HeadTailProperties
<1>2. /\ Range(Tail(s)) = {Tail(s)[i] : i \in 1..Len(Tail(s))}
      /\ Range(s) = {s[i] : i \in 1..Len(s)}
  BY <1>1, RangeEquality
<1>3. Len(s) \in Nat \ {0} /\ Head(s) = s[1]
  OBVIOUS
<1>4. \A i \in 1..Len(s) : i = 1 \/ (i - 1 \in 1..Len(Tail(s)) /\ s[i] = Tail(s)[i - 1])
  BY <1>1, <1>3
<1>5. \A x \in Range(s) : x \in Range(Tail(s)) \cup {Head(s)}
  BY <1>2, <1>3, <1>4
<1>6. \A x \in Range(Tail(s)) : x \in Range(s)
  BY <1>1, <1>2, <1>3
<1>7. Head(s) \in Range(s)
  BY <1>2, <1>3
<1> QED BY <1>1, <1>5, <1>6, <1>7

LEMMA EmptyRange == Range(<<>>) = {}
BY DEF Range

LEMMA ClosedIsSound == Sound(Closed)
<1>1. <<>> \in Seq(Punches) /\ Idle \in Sending
  BY DEF Sending
<1> QED BY <1>1 DEF Sound, Closed, Objects, Reasons

-----------------------------------------------------------------------------
\* What is true of the fates is kept when only presses that are measured or new change theirs,
\* or presses that were answered become final.
LEMMA FatesMove ==
  ASSUME QueueIInv, NEW id \in Pages, NEW o, Sound(o), page' = [page EXCEPT ![id] = o],
         fate' \in [Punches -> Ends],
         \A q \in Punches : \/ fate'[q] = fate[q]
                            \/ q \in page[id].measuring
                            \/ fate[q] = "unused"
                            \/ Entered(q) /\ Final(q)',
         \A q \in o.measuring : /\ fate'[q] = "measuring"
                                /\ q \in page[id].measuring \/ fate[q] = "unused"
  PROVE  /\ \A q \in Punches : Entered(q) => Entered(q)'
         /\ \A q \in Punches : Final(q) => Final(q)'
         /\ \A other \in Pages : \A p \in page'[other].measuring :
              /\ fate'[p] = "measuring"
              /\ \A another \in Pages : p \in page'[another].measuring => another = other
<1> USE DEF QueueIInv
<1>1. \A q \in page[id].measuring : q \in Punches /\ fate[q] = "measuring"
  BY DEF PressesFit, QueueShape, Objects
<1>2. \A q \in Punches : Entered(q) => Entered(q)'
  BY <1>1 DEF Entered, Final
<1>3. \A q \in Punches : Final(q) => Final(q)'
  BY <1>1 DEF Final
<1>4. \A other \in Pages : page'[other] = IF other = id THEN o ELSE page[other]
  BY DEF QueueShape
<1>5. \A other \in Pages \ {id} : \A p \in page[other].measuring :
        p \in Punches /\ fate[p] = "measuring" /\ p \notin page[id].measuring /\ fate'[p] = fate[p]
  BY DEF PressesFit, QueueShape, Objects, Entered
<1>6. \A other \in Pages \ {id} : \A p \in page[other].measuring : p \notin o.measuring
  BY <1>5
<1>7. ASSUME NEW other \in Pages, NEW p \in page'[other].measuring
      PROVE  /\ fate'[p] = "measuring"
             /\ \A another \in Pages : p \in page'[another].measuring => another = other
  BY <1>4, <1>5, <1>6, <1>7 DEF PressesFit
<1> QED BY <1>2, <1>3, <1>7

\* A step of a page that writes nothing to the queue's own key.
LEMMA QueueStays ==
  ASSUME QueueIInv, NEW id \in Pages, NEW o, Sound(o), page' = [page EXCEPT ![id] = o],
         disk' = [queue |-> disk.queue, archive |-> disk'.archive],
         disk.archive \subseteq disk'.archive,
         recorded \subseteq recorded', recorded' \subseteq Punches,
         shown' = shown, overwritten' = overwritten, current' \subseteq current \cup {id},
         fate' \in [Punches -> Ends],
         \A q \in Punches : fate'[q] = fate[q] \/ q \in page[id].measuring \/ fate[q] = "unused",
         \A q \in o.measuring : /\ fate'[q] = "measuring"
                                /\ q \in page[id].measuring \/ fate[q] = "unused",
         o.sending.answer = "accepted" => o.sending.punch \in recorded',
         \A p \in Range(o.pending) : p \in Range(page[id].pending) \cup Stored,
         id \in current' /\ o.phase # "closed" /\ o.readable /\ disk.queue \notin Garbage
           => o.pending = disk.queue,
         o.phase # "closed" /\ o.readable /\ disk.queue \in Garbage
           => disk.queue \in o.unreadable \cup disk'.archive
  PROVE  QueueIInv' /\ UnreadStays
<1> USE DEF QueueIInv
<1>1. \A other \in Pages : page'[other] = IF other = id THEN o ELSE page[other]
  BY DEF QueueShape
<1>2. disk'.queue = disk.queue /\ Stored' = Stored
  <2>1. disk'.queue = disk.queue
    OBVIOUS
  <2> QED BY <2>1 DEF Stored
<1>3. /\ \A q \in Punches : Entered(q) => Entered(q)'
      /\ \A q \in Punches : Final(q) => Final(q)'
      /\ \A other \in Pages : \A p \in page'[other].measuring :
           /\ fate'[p] = "measuring"
           /\ \A another \in Pages : p \in page'[another].measuring => another = other
  BY FatesMove
<1>4. QueueShape'
  BY <1>1, <1>2 DEF QueueShape, Sound
<1>5. AnswersFit'
  BY <1>1 DEF AnswersFit
<1>6. PressesFit'
  <2>1. \A other \in Pages : \A p \in Range(page[other].pending) : p \in Punches
    BY RangeOfSeq DEF QueueShape, Objects
  <2>2. \A p \in Stored : p \in Punches
    BY RangeOfSeq DEF QueueShape, Stored
  <2>3. \A other \in Pages : \A p \in Range(page'[other].pending) : Entered(p)'
    BY <1>1, <1>3, <2>1, <2>2 DEF PressesFit
  <2>4. \A p \in Stored' : Entered(p)'
    BY <1>2, <1>3, <2>2 DEF PressesFit
  <2> QED BY <1>3, <2>3, <2>4 DEF PressesFit
<1>7. UnreadFits'
  BY <1>1, <1>2 DEF UnreadFits
<1>8. CurrentFits'
  BY <1>1, <1>2 DEF CurrentFits
<1>9. ShownIsKept'
  <2>1. \A p \in ToSet(shown) : p \in Punches
    BY DEF QueueShape, ToSet
  <2> QED BY <1>2, <1>3, <2>1 DEF ShownIsKept, Accounted, Final
<1>10. UnreadStays
  BY <1>2 DEF UnreadStays
<1> QED BY <1>4, <1>5, <1>6, <1>7, <1>8, <1>9, <1>10

\* A step that stores what the page then holds.  What it drops is final.
LEMMA QueueStored ==
  ASSUME QueueIInv, NEW id \in Pages, NEW o, NEW before, NEW entries \in Seq(Punches),
         Sound(o), page' = [page EXCEPT ![id] = o],
         Stores(id, before, entries),
         o.phase # "closed" => o.pending = entries,
         disk.queue \in Garbage => disk.queue \in before.unreadable \cup disk.archive,
         recorded' = recorded,
         fate' \in [Punches -> Ends],
         \A q \in Punches : \/ fate'[q] = fate[q]
                            \/ q \in page[id].measuring
                            \/ Entered(q) /\ Final(q)',
         \A q \in o.measuring : fate'[q] = "measuring" /\ q \in page[id].measuring,
         o.sending.answer = "accepted" => o.sending.punch \in recorded,
         \A p \in Range(entries) : Entered(p)',
         id \in current => \A p \in Stored : p \in Range(entries) \cup recorded \/ Final(p)',
         \/ shown' = shown
         \/ \E p \in Range(entries) : p \in Punches /\ shown' = Append(shown, p)
  PROVE  QueueIInv' /\ UnreadStays
<1> USE DEF QueueIInv
<1>1. \A other \in Pages : page'[other] = IF other = id THEN o ELSE page[other]
  BY DEF QueueShape
<1>2. /\ disk' = [queue |-> entries, archive |-> disk.archive \cup before.unreadable]
      /\ current' = {id}
      /\ overwritten' = IF id \in current \/ disk.queue \in Garbage THEN overwritten
                        ELSE overwritten \cup (Range(disk.queue) \ Range(entries))
  BY DEF Stores, Archived
<1>3. /\ disk'.queue = entries /\ disk'.queue \notin Garbage /\ Stored' = Range(entries)
      /\ disk' = [queue |-> disk'.queue, archive |-> disk'.archive]
  BY <1>2, QueueAssumption DEF Stored
<1>4. /\ \A q \in Punches : Entered(q) => Entered(q)'
      /\ \A q \in Punches : Final(q) => Final(q)'
      /\ \A other \in Pages : \A p \in page'[other].measuring :
           /\ fate'[p] = "measuring"
           /\ \A another \in Pages : p \in page'[another].measuring => another = other
  BY FatesMove
<1>5. shown' \in Seq(Punches) /\ \A p \in ToSet(shown') : p \in ToSet(shown) \cup Range(entries)
  <2>1. CASE shown' = shown
    BY <2>1 DEF QueueShape
  <2>2. ASSUME NEW p \in Range(entries), p \in Punches, shown' = Append(shown, p)
        PROVE  /\ shown' \in Seq(Punches)
               /\ \A q \in ToSet(shown') : q \in ToSet(shown) \cup Range(entries)
    <3>1. shown' \in Seq(Punches) /\ Range(shown') = Range(shown) \cup {p}
      BY <2>2, AppendRange DEF QueueShape
    <3> QED BY <3>1 DEF Range, ToSet
  <2> QED BY <2>1, <2>2
<1>6. QueueShape'
  BY <1>1, <1>3, <1>5 DEF QueueShape, Sound
<1>7. AnswersFit'
  BY <1>1 DEF AnswersFit
<1>8. PressesFit'
  <2>1. \A other \in Pages : \A p \in Range(page[other].pending) : p \in Punches
    BY RangeOfSeq DEF QueueShape, Objects
  <2>2. \A other \in Pages : \A p \in Range(page'[other].pending) : Entered(p)'
    <3> SUFFICES ASSUME NEW other \in Pages, NEW p \in Range(page'[other].pending)
                 PROVE  Entered(p)'
      OBVIOUS
    <3>1. CASE other # id
      BY <1>1, <1>4, <2>1, <3>1 DEF PressesFit
    <3>2. CASE other = id /\ o.phase # "closed"
      BY <1>1, <3>2
    <3>3. CASE other = id /\ o.phase = "closed"
      BY <1>1, <3>3, EmptyRange DEF Sound, Closed
    <3> QED BY <3>1, <3>2, <3>3
  <2> QED BY <1>3, <1>4, <2>2 DEF PressesFit
<1>9. UnreadFits' /\ CurrentFits'
  BY <1>1, <1>2, <1>3 DEF UnreadFits, CurrentFits
<1>10. ShownIsKept'
  <2>1. \A p \in ToSet(shown) : p \in Punches
    BY DEF QueueShape, ToSet
  <2>2. \A p \in Stored : p \in Range(entries) \cup recorded \cup overwritten' \/ Final(p)'
    BY <1>2 DEF Stored
  <2>3. overwritten \subseteq overwritten'
    BY <1>2
  <2> QED BY <1>3, <1>4, <1>5, <2>1, <2>2, <2>3 DEF ShownIsKept, Accounted, Final
<1>11. UnreadStays
  BY <1>2 DEF UnreadStays
<1> QED BY <1>6, <1>7, <1>8, <1>9, <1>10, <1>11

-----------------------------------------------------------------------------
(***************************************************************************)
(* What becomes of a queue object.                                         *)
(***************************************************************************)

LEMMA RestoredFits ==
  ASSUME QueueShape, NEW o, Sound(o), o.phase = "open", o.sending = Idle
  PROVE  /\ Sound(Restored(o))
         /\ Restored(o).readable /\ Restored(o).phase = "open" /\ Restored(o).sending = Idle
         /\ Restored(o).measuring = o.measuring
         /\ Restored(o).pending = IF disk.queue \in Garbage THEN <<>> ELSE disk.queue
         /\ Restored(o).unreadable = IF disk.queue \in Garbage THEN {disk.queue} ELSE {}
<1> DEFINE waiting == IF disk.queue \in Garbage THEN <<>> ELSE disk.queue
           unreadable == IF disk.queue \in Garbage THEN {disk.queue} ELSE {}
           blocked == IF o.blocked = "storage_read_unavailable" THEN "none" ELSE o.blocked
<1>1. waiting \in Seq(Punches) /\ unreadable \subseteq Garbage
  BY DEF QueueShape
<1>2. blocked \in Reasons
  BY DEF Sound, Objects, Reasons
<1>3. o = [phase |-> o.phase, pending |-> o.pending, readable |-> o.readable,
           unreadable |-> o.unreadable, blocked |-> o.blocked, sending |-> o.sending,
           measuring |-> o.measuring]
  BY DEF Sound, Objects
<1>4. Restored(o) = [o EXCEPT !.readable = TRUE, !.pending = waiting,
                              !.unreadable = unreadable, !.blocked = blocked]
  BY DEF Restored
<1> HIDE DEF waiting, unreadable, blocked
<1>5. Restored(o) = [phase |-> "open", pending |-> waiting, readable |-> TRUE,
                     unreadable |-> unreadable, blocked |-> blocked, sending |-> Idle,
                     measuring |-> o.measuring]
  BY <1>3, <1>4
<1>6. Restored(o) \in Objects
  BY <1>1, <1>2, <1>5 DEF Sound, Objects, Sending
<1>7. Sound(Restored(o))
  BY <1>5, <1>6 DEF Sound
<1> QED BY <1>5, <1>7 DEF waiting, unreadable

LEMMA SendFits ==
  ASSUME NEW o, Sound(o), o.phase = "open"
  PROVE  /\ Sound(Send(o))
         /\ Send(o).sending.answer = "accepted" => Send(o).sending = o.sending
         /\ Send(o).phase = "open" /\ Send(o).pending = o.pending
         /\ Send(o).readable = o.readable /\ Send(o).unreadable = o.unreadable
         /\ Send(o).measuring = o.measuring
<1>1. CASE o.sending # Idle \/ o.pending = <<>>
  BY <1>1 DEF Send
<1>2. CASE o.sending = Idle /\ o.pending # <<>>
  <2> DEFINE sending == [punch |-> Head(o.pending), answer |-> "none"]
  <2>1. o.pending \in Seq(Punches) /\ Head(o.pending) \in Punches
    BY <1>2, TailRange DEF Sound, Objects
  <2>2. sending \in Sending /\ sending.punch = Head(o.pending) /\ sending.answer = "none"
    BY <2>1 DEF Sending
  <2>3. Send(o) = [o EXCEPT !.sending = sending]
    BY <1>2 DEF Send
  <2> HIDE DEF sending
  <2>4. o \in Objects /\ o.readable
    BY <1>2 DEF Sound
  <2>5. /\ Send(o) \in Objects /\ Send(o).sending = sending
        /\ Send(o).phase = "open" /\ Send(o).pending = o.pending
        /\ Send(o).readable = o.readable /\ Send(o).unreadable = o.unreadable
        /\ Send(o).measuring = o.measuring
    BY <2>2, <2>3, <2>4 DEF Objects
  <2> QED BY <1>2, <2>2, <2>4, <2>5 DEF Sound
<1> QED BY <1>1, <1>2 DEF Sound

LEMMA MeasuredFits ==
  ASSUME QueueShape, NEW id \in Pages, NEW p \in page[id].measuring
  PROVE  /\ Sound(Measured(id, p))
         /\ page[id].phase = "open" /\ Measured(id, p).phase = "open"
         /\ Measured(id, p).measuring = page[id].measuring \ {p}
         /\ Measured(id, p).pending = page[id].pending
         /\ Measured(id, p).readable = page[id].readable
         /\ Measured(id, p).unreadable = page[id].unreadable
         /\ Measured(id, p).sending = page[id].sending
<1>1. Sound(page[id]) /\ page[id].phase = "open"
  BY DEF QueueShape, Sound
<1>2. Measured(id, p) = [page[id] EXCEPT !.measuring = page[id].measuring \ {p}]
  BY DEF Measured
<1> QED BY <1>1, <1>2 DEF Sound, Objects

LEMMA BlockedFits ==
  ASSUME NEW o, Sound(o), o.phase # "closed", NEW reason \in Reasons
  PROVE  /\ Sound(Blocked(o, reason)) /\ Blocked(o, reason).phase = o.phase
         /\ Blocked(o, reason).measuring = o.measuring
         /\ Blocked(o, reason).pending = o.pending
         /\ Blocked(o, reason).readable = o.readable
         /\ Blocked(o, reason).unreadable = o.unreadable
         /\ Blocked(o, reason).sending = o.sending
BY DEF Blocked, Sound, Objects

\* The unparsed content that is archived needs no keeping.
LEMMA SetAsideFits ==
  ASSUME NEW o, Sound(o), o.phase # "closed"
  PROVE  LET o2 == [o EXCEPT !.unreadable = {}]
         IN  /\ Sound(o2) /\ o2.phase = o.phase /\ o2.measuring = o.measuring
             /\ o2.pending = o.pending /\ o2.readable = o.readable
             /\ o2.sending = o.sending /\ o2.unreadable = {}
BY DEF Sound, Objects

LEMMA StoreFailsFits ==
  ASSUME QueueShape, NEW o, Sound(o), o.phase # "closed", NEW o2 \in AfterStoreFails(o),
         StoreFails(o, o2)
  PROVE  /\ Sound(o2) /\ o2.phase = o.phase /\ o2.measuring = o.measuring
         /\ o2.pending = o.pending /\ o2.readable = o.readable /\ o2.sending = o.sending
         /\ disk' = [queue |-> disk.queue, archive |-> disk'.archive]
         /\ disk.archive \subseteq disk'.archive
         /\ o.unreadable \cup disk.archive \subseteq o2.unreadable \cup disk'.archive
         /\ current' = current /\ overwritten' = overwritten
<1>1. /\ Sound(o2) /\ o2.phase = o.phase /\ o2.measuring = o.measuring
      /\ o2.pending = o.pending /\ o2.readable = o.readable /\ o2.sending = o.sending
  BY SetAsideFits DEF AfterStoreFails
<1>2. disk = [queue |-> disk.queue, archive |-> disk.archive]
  BY DEF QueueShape
<1>3. CASE o2 = o /\ UNCHANGED disk
  BY <1>1, <1>2, <1>3 DEF StoreFails
<1>4. CASE disk' = [disk EXCEPT !.archive = Archived(o)]
  <2>1. disk' = [queue |-> disk.queue, archive |-> disk.archive \cup o.unreadable]
    BY <1>2, <1>4 DEF Archived
  <2> QED BY <1>1, <2>1 DEF StoreFails
<1> QED BY <1>3, <1>4 DEF StoreFails

\* A flush that ends leaves nothing on its way.
LEMMA FlushEndedFits ==
  ASSUME NEW o, Sound(o), o.phase # "closed"
  PROVE  /\ Sound(FlushEnded(o)) /\ FlushEnded(o).sending.answer = "none"
         /\ \/ FlushEnded(o) = Closed
            \/ /\ FlushEnded(o).pending = o.pending /\ FlushEnded(o).readable = o.readable
               /\ FlushEnded(o).unreadable = o.unreadable
         /\ FlushEnded(o).measuring \subseteq o.measuring
<1>1. CASE o.phase = "left"
  BY <1>1, ClosedIsSound DEF FlushEnded, Closed, Idle
<1>2. CASE o.phase # "left"
  <2>1. FlushEnded(o) = [o EXCEPT !.sending = Idle] /\ o \in Objects /\ Idle \in Sending
    BY <1>2 DEF FlushEnded, Sound, Sending
  <2>2. /\ FlushEnded(o) \in Objects /\ FlushEnded(o).sending = Idle
        /\ FlushEnded(o).phase = o.phase /\ FlushEnded(o).pending = o.pending
        /\ FlushEnded(o).readable = o.readable /\ FlushEnded(o).unreadable = o.unreadable
        /\ FlushEnded(o).measuring = o.measuring
    BY <2>1 DEF Objects
  <2> QED BY <2>2 DEF Sound, Idle
<1> QED BY <1>1, <1>2

-----------------------------------------------------------------------------
LEMMA InitQueueIInv == InitQueue => QueueIInv
<1> SUFFICES ASSUME InitQueue PROVE QueueIInv
  OBVIOUS
<1>1. /\ disk = [queue |-> disk.queue, archive |-> {}] /\ disk.queue \in {<<>>} \cup Garbage
      /\ page = [id \in Pages |-> Closed] /\ recorded = {}
      /\ fate = [p \in Punches |-> "unused"] /\ shown = <<>> /\ current = {}
  BY DEF InitQueue
<1>2. <<>> \in Seq(Punches)
  OBVIOUS
<1>3. Closed \in Objects
  BY ClosedIsSound DEF Sound
<1>4. QueueShape
  <2>1. disk = [queue |-> disk.queue, archive |-> disk.archive]
    BY <1>1
  <2>2. page \in [Pages -> Objects] /\ \A id \in Pages : Sound(page[id])
    BY <1>1, <1>3, ClosedIsSound
  <2>3. fate \in [Punches -> Ends]
    BY <1>1 DEF Ends
  <2> QED BY <1>1, <1>2, <2>1, <2>2, <2>3 DEF QueueShape
<1>5. Stored = {}
  BY <1>1, EmptyRange DEF Stored
<1>6. AnswersFit /\ UnreadFits /\ CurrentFits
  BY <1>1 DEF AnswersFit, UnreadFits, CurrentFits, Closed, Idle
<1>7. PressesFit
  BY <1>1, <1>5, EmptyRange DEF PressesFit, Closed
<1>8. ShownIsKept
  BY <1>1 DEF ShownIsKept, ToSet
<1> QED BY <1>4, <1>6, <1>7, <1>8 DEF QueueIInv

LEMMA OpenIInv ==
  ASSUME QueueIInv, NEW id \in Pages, Open(id) PROVE QueueIInv' /\ UnreadStays
<1> USE DEF QueueIInv
<1> DEFINE o == [Closed EXCEPT !.phase = "open"]
<1>1. page[id] = Closed
  BY DEF Open, QueueShape, Sound
<1>2. Sound(o) /\ o.phase = "open" /\ o.sending = Idle /\ o.measuring = {} /\ o.pending = <<>>
  BY ClosedIsSound DEF Sound, Objects, Closed
<1>3. /\ disk' = [queue |-> disk.queue, archive |-> disk'.archive]
      /\ UNCHANGED <<disk, recorded, fate, shown, overwritten>>
      /\ recorded' \subseteq Punches /\ fate' \in [Punches -> Ends]
  BY DEF Open, QueueShape
<1>4. CASE page' = [page EXCEPT ![id] = Restored(o)] /\ current' = current \cup {id}
  <2> HIDE DEF o
  <2> DEFINE o2 == Restored(o)
  <2>1. /\ Sound(o2) /\ o2.sending = Idle /\ o2.measuring = {}
        /\ o2.pending = IF disk.queue \in Garbage THEN <<>> ELSE disk.queue
        /\ o2.unreadable = IF disk.queue \in Garbage THEN {disk.queue} ELSE {}
    BY <1>2, RestoredFits
  <2>2. o2.sending.answer # "accepted" /\ \A p \in Range(o2.pending) : p \in Stored
    BY <2>1, EmptyRange DEF Idle, Stored
  <2>3. page' = [page EXCEPT ![id] = o2]
    BY <1>4
  <2> HIDE DEF o2
  <2> QED BY <1>3, <1>4, <2>1, <2>2, <2>3, QueueStays
<1>5. CASE page' = [page EXCEPT ![id] = Unread(o)] /\ UNCHANGED current
  <2> HIDE DEF o
  <2> DEFINE o2 == Unread(o)
  <2>1. /\ o2 \in Objects /\ o2.sending = Idle /\ o2.measuring = {} /\ ~o2.readable
        /\ o2.pending = <<>> /\ o2.phase = "open"
    BY <1>2 DEF Unread, Sound, Objects, Reasons
  <2>2. Sound(o2) /\ o2.sending.answer # "accepted" /\ \A p \in Range(o2.pending) : p \in Stored
    BY <2>1, EmptyRange DEF Idle, Sound
  <2>3. page' = [page EXCEPT ![id] = o2]
    BY <1>5
  <2> HIDE DEF o2
  <2> QED BY <1>3, <1>5, <2>1, <2>2, <2>3, QueueStays
<1> QED BY <1>4, <1>5 DEF Open

LEMMA DisposeIInv ==
  ASSUME QueueIInv, NEW id \in Pages, Dispose(id) PROVE QueueIInv' /\ UnreadStays
<1> USE DEF QueueIInv
<1> DEFINE o == IF page[id].sending = Idle THEN Closed
                ELSE [page[id] EXCEPT !.phase = "left", !.measuring = {}]
<1>1. Sound(page[id]) /\ page[id].phase = "open"
  BY DEF Dispose, QueueShape
<1>2. page' = [page EXCEPT ![id] = o]
  BY DEF Dispose
<1>3. /\ Sound(o) /\ o.measuring = {}
      /\ o.sending.answer = "accepted" => o.sending = page[id].sending
      /\ o = Closed \/ (/\ page[id].sending # Idle /\ o.pending = page[id].pending
                        /\ o.readable = page[id].readable /\ o.unreadable = page[id].unreadable)
  <2>1. CASE page[id].sending = Idle
    BY <2>1, ClosedIsSound DEF Closed, Idle
  <2>2. CASE page[id].sending # Idle
    BY <1>1, <2>2 DEF Sound, Objects
  <2> QED BY <2>1, <2>2
<1> HIDE DEF o
<1>4. /\ disk' = [queue |-> disk.queue, archive |-> disk'.archive]
      /\ UNCHANGED <<disk, recorded, shown, overwritten>> /\ recorded' \subseteq Punches
      /\ current' \subseteq current
  BY DEF Dispose, QueueShape
<1>5. /\ fate' \in [Punches -> Ends]
      /\ \A q \in Punches : fate'[q] = fate[q] \/ q \in page[id].measuring
  BY DEF Dispose, QueueShape, Ends
<1>6. \A p \in Range(o.pending) : p \in Range(page[id].pending)
  BY <1>3, EmptyRange DEF Closed
<1>7. o.sending.answer = "accepted" => o.sending.punch \in recorded
  BY <1>3 DEF AnswersFit
<1>8. /\ id \in current /\ o.phase # "closed" /\ o.readable /\ disk.queue \notin Garbage
           => o.pending = disk.queue
      /\ o.phase # "closed" /\ o.readable /\ disk.queue \in Garbage
           => disk.queue \in o.unreadable \cup disk.archive
  BY <1>1, <1>3 DEF CurrentFits, UnreadFits, Closed
<1> QED BY <1>2, <1>3, <1>4, <1>5, <1>6, <1>7, <1>8, QueueStays

LEMMA CloseIInv ==
  ASSUME QueueIInv, NEW id \in Pages, Close(id) PROVE QueueIInv' /\ UnreadStays
<1> USE DEF QueueIInv
<1>1. /\ disk' = [queue |-> disk.queue, archive |-> disk'.archive]
      /\ UNCHANGED <<disk, recorded, shown, overwritten>> /\ recorded' \subseteq Punches
      /\ current' \subseteq current /\ page' = [page EXCEPT ![id] = Closed]
  BY DEF Close, QueueShape
<1>2. /\ fate' \in [Punches -> Ends]
      /\ \A q \in Punches : fate'[q] = fate[q] \/ q \in page[id].measuring
  BY DEF Close, QueueShape, Ends
<1>3. /\ Closed.measuring = {} /\ Closed.sending.answer # "accepted" /\ Closed.phase = "closed"
      /\ Range(Closed.pending) = {}
  BY EmptyRange DEF Closed, Idle
<1> QED BY <1>1, <1>2, <1>3, ClosedIsSound, QueueStays

LEMMA PressIInv ==
  ASSUME QueueIInv, NEW id \in Pages, NEW p \in Punches, Press(id, p)
  PROVE  QueueIInv' /\ UnreadStays
<1> USE DEF QueueIInv
<1> DEFINE o == [page[id] EXCEPT !.measuring = page[id].measuring \cup {p}]
<1>1. Sound(page[id]) /\ page[id].phase = "open"
  BY DEF Press, QueueShape
<1>2. page' = [page EXCEPT ![id] = o]
  BY DEF Press
<1>3. /\ Sound(o) /\ o.measuring = page[id].measuring \cup {p} /\ o.sending = page[id].sending
      /\ o.pending = page[id].pending /\ o.readable = page[id].readable
      /\ o.unreadable = page[id].unreadable /\ o.phase = "open"
  BY <1>1 DEF Sound, Objects
<1> HIDE DEF o
<1>4. /\ disk' = [queue |-> disk.queue, archive |-> disk'.archive]
      /\ UNCHANGED <<disk, recorded, shown, overwritten, current>> /\ recorded' \subseteq Punches
  BY DEF Press, QueueShape
<1>5. fate[p] = "unused" /\ fate' = [fate EXCEPT ![p] = "measuring"] /\ fate \in [Punches -> Ends]
  BY DEF Press, QueueShape
<1>6. /\ fate' \in [Punches -> Ends]
      /\ \A q \in Punches : fate'[q] = fate[q] \/ fate[q] = "unused"
      /\ \A q \in o.measuring : /\ fate'[q] = "measuring"
                                /\ q \in page[id].measuring \/ fate[q] = "unused"
  <2>1. \A q \in page[id].measuring : q \in Punches /\ fate[q] = "measuring"
    BY <1>1 DEF PressesFit, Sound, Objects
  <2> QED BY <1>3, <1>5, <2>1 DEF Ends
<1>7. o.sending.answer = "accepted" => o.sending.punch \in recorded
  BY <1>3 DEF AnswersFit
<1>8. /\ id \in current /\ o.readable /\ disk.queue \notin Garbage => o.pending = disk.queue
      /\ o.readable /\ disk.queue \in Garbage => disk.queue \in o.unreadable \cup disk.archive
  BY <1>1, <1>3 DEF CurrentFits, UnreadFits
<1> QED BY <1>2, <1>3, <1>4, <1>6, <1>7, <1>8, QueueStays

-----------------------------------------------------------------------------
(***************************************************************************)
(* A press is held, once it is stored, or refused.                         *)
(***************************************************************************)

Holding(id, o, p) ==
  /\ Sound(o) /\ o.phase = "open" /\ o.readable
  /\ o.measuring = page[id].measuring \ {p}
  /\ o.sending.answer = "accepted" => o.sending.punch \in recorded
  /\ \A q \in Range(o.pending) : q \in Range(page[id].pending) \cup Stored
  /\ id \in current /\ disk.queue \notin Garbage => o.pending = disk.queue
  /\ disk.queue \in Garbage => disk.queue \in o.unreadable \cup disk.archive

LEMMA AcceptIInv ==
  ASSUME QueueIInv, NEW id \in Pages, NEW p \in page[id].measuring, NEW o, Holding(id, o, p),
         Accept(id, o, p), recorded' = recorded
  PROVE  QueueIInv' /\ UnreadStays
<1> USE DEF QueueIInv
<1> DEFINE entries == Append(o.pending, p)
           kept == [o EXCEPT !.pending = entries, !.blocked = "none", !.unreadable = {}]
           o2 == Send(kept)
<1>1. /\ Sound(o) /\ o.phase = "open" /\ o.readable /\ p \in Punches /\ Sound(page[id])
      /\ o.pending \in Seq(Punches)
  BY DEF Holding, Sound, Objects, QueueShape
<1>2. /\ entries \in Seq(Punches) /\ entries # <<>>
      /\ Range(entries) = Range(o.pending) \cup {p}
      /\ o.pending # <<>> => Head(entries) = Head(o.pending)
  BY <1>1, AppendRange
<1>3. /\ Stores(id, o, entries) /\ page' = [page EXCEPT ![id] = o2]
      /\ fate' = [fate EXCEPT ![p] = "shown"] /\ shown' = Append(shown, p)
  BY DEF Accept
<1> HIDE DEF entries, o2
<1>4. /\ Sound(kept) /\ kept.phase = "open" /\ kept.pending = entries
      /\ kept.measuring = o.measuring /\ kept.sending = o.sending
  <2>1. /\ kept \in Objects /\ kept.phase = "open" /\ kept.pending = entries
        /\ kept.measuring = o.measuring /\ kept.sending = o.sending /\ kept.readable
    BY <1>1, <1>2 DEF Sound, Objects, Reasons
  <2> HIDE DEF kept
  <2> QED BY <1>1, <1>2, <2>1 DEF Sound
<1> HIDE DEF kept
<1>5. /\ Sound(o2) /\ o2.pending = entries /\ o2.measuring = o.measuring
      /\ o2.sending.answer = "accepted" => o2.sending = o.sending
  BY <1>4, SendFits DEF o2
<1>6. fate \in [Punches -> Ends] /\ fate' \in [Punches -> Ends]
  BY <1>3 DEF QueueShape, Ends
<1>7. \A q \in Punches : fate'[q] = fate[q] \/ q \in page[id].measuring
  BY <1>3, <1>6
<1>8. \A q \in o2.measuring : fate'[q] = "measuring" /\ q \in page[id].measuring
  BY <1>1, <1>3, <1>5, <1>6 DEF Holding, PressesFit, Sound, Objects
<1>9. o2.sending.answer = "accepted" => o2.sending.punch \in recorded
  BY <1>5 DEF Holding
<1>10. \A q \in Range(entries) : Entered(q)'
  <2>1. Entered(p)'
    BY <1>1, <1>3, <1>6 DEF Entered
  <2>2. \A q \in Range(o.pending) : q \in Punches /\ Entered(q)
    BY <1>1, RangeOfSeq DEF Holding, PressesFit
  <2> QED BY <1>2, <1>3, <1>6, <2>1, <2>2 DEF Entered
<1>11. id \in current => \A q \in Stored : q \in Range(entries)
  BY <1>2 DEF Holding, Stored
<1>12. \E q \in Range(entries) : q \in Punches /\ shown' = Append(shown, q)
  BY <1>1, <1>2, <1>3
<1>13. disk.queue \in Garbage => disk.queue \in o.unreadable \cup disk.archive
  BY DEF Holding
<1> QED BY <1>2, <1>3, <1>5, <1>6, <1>7, <1>8, <1>9, <1>10, <1>11, <1>12, <1>13, QueueStored

LEMMA RefuseIInv ==
  ASSUME QueueIInv, NEW id \in Pages, NEW p \in page[id].measuring, NEW o, Holding(id, o, p),
         RefuseToHold(id, o, p), recorded' = recorded
  PROVE  QueueIInv' /\ UnreadStays
<1> USE DEF QueueIInv
<1>1. Sound(o) /\ o.phase = "open" /\ p \in Punches /\ Sound(page[id])
  BY DEF Holding, Sound, Objects, QueueShape
<1>2. PICK o2 \in AfterStoreFails(o) :
        /\ StoreFails(o, o2)
        /\ page' = [page EXCEPT ![id] = Blocked(o2, "storage_write_unavailable")]
  BY DEF RefuseToHold
<1>3. /\ Sound(o2) /\ o2.phase = o.phase /\ o2.measuring = o.measuring
      /\ o2.pending = o.pending /\ o2.readable = o.readable /\ o2.sending = o.sending
      /\ disk' = [queue |-> disk.queue, archive |-> disk'.archive]
      /\ disk.archive \subseteq disk'.archive
      /\ o.unreadable \cup disk.archive \subseteq o2.unreadable \cup disk'.archive
      /\ current' = current /\ overwritten' = overwritten
  BY <1>1, <1>2, StoreFailsFits
<1> DEFINE o3 == Blocked(o2, "storage_write_unavailable")
<1>4. /\ Sound(o3) /\ o3.phase = o.phase /\ o3.measuring = o.measuring
      /\ o3.pending = o.pending /\ o3.readable = o.readable /\ o3.sending = o.sending
      /\ o3.unreadable = o2.unreadable
  BY <1>1, <1>3, BlockedFits DEF Reasons
<1>5. page' = [page EXCEPT ![id] = o3]
  BY <1>2
<1> HIDE DEF o3
<1>6. fate' = [fate EXCEPT ![p] = "refused"] /\ fate \in [Punches -> Ends] /\ shown' = shown
  BY DEF RefuseToHold, QueueShape
<1>7. /\ fate' \in [Punches -> Ends]
      /\ \A q \in Punches : fate'[q] = fate[q] \/ q \in page[id].measuring
      /\ \A q \in o3.measuring : fate'[q] = "measuring" /\ q \in page[id].measuring
  BY <1>1, <1>4, <1>6 DEF Holding, PressesFit, Sound, Objects, Ends
<1>8. recorded' \subseteq Punches
  BY DEF QueueShape
<1> QED BY <1>3, <1>4, <1>5, <1>6, <1>7, <1>8, QueueStays DEF Holding

LEMMA EnqueueIInv ==
  ASSUME QueueIInv, NEW id \in Pages, NEW p \in Punches, Enqueue(id, p)
  PROVE  QueueIInv' /\ UnreadStays
<1> USE DEF QueueIInv
<1> DEFINE o == Measured(id, p)
<1>1. p \in page[id].measuring /\ page[id].readable /\ recorded' = recorded
  BY DEF Enqueue
<1>2. /\ Sound(o) /\ page[id].phase = "open" /\ o.phase = "open"
      /\ o.measuring = page[id].measuring \ {p} /\ o.pending = page[id].pending
      /\ o.readable = page[id].readable /\ o.unreadable = page[id].unreadable
      /\ o.sending = page[id].sending
  BY <1>1, MeasuredFits
<1>3. Accept(id, o, p) \/ RefuseToHold(id, o, p)
  BY DEF Enqueue
<1> HIDE DEF o
<1>4. Holding(id, o, p)
  BY <1>1, <1>2 DEF Holding, AnswersFit, CurrentFits, UnreadFits
<1> QED BY <1>1, <1>3, <1>4, AcceptIInv, RefuseIInv

LEMMA EnqueueUnreadIInv ==
  ASSUME QueueIInv, NEW id \in Pages, NEW p \in Punches, EnqueueUnread(id, p)
  PROVE  QueueIInv' /\ UnreadStays
<1> USE DEF QueueIInv
<1> DEFINE o == Measured(id, p)
           o2 == Restored(o)
<1>1. p \in page[id].measuring /\ ~page[id].readable /\ recorded' = recorded
  BY DEF EnqueueUnread
<1>2. /\ Sound(o) /\ page[id].phase = "open" /\ o.phase = "open"
      /\ o.measuring = page[id].measuring \ {p} /\ o.pending = page[id].pending
      /\ ~o.readable /\ o.sending = page[id].sending
  BY <1>1, MeasuredFits
<1>3. o.sending = Idle
  BY <1>2 DEF Sound
<1>4. \/ /\ page' = [page EXCEPT ![id] = o]
         /\ fate' = [fate EXCEPT ![p] = "refused"]
         /\ UNCHANGED <<disk, shown, current, overwritten>>
      \/ /\ page' = [page EXCEPT ![id] = Send(o2)]
         /\ fate' = [fate EXCEPT ![p] = "stands_for_stored"]
         /\ current' = current \cup {id}
         /\ UNCHANGED <<disk, shown, overwritten>>
      \/ Accept(id, o2, p) \/ RefuseToHold(id, o2, p)
  BY DEF EnqueueUnread
<1> HIDE DEF o
<1>5. /\ Sound(o2) /\ o2.readable /\ o2.phase = "open" /\ o2.sending = Idle
      /\ o2.measuring = o.measuring
      /\ o2.pending = IF disk.queue \in Garbage THEN <<>> ELSE disk.queue
      /\ o2.unreadable = IF disk.queue \in Garbage THEN {disk.queue} ELSE {}
  BY <1>2, <1>3, RestoredFits
<1> HIDE DEF o2
<1>6. Range(o2.pending) = Stored /\ o2.sending.answer # "accepted" /\ o.sending.answer # "accepted"
  <2>1. CASE disk.queue \in Garbage
    <3>1. o2.pending = <<>>
      BY <1>5, <2>1
    <3> QED BY <1>3, <1>5, <2>1, <3>1, EmptyRange DEF Stored, Idle
  <2>2. CASE disk.queue \notin Garbage
    BY <1>3, <1>5, <2>2 DEF Stored, Idle
  <2> QED BY <2>1, <2>2
<1>7. Holding(id, o2, p)
  BY <1>2, <1>5, <1>6 DEF Holding
<1>8. /\ disk = [queue |-> disk.queue, archive |-> disk.archive] /\ recorded' \subseteq Punches
      /\ fate \in [Punches -> Ends]
  BY <1>1 DEF QueueShape
<1>9. ASSUME NEW end \in {"refused", "stands_for_stored"}, fate' = [fate EXCEPT ![p] = end]
      PROVE  /\ fate' \in [Punches -> Ends]
             /\ \A q \in Punches : fate'[q] = fate[q] \/ q \in page[id].measuring
             /\ \A q \in o.measuring : fate'[q] = "measuring" /\ q \in page[id].measuring
  BY <1>1, <1>2, <1>8, <1>9 DEF PressesFit, Sound, Objects, Ends
<1>10. CASE /\ page' = [page EXCEPT ![id] = o]
            /\ fate' = [fate EXCEPT ![p] = "refused"]
            /\ UNCHANGED <<disk, shown, current, overwritten>>
  <2>1. disk' = [queue |-> disk.queue, archive |-> disk'.archive]
    BY <1>8, <1>10
  <2> QED BY <1>1, <1>2, <1>6, <1>8, <1>9, <1>10, <2>1, QueueStays
<1>11. CASE /\ page' = [page EXCEPT ![id] = Send(o2)]
            /\ fate' = [fate EXCEPT ![p] = "stands_for_stored"]
            /\ current' = current \cup {id}
            /\ UNCHANGED <<disk, shown, overwritten>>
  <2> DEFINE o3 == Send(o2)
  <2>1. /\ Sound(o3) /\ o3.pending = o2.pending /\ o3.measuring = o.measuring
        /\ o3.unreadable = o2.unreadable /\ o3.sending.answer # "accepted"
    BY <1>5, <1>6, SendFits
  <2>2. disk' = [queue |-> disk.queue, archive |-> disk'.archive]
    BY <1>8, <1>11
  <2>3. page' = [page EXCEPT ![id] = o3]
    BY <1>11
  <2> HIDE DEF o3
  <2> QED BY <1>1, <1>5, <1>6, <1>8, <1>9, <1>11, <2>1, <2>2, <2>3, QueueStays
<1> QED BY <1>1, <1>4, <1>7, <1>10, <1>11, AcceptIInv, RefuseIInv

-----------------------------------------------------------------------------
(***************************************************************************)
(* Flushes, the server and its answers.                                    *)
(***************************************************************************)

LEMMA FlushIInv ==
  ASSUME QueueIInv, NEW id \in Pages, Flush(id) PROVE QueueIInv' /\ UnreadStays
<1> USE DEF QueueIInv
<1>1. Sound(page[id]) /\ page[id].phase = "open" /\ page[id].sending = Idle
  BY DEF Flush, QueueShape
<1>2. /\ disk' = [queue |-> disk.queue, archive |-> disk'.archive]
      /\ UNCHANGED <<disk, recorded, fate, shown, overwritten>> /\ recorded' \subseteq Punches
      /\ fate' \in [Punches -> Ends]
  BY DEF Flush, QueueShape
<1>3. \A q \in page[id].measuring : fate'[q] = "measuring"
  BY <1>2 DEF PressesFit
<1>4. CASE page[id].readable /\ page' = [page EXCEPT ![id] = Send(page[id])] /\ UNCHANGED current
  <2> DEFINE o == Send(page[id])
  <2>1. /\ Sound(o) /\ o.pending = page[id].pending /\ o.measuring = page[id].measuring
        /\ o.unreadable = page[id].unreadable /\ o.readable = page[id].readable
        /\ o.sending.answer # "accepted"
    BY <1>1, SendFits DEF Idle
  <2>2. page' = [page EXCEPT ![id] = o]
    BY <1>4
  <2> HIDE DEF o
  <2>3. /\ id \in current /\ disk.queue \notin Garbage => o.pending = disk.queue
        /\ disk.queue \in Garbage => disk.queue \in o.unreadable \cup disk.archive
    BY <1>1, <1>4, <2>1 DEF CurrentFits, UnreadFits
  <2> QED BY <1>2, <1>3, <1>4, <2>1, <2>2, <2>3, QueueStays
<1>5. CASE /\ page' = [page EXCEPT ![id] = Send(Restored(page[id]))]
           /\ current' = current \cup {id}
  <2> DEFINE o2 == Restored(page[id])
             o == Send(o2)
  <2>1. /\ Sound(o2) /\ o2.phase = "open" /\ o2.sending = Idle
        /\ o2.measuring = page[id].measuring
        /\ o2.pending = IF disk.queue \in Garbage THEN <<>> ELSE disk.queue
        /\ o2.unreadable = IF disk.queue \in Garbage THEN {disk.queue} ELSE {}
    BY <1>1, RestoredFits
  <2> HIDE DEF o2
  <2>2. /\ Sound(o) /\ o.pending = o2.pending /\ o.measuring = page[id].measuring
        /\ o.unreadable = o2.unreadable /\ o.sending.answer # "accepted"
    BY <2>1, SendFits DEF Idle
  <2>3. page' = [page EXCEPT ![id] = o]
    BY <1>5 DEF o2
  <2> HIDE DEF o
  <2>4. \A p \in Range(o.pending) : p \in Stored
    BY <2>1, <2>2, EmptyRange DEF Stored
  <2> QED BY <1>2, <1>3, <1>5, <2>1, <2>2, <2>3, <2>4, QueueStays
<1> QED BY <1>4, <1>5 DEF Flush

LEMMA ArrivesIInv ==
  ASSUME QueueIInv, NEW id \in Pages, Arrives(id) PROVE QueueIInv' /\ UnreadStays
<1> USE DEF QueueIInv
<1>1. /\ Sound(page[id]) /\ page[id].sending # Idle
      /\ page[id].sending \in [punch : Punches, answer : {"none", "accepted", "rejected"}]
  BY DEF Arrives, QueueShape, Sound, Objects, Sending
<1>2. /\ disk' = [queue |-> disk.queue, archive |-> disk'.archive]
      /\ UNCHANGED <<disk, fate, shown, overwritten, current>> /\ fate' \in [Punches -> Ends]
  BY DEF Arrives, QueueShape
<1>3. /\ recorded \subseteq recorded' /\ recorded' \subseteq Punches
  BY <1>1 DEF Arrives, QueueShape
<1>4. PICK answer \in {"accepted", "rejected"} :
        /\ page' = [page EXCEPT ![id].sending.answer = answer]
        /\ answer = "accepted" => page[id].sending.punch \in recorded'
  BY DEF Arrives
<1> DEFINE sending == [punch |-> page[id].sending.punch, answer |-> answer]
           o == [page[id] EXCEPT !.sending = sending]
<1>5. /\ sending \in Sending /\ sending # Idle /\ sending.punch = page[id].sending.punch
      /\ sending.answer = answer
  BY <1>1 DEF Sending, Idle
<1>6. page' = [page EXCEPT ![id] = o]
  <2>1. [page[id].sending EXCEPT !.answer = answer] = sending
    BY <1>1
  <2> QED BY <1>4, <2>1
<1> HIDE DEF sending
<1>7. /\ o \in Objects /\ o.sending = sending /\ o.phase = page[id].phase
      /\ o.pending = page[id].pending /\ o.measuring = page[id].measuring
      /\ o.unreadable = page[id].unreadable /\ o.readable = page[id].readable
  BY <1>1, <1>5 DEF Sound, Objects
<1> HIDE DEF o
<1>8. Sound(o) /\ o.phase # "closed"
  <2>1. page[id].phase # "closed"
    BY <1>1 DEF Sound, Closed
  <2> QED BY <1>1, <1>5, <1>7, <2>1 DEF Sound
<1>9. /\ id \in current /\ o.readable /\ disk.queue \notin Garbage => o.pending = disk.queue
      /\ o.readable /\ disk.queue \in Garbage => disk.queue \in o.unreadable \cup disk.archive
  BY <1>7, <1>8 DEF CurrentFits, UnreadFits
<1>10. \A q \in o.measuring : fate'[q] = "measuring" /\ q \in page[id].measuring
  BY <1>2, <1>7 DEF PressesFit
<1> QED BY <1>2, <1>3, <1>4, <1>5, <1>6, <1>7, <1>8, <1>9, <1>10, QueueStays

\* A flush that ends without an entry being stored.
LEMMA EndsUnstored ==
  ASSUME QueueIInv, NEW id \in Pages, page[id].sending # Idle, NEW reason \in Reasons, NEW o2,
         \/ /\ o2 = page[id] /\ UNCHANGED <<disk, current, overwritten>>
         \/ o2 \in AfterStoreFails(page[id]) /\ StoreFails(page[id], o2),
         page' = [page EXCEPT ![id] = FlushEnded(Blocked(o2, reason))],
         UNCHANGED <<recorded, fate, shown>>
  PROVE  QueueIInv' /\ UnreadStays
<1> USE DEF QueueIInv
<1>1. Sound(page[id]) /\ page[id].phase # "closed"
  BY DEF QueueShape, Sound, Closed
<1>2. /\ Sound(o2) /\ o2.phase # "closed" /\ o2.measuring = page[id].measuring
      /\ o2.pending = page[id].pending /\ o2.readable = page[id].readable
      /\ disk' = [queue |-> disk.queue, archive |-> disk'.archive]
      /\ disk.archive \subseteq disk'.archive
      /\ page[id].unreadable \cup disk.archive \subseteq o2.unreadable \cup disk'.archive
      /\ current' = current /\ overwritten' = overwritten
  <2>1. CASE o2 = page[id] /\ UNCHANGED <<disk, current, overwritten>>
    BY <1>1, <2>1 DEF QueueShape
  <2>2. CASE o2 \in AfterStoreFails(page[id]) /\ StoreFails(page[id], o2)
    BY <1>1, <2>2, StoreFailsFits
  <2> QED BY <2>1, <2>2
<1> DEFINE o3 == Blocked(o2, reason)
           o == FlushEnded(o3)
<1>3. /\ Sound(o3) /\ o3.phase # "closed" /\ o3.measuring = page[id].measuring
      /\ o3.pending = page[id].pending /\ o3.readable = page[id].readable
      /\ o3.unreadable = o2.unreadable
  BY <1>2, BlockedFits
<1> HIDE DEF o3
<1>4. /\ Sound(o) /\ o.sending.answer = "none"
      /\ \/ o = Closed
         \/ /\ o.pending = page[id].pending /\ o.readable = page[id].readable
            /\ o.unreadable = o2.unreadable
      /\ o.measuring \subseteq page[id].measuring
  BY <1>3, FlushEndedFits
<1>5. page' = [page EXCEPT ![id] = o]
  BY DEF o3
<1> HIDE DEF o
<1>6. \A p \in Range(o.pending) : p \in Range(page[id].pending)
  BY <1>4, EmptyRange DEF Closed
<1>7. /\ id \in current /\ o.phase # "closed" /\ o.readable /\ disk.queue \notin Garbage
           => o.pending = disk.queue
      /\ o.phase # "closed" /\ o.readable /\ disk.queue \in Garbage
           => disk.queue \in o.unreadable \cup disk'.archive
  BY <1>1, <1>2, <1>4 DEF CurrentFits, UnreadFits, Closed
<1>8. /\ fate' \in [Punches -> Ends] /\ recorded' \subseteq Punches
      /\ \A q \in o.measuring : fate'[q] = "measuring" /\ q \in page[id].measuring
  BY <1>4 DEF QueueShape, PressesFit
<1> QED BY <1>2, <1>4, <1>5, <1>6, <1>7, <1>8, QueueStays

\* An answer that was stored: what leaves the queue is recorded, or rejected for good.
LEMMA AnsweredIInv ==
  ASSUME QueueIInv, NEW id \in Pages, Answered(id) PROVE QueueIInv' /\ UnreadStays
<1> USE DEF QueueIInv
<1> DEFINE o == page[id]
           entries == Tail(o.pending)
           rest == [o EXCEPT !.pending = entries, !.blocked = "none", !.unreadable = {},
                             !.sending = Idle]
           o2 == IF o.phase = "left" THEN Closed ELSE Send(rest)
<1>1. /\ Sound(o) /\ o.phase # "closed" /\ o.pending \in Seq(Punches) /\ o.pending # <<>>
      /\ o.sending.punch = Head(o.pending) /\ o.readable /\ o.sending # Idle
      /\ o.sending.answer # "none"
  BY DEF Answered, QueueShape, Sound, Objects, Closed
<1>2. PICK p \in Punches : /\ p = o.sending.punch /\ entries \in Seq(Punches)
                           /\ Range(o.pending) = Range(entries) \cup {p}
  BY <1>1, TailRange
<1>3. CASE /\ Stores(id, o, entries)
           /\ page' = [page EXCEPT ![id] = o2]
           /\ fate' = IF o.sending.answer = "accepted" THEN fate
                      ELSE [fate EXCEPT ![p] = IF o.phase = "left" THEN "discarded"
                                               ELSE "rejected"]
           /\ recorded' = recorded /\ shown' = shown
  <2>1. /\ Sound(o2) /\ o2.sending.answer # "accepted"
        /\ o2.measuring \subseteq o.measuring
        /\ o2.phase # "closed" => o2.pending = entries
    <3>1. CASE o.phase = "left"
      BY <3>1, ClosedIsSound DEF Closed, Idle
    <3>2. CASE o.phase # "left"
      <4> HIDE DEF entries
      <4>1. /\ rest \in Objects /\ rest.phase = "open" /\ rest.pending = entries
            /\ rest.sending = Idle /\ rest.measuring = o.measuring /\ rest.readable
        BY <1>1, <1>2, <3>2 DEF Sound, Objects, Sending, Reasons
      <4> HIDE DEF rest
      <4>2. Sound(rest)
        BY <4>1 DEF Sound
      <4>3. o2 = Send(rest)
        BY <3>2
      <4> QED BY <4>1, <4>2, <4>3, SendFits DEF Idle
    <3> QED BY <3>1, <3>2
  <2> HIDE DEF o2, rest, entries
  <2>2. Entered(p) /\ (o.sending.answer = "accepted" => p \in recorded)
    BY <1>2 DEF PressesFit, AnswersFit
  <2>3. fate \in [Punches -> Ends]
    BY DEF QueueShape
  <2>4. /\ fate' \in [Punches -> Ends]
        /\ \A q \in Punches : fate'[q] = fate[q] \/ (Entered(q) /\ Final(q)')
    BY <1>2, <1>3, <2>2, <2>3 DEF Ends, Final
  <2>5. p \in recorded \/ Final(p)'
    <3>1. CASE o.sending.answer = "accepted"
      BY <2>2, <3>1
    <3>2. CASE o.sending.answer # "accepted"
      <4>1. fate'[p] = IF o.phase = "left" THEN "discarded" ELSE "rejected"
        BY <1>2, <1>3, <2>3, <3>2
      <4> QED BY <4>1 DEF Final
    <3> QED BY <3>1, <3>2
  <2>6. \A q \in Range(entries) : Entered(q)'
    <3>1. \A q \in Range(entries) : q \in Punches /\ Entered(q)
      BY <1>2, RangeOfSeq DEF PressesFit
    <3> QED BY <2>4, <3>1 DEF Entered, Final
  <2>7. \A q \in o2.measuring : fate'[q] = "measuring" /\ q \in page[id].measuring
    <3>1. \A q \in o.measuring : q \in Punches /\ fate[q] = "measuring"
      BY <1>1 DEF PressesFit, Sound, Objects
    <3> QED BY <2>1, <2>4, <3>1 DEF Entered
  <2>8. id \in current => \A q \in Stored : q \in Range(entries) \cup recorded \/ Final(q)'
    <3>1. CASE disk.queue \in Garbage
      BY <3>1 DEF Stored
    <3>2. CASE disk.queue \notin Garbage /\ id \in current
      <4>1. Stored = Range(o.pending)
        BY <1>1, <3>2 DEF CurrentFits, Stored
      <4> QED BY <1>2, <2>5, <4>1
    <3> QED BY <3>1, <3>2
  <2>9. disk.queue \in Garbage => disk.queue \in o.unreadable \cup disk.archive
    BY <1>1 DEF UnreadFits
  <2> QED BY <1>2, <1>3, <2>1, <2>4, <2>6, <2>7, <2>8, <2>9, QueueStored
<1>4. CASE \E o3 \in AfterStoreFails(o) :
             /\ StoreFails(o, o3)
             /\ page' = [page EXCEPT ![id] =
                             FlushEnded(Blocked(o3, "storage_write_unavailable"))]
             /\ UNCHANGED <<recorded, fate, shown>>
  BY <1>1, <1>4, EndsUnstored DEF Reasons
<1> QED BY <1>2, <1>3, <1>4 DEF Answered

LEMMA UnansweredIInv ==
  ASSUME QueueIInv, NEW id \in Pages, Unanswered(id) PROVE QueueIInv' /\ UnreadStays
<1> USE DEF QueueIInv
<1> DEFINE o == page[id]
           o2 == [o EXCEPT !.unreadable = {}]
           o3 == Blocked(o2, "retry_later")
           o4 == FlushEnded(o3)
<1>1. /\ Sound(o) /\ o.phase # "closed" /\ o.pending \in Seq(Punches)
      /\ o.readable /\ o.sending # Idle
  BY DEF Unanswered, QueueShape, Sound, Objects, Closed
<1>2. CASE Stores(id, o, o.pending) /\ page' = [page EXCEPT ![id] = o4]
  <2>1. /\ Sound(o2) /\ o2.phase # "closed" /\ o2.pending = o.pending
        /\ o2.measuring = o.measuring
    BY <1>1, SetAsideFits
  <2> HIDE DEF o2
  <2>2. /\ Sound(o3) /\ o3.phase # "closed" /\ o3.pending = o.pending
        /\ o3.measuring = o.measuring
    BY <2>1, BlockedFits DEF Reasons
  <2> HIDE DEF o3
  <2>3. /\ Sound(o4) /\ o4.sending.answer = "none" /\ o4.measuring \subseteq o.measuring
        /\ o4.phase # "closed" => o4.pending = o.pending
    BY <2>2, FlushEndedFits DEF Closed
  <2> HIDE DEF o4
  <2>4. /\ fate' = fate /\ fate' \in [Punches -> Ends] /\ recorded' = recorded /\ shown' = shown
    BY DEF Unanswered, QueueShape
  <2>5. /\ \A q \in Range(o.pending) : Entered(q)'
        /\ \A q \in o4.measuring : fate'[q] = "measuring" /\ q \in page[id].measuring
    BY <2>3, <2>4 DEF PressesFit, Entered
  <2>6. id \in current => \A q \in Stored : q \in Range(o.pending)
    BY <1>1 DEF CurrentFits, Stored
  <2>7. disk.queue \in Garbage => disk.queue \in o.unreadable \cup disk.archive
    BY <1>1 DEF UnreadFits
  <2> HIDE DEF o
  <2> QED BY <1>1, <1>2, <2>3, <2>4, <2>5, <2>6, <2>7, QueueStored
<1>3. CASE \E o5 \in AfterStoreFails(o) :
             /\ StoreFails(o, o5)
             /\ page' = [page EXCEPT ![id] =
                             FlushEnded(Blocked(o5, "storage_write_unavailable"))]
  BY <1>1, <1>3, EndsUnstored DEF Reasons, Unanswered
<1> QED BY <1>2, <1>3 DEF Unanswered

LEMMA NotAllowedIInv ==
  ASSUME QueueIInv, NEW id \in Pages, NotAllowed(id) PROVE QueueIInv' /\ UnreadStays
BY EndsUnstored DEF NotAllowed, Reasons

\* A press on a page that was left, and a request nobody waits for.
LEMMA LateIInv ==
  ASSUME QueueIInv, NEW p \in Punches, EnqueueLate(p) \/ ArrivesLate(p)
  PROVE  QueueIInv' /\ UnreadStays
<1> USE DEF QueueIInv
<1>1. UNCHANGED <<disk, page, shown, current, overwritten>> /\ Stored' = Stored
  BY DEF EnqueueLate, ArrivesLate, Stored
<1>2. recorded \subseteq recorded' /\ recorded' \subseteq Punches \cup {p}
  BY DEF EnqueueLate, ArrivesLate, QueueShape
<1>3. /\ fate' \in [Punches -> Ends]
      /\ \A q \in Punches : fate'[q] = fate[q] \/ (fate[q] = "late" /\ fate'[q] = "ignored")
  BY DEF EnqueueLate, ArrivesLate, QueueShape, Ends
<1>4. /\ \A q \in Punches : Entered(q) => Entered(q)'
      /\ \A q \in Punches : Final(q) => Final(q)'
      /\ \A q \in Punches : fate[q] = "measuring" => fate'[q] = "measuring"
  BY <1>3 DEF Entered, Final
<1>5. /\ \A id \in Pages : \A q \in Range(page[id].pending) \cup page[id].measuring : q \in Punches
      /\ \A q \in Stored \cup ToSet(shown) : q \in Punches
  BY RangeOfSeq DEF QueueShape, Objects, Stored, ToSet
<1>6. QueueShape'
  BY <1>1, <1>2, <1>3 DEF QueueShape
<1>7. AnswersFit' /\ UnreadFits' /\ CurrentFits'
  BY <1>1, <1>2 DEF AnswersFit, UnreadFits, CurrentFits
<1>8. PressesFit'
  BY <1>1, <1>4, <1>5 DEF PressesFit
<1>9. ShownIsKept'
  BY <1>1, <1>2, <1>4, <1>5 DEF ShownIsKept, Accounted, Final
<1> QED BY <1>1, <1>6, <1>7, <1>8, <1>9 DEF UnreadStays

LEMMA QueueStepIInv == QueueIInv /\ [NextQueue]_queueVars => QueueIInv' /\ UnreadStays
<1> SUFFICES ASSUME QueueIInv, [NextQueue]_queueVars PROVE QueueIInv' /\ UnreadStays
  OBVIOUS
<1>1. CASE \E id \in Pages : Work(id)
  BY <1>1, OpenIInv, FlushIInv, ArrivesIInv, AnsweredIInv DEF Work
<1>2. CASE \E id \in Pages : Unanswered(id) \/ NotAllowed(id) \/ Dispose(id) \/ Close(id)
  BY <1>2, UnansweredIInv, NotAllowedIInv, DisposeIInv, CloseIInv
<1>3. CASE \E id \in Pages : \E p \in Punches :
             Press(id, p) \/ Enqueue(id, p) \/ EnqueueUnread(id, p)
  BY <1>3, PressIInv, EnqueueIInv, EnqueueUnreadIInv
<1>4. CASE \E p \in Punches : EnqueueLate(p) \/ ArrivesLate(p)
  BY <1>4, LateIInv
<1>5. CASE UNCHANGED queueVars
  <2>1. UNCHANGED <<disk, page, recorded, fate, shown, current, overwritten>>
    BY <1>5 DEF queueVars
  <2>2. Stored' = Stored
    BY <2>1 DEF Stored
  <2>3. QueueShape' /\ AnswersFit' /\ UnreadFits' /\ CurrentFits' /\ UnreadStays
    BY <2>1 DEF QueueIInv, QueueShape, AnswersFit, UnreadFits, CurrentFits, UnreadStays
  <2>4. PressesFit' /\ ShownIsKept'
    BY <2>1, <2>2 DEF QueueIInv, PressesFit, Entered, ShownIsKept, Accounted
  <2> QED BY <2>3, <2>4 DEF QueueIInv
<1> QED BY <1>1, <1>2, <1>3, <1>4, <1>5 DEF NextQueue

THEOREM QueueInvariance == QueueSpec => []QueueIInv
<1>1. InitQueue /\ [][NextQueue]_queueVars => []QueueIInv
  BY InitQueueIInv, QueueStepIInv, PTL
<1> QED BY <1>1, PTL DEF QueueSpec

\* A punch that was shown as waiting stays in the storage until it is recorded or rejected for
\* good, for any pages, punches and mishaps; only a page that never read it writes over it.
THEOREM ShownStays == QueueSpec => []ShownIsKept
<1>1. QueueIInv => ShownIsKept
  BY DEF QueueIInv
<1> QED BY <1>1, QueueInvariance, PTL

\* Nothing that cannot be parsed is overwritten before it is archived.
THEOREM UnreadIsArchived == QueueSpec => NothingUnreadIsLost
<1>1. QueueIInv /\ [NextQueue]_queueVars => [UnreadStays]_queueVars
  BY QueueStepIInv
<1>2. QueueSpec => [][UnreadStays]_queueVars
  BY <1>1, QueueInvariance, PTL DEF QueueSpec
<1> QED BY <1>2 DEF NothingUnreadIsLost, UnreadStays
=============================================================================
