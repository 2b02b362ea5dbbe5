------------------------------ MODULE Sessions ------------------------------
(***************************************************************************)
(* Logins, sessions and passwords: api/src/identity/service.ts with its    *)
(* two repositories, the rules of domain/src/identity, and the command     *)
(* that deletes old counts of failures.                                    *)
(*                                                                         *)
(* The service runs in no transaction: every statement commits by itself,  *)
(* so a request is a sequence of steps, with other requests, the clock and *)
(* a stop of the process in between.  A password hash is the number of the *)
(* change that set it.  The records of the audit log, the language of a    *)
(* user and what a session says of its device are left out.                *)
(***************************************************************************)
EXTENDS Integers, TLC

CONSTANTS Users,            \* the users of one workspace
          Admins,           \* those whose role holds user.manage
          Sources,          \* the addresses requests come from
          SessionIds,       \* the sessions that may be opened, a bound
          Requests,         \* the requests under way at one time, a bound
          IdleLifetime,     \* SESSION_IDLE_LIFETIME_MINUTES
          AbsoluteLifetime, \* SESSION_ABSOLUTE_LIFETIME_MINUTES
          MaxFailures,      \* failures that block, by scope
          Window,           \* LOGIN_FAILURE_WINDOW_MS
          BlockTime,        \* LOGIN_BLOCK_MS
          Retention,        \* the days given to the retention command
          SlowestRequest,   \* how long a request takes at most
          MaxRequests,      \* requests of several steps that begin, a bound
          MaxChanges,       \* changes of one password, a bound
          Horizon           \* the last instant, a bound

(* readInteger accepts a window and a block of at most a day, and the      *)
(* retention command refuses less than a day.                              *)
ASSUME RetentionAssumption ==
  Window \in 1 .. Retention /\ BlockTime \in 1 .. Retention

(* Twelve hours and seven days; a request answers within six hours.        *)
ASSUME RequestAssumption ==
  /\ Admins \subseteq Users
  /\ IdleLifetime \in Nat \ {0}
  /\ AbsoluteLifetime \in Nat
  /\ IdleLifetime <= AbsoluteLifetime
  /\ SlowestRequest \in Nat
  /\ 2 * SlowestRequest <= IdleLifetime

None   == -1                       \* blocked_until and other instants: null
NoRow  == [failures |-> 0, start |-> None, until |-> None, updated |-> None]
Unused == [user |-> "nobody", issued |-> None]  \* a session that was never opened
Free   == [op |-> "none"]          \* no request

Scopes == {"account", "source"}
FindStep == [account |-> "find account", source |-> "find source"]
SaveStep == [account |-> "save account", source |-> "save source"]
Keys   == ({"account"} \X Users) \cup ({"source"} \X Sources)

VARIABLES
  now,        \* the clock, of the processes and of the database
  hash,       \* users.password_hash
  sessions,   \* the sessions table (revoked_at is never ahead of the clock: a row
              \* is revoked or not), with two things its rows do not say:
              \*   at: the user's password when the row was inserted,
              \*   used: when a request was last let through with it
  attempts,   \* the login_attempts table
  requests,   \* the requests under way: where they are and what they read
  change,     \* the last change of a password: the session it keeps, and
              \* whether it has revoked the others
  begun       \* how many requests of several steps have begun

vars == <<now, hash, sessions, attempts, requests, change, begun>>

-----------------------------------------------------------------------------
(* domain/src/identity/session.ts *)

AbsoluteEnd(s) == s.issued + AbsoluteLifetime

ActiveAt(s, t) ==
  /\ s # Unused
  /\ ~s.revoked
  /\ t < s.expires
  /\ t < AbsoluteEnd(s)

RenewedExpiry(s, t) ==
  IF t + IdleLifetime < AbsoluteEnd(s) THEN t + IdleLifetime ELSE AbsoluteEnd(s)

\* mutant: renews in the last quarter
ShouldRenewLate(s, t) ==
  /\ ActiveAt(s, t)
  /\ 4 * (s.expires - t) < IdleLifetime
  /\ RenewedExpiry(s, t) > s.expires

ShouldRenew(s, t) ==
  /\ ActiveAt(s, t)
  /\ 2 * (s.expires - t) < IdleLifetime
  /\ RenewedExpiry(s, t) > s.expires

(* domain/src/identity/login-attempts.ts *)

BlockedAt(row, t) == row.until # None /\ row.until > t

WindowOver(row, t) == row = NoRow \/ t - row.start >= Window

(* The row a failure at `t` leaves; the database dates it. *)
AfterFailure(row, t, scope) ==
  LET failures == IF WindowOver(row, t) THEN 1 ELSE row.failures + 1
  IN  [failures |-> failures,
       start    |-> IF WindowOver(row, t) THEN t ELSE row.start,
       until    |-> IF failures < MaxFailures[scope] THEN None ELSE t + BlockTime,
       updated  |-> now]

-----------------------------------------------------------------------------
Init ==
  /\ now = 0
  /\ hash = [u \in Users |-> 0]
  /\ sessions = [s \in SessionIds |-> Unused]
  /\ attempts = [k \in Keys |-> NoRow]
  /\ requests = [r \in Requests |-> Free]
  /\ change = [u \in Users |-> [keep |-> "none", done |-> TRUE]]
  /\ begun = 0

\* A row of the user.
IsOf(s, u) == sessions[s] # Unused /\ sessions[s].user = u

At(r, step)   == requests[r].op # "none" /\ requests[r].step = step
Goto(r, step) == requests' = [requests EXCEPT ![r].step = step]
Finish(r)     == requests' = [requests EXCEPT ![r] = Free]

Tick ==
  /\ now < Horizon
  /\ \A r \in Requests : requests[r] # Free => now - requests[r].at < SlowestRequest
  /\ now' = now + 1
  /\ UNCHANGED <<hash, sessions, attempts, requests, change, begun>>

(* The process stops, or a statement fails: the request ends where it is. *)
Interrupt(r) ==
  /\ requests[r] # Free
  /\ Finish(r)
  /\ UNCHANGED <<now, hash, sessions, attempts, change, begun>>

-----------------------------------------------------------------------------
(* login: somebody gives a password for the user `u`. *)

KeyOf(r, scope) ==
  <<scope, IF scope = "account" THEN requests[r].user ELSE requests[r].source>>

\* mutant: the block of the account is not looked at
BeginLoginUnchecked(r, u, source) ==
  /\ requests[r] = Free
  /\ begun < MaxRequests /\ begun' = begun + 1
  /\ requests' = [requests EXCEPT ![r] =
       [op |-> "login", step |-> "source", at |-> now, user |-> u, source |-> source,
        row |-> NoRow]]
  /\ UNCHANGED <<now, hash, sessions, attempts, change>>

(* blockedScope reads the row of the account and refuses at once ... *)
BeginLogin(r, u, source) ==
  /\ requests[r] = Free
  /\ begun < MaxRequests /\ begun' = begun + 1
  /\ ~BlockedAt(attempts[<<"account", u>>], now)
  /\ requests' = [requests EXCEPT ![r] =
       [op |-> "login", step |-> "source", at |-> now, user |-> u, source |-> source,
        row |-> NoRow]]
  /\ UNCHANGED <<now, hash, sessions, attempts, change>>

(* ... and then the row of the source. *)
CheckSource(r) ==
  /\ At(r, "source")
  /\ IF BlockedAt(attempts[KeyOf(r, "source")], requests[r].at)
     THEN Finish(r) ELSE Goto(r, "verify")
  /\ UNCHANGED <<now, hash, sessions, attempts, change, begun>>

(* findUserByEmail, and the password that was given against the hash it    *)
(* returns: the right one of that moment, or not.                          *)
Verify(r) ==
  /\ At(r, "verify")
  /\ Goto(r, "clear") \/ Goto(r, "find account")
  /\ UNCHANGED <<now, hash, sessions, attempts, change, begun>>

(* countFailure, of the account and then of the source: the row is read ... *)
FindAttempts(r, scope) ==
  /\ At(r, FindStep[scope])
  /\ requests' = [requests EXCEPT ![r] =
       [@ EXCEPT !.step = SaveStep[scope], !.row = attempts[KeyOf(r, scope)]]]
  /\ UNCHANGED <<now, hash, sessions, attempts, change, begun>>

(* ... and written back with one failure more, whatever it has become. *)
SaveAttempts(r, scope) ==
  LET row == AfterFailure(requests[r].row, requests[r].at, scope)
  IN  /\ At(r, SaveStep[scope])
      /\ attempts' = [attempts EXCEPT ![KeyOf(r, scope)] = row]
      /\ IF scope = "account" THEN Goto(r, "find source") ELSE Finish(r)
      /\ UNCHANGED <<now, hash, sessions, change, begun>>

(* A login that fits clears the count of the account, not of the source, *)
ClearAttempts(r) ==
  /\ At(r, "clear")
  /\ attempts' = [attempts EXCEPT ![KeyOf(r, "account")] = NoRow]
  /\ Goto(r, "open")
  /\ UNCHANGED <<now, hash, sessions, change, begun>>

(* and opens a session, without another look at the password. *)
OpenSession(r, s) ==
  LET u == requests[r].user
  IN  /\ At(r, "open")
      /\ sessions[s] = Unused
      /\ sessions' = [sessions EXCEPT ![s] =
           [user |-> u, issued |-> now, expires |-> now + IdleLifetime,
            revoked |-> FALSE, at |-> hash[u], used |-> now]]
      /\ Finish(r)
      /\ UNCHANGED <<now, hash, attempts, change, begun>>

-----------------------------------------------------------------------------
(* Requests with a session. *)

(* What an authenticated request goes on to do: nothing of this module's,  *)
(* a change of its user's own password, a reset of another's, or an end of *)
(* the other sessions of its user, of one of them, or of all of a user's.  *)
Wishes(u) ==
  [op : {"use", "change", "others"}, target : {u}]
    \cup [op : {"one"}, target : {s \in SessionIds : IsOf(s, u)}]
    \cup (IF u \in Admins THEN [op : {"all"}, target : Users]
            \cup [op : {"reset"}, target : Users \ {u}] ELSE {})

(* authenticate: one query reads the session and its user.  The person who *)
(* changes a password knows the one that was just read.                    *)
Authenticate(r, s, w) ==
  LET renew == ShouldRenew(sessions[s], now)
  IN  /\ requests[r] = Free
      /\ ActiveAt(sessions[s], now)
      /\ w \in Wishes(sessions[s].user)
      /\ w.op = "one" => w.target # s
      /\ w.op = "use" => renew
      /\ requests' = [requests EXCEPT ![r] =
           [op |-> w.op, step |-> IF renew THEN "renew" ELSE w.op, at |-> now,
            session |-> s, target |-> w.target, number |-> 0,
            expires |-> RenewedExpiry(sessions[s], now)]]
      /\ sessions' = IF renew THEN sessions ELSE [sessions EXCEPT ![s].used = now]
      /\ begun < MaxRequests /\ begun' = begun + 1
      /\ UNCHANGED <<now, hash, attempts, change>>

(* A request of other parts that renews nothing. *)
JustUse(s) ==
  /\ ActiveAt(sessions[s], now)
  /\ ~ShouldRenew(sessions[s], now)
  /\ sessions' = [sessions EXCEPT ![s].used = now]
  /\ UNCHANGED <<now, hash, attempts, requests, change, begun>>

\* mutant: the whole row is written back as it was read
RenewedRow(s, expires) == [s EXCEPT !.expires = expires, !.revoked = FALSE]

(* renewSession writes what was computed from the row that was read. *)
Renewed(s, expires) == [s EXCEPT !.expires = expires]

Renew(r) ==
  LET s    == requests[r].session
      last == IF sessions[s].used > requests[r].at THEN sessions[s].used ELSE requests[r].at
  IN  /\ At(r, "renew")
      /\ sessions' = [sessions EXCEPT ![s] =
           [Renewed(sessions[s], requests[r].expires) EXCEPT !.used = last]]
      /\ IF requests[r].op = "use" THEN Finish(r) ELSE Goto(r, requests[r].op)
      /\ UNCHANGED <<now, hash, attempts, change, begun>>

(* changePassword and resetUserPassword: first the new hash ... *)
SetPassword(r) ==
  LET u == requests[r].target
  IN  /\ At(r, "change") \/ At(r, "reset")
      /\ hash[u] < MaxChanges
      /\ hash' = [hash EXCEPT ![u] = @ + 1]
      /\ change' = [change EXCEPT ![u] =
           [done |-> FALSE,
            keep |-> IF At(r, "change") THEN requests[r].session ELSE "none"]]
      /\ requests' = [requests EXCEPT ![r] =
           [@ EXCEPT !.step = "revoke", !.number = hash[u] + 1]]
      /\ UNCHANGED <<now, sessions, attempts, begun>>

\* mutant: only what is still active is revoked
RevokedIfActive(u, keep) ==
  [s \in SessionIds |->
     IF ActiveAt(sessions[s], now) /\ sessions[s].user = u /\ s # keep
     THEN [sessions[s] EXCEPT !.revoked = TRUE] ELSE sessions[s]]

(* revokeSessionsOfUser, but for the session `keep`. *)
RevokedOf(u, keep) ==
  [s \in SessionIds |->
     IF IsOf(s, u) /\ s # keep
     THEN [sessions[s] EXCEPT !.revoked = TRUE] ELSE sessions[s]]

(* ... then the sessions opened with the old one. *)
RevokeOld(r) ==
  LET u == requests[r].target
  IN  /\ At(r, "revoke")
      /\ sessions' = RevokedOf(u, IF requests[r].op = "change"
                                  THEN requests[r].session ELSE "none")
      /\ change' = IF hash[u] = requests[r].number
                   THEN [change EXCEPT ![u].done = TRUE] ELSE change
      /\ Finish(r)
      /\ UNCHANGED <<now, hash, attempts, begun>>

(* revokeOtherSessions, and revokeSessionsOfUser by an administrator *)
RevokeMany(r) ==
  /\ \/ At(r, "others") /\ sessions' = RevokedOf(requests[r].target, requests[r].session)
     \/ At(r, "all") /\ sessions' = RevokedOf(requests[r].target, "none")
  /\ Finish(r)
  /\ UNCHANGED <<now, hash, attempts, change, begun>>

Revoke(s) ==
  sessions' = [sessions EXCEPT ![s].revoked = TRUE]

(* revokeSession: of the same user, and not the one in use *)
RevokeOne(r) ==
  /\ At(r, "one")
  /\ Revoke(requests[r].target)
  /\ Finish(r)
  /\ UNCHANGED <<now, hash, attempts, change, begun>>

(* logout looks at nothing but the token. *)
Logout(s) ==
  /\ sessions[s] # Unused
  /\ Revoke(s)
  /\ UNCHANGED <<now, hash, attempts, requests, change, begun>>

-----------------------------------------------------------------------------
(* The retention command, for login_attempts: what it deletes and what it  *)
(* says it deleted is one transaction.                                     *)
Expendable(row) == row # NoRow /\ row.updated < now - Retention

Purge ==
  /\ \E k \in Keys : Expendable(attempts[k])
  /\ attempts' = [k \in Keys |-> IF Expendable(attempts[k]) THEN NoRow ELSE attempts[k]]
  /\ UNCHANGED <<now, hash, sessions, requests, change, begun>>

LoginStep(r) ==
  \/ \E u \in Users, source \in Sources : BeginLogin(r, u, source)
  \/ CheckSource(r)
  \/ Verify(r)
  \/ \E scope \in Scopes : FindAttempts(r, scope) \/ SaveAttempts(r, scope)
  \/ ClearAttempts(r)
  \/ \E s \in SessionIds : OpenSession(r, s)

SessionStep(r) ==
  \/ \E s \in SessionIds : \E w \in Wishes(sessions[s].user) : Authenticate(r, s, w)
  \/ Renew(r)
  \/ SetPassword(r)
  \/ RevokeOld(r)
  \/ RevokeMany(r)
  \/ RevokeOne(r)

Next ==
  \/ Tick
  \/ Purge
  \/ \E s \in SessionIds : JustUse(s) \/ Logout(s)
  \/ \E r \in Requests : LoginStep(r) \/ SessionStep(r) \/ Interrupt(r)

Spec == Init /\ [][Next]_vars

-----------------------------------------------------------------------------
(* Properties *)

IsOpen(s) == sessions[s] # Unused /\ ~sessions[s].revoked

(* changePassword and resetUserPassword say that the sessions opened with   *)
(* the old password end with it.  Two statements do it, beside other        *)
(* changes, logins and renewals: once the second of the last change has     *)
(* run, every session that stood before that change is revoked, except the  *)
(* one it was made from.                                                    *)
PasswordChangeEndsSessions ==
  \A s \in SessionIds : IsOpen(s) =>
    LET c == change[sessions[s].user]
    IN  sessions[s].at < hash[sessions[s].user] => ~c.done \/ s = c.keep

(* A session in use does not end for want of use: it has half of the idle   *)
(* lifetime left after each request it let through, however the writes of   *)
(* concurrent renewals fall, or ends where its absolute lifetime does.      *)
UseKeepsSession ==
  \A s \in SessionIds : IsOpen(s) =>
    \/ 2 * (sessions[s].expires - sessions[s].used) >= IdleLifetime
    \/ sessions[s].expires = AbsoluteEnd(sessions[s])

(* A session that is revoked or past its lifetimes is never let through     *)
(* again.  Only one that lapsed for want of use comes back, by the write of *)
(* a request that read it while it was active.                              *)
DeadStaysDead ==
  [][\A s \in SessionIds :
       /\ sessions[s] # Unused
       /\ ~ActiveAt(sessions[s], now)
       /\ ActiveAt(sessions[s], now)'
       => /\ ~sessions[s].revoked
          /\ \E r \in Requests : /\ At(r, "renew") /\ requests[r].session = s
                                 /\ ~At(r, "renew")'
                                 /\ requests[r].at < sessions[s].expires]_vars

(* login-attempts.ts says that a failure during a block does not prolong it,*)
(* or who keeps trying would never get in.  Only a login that was begun     *)
(* before the block was written moves its end.                              *)
BlockIsNotProlonged ==
  [][\A r \in Requests, scope \in Scopes :
       At(r, SaveStep[scope]) /\ ~At(r, SaveStep[scope])' =>
         LET k == KeyOf(r, scope)
         IN  BlockedAt(attempts[k], now) /\ attempts'[k].until > attempts[k].until
               => requests[r].at <= attempts[k].updated]_vars
=============================================================================
