-------------------------- MODULE WebhookDelivery --------------------------
(***************************************************************************)
(* What the outbox promises about one notification, whoever delivers it    *)
(* and however often workers die: it waits until a recorded verdict ends   *)
(* it, or until the last allowed attempt failed for a reason of the        *)
(* receiver's; then it is given up, and only a person puts it back.        *)
(* Attempts are counted one at a time and only after they were recorded.   *)
(***************************************************************************)
EXTENDS Naturals

CONSTANTS Rows, MaxAttempts, Outcomes, Verdicts

VARIABLES status, tries, log

abstractVars == <<status, tries, log>>

Init ==
  /\ status = [r \in Rows |-> "unpublished"]
  /\ tries = [r \in Rows |-> 0]
  /\ log = {}

Publish(R) ==
  /\ \A r \in R : status[r] = "unpublished"
  /\ status' = [r \in Rows |-> IF r \in R THEN "waiting" ELSE status[r]]
  /\ UNCHANGED <<tries, log>>

\* An attempt is recorded; a worker that lost the row may record it late.
Record(r, n, o) ==
  /\ status[r] # "unpublished"
  /\ n \in 1 .. MaxAttempts
  /\ log' = log \union {<<r, n, o>>}
  /\ UNCHANGED <<status, tries>>

CountFailure(r) ==
  /\ status[r] = "waiting"
  /\ tries[r] + 1 < MaxAttempts
  /\ <<r, tries[r] + 1, "transient">> \in log
  /\ tries' = [tries EXCEPT ![r] = @ + 1]
  /\ UNCHANGED <<status, log>>

GiveUp(r) ==
  /\ status[r] = "waiting"
  /\ tries[r] + 1 = MaxAttempts
  /\ <<r, MaxAttempts, "transient">> \in log
  /\ tries' = [tries EXCEPT ![r] = @ + 1]
  /\ status' = [status EXCEPT ![r] = "given up"]
  /\ UNCHANGED log

End(r) ==
  /\ status[r] = "waiting"
  /\ \E o \in Verdicts : <<r, tries[r] + 1, o>> \in log
  /\ status' = [status EXCEPT ![r] = "ended"]
  /\ UNCHANGED <<tries, log>>

PutBack(r) ==
  /\ status[r] = "given up"
  /\ status' = [status EXCEPT ![r] = "waiting"]
  /\ tries' = [tries EXCEPT ![r] = 0]
  /\ UNCHANGED log

Next ==
  \/ \E R \in SUBSET Rows : Publish(R)
  \/ \E r \in Rows, n \in 1 .. MaxAttempts, o \in Outcomes : Record(r, n, o)
  \/ \E r \in Rows : CountFailure(r) \/ GiveUp(r) \/ End(r) \/ PutBack(r)

Spec == Init /\ [][Next]_abstractVars
=============================================================================
