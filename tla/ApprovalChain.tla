--------------------------- MODULE ApprovalChain ---------------------------
(***************************************************************************)
(* What the stages of an employee request promise, whatever runs at the    *)
(* same time: the stages of a submission are decided one after another,    *)
(* each once; a submission follows one that was returned; the request      *)
(* takes effect with the approval of its last stage, once, and nothing is  *)
(* decided after that.                                                     *)
(***************************************************************************)
EXTENDS Naturals

CONSTANTS Requests, MaxSteps, MaxSubmissions

VARIABLES
  stages,     \* number of stages of each request, 0 before it is submitted
  decisions,  \* <<request, submission, stage, decision>> of each decision
  effective   \* requests that took effect

chainVars == <<stages, decisions, effective>>

Init ==
  /\ stages = [r \in Requests |-> 0]
  /\ decisions = {}
  /\ effective = {}

Submit(r, n) ==
  /\ stages[r] = 0
  /\ stages' = [stages EXCEPT ![r] = n]
  /\ UNCHANGED <<decisions, effective>>

\* The stage before, or the submission before when it is the first stage.
Opens(r, submission, stage) ==
  IF stage > 1 THEN <<r, submission, stage - 1, "approved">> \in decisions
  ELSE submission > 1 =>
         \E s \in 1 .. stages[r] : <<r, submission - 1, s, "returned">> \in decisions

Decide(r, submission, stage, decision) ==
  /\ r \notin effective
  /\ Opens(r, submission, stage)
  /\ \A d \in {"approved", "returned"} : <<r, submission, stage, d>> \notin decisions
  /\ decisions' = decisions \union {<<r, submission, stage, decision>>}
  /\ effective' = IF decision = "approved" /\ stage = stages[r]
                    THEN effective \union {r} ELSE effective
  /\ UNCHANGED stages

Next ==
  \E r \in Requests :
    \/ \E n \in 1 .. MaxSteps : Submit(r, n)
    \/ \E submission \in 1 .. MaxSubmissions, decision \in {"approved", "returned"} :
         \E stage \in 1 .. stages[r] : Decide(r, submission, stage, decision)

Spec == Init /\ [][Next]_chainVars
=============================================================================
