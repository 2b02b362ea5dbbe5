-------------------------- MODULE MCStagedRequests --------------------------
(* Model-checking instances of StagedRequests. *)
EXTENDS StagedRequests, TLC

CONSTANTS u1, u2

\* The second user has a policy's role and stands in for the first.
MCHolders == [p \in Policies |-> {u2}]
MCDelegations == {<<u1, u2>>}

MCRoutes ==
  {<<u1, Nobody>>, <<u1, u2>>, <<u1, CHOOSE p \in Policies : TRUE>>,
   <<CHOOSE p \in Policies : TRUE, u1>>}

ClientSymmetry == Permutations(Clients)
=============================================================================
