------------------------------ MODULE MCSettings ------------------------------
(* A model-checking instance of Visibility, with Employment and Periods. *)
EXTENDS Visibility, TLC

CONSTANTS e1, agency, shop, other

\* Months of three and two days, of which the first has a day that the second lacks.
MCMonthLengths == <<3, 2>>

MCEmployerOf == [e \in Employees |-> agency]

MCContracts == {[employer |-> agency, host |-> shop, from |-> 1, to |-> 3],
                [employer |-> agency, host |-> other, from |-> 2, to |-> Forever],
                [employer |-> shop, host |-> other, from |-> 0, to |-> Forever]}

MCTerms == {[from |-> 0, to |-> 1], [from |-> 2, to |-> Forever], [from |-> 4, to |-> 4]}

MCVersions == {[effectiveFrom |-> 1, weekStartsOn |-> 1], [effectiveFrom |-> 4, weekStartsOn |-> 0],
               [effectiveFrom |-> 5, weekStartsOn |-> 2]}

MCSystems == {[startsOn |-> 2, months |-> 1, from |-> 0, to |-> Forever],
              [startsOn |-> 2, months |-> 2, from |-> 3, to |-> 6],
              [startsOn |-> None, months |-> None, from |-> 0, to |-> 2]}

ClientSymmetry == Permutations(Clients)
=============================================================================
