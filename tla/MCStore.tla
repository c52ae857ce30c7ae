------------------------------ MODULE MCStore ------------------------------
(***************************************************************************)
(* The store on a small instance: two jobs, an ordinary deployment of each *)
(* and one, asked for with Deploy now, that retries an earlier one.        *)
(***************************************************************************)
EXTENDS Store

CONSTANTS j1, j2, s1, d1

Ordinary(j) == [job |-> j, spec |-> s1, policy |-> "approval", cas |-> 1, diff |-> d1,
                planDiff |-> TRUE, retryOf |-> 0, lifted |-> FALSE]

MCRequests == {Ordinary(j1), Ordinary(j2),
               [Ordinary(j1) EXCEPT !.policy = "auto", !.lifted = TRUE,
                                    !.retryOf = 1, !.planDiff = FALSE, !.diff = NoDiff]}

=============================================================================
