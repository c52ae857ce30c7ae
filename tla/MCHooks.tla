------------------------------ MODULE MCHooks ------------------------------
(***************************************************************************)
(* A deployment of up to two hooks, two in a phase or one in each, of the  *)
(* lists of SomeHooks or FewHooks; d2, where there is one, came before it  *)
(* and had no hooks, or shares a revision with it, has run it and is being *)
(* applied, when no more faults are counted.                               *)
(***************************************************************************)
EXTENDS Hooks, TLC

CONSTANTS d1, d2, r1, r2, r3

Hook == [pre |-> <<r1>>, post |-> <<>>]
HookInEach == [pre |-> <<r1>>, post |-> <<r1>>]

SomeHooks == {Hook, HookInEach, [pre |-> <<r1, r2>>, post |-> <<>>], [pre |-> <<r3>>, post |-> <<>>]}

FewHooks == {Hook, HookInEach, [pre |-> <<r1, r2>>, post |-> <<>>], [pre |-> <<r1, r3>>, post |-> <<>>]}

\* Where d2 is when the run begins: every value is one that d2 reaches alone.
After(d2State, hooks, spent) ==
    LET ran == {t \in {d2} \X Phases \X (1..MaxPosition) : t[3] <= Len(hooks[t[2]])}
    IN  /\ state = [d \in Deployments |-> IF d = d2 THEN d2State ELSE "none"]
        /\ frozen = [d \in Deployments |-> IF d = d2 THEN hooks ELSE NoHooks]
        /\ runs = [t \in Runs |-> IF t \in ran THEN [state |-> "succeeded", child |-> TRUE] ELSE NoRun]
        /\ late = {} /\ overdue = {}
        /\ listed = {}
        /\ work = [d \in Deployments |-> Idle]
        /\ gc = IdleGC
        /\ revision = [r \in Revisions |-> IF \E t \in ran : r = hooks[t[2]][t[3]]
                                           THEN [up |-> TRUE, index |-> 1]
                                           ELSE [up |-> FALSE, index |-> 0]]
        /\ children = [t \in Runs |-> IF t \in ran
                                      THEN [status |-> "dead", allocs |-> {"complete"}, unplaced |-> FALSE]
                                      ELSE NoChild]
        /\ wire = {}
        /\ started = [t \in Runs |-> IF t \in ran THEN 1 ELSE 0]
        /\ completed = ran
        /\ faults = spent

MCInit == \/ After("completed", NoHooks, 0)
          \/ After("applying", Hook, MaxFaults)

\* Errors and crashes with d1's hooks: none before they are, MaxFaults with one hook,
\* one with two, and none where both of a phase can end well.
Budget ==
    CASE Frozen = {} \/ \E t \in Frozen : RevisionOf(t) = r2 -> 0
      [] \E t \in Frozen : t[2] = "post" \/ t[3] = 2 -> 1
      [] OTHER -> MaxFaults

BudgetKept == faults' # faults => faults' <= Budget

MCSpec == MCInit /\ [][Next]_vars /\ Fairness

=============================================================================
