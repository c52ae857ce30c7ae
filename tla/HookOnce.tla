----------------------------- MODULE HookOnce -----------------------------
(***************************************************************************)
(* What docs/deployment-lifecycle.md promises of a hook run, seen from     *)
(* afar: it fails rather than run twice, it ends once, and it ends well    *)
(* only if what ran did.                                                   *)
(***************************************************************************)
EXTENDS Naturals

CONSTANT Hooks

VARIABLES
    outcome,   \* "none" until Nops settles it
    ran,       \* how many runs of it Nomad was made to start
    done       \* the hooks whose run ended well

onceVars == <<outcome, ran, done>>

\* The hooks of "before" have had their run, the others none.
Before(before) ==
    /\ outcome = [h \in Hooks |-> IF h \in before THEN "succeeded" ELSE "none"]
    /\ ran = [h \in Hooks |-> IF h \in before THEN 1 ELSE 0]
    /\ done = before

OnceInit == \E before \in SUBSET Hooks : Before(before)

\* A request on its way when Nops gave up on it may still start the run.
Run(h) ==
    /\ ran[h] = 0 /\ outcome[h] \in {"none", "failed"}
    /\ ran' = [ran EXCEPT ![h] = 1]
    /\ UNCHANGED <<outcome, done>>

End(h) ==
    /\ ran[h] = 1 /\ done' = done \cup {h}
    /\ UNCHANGED <<outcome, ran>>

Settle(h, to) ==
    /\ outcome[h] = "none"
    /\ to = "succeeded" => h \in done
    /\ outcome' = [outcome EXCEPT ![h] = to]
    /\ UNCHANGED <<ran, done>>

OnceNext ==
    \E h \in Hooks : Run(h) \/ End(h) \/ \E to \in {"succeeded", "failed", "timed_out"} : Settle(h, to)

OnceSpec == OnceInit /\ [][OnceNext]_onceVars

=============================================================================
