------------------------------ MODULE Attempts ------------------------------
(***************************************************************************)
(* What docs/deployment-lifecycle.md promises of deployments, without      *)
(* saying how: each is one attempt to bring a job to a spec.  A job has at *)
(* most one attempt that is not over.  An attempt waits, may start         *)
(* running, and ends once: a waiting one may be dropped (rejected or       *)
(* superseded) or finish (completed or failed); one that runs finishes     *)
(* and is never dropped.                                                   *)
(***************************************************************************)
EXTENDS Naturals, Sequences

CONSTANT Jobs

VARIABLE attempts    \* one record per attempt, in creation order

Phases == {"waiting", "running", "finished", "dropped"}
Over(phase) == phase \in {"finished", "dropped"}

Free(j) == \A i \in DOMAIN attempts : attempts[i].job = j => Over(attempts[i].phase)

Init == \/ attempts = <<>>
        \/ \E j \in Jobs : attempts = <<[job |-> j, phase |-> "waiting"]>>

\* A new attempt takes the job.
Begin(j) == /\ Free(j)
            /\ attempts' = Append(attempts, [job |-> j, phase |-> "waiting"])

\* An attempt over before it began (a hook it declares is missing) takes nothing.
BeginOver(j) == attempts' = Append(attempts, [job |-> j, phase |-> "finished"])

Become(i, phase) == attempts' = [attempts EXCEPT ![i].phase = phase]

Run(i) == attempts[i].phase = "waiting" /\ Become(i, "running")
Finish(i) == attempts[i].phase \in {"waiting", "running"} /\ Become(i, "finished")
Drop(i) == attempts[i].phase = "waiting" /\ Become(i, "dropped")

Next == \/ \E j \in Jobs : Begin(j) \/ BeginOver(j)
        \/ \E i \in DOMAIN attempts : Run(i) \/ Finish(i) \/ Drop(i)

Spec == Init /\ [][Next]_attempts

=============================================================================
