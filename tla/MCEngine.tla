----------------------------- MODULE MCEngine -----------------------------
(***************************************************************************)
(* The engine on small instances: bodies and specs for the runs.           *)
(***************************************************************************)
EXTENDS Engine, TLC

CONSTANTS job, b0, b1

Plain(b) == [body |-> b, policy |-> "auto", pre |-> FALSE, post |-> FALSE, window |-> FALSE,
             canary |-> FALSE, problem |-> FALSE]
Reviewed(b) == [Plain(b) EXCEPT !.policy = "approval"]

AutoSpecs == {Plain(b1)}
WindowedSpecs == {[Plain(b) EXCEPT !.window = TRUE] : b \in {b0, b1}}
ReviewedSpecs == {Reviewed(b1), [Plain(b0) EXCEPT !.problem = TRUE], [Plain(b1) EXCEPT !.policy = "none"]}
GitSpecs == WindowedSpecs \cup ReviewedSpecs
CanarySpecs == {[Plain(b1) EXCEPT !.canary = TRUE, !.pre = TRUE, !.post = TRUE]}

\* A job is windowed or reviewed for good.  What is out of bounds: for a windowed one
\* a hold, a lap or a job gone from git, and a third deployment after a commit; for a
\* reviewed one an error, and a third deployment, which is for the retry of a retry.
Reviewing == used.holds + used.laps > 0 \/ \E id \in Ids : Row(id).spec \in ReviewedSpecs

FamilyKept ==
    /\ head \in WindowedSpecs => head' \in WindowedSpecs /\ used'.holds + used'.laps = 0
    /\ head \in ReviewedSpecs => head' \notin WindowedSpecs
    /\ Reviewing' => used'.faults = 0
    /\ Reviewing' \/ used'.commits > 0 => Len(deployments') <= 2

MCDiffs == Bodies \cup {Absent, Recount}

\* What detection asks CreateDeployment for: a plan with a diff, or a rerun.
MCRequests ==
    {r \in [job: Jobs, spec: Specs, policy: Policies, cas: 0..MaxIndex,
            diff: Diffs \cup {NoDiff}, planDiff: BOOLEAN, retryOf: 0..1, lifted: BOOLEAN] :
        /\ r.policy = r.spec.policy
        /\ r.planDiff <=> r.diff # NoDiff
        /\ r.planDiff \/ r.retryOf # 0
        /\ r.lifted => r.spec.window}

=============================================================================
