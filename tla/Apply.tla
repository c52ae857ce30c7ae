------------------------------- MODULE Apply -------------------------------
(***************************************************************************)
(* The apply loop (internal/engine/apply.go).  A cycle lists the active    *)
(* deployments and starts a goroutine for each that has none in flight;    *)
(* the goroutine works on the row as it was listed, advances it by one     *)
(* step and ends.  Every read and write of Nomad and of the store is a     *)
(* step of its own.                                                        *)
(*                                                                         *)
(* Hooks are their outcome (a run ends succeeded, or failed or timed out;  *)
(* an error leaves it for the next cycle), and so is the health of what    *)
(* was registered once the live index is looked at.                        *)
(***************************************************************************)
EXTENDS World

VARIABLES
    listed,       \* ids a cycle listed and has not come to yet: their rows as listed
    app,          \* app[id]: the goroutine of deployment id, Idle if none is in flight
    expired,      \* deployments applying for longer than ApplyTimeout
    registered    \* history: the deployments a register of which reached Nomad

applyVars == <<listed, app, expired, registered>>

Idle == [pc |-> "idle", state |-> "", cas |-> 0, applied |-> 0, waiting |-> FALSE,
         index |-> 0, to |-> ""]

AppPCs == {"idle", "begin", "all", "plan", "move", "register", "reread", "record",
           "scaled", "follow", "health", "commit"}

Working(id) == app[id].pc # "idle"
In(id, pc) == id \in Ids /\ app[id].pc = pc

Proceed(id, pc) == app' = [app EXCEPT ![id].pc = pc]
Note(id, pc, index) == app' = [app EXCEPT ![id].pc = pc, ![id].index = index]
Finish(id) == app' = [app EXCEPT ![id] = Idle]
Decide(id, to) == app' = [app EXCEPT ![id].pc = "commit", ![id].to = to]

\* Columns nobody rewrites are read from the row, the others from the listed copy.
AwaitingPromotion(id) == Row(id).waited /\ ~Row(id).promoted
Snapshot(id) == [id |-> id, state |-> Row(id).state, cas |-> Row(id).cas,
                 applied |-> Row(id).applied, waiting |-> AwaitingPromotion(id)]

-----------------------------------------------------------------------------
(***************************************************************************)
(* The cycle.                                                              *)
(***************************************************************************)
Begin(l) == [Idle EXCEPT !.pc = "begin", !.state = l.state, !.cas = l.cas,
                         !.applied = l.applied, !.waiting = l.waiting]

\* ListActive, then startApply, which leaves a deployment with a goroutine in
\* flight alone.  Only a cycle starts goroutines, so to list an idle deployment
\* and to start it is one step.
ApplyCycle ==
    /\ listed = {}
    /\ \E id \in ListActive : ~Working(id)
    /\ app' = [id \in DOMAIN app |-> IF id \in ListActive /\ ~Working(id)
                                     THEN Begin(Snapshot(id)) ELSE app[id]]
    /\ UNCHANGED <<storeVars, worldVars, listed, expired, registered>>

\* A deployment listed while it has one in flight: the cycle comes to it later,
\* when that goroutine may have ended.
ApplyList ==
    /\ listed = {}
    /\ \E id \in ListActive : Working(id) /\ listed' = {Snapshot(id)}
    /\ UNCHANGED <<storeVars, worldVars, app, expired, registered>>

ApplyStart(l) ==
    /\ l \in listed
    /\ listed' = listed \ {l}
    /\ app' = IF Working(l.id) THEN app ELSE [app EXCEPT ![l.id] = Begin(l)]
    /\ UNCHANGED <<storeVars, worldVars, expired, registered>>

\* The transition a step ends with, from the state the row was listed in.  The
\* apply timeout counts from the event that enters applying.
Commit(id) ==
    /\ In(id, "commit")
    /\ TransitionOrSkip(id, app[id].state, app[id].to)
    /\ Finish(id)
    /\ UNCHANGED <<worldVars, listed, expired, registered>>

-----------------------------------------------------------------------------
(***************************************************************************)
(* stepDetected: the job's own pause, then the pause of every job and the  *)
(* window.  A deployment under approval is left to detection.              *)
(***************************************************************************)
nextAfterDecision(id) == IF ~Rerun(id) /\ Row(id).spec.pre THEN "pre_hook" ELSE "applying"

\* mutant: a deployment under approval starts like any other
StepDetected_anyPolicy(id) ==
    /\ In(id, "begin") /\ app[id].state = "detected"
    /\ IF "own" \in pauses THEN Finish(id) ELSE Proceed(id, "all")
    /\ UNCHANGED <<storeVars, worldVars, listed, expired, registered>>

StepDetected(id) ==
    /\ In(id, "begin") /\ app[id].state = "detected"
    /\ IF Row(id).policy # "auto" \/ "own" \in pauses THEN Finish(id) ELSE Proceed(id, "all")
    /\ UNCHANGED <<storeVars, worldVars, listed, expired, registered>>

StepDetectedAll(id) ==
    /\ In(id, "all")
    /\ LET hold == holdFrom(FALSE, "all" \in pauses, WindowClosed(Row(id).spec))
       IN  IF holdOn(hold, Row(id).lifted) # "none"
           THEN Finish(id) ELSE Decide(id, nextAfterDecision(id))
    /\ UNCHANGED <<storeVars, worldVars, listed, expired, registered>>

\* pending_approval: nothing to do, only Approve or Reject get it out.
StepPending(id) ==
    /\ In(id, "begin") /\ app[id].state = "pending_approval"
    /\ Finish(id)
    /\ UNCHANGED <<storeVars, worldVars, listed, expired, registered>>

StepHook(id) ==
    /\ In(id, "begin") /\ app[id].state \in {"pre_hook", "post_hook"}
    /\ \/ Decide(id, IF app[id].state = "pre_hook" THEN "applying" ELSE "completed")
       \/ Decide(id, "failed")
    /\ UNCHANGED <<storeVars, worldVars, listed, expired, registered>>

-----------------------------------------------------------------------------
(***************************************************************************)
(* stepRegister.                                                           *)
(***************************************************************************)

\* A Nomad error before the register went through: tried again next cycle, until
\* ApplyTimeout.
registerRetry(id) == IF id \in expired THEN Decide(id, "failed") ELSE Finish(id)

StepRegister(id) ==
    /\ In(id, "begin") /\ app[id].state = "applying" /\ app[id].applied = 0
    /\ Note(id, "plan", live.index)
    /\ UNCHANGED <<storeVars, worldVars, listed, expired, registered>>

\* A fresh plan, at the index of detection or not.
StepPlan(id) ==
    /\ In(id, "plan")
    /\ \E diff \in PlanDiffs(Row(id).spec, app[id].index) :
         LET still == app[id].index = app[id].cas
         IN \/ diff # NoDiff /\ still /\ Proceed(id, "register")
            \/ /\ diff # NoDiff /\ ~still
               /\ IF sameDiff(Row(id).diff, diff) THEN Proceed(id, "move") ELSE Decide(id, "failed")
            \/ /\ diff = NoDiff
               /\ IF still /\ ~Rerun(id) THEN Decide(id, "completed") ELSE Proceed(id, "reread")
    /\ UNCHANGED <<storeVars, worldVars, listed, expired, registered>>

\* A scale: the next step plans again and registers at the new index.
StepMove(id) ==
    /\ In(id, "move")
    /\ MoveCASOrSkip(id, "applying", app[id].cas, app[id].index)
    /\ Finish(id)
    /\ UNCHANGED <<worldVars, listed, expired, registered>>

\* mutant: a register without EnforceRegister
CASHolds_unenforced(id) == TRUE

CASHolds(id) == live.index = app[id].cas

RegisterOK(id) ==
    /\ In(id, "register") /\ CASHolds(id)
    /\ Changed(Row(id).spec.body)
    /\ registered' = registered \cup {id}
    /\ Note(id, "reread", 0)
    /\ UNCHANGED <<storeVars, head, pauses, windowOpen, listed, expired>>

\* The live job moved after the read.
RegisterConflict(id) ==
    /\ In(id, "register") /\ ~CASHolds(id)
    /\ IF Row(id).diff # NoDiff THEN registerRetry(id) ELSE Decide(id, "failed")
    /\ UNCHANGED <<storeVars, worldVars, listed, expired, registered>>

\* The answer is lost: Nomad took the register, Nops sees an error.
RegisterLost(id) ==
    /\ In(id, "register") /\ CASHolds(id)
    /\ Changed(Row(id).spec.body)
    /\ registered' = registered \cup {id}
    /\ registerRetry(id)
    /\ UNCHANGED <<storeVars, head, pauses, windowOpen, listed, expired>>

\* The register has gone through, now or before a crash, or is a rerun's: what
\* the live job's index is goes on record.
StepReread(id) ==
    /\ In(id, "reread")
    /\ IF live.index = 0 THEN Finish(id) ELSE Note(id, "record", live.index)
    /\ UNCHANGED <<storeVars, worldVars, listed, expired, registered>>

StepSetApplied(id) ==
    /\ In(id, "record")
    /\ IF Row(id).state = "applying" THEN SetApplied(id, app[id].index) ELSE UNCHANGED storeVars
    /\ Finish(id)
    /\ UNCHANGED <<worldVars, listed, expired, registered>>

-----------------------------------------------------------------------------
(***************************************************************************)
(* stepHealth.                                                             *)
(***************************************************************************)
AfterHealthy(id) == IF Row(id).spec.post THEN "post_hook" ELSE "completed"

\* mutant: the apply timeout is not looked at once the register is on record
TimedOut_never(id) == FALSE

TimedOut(id) == id \in expired /\ ~app[id].waiting

\* The timeout first, unless the canaries wait for a person; then the Nomad
\* deployment that tracks the applied index, if there is one; else the live job:
\* gone, still the one registered, or moved.
StepHealth(id) ==
    /\ In(id, "begin") /\ app[id].state = "applying" /\ app[id].applied # 0
    /\ \/ TimedOut(id) /\ Decide(id, "failed")
       \/ ~TimedOut(id) /\ Proceed(id, "health")
       \/ ~TimedOut(id) /\ live.index = 0 /\ Decide(id, "failed")
       \/ ~TimedOut(id) /\ live.index \notin {0, app[id].applied} /\ Note(id, "scaled", live.index)
    /\ UNCHANGED <<storeVars, worldVars, listed, expired, registered>>

\* Moved: an edit fails the deployment, a scale is followed.
StepScaled(id) ==
    /\ In(id, "scaled")
    /\ \E diff \in PlanDiffs(Row(id).spec, app[id].index) :
         IF diff = NoDiff THEN Proceed(id, "follow") ELSE Decide(id, "failed")
    /\ UNCHANGED <<storeVars, worldVars, listed, expired, registered>>

StepFollow(id) ==
    /\ In(id, "follow")
    /\ IF Row(id).state = "applying" /\ Row(id).applied = app[id].applied
       THEN MoveAppliedIndex(id, app[id].applied, app[id].index) /\ Proceed(id, "health")
       ELSE UNCHANGED storeVars /\ Finish(id)
    /\ UNCHANGED <<worldVars, listed, expired, registered>>

StepVerdict(id) ==
    /\ In(id, "health")
    /\ \/ Decide(id, AfterHealthy(id))
       \/ Decide(id, "failed")
       \/ Finish(id)
    /\ UNCHANGED <<storeVars, worldVars, listed, expired, registered>>

\* The canaries are healthy and wait for a person: recorded once.
StepAwaitPromotion(id) ==
    /\ In(id, "health") /\ Row(id).spec.canary
    /\ IF Row(id).state = "applying" /\ ~Row(id).waited
       THEN MarkAwaitingPromotion(id) ELSE UNCHANGED storeVars
    /\ Finish(id)
    /\ UNCHANGED <<worldVars, listed, expired, registered>>

\* They are promoted: the timeout counts again, from now.
StepPromoted(id) ==
    /\ In(id, "health") /\ Row(id).spec.canary /\ app[id].waiting
    /\ IF Row(id).state = "applying" /\ ~Row(id).promoted
       THEN MarkPromoted(id) /\ expired' = expired \ {id}
       ELSE UNCHANGED <<storeVars, expired>>
    /\ Finish(id)
    /\ UNCHANGED <<worldVars, listed, registered>>

-----------------------------------------------------------------------------
(***************************************************************************)
(* Time and failures.                                                      *)
(***************************************************************************)
Expire(id) ==
    /\ id \in Ids \ expired
    /\ Row(id).state = "applying"
    /\ expired' = expired \cup {id}
    /\ UNCHANGED <<storeVars, worldVars, listed, app, registered>>

\* Nomad refuses or does not answer, before the register went through.
RegisterError(id) ==
    /\ \/ In(id, "begin") /\ app[id].state = "applying" /\ app[id].applied = 0
       \/ In(id, "plan")
       \/ In(id, "register")
    /\ registerRetry(id)
    /\ UNCHANGED <<storeVars, worldVars, listed, expired, registered>>

\* Any other read or write of Nomad or the store fails: the next cycle tries again.
StepError(id) ==
    /\ id \in Ids /\ Working(id)
    /\ Finish(id)
    /\ UNCHANGED <<storeVars, worldVars, listed, expired, registered>>

ApplyStep(id) ==
    \/ Commit(id) \/ StepDetected(id) \/ StepDetectedAll(id) \/ StepPending(id) \/ StepHook(id)
    \/ StepRegister(id) \/ StepPlan(id) \/ StepMove(id) \/ RegisterOK(id) \/ RegisterConflict(id)
    \/ StepReread(id) \/ StepSetApplied(id) \/ StepHealth(id) \/ StepScaled(id) \/ StepFollow(id)
    \/ StepVerdict(id) \/ StepAwaitPromotion(id) \/ StepPromoted(id)

ApplyInit == /\ listed = {}
             /\ app = [id \in 1..MaxDeployments |-> Idle]
             /\ expired = {}
             /\ registered = {}

ApplyTypeOK ==
    /\ listed \subseteq [id: Ids, state: States, cas: 0..raft, applied: 0..raft, waiting: BOOLEAN]
    /\ app \in [1..MaxDeployments ->
                 [pc: AppPCs, state: ActiveStates \cup {""}, cas: 0..raft, applied: 0..raft,
                  waiting: BOOLEAN, index: 0..raft, to: States \cup {""}]]
    /\ expired \subseteq Ids
    /\ registered \subseteq Ids

=============================================================================
