------------------------------ MODULE Engine ------------------------------
(***************************************************************************)
(* The engine of Nops (internal/engine) in its surroundings: the detection *)
(* loop, the apply loop, the people who approve, reject, retry, pause and  *)
(* deploy now, the crash of the process, and what goes on outside: commits,*)
(* edits of the live job, the clock, errors of Nomad and of the store.     *)
(***************************************************************************)
EXTENDS Detection, Apply

CONSTANTS
    MaxCommits,   \* bound: changes of the job's spec in git
    MaxEdits,     \* bound: changes of the live job made outside Nops
    MaxHolds,     \* bound: pauses put on, turns of the sync window, promotions asked for
    MaxLaps,      \* bound: apply cycles that come to a deployment listed while in flight
    MaxFaults,    \* bound: crashes, errors and lost answers
    MaxTurns      \* bound: all of these together

\* There is room at least for the row an older Nops left.
ASSUME EngineAssumption ==
    /\ MaxDeployments # 0
    /\ MaxCommits \in Nat /\ MaxEdits \in Nat /\ MaxHolds \in Nat
    /\ MaxLaps \in Nat /\ MaxFaults \in Nat /\ MaxTurns \in Nat

VARIABLES
    approval,     \* the Approve or Promote request in progress
    used          \* how much of each bound is used up

NoApproval == [pc |-> "idle", id |-> 0]

engineVars == <<det, obs, applyVars, approval>>
vars == <<storeVars, worldVars, engineVars, used>>

Waiting == {id \in ListActive : Row(id).state \in {"detected", "pending_approval"}}
Started == {"pre_hook", "applying", "post_hook"}

-----------------------------------------------------------------------------
(***************************************************************************)
(* People.  Approve reads the deployment and the last observation, then    *)
(* the job's own pause, then the pause of every job, then decides.         *)
(***************************************************************************)
Approve(id) ==
    /\ approval.pc = "idle"
    /\ id \in Ids /\ Row(id).state = "pending_approval"
    /\ obs # NoObs /\ ~obs.nomadError
    /\ "own" \notin pauses
    /\ approval' = [pc |-> "all", id |-> id]
    /\ UNCHANGED <<storeVars, worldVars, det, obs, applyVars>>

ApproveAll ==
    /\ approval.pc = "all"
    /\ approval' = IF "all" \in pauses THEN NoApproval ELSE [approval EXCEPT !.pc = "decide"]
    /\ UNCHANGED <<storeVars, worldVars, det, obs, applyVars>>

ApproveDecide ==
    /\ approval.pc = "decide"
    /\ LET id == approval.id
           next == nextAfterDecision(id)
       IN  IF CanMove(id, "pending_approval", next)
           THEN Transition(id, "pending_approval", next, TRUE, 0)
           ELSE UNCHANGED storeVars
    /\ approval' = NoApproval
    /\ UNCHANGED <<worldVars, det, obs, applyVars>>

Reject(id) ==
    /\ Transition(id, "pending_approval", "rejected", TRUE, 0)
    /\ UNCHANGED <<worldVars, engineVars>>

Retryable(id) ==
    /\ id = LatestDeployment(Job)
    /\ Row(id).state \in {"failed", "rejected"} /\ ~Row(id).retried
    /\ obs # NoObs /\ ~obs.nomadError /\ obs.spec.policy # "none" /\ obs.spec = Row(id).spec
    /\ obs.drift \/ Row(id).applied # 0

\* Retry and Deploy now write their request and run a detection cycle, the next
\* to begin.
Retry(id) ==
    /\ id \in Ids /\ Retryable(id)
    /\ MarkRetried(id)
    /\ UNCHANGED <<worldVars, engineVars>>

DeployNowable ==
    /\ obs # NoObs /\ obs.hold = "window" /\ obs.drift /\ ~obs.blocked /\ ~obs.nomadError
    /\ LatestDeployment(Job) \notin ListActive

\* A second request for the spec already asked for changes nothing.
DeployNow ==
    /\ DeployNowable /\ lifts[Job] # obs.spec
    /\ RequestWindowLift(Job, obs.spec)
    /\ UNCHANGED <<worldVars, engineVars>>

\* What Nomad says of the canaries is read here too; if they wait, they are asked to
\* be promoted after it is on record who asked.
Promote(id) ==
    /\ approval.pc = "idle"
    /\ id \in Ids /\ Row(id).state = "applying" /\ AwaitingPromotion(id)
    /\ approval' = [pc |-> "promote", id |-> id]
    /\ UNCHANGED <<storeVars, worldVars, det, obs, applyVars>>

PromoteRequested ==
    LET id == approval.id IN
    /\ approval.pc = "promote"
    /\ IF Row(id).state = "applying"
       THEN MarkPromotionRequested(id) /\ approval' = [approval EXCEPT !.pc = "promoted"]
       ELSE UNCHANGED storeVars /\ approval' = NoApproval
    /\ UNCHANGED <<worldVars, det, obs, applyVars>>

\* Nomad has promoted them: recorded here, unless the apply loop has seen it first.
PromoteRecorded ==
    LET id == approval.id IN
    /\ approval.pc = "promoted"
    /\ IF Row(id).state = "applying" /\ ~Row(id).promoted
       THEN MarkPromoted(id) /\ expired' = expired \ {id}
       ELSE UNCHANGED <<storeVars, expired>>
    /\ approval' = NoApproval
    /\ UNCHANGED <<worldVars, det, obs, listed, app, registered>>

PromoteError ==
    /\ approval.pc \in {"promote", "promoted"}
    /\ approval' = NoApproval
    /\ UNCHANGED <<storeVars, worldVars, det, obs, applyVars>>

\* Each also puts the hold on, or takes it off, the observation.
SetPauses(now, hold) ==
    /\ pauses' = now
    /\ obs' = IF obs = NoObs THEN obs ELSE [obs EXCEPT !.hold = hold]
    /\ UNCHANGED <<storeVars, head, live, raft, windowOpen, det, applyVars, approval>>

Pause == obs # NoObs /\ "own" \notin pauses /\ SetPauses(pauses \cup {"own"}, "paused")
Resume == "own" \in pauses /\ SetPauses(pauses \ {"own"}, "none")
PauseAll == /\ "all" \notin pauses
            /\ SetPauses(pauses \cup {"all"}, IF obs.hold \in {"none", "window"} THEN "all" ELSE obs.hold)
ResumeAll == /\ "all" \in pauses
             /\ SetPauses(pauses \ {"all"}, IF obs.hold = "all" THEN "none" ELSE obs.hold)

-----------------------------------------------------------------------------
(***************************************************************************)
(* The process dies and starts again: what is in memory is lost.           *)
(***************************************************************************)
Crash ==
    /\ det' = IdleDet /\ obs' = NoObs
    /\ listed' = {} /\ app' = [id \in DOMAIN app |-> Idle]
    /\ approval' = NoApproval
    /\ UNCHANGED <<storeVars, worldVars, expired, registered>>

-----------------------------------------------------------------------------
(***************************************************************************)
(* Outside.                                                                *)
(***************************************************************************)
Commit2Git ==
    /\ head' \in (Specs \cup {Gone, Broken}) \ {head}
    /\ UNCHANGED <<storeVars, live, raft, pauses, windowOpen, engineVars>>

OutsideChange ==
    /\ OutsideEdit \/ OutsideScale \/ OutsidePurge
    /\ UNCHANGED <<storeVars, head, pauses, windowOpen, engineVars>>

TurnWindow ==
    /\ windowOpen' = ~windowOpen
    /\ UNCHANGED <<storeVars, head, live, raft, pauses, engineVars>>

-----------------------------------------------------------------------------
Turns == used.commits + used.edits + used.holds + used.laps + used.faults

Spend(f, bound) == /\ used[f] < bound /\ Turns < MaxTurns
                   /\ used' = [used EXCEPT ![f] = @ + 1]
Free == UNCHANGED used

Detecting == DetectStep /\ UNCHANGED <<worldVars, applyVars, approval>>
Applying == /\ \/ ApplyCycle
               \/ \E l \in listed : ApplyStart(l)
               \/ \E id \in Ids : ApplyStep(id)
            /\ UNCHANGED <<det, obs, approval>>
Expiring == \E id \in Ids : Expire(id) /\ UNCHANGED <<det, obs, approval>>
Approving == ApproveAll \/ ApproveDecide \/ PromoteRequested \/ PromoteRecorded
Deciding == \E id \in Ids : Approve(id) \/ Reject(id) \/ Retry(id)

Fault == \/ (DetectNomadError \/ DetectAbort) /\ UNCHANGED <<worldVars, applyVars, approval>>
         \/ /\ \E id \in Ids : RegisterError(id) \/ StepError(id) \/ RegisterLost(id)
            /\ UNCHANGED <<det, obs, approval>>
         \/ Crash

Next ==
    \/ Free /\ (Detecting \/ Applying \/ Expiring \/ Approving \/ PromoteError \/ Deciding \/ DeployNow)
    \/ Free /\ (Resume \/ ResumeAll)
    \/ Spend("holds", MaxHolds) /\ (Pause \/ PauseAll \/ TurnWindow \/ \E id \in Ids : Promote(id))
    \/ Spend("commits", MaxCommits) /\ Commit2Git
    \/ Spend("laps", MaxLaps) /\ ApplyList /\ UNCHANGED <<det, obs, approval>>
    \/ Spend("edits", MaxEdits) /\ OutsideChange
    \/ Spend("faults", MaxFaults) /\ Fault

Init ==
    /\ WorldInit
    /\ det = IdleDet
    /\ ApplyInit
    /\ approval = NoApproval
    /\ used = [commits |-> 0, edits |-> 0, holds |-> 0, laps |-> 0, faults |-> 0]

Spec == Init /\ [][Next]_vars

\* Both loops tick, every goroutine runs, time passes.  Nothing makes people or
\* the outside act.
Fairness ==
    /\ WF_vars(Detecting /\ Free)
    /\ WF_vars(ApplyCycle /\ UNCHANGED <<det, obs, approval>> /\ Free)
    /\ WF_vars((\E l \in listed : ApplyStart(l)) /\ UNCHANGED <<det, obs, approval>> /\ Free)
    /\ \A id \in 1..MaxDeployments :
         /\ WF_vars(id \in Ids /\ ApplyStep(id) /\ UNCHANGED <<det, obs, approval>> /\ Free)
         /\ WF_vars(Expire(id) /\ UNCHANGED <<det, obs, approval>> /\ Free)
    /\ WF_vars(Approving /\ Free)

FairSpec == Spec /\ Fairness

-----------------------------------------------------------------------------
(***************************************************************************)
(* Properties.                                                             *)
(***************************************************************************)

\* The values of every variable, and what they may say together.
EngineTypeOK ==
    /\ StoreTypeOK /\ WorldTypeOK /\ DetectTypeOK /\ ApplyTypeOK
    /\ approval \in [pc: {"idle", "all", "decide", "promote", "promoted"}, id: 0..Len(deployments)]
    /\ Turns <= MaxTurns

\* The step is a register of deployment id that Nomad takes.
Registers(id) == In(id, "register") /\ raft' # raft /\ app'[id] # app[id]

\* The live job a deployment's diff was shown against: an older Nops kept no diff,
\* and the row it left was detected with no live job.
ShownAgainst(id) == IF Row(id).diff = NoDiff THEN Absent ELSE Row(id).diff

\* Invariant 2 of docs/philosophy.md: whatever happened since detection (edits,
\* scales, crashes, a plan read after the index it goes with), the job a register
\* replaces is the very one the recorded diff was computed against, never someone's
\* change.
NeverOverwritesUnseen ==
    [][ \A id \in Ids : Registers(id) => live.body \in {ShownAgainst(id), Absent} ]_vars

\* Invariant 1: a register always changes something.
NoUselessRegister ==
    [][ \A id \in Ids : Registers(id) => live.body # Row(id).spec.body ]_vars

\* Invariant 3: under approval nothing starts, and nothing reaches Nomad, that a
\* person did not approve, a row an older Nops left `detected` included.
ApprovedBeforeStart ==
    \A id \in Ids : /\ Row(id).policy = "approval"
                    /\ Row(id).state \in Started \/ id \in registered
                    => Row(id).decided

\* A deployment whose register reached Nomad is never put aside as if it had not
\* (superseded, rejected), whatever detection and people decided on meanwhile.
RegisteredNeverDropped ==
    \A id \in registered : Row(id).state \notin {"superseded", "rejected"}

\* A retry retries an ended deployment of the same spec that a person asked to
\* retry, once; with nothing to register, only one that had registered.
RetriesAreFaithful ==
    \A id \in Ids : Row(id).retryOf # 0 =>
        LET of == Row(id).retryOf
        IN  /\ of < id /\ Row(of).retried /\ Row(of).spec = Row(id).spec
            /\ Row(of).state \in {"failed", "rejected"}
            /\ Row(id).planDiff \/ Row(of).applied # 0
            /\ \A k \in Ids : Row(k).retryOf = of => k = id

\* Deploy now deploys once what was asked: a deployment created outside its sync
\* window was asked for, for its very spec, by a request that is still there, and
\* that no later deployment finds.
LiftIsSpent ==
    [][ \A id \in DOMAIN deployments' \ Ids :
          deployments'[id].lifted => /\ lifts[Job] # NoLift /\ det.lift = deployments'[id].spec
                                     /\ lifts'[Job] = NoLift ]_vars

\* A register is that of a deployment still applying.
RegistersOnlyApplying ==
    [][ \A id \in Ids : Registers(id) => Row(id).state = "applying" ]_vars

\* The applied index on record is that of a job as the deployment registers it: as
\* long as the live job is at that index, what runs is the deployment's spec.
AppliedIsOurs ==
    \A id \in Ids : Row(id).applied # 0 /\ live.index = Row(id).applied
                      => live.body = Row(id).spec.body

\* The engine uses the store as StoreNext says.
UsesStore == StoreInit /\ [][UNCHANGED storeVars \/ StoreNext]_storeVars

\* A started deployment ends, whatever Nomad and the hooks answer, unless it waits
\* for a person to promote canaries.
Running(id) == id \in Ids /\ Row(id).state \in Started /\ ~AwaitingPromotion(id)

StartedEnds == \A id \in 1..MaxDeployments : Running(id) ~> ~Running(id)

\* Under auto, once git, the live job and the holds stay as they are and no canaries
\* wait for a person, the job is brought to the spec in git or the cycle says what
\* blocks it (unless the bound on rows is what stops it).
Unheld(s) == pauses = {} /\ (windowOpen \/ ~s.window)

OutOfRows == At("create") /\ ~RoomForRow

CanariesWait == \E id \in ListActive : AwaitingPromotion(id)

Converges ==
    \A s \in Specs :
        <>[](head = s /\ s.policy = "auto" /\ Unheld(s) /\ ~CanariesWait /\ ~OutOfRows)
          => <>[](live.body = s.body \/ obs.blocked)

\* A pause that stays puts aside every auto deployment not started.
HeldPutsAside ==
    <>[](pauses # {} /\ head \in Specs)
      => <>[](\A id \in Waiting : Row(id).policy = "approval")

=============================================================================
