----------------------------- MODULE Detection -----------------------------
(***************************************************************************)
(* The detection loop (internal/engine/detect.go).  detectMu lets one      *)
(* cycle run at a time, so det is one record: where the cycle is and what  *)
(* it has read so far.  Every read and every write is a step of its own:   *)
(* the apply loop, the people and Nomad go on between any two of them.     *)
(***************************************************************************)
EXTENDS World

VARIABLE det

IdleDet == [pc |-> "idle", head |-> Gone, hold |-> "none", lifted |-> FALSE, lift |-> NoLift,
            index |-> 0, diff |-> NoDiff, nomadError |-> FALSE, blocked |-> FALSE,
            active |-> 0, state |-> "", cas |-> 0, retryOf |-> 0]

DetPCs == {"idle", "holds", "live", "plan", "active", "cas", "revalidate", "latest", "create",
           "drop", "publish", "removed", "supersede", "dropGone"}

At(pc) == det.pc = pc
Goto(pc) == det' = [det EXCEPT !.pc = pc]

\* On to pc, done with the deployment found active.
PutDown(pc) == det' = [det EXCEPT !.pc = pc, !.active = 0, !.state = "", !.cas = 0]

spec == det.head
drift == det.diff # NoDiff

\* Where a cycle goes once the job's deployment is seen to: a request it read at
\* its start and no deployment used is dropped.
Leave == IF det.lift = NoLift THEN "publish" ELSE "drop"

-----------------------------------------------------------------------------
\* A cycle starts: the git snapshot, then the pauses of jobs.
DetectBegin ==
    /\ At("idle")
    /\ det' = [IdleDet EXCEPT !.pc = "holds", !.head = head,
                              !.hold = IF "own" \in pauses THEN "paused" ELSE "none"]
    /\ UNCHANGED <<storeVars, obs>>

\* The pause of every job, the Deploy now requests, the clock.
DetectHolds ==
    /\ At("holds")
    /\ LET lift == lifts[Job]
           hold == IF spec \in Specs
                   THEN holdFrom(det.hold = "paused", "all" \in pauses, WindowClosed(spec))
                   ELSE "none"
           lifted == hold = "window" /\ lift = spec
       IN  det' = [det EXCEPT !.pc = IF spec \in Specs THEN "live" ELSE "publish",
                              !.hold = IF lifted THEN "none" ELSE hold,
                              !.lifted = lifted, !.lift = lift]
    /\ UNCHANGED <<storeVars, obs>>

\* The live job's index, then a plan: two requests to Nomad.
DetectLive ==
    /\ At("live")
    /\ det' = [det EXCEPT !.pc = "plan", !.index = live.index]
    /\ UNCHANGED <<storeVars, obs>>

DetectPlan ==
    /\ At("plan")
    /\ \E diff \in PlanDiffs(spec, det.index) : det' = [det EXCEPT !.pc = "active", !.diff = diff]
    /\ UNCHANGED <<storeVars, obs>>

\* Either of them fails: the observation says so, the deployment and a request
\* are left as they are.
DetectNomadError ==
    /\ At("live") \/ At("plan")
    /\ det' = [det EXCEPT !.pc = "publish", !.nomadError = TRUE, !.diff = NoDiff]
    /\ UNCHANGED <<storeVars, obs>>

-----------------------------------------------------------------------------
(***************************************************************************)
(* reconcileDeployment.                                                    *)
(***************************************************************************)
Afresh == IF spec.policy = "none" THEN Leave ELSE "latest"

DetectActive ==
    /\ At("active")
    /\ IF ActiveOf(Job) = {}
       THEN Goto(Afresh)
       ELSE LET id == CHOOSE i \in ActiveOf(Job) : TRUE
                d == Row(id)
                moved == /\ spec.policy # "none" /\ d.spec = spec
                         /\ d.cas # det.index /\ sameDiff(d.diff, det.diff)
            IN  IF d.state \in {"detected", "pending_approval"}
                THEN det' = [det EXCEPT !.pc = IF moved THEN "cas" ELSE "revalidate",
                                        !.active = id, !.state = d.state, !.cas = d.cas]
                ELSE Goto(Leave)
    /\ UNCHANGED <<storeVars, obs>>

\* A scale since the deployment was detected: kept, at the new index.
DetectMoveCAS ==
    /\ At("cas")
    /\ MoveCASOrSkip(det.active, det.state, det.cas, det.index)
    /\ det' = [det EXCEPT !.pc = "revalidate",
                          !.cas = IF CanKeep(det.active, det.state, det.cas) THEN det.index ELSE @]
    /\ UNCHANGED obs

\* What becomes of a waiting deployment, "" to leave it.
Outdated(id, cas) == spec.policy = "none" \/ Row(id).spec # spec \/ cas # det.index
InSync(id) == ~drift /\ ~Rerun(id)
\* mutant: a person's pause leaves what is waiting in place
PutAside_windowOnly(id, state) == /\ holdOn(det.hold, Row(id).lifted) = "window"
                                  /\ state = "detected" /\ Row(id).policy = "auto"

PutAside(id, state) == /\ holdOn(det.hold, Row(id).lifted) # "none"
                       /\ state = "detected" /\ Row(id).policy = "auto"

Verdict(id, state, cas) ==
    CASE Outdated(id, cas) -> "superseded"
      [] ~Outdated(id, cas) /\ InSync(id) -> "completed"
      [] ~Outdated(id, cas) /\ ~InSync(id) /\ PutAside(id, state) -> "superseded"
      [] OTHER -> ""

\* Left detected under approval by an older Nops: put right.
LegacyVerdict(id, state) ==
    IF state = "detected" /\ Row(id).policy = "approval"
    THEN IF spec.problem THEN "failed" ELSE "pending_approval"
    ELSE ""

DetectRevalidate ==
    /\ At("revalidate")
    /\ LET to == Verdict(det.active, det.state, det.cas)
           legacy == LegacyVerdict(det.active, det.state)
       IN  \/ /\ to # ""
              /\ TransitionOrSkip(det.active, det.state, to)
              /\ PutDown(Afresh)
           \/ /\ to = ""
              /\ IF legacy # "" THEN TransitionOrSkip(det.active, det.state, legacy)
                                ELSE UNCHANGED storeVars
              /\ PutDown(Leave)
    /\ UNCHANGED obs

\* A failed or rejected deployment of this spec that a person asked to retry.
retried(id) == /\ id # 0
               /\ Row(id).state \in {"failed", "rejected"} /\ Row(id).retried /\ Row(id).spec = spec

\* One that nothing has changed since.
blockedRetry(id) ==
    /\ id # 0
    /\ Row(id).state \in {"failed", "rejected"} /\ ~Row(id).retried
    /\ Row(id).spec = spec
    /\ Row(id).applied # 0 \/ Row(id).cas = det.index \/ sameDiff(Row(id).diff, det.diff)

\* mutant: any retry reruns the hooks, registered or not
Wanted_anyRerun(latest) == drift \/ retried(latest)

Wanted(latest) == drift \/ (retried(latest) /\ Row(latest).applied # 0)

DetectLatest ==
    /\ At("latest")
    /\ LET latest == LatestDeployment(Job)
           blocked == drift /\ blockedRetry(latest)
           creates == Wanted(latest) /\ ~blocked /\ det.hold = "none"
       IN  det' = [det EXCEPT !.pc = IF creates THEN "create" ELSE Leave,
                              !.blocked = blocked,
                              !.retryOf = IF retried(latest) THEN latest ELSE 0]
    /\ UNCHANGED <<storeVars, obs>>

Born == CASE spec.problem -> "failed"
          [] ~spec.problem /\ spec.policy = "approval" -> "pending_approval"
          [] OTHER -> "detected"

RoomForRow == Len(deployments) < MaxDeployments

\* ErrActiveDeployment: one appeared concurrently, skipped this cycle.  At the
\* bound a cycle creates nothing either.
DetectCreate ==
    /\ At("create")
    /\ LET r == [job |-> Job, spec |-> spec, policy |-> spec.policy, cas |-> det.index,
                 diff |-> det.diff, planDiff |-> drift, retryOf |-> det.retryOf,
                 lifted |-> det.lifted]
       IN  IF UniqueActive(Job, Born) /\ RoomForRow THEN CreateDeployment(r, Born) ELSE UNCHANGED storeVars
    /\ Goto(Leave)
    /\ UNCHANGED obs

-----------------------------------------------------------------------------
(***************************************************************************)
(* The end of a cycle.                                                     *)
(***************************************************************************)
\* By job, whichever request is there now.
DetectDrop ==
    /\ At("drop") \/ At("dropGone")
    /\ DropWindowLift(Job)
    /\ IF At("drop") THEN Goto("publish") ELSE det' = IdleDet
    /\ UNCHANGED obs

\* mutant: nothing says that the job is blocked
Observed_silent == [spec |-> spec, drift |-> drift, nomadError |-> det.nomadError,
                    hold |-> det.hold, blocked |-> FALSE]

Observed == [spec |-> spec, drift |-> drift, nomadError |-> det.nomadError,
             hold |-> det.hold, blocked |-> det.blocked]

\* A job git no longer has loses its waiting deployment, unless a file that does
\* not parse may be its own.
DetectPublish ==
    /\ At("publish")
    /\ obs' = IF spec \in Specs THEN Observed ELSE NoObs
    /\ IF spec = Gone THEN Goto("removed") ELSE det' = IdleDet
    /\ UNCHANGED storeVars

AfterRemoved == IF det.lift = NoLift THEN det' = IdleDet ELSE Goto("dropGone")

DetectRemoved ==
    /\ At("removed")
    /\ LET waiting == {i \in ActiveOf(Job) : Row(i).state \in {"detected", "pending_approval"}}
       IN  IF waiting = {} THEN AfterRemoved
           ELSE LET id == CHOOSE i \in waiting : TRUE
                IN  det' = [det EXCEPT !.pc = "supersede", !.active = id, !.state = Row(id).state]
    /\ UNCHANGED <<storeVars, obs>>

DetectSupersede ==
    /\ At("supersede")
    /\ TransitionOrSkip(det.active, det.state, "superseded")
    /\ AfterRemoved
    /\ UNCHANGED obs

\* A read or write of the store fails: the cycle stops there, and publishes nothing.
DetectAbort == /\ ~At("idle")
               /\ det' = IdleDet
               /\ UNCHANGED <<storeVars, obs>>

DetectStep ==
    \/ DetectBegin \/ DetectHolds \/ DetectLive \/ DetectPlan \/ DetectActive \/ DetectMoveCAS
    \/ DetectRevalidate \/ DetectLatest \/ DetectCreate \/ DetectDrop \/ DetectPublish
    \/ DetectRemoved \/ DetectSupersede

DetectTypeOK ==
    det \in [pc: DetPCs, head: Specs \cup {Gone, Broken}, hold: HoldKinds, lifted: BOOLEAN,
             lift: Specs \cup {NoLift}, index: 0..raft, diff: Diffs \cup {NoDiff},
             nomadError: BOOLEAN, blocked: BOOLEAN, active: 0..Len(deployments),
             state: States \cup {""}, cas: 0..raft, retryOf: 0..Len(deployments)]

=============================================================================
