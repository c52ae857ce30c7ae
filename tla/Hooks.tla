------------------------------- MODULE Hooks -------------------------------
(***************************************************************************)
(* The hooks of deployments: the step of a hook phase (engine/apply.go),   *)
(* the runner (internal/hooks), the revisions each hook is registered as   *)
(* and their collector (engine/hookrev.go), over the hook_runs table and   *)
(* the children Nomad starts.                                              *)
(*                                                                         *)
(* A hook run is identified by <<deployment, phase, position>>, which is   *)
(* also its idempotency token.                                             *)
(***************************************************************************)
EXTENDS Integers, Sequences, FiniteSets

CONSTANTS
    Deployments,
    Revisions,       \* the Nomad jobs hooks are registered as
    Declared,        \* the hooks a deployment may declare: revisions in order, for each phase
    MaxPosition,
    MaxHooks,        \* hooks of all deployments together
    Invalid,         \* the revisions the runner refuses: not a batch hook, or meta it cannot fill
    Partial,         \* the revisions with several groups, which Nomad may place in part
    MaxFaults        \* errors and crashes in a behaviour

Phases == {"pre", "post"}

NoHooks == [ph \in Phases |-> <<>>]

ASSUME HooksAssumption ==
    /\ MaxPosition \in Nat \ {0} /\ MaxHooks \in Nat /\ MaxFaults \in Nat
    /\ Declared \subseteq [Phases -> Seq(Revisions)]
    /\ \A h \in Declared, ph \in Phases : Len(h[ph]) <= MaxPosition
    /\ Invalid \subseteq Revisions /\ Partial \subseteq Revisions

Runs == Deployments \X Phases \X (1..MaxPosition)

Unsettled == {"none", "dispatching", "running"}
Settled == {"succeeded", "failed", "timed_out"}

VARIABLES
    state,       \* the state of each deployment, those before its hooks as "waiting"
    frozen,      \* deployment_hooks: what each froze when it was created
    runs,        \* the rows of hook_runs
    late,        \* the hooks whose timeout has passed since they became the one to work on
    overdue,     \* those whose timeout has passed since their row was made
    listed,      \* the rows in a hook phase that the apply cycle listed and has not come to yet
    work,        \* the goroutine of each deployment
    gc,          \* the collector of revisions
    revision,    \* Nomad: the revisions, whether they run and their modify index
    children,    \* Nomad: the job each dispatch starts
    wire,        \* dispatches sent that have not reached Nomad yet
    started,     \* history: how many children Nomad started for each run
    completed,   \* history: the runs a child of which ended well
    faults

rowVars == <<state, frozen, runs>>
clockVars == <<late, overdue>>
childVars == <<children, started, completed>>
nomadVars == <<revision, wire, childVars>>
applyVars == <<listed, work>>
vars == <<rowVars, clockVars, applyVars, gc, nomadVars, faults>>

Frozen == {t \in Runs : t[3] <= Len(frozen[t[1]][t[2]])}

RevisionOf(t) == frozen[t[1]][t[2]][t[3]]

NoRun == [state |-> "none", child |-> FALSE]
NoChild == [status |-> "none", allocs |-> {}, unplaced |-> FALSE]
NewChild == [status |-> "pending", allocs |-> {}, unplaced |-> TRUE]
Idle == [pc |-> "idle", phase |-> "pre", pos |-> 1, index |-> 0, state |-> "none", dead |-> FALSE]
IdleGC == [pc |-> "idle", stop |-> {}]

HookPhase(ph) == IF ph = "pre" THEN "pre_hook" ELSE "post_hook"
Active == {"waiting", "pre_hook", "applying", "post_hook"}

RunRecord == [state: Unsettled \cup Settled, child: BOOLEAN]

WorkRecord ==
    [pc: {"idle", "live", "plan", "register", "ensure", "validate", "mark", "dispatch",
          "save", "recover", "job", "allocs", "stop", "finish", "result"},
     phase: Phases, pos: 1..MaxPosition, index: Nat,
     state: Unsettled \cup Settled, dead: BOOLEAN]

ChildRecord ==
    [status: {"none", "pending", "running", "dead", "gone"},
     allocs: SUBSET {"live", "complete", "failed", "stopped"}, unplaced: BOOLEAN]

HooksTypeOK ==
    /\ state \in [Deployments -> {"none", "completed", "failed"} \cup Active]
    /\ frozen \in [Deployments -> Declared \cup {NoHooks}]
    /\ runs \in [Runs -> RunRecord]
    /\ \A t \in Runs : /\ runs[t].child => runs[t].state \in Settled \cup {"running"}
                       /\ runs[t].state = "succeeded" => runs[t].child
    /\ late \subseteq Runs /\ overdue \subseteq late
    /\ listed \subseteq Deployments \X Phases
    /\ work \in [Deployments -> WorkRecord]
    /\ gc \in [pc: {"idle", "used", "stop"}, stop: SUBSET Revisions]
    /\ revision \in [Revisions -> [up: BOOLEAN, index: Nat]]
    /\ children \in [Runs -> ChildRecord]
    /\ wire \subseteq Runs
    /\ started \in [Runs -> Nat]
    /\ completed \subseteq Runs
    /\ faults \in 0..MaxFaults

Exists(t) == children[t].status \in {"pending", "running", "dead"}
Alive(t) == children[t].status \in {"pending", "running"}

-----------------------------------------------------------------------------
(***************************************************************************)
(* The goroutine of a deployment in a hook phase.                          *)
(***************************************************************************)
At(d, pc) == work[d].pc = pc
Current(d) == <<d, work[d].phase, work[d].pos>>
Goto(d, pc) == work' = [work EXCEPT ![d].pc = pc]
Leave(d) == work' = [work EXCEPT ![d] = Idle]
\* What the goroutine has found the run's outcome to be, still to be saved.
Judge(d, to) == work' = [work EXCEPT ![d].pc = "finish", ![d].state = to]

\* applyTransition: the deployment moves from the state its row was listed in, or
\* not at all (store.Transition refuses, and that is logged).
Transition(d, to) ==
    state' = [state EXCEPT ![d] = IF @ = HookPhase(work[d].phase) THEN to ELSE @]

\* applyCycle: the rows as they are now, then each of them in turn.
ListActive ==
    /\ listed = {}
    /\ listed' = {x \in Deployments \X Phases : state[x[1]] = HookPhase(x[2])}
    /\ UNCHANGED <<rowVars, clockVars, work, gc, nomadVars, faults>>

\* startApply: a deployment no goroutine works on gets one, for its row as it was
\* listed.  stepHook takes the hooks of that row's phase in order, from the first.
Begin(d) ==
    /\ \E ph \in Phases :
         /\ <<d, ph>> \in listed
         /\ listed' = listed \ {<<d, ph>>}
         /\ IF At(d, "idle")
            THEN work' = [work EXCEPT ![d] = [Idle EXCEPT !.pc = "live", !.phase = ph]]
            ELSE UNCHANGED work
    /\ UNCHANGED <<rowVars, clockVars, gc, nomadVars, faults>>

applyCycle == ListActive \/ \E d \in Deployments : Begin(d)

\* registerRevision: the live index, the plan, and the register at that index.
ReadLive(d) ==
    /\ At(d, "live")
    /\ work' = [work EXCEPT ![d].pc = "plan", ![d].index = revision[RevisionOf(Current(d))].index]
    /\ UNCHANGED <<rowVars, clockVars, listed, gc, nomadVars, faults>>

Plan(d) ==
    /\ At(d, "plan")
    /\ Goto(d, IF revision[RevisionOf(Current(d))].up THEN "ensure" ELSE "register")
    /\ UNCHANGED <<rowVars, clockVars, listed, gc, nomadVars, faults>>

Registered(r) == revision' = [revision EXCEPT ![r] = [up |-> TRUE, index |-> @.index + 1]]

\* A hook that could not be registered within its timeout fails the deployment.
RegisterFails(d) ==
    /\ IF Current(d) \in late THEN Transition(d, "failed") ELSE UNCHANGED state
    /\ Leave(d)
    /\ UNCHANGED <<frozen, runs, clockVars, listed, gc, wire, childVars>>

Register(d) ==
    /\ At(d, "register")
    /\ LET r == RevisionOf(Current(d))
       IN  IF revision[r].index = work[d].index
           THEN Registered(r) /\ Goto(d, "ensure") /\ UNCHANGED <<rowVars, clockVars, listed, gc, wire, childVars>>
           ELSE RegisterFails(d) /\ UNCHANGED revision
    /\ UNCHANGED faults

\* EnsureHookRun makes the row or reads it, and Run goes on from its state.
Ensure(d) ==
    /\ At(d, "ensure")
    /\ LET t == Current(d)
           row == IF runs[t].state = "none" THEN [NoRun EXCEPT !.state = "dispatching"] ELSE runs[t]
       IN  /\ runs' = [runs EXCEPT ![t] = row]
           /\ work' = [work EXCEPT ![d].state = row.state,
                                   ![d].pc = IF row.state \in Settled THEN "result"
                                             ELSE IF row.child THEN "job"
                                             ELSE IF row.state = "dispatching" THEN "validate"
                                             ELSE "recover"]
    /\ UNCHANGED <<state, frozen, clockVars, listed, gc, nomadVars, faults>>

\* A hook the runner cannot dispatch: its revision was purged, it is not a batch
\* hook, or it requires meta Nops does not offer.
Refused(r) == revision[r].index = 0 \/ r \in Invalid

\* dispatch: what is checked before anything is sent.
Validate(d) ==
    /\ At(d, "validate")
    /\ LET t == Current(d)
       IN  IF t \in overdue THEN Judge(d, "timed_out")
           ELSE IF Refused(RevisionOf(t)) THEN Judge(d, "failed")
           ELSE Goto(d, "mark")
    /\ UNCHANGED <<rowVars, clockVars, listed, gc, nomadVars, faults>>

\* The run is saved as running before the dispatch is sent.
Mark(d) ==
    /\ At(d, "mark")
    /\ runs' = [runs EXCEPT ![Current(d)].state = "running"]
    /\ Goto(d, "dispatch")
    /\ UNCHANGED <<state, frozen, clockVars, listed, gc, nomadVars, faults>>

\* Nomad takes a dispatch: with a token it knows, it answers with the child it has.
NomadDispatch(t) ==
    IF Exists(t)
    THEN UNCHANGED childVars
    ELSE /\ children' = [children EXCEPT ![t] = NewChild]
         /\ started' = [started EXCEPT ![t] = @ + 1]
         /\ UNCHANGED completed

\* Nomad refuses to dispatch a revision that is stopped or gone: an error, after
\* which the run is marked as sent.
Dispatch(d) ==
    /\ At(d, "dispatch")
    /\ IF revision[RevisionOf(Current(d))].up
       THEN NomadDispatch(Current(d)) /\ Goto(d, "save")
       ELSE Leave(d) /\ UNCHANGED childVars
    /\ UNCHANGED <<rowVars, clockVars, listed, gc, revision, wire, faults>>

SaveChild(d) ==
    /\ At(d, "save")
    /\ runs' = [runs EXCEPT ![Current(d)] = [state |-> "running", child |-> TRUE]]
    /\ Goto(d, "job")
    /\ UNCHANGED <<state, frozen, clockVars, listed, gc, nomadVars, faults>>

\* mutant: a dispatch that left no trace is sent again
RecoverChild_again(d) ==
    /\ At(d, "recover")
    /\ Goto(d, IF Exists(Current(d)) THEN "save" ELSE "dispatch")
    /\ UNCHANGED <<rowVars, clockVars, listed, gc, nomadVars, faults>>

\* recoverChild: the child is found by its token, or its outcome is unknown.
RecoverChild(d) ==
    /\ At(d, "recover")
    /\ IF Exists(Current(d)) THEN Goto(d, "save") ELSE Judge(d, "failed")
    /\ UNCHANGED <<rowVars, clockVars, listed, gc, nomadVars, faults>>

-----------------------------------------------------------------------------
(***************************************************************************)
(* await: the child, then its allocations, then a verdict, until there is  *)
(* an outcome or the deadline has passed.                                  *)
(***************************************************************************)
AwaitJob(d) ==
    /\ At(d, "job")
    /\ LET child == children[Current(d)]
       IN  IF Exists(Current(d))
           THEN work' = [work EXCEPT ![d].pc = "allocs", ![d].dead = child.status = "dead"]
           ELSE Judge(d, "failed")
    /\ UNCHANGED <<rowVars, clockVars, listed, gc, nomadVars, faults>>

\* What a child dead or not, and its allocations, say of its run.
evaluate(dead, allocs) ==
    IF "failed" \in allocs THEN "failed"
    ELSE IF "stopped" \in allocs THEN "stopped"
    ELSE IF ~dead THEN "running"
    ELSE IF allocs = {} THEN "failed"
    ELSE IF "live" \in allocs THEN "running"
    ELSE "succeeded"

\* mutant: a hook that waits is never out of time
AwaitAllocs_noDeadline(d) ==
    /\ At(d, "allocs")
    /\ LET t == Current(d)
           verdict == evaluate(work[d].dead, children[t].allocs)
       IN  IF ~Exists(t) THEN Judge(d, "failed")
           ELSE IF verdict \in {"succeeded", "failed"} THEN Judge(d, verdict)
           ELSE IF verdict = "stopped" THEN Judge(d, "failed")
           ELSE Goto(d, "job")
    /\ UNCHANGED <<rowVars, clockVars, listed, gc, nomadVars, faults>>

AwaitAllocs(d) ==
    /\ At(d, "allocs")
    /\ LET t == Current(d)
           verdict == evaluate(work[d].dead, children[t].allocs)
       IN  IF ~Exists(t) THEN Judge(d, "failed")
           ELSE IF verdict \in {"succeeded", "failed"} THEN Judge(d, verdict)
           ELSE IF t \in overdue THEN Goto(d, "stop")
           ELSE IF verdict = "stopped" THEN Judge(d, "failed")
           ELSE Goto(d, "job")
    /\ UNCHANGED <<rowVars, clockVars, listed, gc, nomadVars, faults>>

StopChild(t) ==
    children' = [children EXCEPT ![t].status = IF Alive(t) THEN "dead" ELSE @]

\* mutant: a hook out of time is given up but not stopped
Stop_never(d) ==
    /\ At(d, "stop")
    /\ Judge(d, "timed_out")
    /\ UNCHANGED <<rowVars, clockVars, listed, gc, nomadVars, faults>>

\* The child is stopped before the timeout is saved.
Stop(d) ==
    /\ At(d, "stop")
    /\ StopChild(Current(d))
    /\ Judge(d, "timed_out")
    /\ UNCHANGED <<rowVars, clockVars, listed, gc, revision, wire, started, completed, faults>>

\* mutant: an outcome without a child ID clears the one on record
Finish_dropsChild(d) ==
    /\ At(d, "finish")
    /\ runs' = [runs EXCEPT ![Current(d)] = [state |-> work[d].state, child |-> FALSE]]
    /\ Goto(d, "result")
    /\ UNCHANGED <<state, frozen, clockVars, listed, gc, nomadVars, faults>>

\* UpdateHookRun keeps the child ID.
Finish(d) ==
    /\ At(d, "finish")
    /\ runs' = [runs EXCEPT ![Current(d)].state = work[d].state]
    /\ Goto(d, "result")
    /\ UNCHANGED <<state, frozen, clockVars, listed, gc, nomadVars, faults>>

\* mutant: the phase goes on after a hook that timed out
Result_ignoresTimeout(d) ==
    /\ At(d, "result")
    /\ LET ph == work[d].phase
           ok == work[d].state # "failed"
           last == work[d].pos = Len(frozen[d][ph])
       IN  IF ok /\ ~last
           THEN work' = [work EXCEPT ![d] = [Idle EXCEPT !.pc = "live", !.phase = ph, !.pos = work[d].pos + 1]]
                /\ UNCHANGED state
           ELSE /\ Transition(d, IF ~ok THEN "failed" ELSE IF ph = "pre" THEN "applying" ELSE "completed")
                /\ Leave(d)
    /\ UNCHANGED <<frozen, runs, clockVars, listed, gc, nomadVars, faults>>

\* Back in stepHook: the next hook, or the end of the phase.
Result(d) ==
    /\ At(d, "result")
    /\ LET ph == work[d].phase
           ok == work[d].state = "succeeded"
           last == work[d].pos = Len(frozen[d][ph])
       IN  IF ok /\ ~last
           THEN work' = [work EXCEPT ![d] = [Idle EXCEPT !.pc = "live", !.phase = ph, !.pos = work[d].pos + 1]]
                /\ UNCHANGED state
           ELSE /\ Transition(d, IF ~ok THEN "failed" ELSE IF ph = "pre" THEN "applying" ELSE "completed")
                /\ Leave(d)
    /\ UNCHANGED <<frozen, runs, clockVars, listed, gc, nomadVars, faults>>

Step(d) ==
    \/ ReadLive(d) \/ Plan(d) \/ Register(d) \/ Ensure(d) \/ Validate(d) \/ Mark(d)
    \/ Dispatch(d) \/ SaveChild(d) \/ RecoverChild(d) \/ AwaitJob(d) \/ AwaitAllocs(d)
    \/ Stop(d) \/ Finish(d) \/ Result(d)

-----------------------------------------------------------------------------
(***************************************************************************)
(* gcHookRevisions, at the end of a detection cycle: the revisions that    *)
(* run, then those in use, then a stop of each of the others.              *)
(***************************************************************************)
\* mutant: what waits for an approval is not counted
HookRevisionsInUse_started ==
    {RevisionOf(t) : t \in {t \in Frozen : state[t[1]] \in Active \ {"waiting"}}}

HookRevisionsInUse == {RevisionOf(t) : t \in {t \in Frozen : state[t[1]] \in Active}}

GCList ==
    /\ gc.pc = "idle"
    /\ \E r \in Revisions : revision[r].up
    /\ gc' = [pc |-> "used", stop |-> {r \in Revisions : revision[r].up}]
    /\ UNCHANGED <<rowVars, clockVars, applyVars, nomadVars, faults>>

GCUsed ==
    /\ gc.pc = "used"
    /\ LET unused == gc.stop \ HookRevisionsInUse
       IN  gc' = IF unused = {} THEN IdleGC ELSE [pc |-> "stop", stop |-> unused]
    /\ UNCHANGED <<rowVars, clockVars, applyVars, nomadVars, faults>>

GCStop(r) ==
    /\ gc.pc = "stop" /\ r \in gc.stop
    /\ revision' = [revision EXCEPT ![r] = IF @.up THEN [up |-> FALSE, index |-> @.index + 1] ELSE @]
    /\ gc' = IF gc.stop = {r} THEN IdleGC ELSE [gc EXCEPT !.stop = @ \ {r}]
    /\ UNCHANGED <<rowVars, clockVars, applyVars, wire, childVars, faults>>

Collect == GCList \/ GCUsed \/ \E r \in Revisions : GCStop(r)

-----------------------------------------------------------------------------
(***************************************************************************)
(* The rest of the engine, as far as hooks go: deployments are created by  *)
(* detection, which the collector is a part of, start, and are applied.    *)
(***************************************************************************)
Create(d) ==
    /\ gc.pc = "idle" /\ state[d] = "none"
    /\ \E h \in Declared :
         /\ Cardinality(Frozen) + Len(h["pre"]) + Len(h["post"]) <= MaxHooks
         /\ frozen' = [frozen EXCEPT ![d] = h]
    /\ state' = [state EXCEPT ![d] = "waiting"]

\* Started (nextAfterDecision), or put aside.
Decide(d) ==
    /\ state[d] = "waiting"
    /\ \/ state' = [state EXCEPT ![d] = IF frozen[d]["pre"] # <<>> THEN "pre_hook" ELSE "applying"]
       \/ state' = [state EXCEPT ![d] = "failed"]

\* stepApplying, in a goroutine of the same cycle: none while one of a hook phase
\* works on the deployment or is about to.
Applied(d) ==
    /\ state[d] = "applying"
    /\ At(d, "idle") /\ \A ph \in Phases : <<d, ph>> \notin listed
    /\ \E to \in {"failed", IF frozen[d]["post"] # <<>> THEN "post_hook" ELSE "completed"} :
         state' = [state EXCEPT ![d] = to]

Deploy(d) ==
    /\ \/ Create(d)
       \/ (Decide(d) \/ Applied(d)) /\ UNCHANGED frozen
    /\ UNCHANGED <<runs, clockVars, applyVars, gc, nomadVars, faults>>

-----------------------------------------------------------------------------
(***************************************************************************)
(* The children in Nomad, and the time that passes.                        *)
(***************************************************************************)
\* Nomad places a group that waits for room, or one that failed again.
ChildPlaced(t) ==
    /\ Alive(t) /\ "live" \notin children[t].allocs
    /\ children[t].unplaced \/ "failed" \in children[t].allocs
    /\ \E unplaced \in {FALSE, RevisionOf(t) \in Partial /\ children[t].unplaced} :
         children' = [children EXCEPT ![t] = [status |-> "running", allocs |-> @.allocs \cup {"live"},
                                              unplaced |-> unplaced]]
    /\ UNCHANGED completed

\* An allocation ends by itself, or because its job was stopped.  The run has ended
\* well when all of them have, and every group had one.
AllocEnds(t) ==
    /\ Exists(t) /\ "live" \in children[t].allocs
    /\ \E end \in IF Alive(t) THEN {"complete", "failed"} ELSE {"stopped"} :
         LET allocs == (children[t].allocs \ {"live"}) \cup {end}
         IN  /\ children' = [children EXCEPT ![t].allocs = allocs]
             /\ completed' = IF allocs = {"complete"} /\ ~children[t].unplaced
                             THEN completed \cup {t} ELSE completed

\* A child ends when nothing of it runs or waits for room; one that no node matches
\* ends with no allocation.
ChildEnds(t) ==
    /\ Alive(t) /\ "live" \notin children[t].allocs
    /\ children[t].unplaced => children[t].allocs = {}
    /\ children' = [children EXCEPT ![t].status = "dead"]
    /\ UNCHANGED completed

StoppedOutside(t) == Alive(t) /\ StopChild(t) /\ UNCHANGED completed

ChildGone(t) ==
    /\ children[t].status = "dead"
    /\ children' = [children EXCEPT ![t] = [NoChild EXCEPT !.status = "gone"]]
    /\ UNCHANGED completed

\* What a child does once its outcome is settled is left out.
Child(t) ==
    /\ runs[t].state \in Unsettled
    /\ \/ ChildPlaced(t) \/ AllocEnds(t) \/ ChildEnds(t)
       \/ StoppedOutside(t) \/ ChildGone(t)
    /\ UNCHANGED <<rowVars, clockVars, applyVars, gc, revision, wire, started, faults>>

\* A dispatch Nops has given up on reaches Nomad.
Arrive(t) ==
    /\ t \in wire
    /\ wire' = wire \ {t}
    /\ IF revision[RevisionOf(t)].up THEN NomadDispatch(t) ELSE UNCHANGED childVars
    /\ UNCHANGED <<rowVars, clockVars, applyVars, gc, revision, faults>>

\* The timeout of a hook counts from the end of the one before it (hookStart), or
\* from its row (started_at), which is later.
Expire(t) ==
    /\ t \in Frozen
    /\ \/ state[t[1]] = HookPhase(t[2])
       \/ ~At(t[1], "idle") /\ work[t[1]].phase = t[2]
    /\ \/ /\ t \notin late /\ late' = late \cup {t} /\ UNCHANGED overdue
          /\ \A i \in 1..(t[3] - 1) : runs[<<t[1], t[2], i>>].state = "succeeded"
       \/ t \in late \ overdue /\ runs[t].state # "none" /\ overdue' = overdue \cup {t} /\ UNCHANGED late
    /\ UNCHANGED <<rowVars, applyVars, gc, nomadVars, faults>>

-----------------------------------------------------------------------------
(***************************************************************************)
(* Errors.                                                                 *)
(***************************************************************************)
\* An error of Nomad while the revision is being registered; the register may
\* have gone through.
RegisterError(d) ==
    /\ work[d].pc \in {"live", "plan", "register"}
    /\ RegisterFails(d)
    /\ \/ UNCHANGED revision
       \/ At(d, "register") /\ LET r == RevisionOf(Current(d))
                               IN  revision[r].index = work[d].index /\ Registered(r)

\* An error of Nomad or of the store anywhere else: the step ends where it was.
StepError(d) ==
    /\ work[d].pc \notin {"idle", "live", "plan", "register", "dispatch"}
    /\ Leave(d)
    /\ UNCHANGED <<rowVars, clockVars, listed, gc, nomadVars>>

\* The dispatch is refused, is lost, is taken without Nops knowing, or is late.
DispatchError(d) ==
    /\ At(d, "dispatch")
    /\ LET t == Current(d)
       IN  \/ Judge(d, "failed") /\ UNCHANGED <<wire, childVars>>
           \/ Leave(d) /\ UNCHANGED <<wire, childVars>>
           \/ Leave(d) /\ revision[RevisionOf(t)].up /\ NomadDispatch(t) /\ UNCHANGED wire
           \/ Leave(d) /\ wire' = wire \cup {t} /\ UNCHANGED childVars
    /\ UNCHANGED <<rowVars, clockVars, listed, gc, revision>>

\* The collector gives up on one revision, or on this cycle.
GCError ==
    /\ gc.pc # "idle"
    /\ \E left \in {{}} \cup {gc.stop \ {r} : r \in gc.stop} :
         gc' = IF gc.pc = "used" \/ left = {} THEN IdleGC ELSE [gc EXCEPT !.stop = left]
    /\ UNCHANGED <<rowVars, clockVars, applyVars, nomadVars>>

Crash ==
    /\ listed' = {}
    /\ work' = [d \in Deployments |-> Idle]
    /\ gc' = IdleGC
    /\ UNCHANGED <<rowVars, clockVars, nomadVars>>

Fault ==
    /\ faults < MaxFaults /\ faults' = faults + 1
    /\ \/ \E d \in Deployments : RegisterError(d) \/ StepError(d) \/ DispatchError(d)
       \/ GCError
       \/ Crash

-----------------------------------------------------------------------------
Init ==
    /\ state = [d \in Deployments |-> "none"]
    /\ frozen = [d \in Deployments |-> NoHooks]
    /\ runs = [t \in Runs |-> NoRun]
    /\ late = {} /\ overdue = {}
    /\ listed = {}
    /\ work = [d \in Deployments |-> Idle]
    /\ gc = IdleGC
    /\ revision = [r \in Revisions |-> [up |-> FALSE, index |-> 0]]
    /\ children = [t \in Runs |-> NoChild]
    /\ wire = {}
    /\ started = [t \in Runs |-> 0]
    /\ completed = {}
    /\ faults = 0

Next ==
    \/ applyCycle
    \/ \E d \in Deployments : Step(d) \/ Deploy(d)
    \/ Collect
    \/ \E t \in Runs : Child(t) \/ Arrive(t) \/ Expire(t)
    \/ Fault

Spec == Init /\ [][Next]_vars

\* The apply loop ticks, a goroutine goes on, and time passes while a hook does.
\* Nothing says that a child ever ends, or that detection runs.
Fairness ==
    /\ WF_vars(applyCycle)
    /\ \A d \in Deployments : WF_vars(Step(d))
    /\ \A t \in Runs : WF_vars(Expire(t))

FairSpec == Spec /\ Fairness

-----------------------------------------------------------------------------
(***************************************************************************)
(* Properties.                                                             *)
(***************************************************************************)

\* Seen from afar, a hook run is what HookOnce says: Nomad starts it once at most,
\* through lost and late dispatches, crashes and the collection of its child, and
\* what Nops settles on is final, and true when it is a success.
Once == INSTANCE HookOnce WITH
    Hooks <- Runs,
    outcome <- [t \in Runs |-> IF runs[t].state \in Settled THEN runs[t].state ELSE "none"],
    ran <- started,
    done <- completed

ImplementsOnce == Once!OnceSpec

\* From the moment the goroutine of an active deployment has its revision until its
\* dispatch, the collector does not stop it, though another deployment may be done
\* with it meanwhile.  A goroutine on a row listed before its deployment failed is
\* not protected: nothing counts that deployment's revisions any more.
RevisionReady ==
    \A d \in Deployments : state[d] \in Active /\ work[d].pc \in {"ensure", "validate", "mark", "dispatch"}
                             => revision[RevisionOf(Current(d))].up

\* Every hook of a phase has run to a good end, in order, before the deployment goes
\* past it, and every one before a hook that runs.
PastHooks(ph) == IF ph = "pre" THEN {"applying", "post_hook", "completed"} ELSE {"completed"}

HooksBefore(t) == {u \in Runs : u[1] = t[1] /\ u[2] = t[2] /\ u[3] < t[3]}

PhaseFollowsHooks ==
    /\ \A t \in Frozen : state[t[1]] \in PastHooks(t[2]) => t \in completed
    /\ \A t \in Runs : started[t] > 0 => HooksBefore(t) \subseteq completed

\* A hook recorded as out of time no longer runs.
TimedOutStopped == \A t \in Runs : runs[t].state = "timed_out" => ~Alive(t)

\* docs/hooks.md, of the timeout: "When it expires, Nops stops the hook and the
\* deployment fails."  A deployment that has failed leaves no dispatched hook
\* running whose outcome nobody will look for.
NoHookAbandoned ==
    \A t \in Runs : state[t[1]] = "failed" /\ runs[t] = [state |-> "running", child |-> TRUE] => ~Alive(t)

\* A success was one: every group of the hook ran to a good end.
SucceededRan == \A t \in Runs : runs[t].state = "succeeded" => t \in completed

\* A hook phase ends, by an outcome or by the timeout, whatever becomes of the hook
\* and its dispatch and whatever is run beside it, once errors and crashes stop coming.
InHooks(d) == state[d] \in {"pre_hook", "post_hook"}

HookPhaseEnds == \A d \in Deployments : InHooks(d) ~> ~InHooks(d)

=============================================================================
