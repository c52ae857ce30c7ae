---------------------------- MODULE HooksProofs ----------------------------
(***************************************************************************)
(* Proofs about hooks, for every set of deployments and revisions and every *)
(* bound.                                                                  *)
(***************************************************************************)
EXTENDS Hooks, TLAPS

-----------------------------------------------------------------------------
(***************************************************************************)
(* The invariant, of each run, each goroutine and each deployment.  The    *)
(* parts under Partial = {} are those a hook of several groups breaks.     *)
(***************************************************************************)
\* A run that has not been sent was not started and is not on its way; one on its way
\* is looked for, or given up.
RunOK(t) ==
    /\ started[t] \in {0, 1}
    /\ children[t].status = "none" <=> started[t] = 0
    /\ runs[t].state \in {"none", "dispatching"} => started[t] = 0 /\ t \notin wire
    /\ t \in wire => started[t] = 0 /\ runs[t].state \in {"running", "failed"}
    /\ runs[t].child => started[t] = 1
    /\ runs[t].state = "timed_out" => ~Alive(t)

\* With one group, a run all of whose allocations are complete ended well.
GroupsOK(t) ==
    /\ children[t].allocs # {} => ~children[t].unplaced
    /\ children[t].allocs = {"complete"} => t \in completed
    /\ runs[t].state = "succeeded" => t \in completed

\* A run is started only after those before it ended well.
OrderOK(t) ==
    started[t] > 0 \/ t \in wire => HooksBefore(t) \subseteq completed

\* What a goroutine at run t knows of it.  Its revision is up as long as the collector
\* counts the deployment.
Ready(t) == state[t[1]] \in Active => revision[RevisionOf(t)].up

RowOK(w, t) ==
    /\ w.pc \in {"validate", "mark"} => runs[t].state = "dispatching"
    /\ w.pc = "dispatch" => runs[t].state = "running" /\ started[t] = 0 /\ t \notin wire
    /\ w.pc = "save" => runs[t].state = "running" /\ started[t] = 1
    /\ w.pc = "recover" => runs[t].state = "running"
    /\ w.pc \in {"job", "allocs", "stop"} => runs[t].state = "running" /\ runs[t].child
    /\ w.pc = "finish" =>
         /\ runs[t].state \in {"dispatching", "running"} /\ w.state \in Settled
         /\ w.state = "succeeded" => runs[t].child /\ (Partial = {} => t \in completed)
         /\ w.state = "timed_out" => ~Alive(t) /\ t \notin wire
    /\ w.pc = "result" => w.state = runs[t].state /\ w.state \in Settled
    /\ w.pc \in {"ensure", "validate", "mark", "dispatch"} => Ready(t)

\* A goroutine works on a deployment that was in a hook phase once, at one of the hooks
\* of the phase it was listed in.
Begun(d) == state[d] \notin {"none", "waiting"}

WorkOK(d) ==
    work[d].pc # "idle" =>
      /\ Begun(d)
      /\ work[d].pos \in 1..Len(frozen[d][work[d].phase])
      /\ RowOK(work[d], Current(d))
      /\ Partial = {} => HooksBefore(Current(d)) \subseteq completed

\* A deployment is in a hook phase only with hooks in it, and past one only once they
\* have all ended well.
PhaseOK(d) ==
    \A ph \in Phases :
      /\ state[d] = HookPhase(ph) => frozen[d][ph] # <<>>
      /\ Partial = {} /\ state[d] \in PastHooks(ph)
           => \A i \in 1..Len(frozen[d][ph]) : <<d, ph, i>> \in completed

\* A row that is still to be worked on was in its phase when it was listed.
ListedOK ==
    \A x \in Deployments \X Phases :
      x \in listed => Begun(x[1]) /\ frozen[x[1]][x[2]] # <<>>

\* What the collector stops, no deployment needs.
StopsUnused == gc.pc = "stop" => gc.stop \cap HookRevisionsInUse = {}

HooksInv ==
    /\ HooksTypeOK
    /\ \A t \in Runs : RunOK(t) /\ (Partial = {} => GroupsOK(t) /\ OrderOK(t))
    /\ \A d \in Deployments : WorkOK(d) /\ PhaseOK(d)
    /\ ListedOK /\ StopsUnused

-----------------------------------------------------------------------------
(***************************************************************************)
(* Facts about runs.                                                       *)
(***************************************************************************)

\* The run a goroutine is at is a run of its deployment.
LEMMA CurrentRun ==
    ASSUME HooksTypeOK, NEW d \in Deployments
    PROVE  /\ Current(d) \in Runs
           /\ Current(d)[1] = d
           /\ Current(d)[2] = work[d].phase
           /\ Current(d)[3] = work[d].pos
BY DEF HooksTypeOK, WorkRecord, Current, Runs

\* What a deployment froze is a sequence of revisions for each phase, no longer than
\* MaxPosition.
LEMMA FrozenHooks ==
    ASSUME HooksTypeOK, NEW d \in Deployments, NEW ph \in Phases
    PROVE  /\ frozen[d][ph] \in Seq(Revisions)
           /\ Len(frozen[d][ph]) \in Nat
           /\ Len(frozen[d][ph]) <= MaxPosition
<1>1. CASE frozen[d] = NoHooks
  BY <1>1, HooksAssumption DEF NoHooks
<1>2. CASE frozen[d] \in Declared
  BY <1>2, HooksAssumption
<1>3. QED  BY <1>1, <1>2 DEF HooksTypeOK

\* A frozen hook has a revision.
LEMMA FrozenRevision ==
    ASSUME HooksTypeOK, NEW t \in Frozen
    PROVE  RevisionOf(t) \in Revisions
<1>1. t \in Runs /\ t[3] <= Len(frozen[t[1]][t[2]])
  BY DEF Frozen
<1>2. t[1] \in Deployments /\ t[2] \in Phases /\ t[3] \in 1..MaxPosition
  BY <1>1 DEF Runs
<1>3. frozen[t[1]][t[2]] \in Seq(Revisions) /\ Len(frozen[t[1]][t[2]]) \in Nat
  BY <1>2, FrozenHooks
<1>4. t[3] \in 1..Len(frozen[t[1]][t[2]])
  BY <1>1, <1>2, <1>3, HooksAssumption
<1>5. QED  BY <1>3, <1>4 DEF RevisionOf

\* A goroutine in a phase works for a frozen hook.
LEMMA CurrentFrozen ==
    ASSUME HooksTypeOK, NEW d \in Deployments, WorkOK(d), work[d].pc # "idle"
    PROVE  Current(d) \in Frozen /\ RevisionOf(Current(d)) \in Revisions
<1>1. Current(d) \in Runs /\ Current(d)[1] = d /\ Current(d)[2] = work[d].phase /\ Current(d)[3] = work[d].pos
  BY CurrentRun
<1>2. work[d].pos <= Len(frozen[d][work[d].phase])
  <2>1. work[d].phase \in Phases /\ work[d].pos \in 1..MaxPosition
    BY DEF HooksTypeOK, WorkRecord
  <2>2. Len(frozen[d][work[d].phase]) \in Nat
    BY <2>1, FrozenHooks
  <2>3. QED  BY <2>1, <2>2 DEF WorkOK
<1>3. Current(d) \in Frozen
  BY <1>1, <1>2 DEF Frozen
<1>4. QED  BY <1>3, FrozenRevision

-----------------------------------------------------------------------------
(***************************************************************************)
(* A step of one deployment leaves the others alone.                       *)
(***************************************************************************)
\* A step of deployment d that changes no runs but T, stops no revision and forgets
\* no good end.
Frame(d, T) ==
    /\ frozen' = frozen
    /\ \A e \in Deployments \ {d} : work'[e] = work[e] /\ state'[e] = state[e]
    /\ \A t \in Runs \ T : /\ runs'[t] = runs[t] /\ children'[t] = children[t]
                           /\ started'[t] = started[t] /\ (t \in wire' <=> t \in wire)
    /\ \A r \in Revisions : revision[r].up => revision'[r].up
    /\ completed \subseteq completed'
    /\ listed' \subseteq listed /\ (Begun(d) => Begun(d)')

\* What a goroutine knows of a run that is left alone stays true.
LEMMA RowStays ==
    ASSUME NEW d, NEW T, Frame(d, T), NEW t \in Runs \ T, t[1] \in Deployments \ {d},
           NEW w, RowOK(w, t),
           w.pc \in {"ensure", "validate", "mark", "dispatch"} => RevisionOf(t) \in Revisions
    PROVE  RowOK(w, t)'
<1>1. RevisionOf(t)' = RevisionOf(t)
  BY DEF Frame, RevisionOf
<1>2. runs'[t] = runs[t] /\ children'[t] = children[t] /\ started'[t] = started[t] /\ (t \in wire' <=> t \in wire)
  BY DEF Frame
<1>3. Alive(t)' <=> Alive(t)
  BY <1>2 DEF Alive
<1>4. t \in completed => t \in completed'
  BY DEF Frame
<1>5. RevisionOf(t) \in Revisions /\ Ready(t) => Ready(t)'
  BY <1>1 DEF Frame, Ready
<1>6. QED  BY <1>1, <1>2, <1>3, <1>4, <1>5 DEF RowOK, Ready

\* The goroutine of another deployment is where it was.
LEMMA OtherWork ==
    ASSUME HooksInv, NEW d \in Deployments, NEW T, \A t \in T : t[1] = d, Frame(d, T),
           NEW e \in Deployments \ {d}
    PROVE  WorkOK(e)' /\ PhaseOK(e)'
<1>1. HooksTypeOK /\ WorkOK(e) /\ PhaseOK(e)
  BY DEF HooksInv
<1>2. work'[e] = work[e] /\ state'[e] = state[e] /\ frozen' = frozen /\ completed \subseteq completed'
  BY DEF Frame
<1>3. Current(e)' = Current(e)
  BY <1>2 DEF Current
<1>4. Current(e) \in Runs /\ Current(e)[1] = e
  BY <1>1, CurrentRun
<1>5. Current(e) \in Runs \ T
  BY <1>4
<1>6. WorkOK(e)'
  <2> SUFFICES ASSUME work[e].pc # "idle"
               PROVE  WorkOK(e)'
    BY <1>2 DEF WorkOK
  <2>1. RevisionOf(Current(e)) \in Revisions
    BY <1>1, CurrentFrozen
  <2>2. RowOK(work[e], Current(e))
    BY <1>1 DEF WorkOK
  <2>3. RowOK(work[e], Current(e))'
    <3> DEFINE w == work[e]
               t == Current(e)
    <3>1. w' = w /\ t' = t
      BY <1>2, <1>3
    <3>2. RowOK(w, t)
      BY <2>2
    <3>3. t \in Runs \ T /\ RevisionOf(t) \in Revisions /\ t[1] \in Deployments \ {d}
      BY <1>4, <1>5, <2>1
    <3> QED  BY <3>1, <3>2, <3>3, RowStays
  <2>4. Partial = {} => HooksBefore(Current(e)) \subseteq completed'
    BY <1>1, <1>2 DEF WorkOK
  <2>5. QED  BY <1>1, <1>2, <1>3, <2>3, <2>4 DEF WorkOK, Begun
<1>7. PhaseOK(e)'
  BY <1>1, <1>2 DEF PhaseOK
<1>8. QED  BY <1>6, <1>7

\* So does every run left alone.
LEMMA OtherRuns ==
    ASSUME HooksInv, NEW d, NEW T, Frame(d, T), NEW t \in Runs \ T
    PROVE  RunOK(t)' /\ (Partial = {} => GroupsOK(t)' /\ OrderOK(t)')
<1>1. RunOK(t) /\ (Partial = {} => GroupsOK(t) /\ OrderOK(t))
  BY DEF HooksInv
<1>2. /\ runs'[t] = runs[t] /\ children'[t] = children[t] /\ started'[t] = started[t]
      /\ t \in wire' <=> t \in wire
      /\ completed \subseteq completed'
  BY DEF Frame
<1>3. RunOK(t)'
  BY <1>1, <1>2 DEF RunOK, Alive
<1>4. Partial = {} => GroupsOK(t)'
  BY <1>1, <1>2 DEF GroupsOK
<1>5. Partial = {} => OrderOK(t)'
  BY <1>1, <1>2 DEF OrderOK
<1>6. QED  BY <1>3, <1>4, <1>5

\* A step of one deployment keeps the invariant if it does at that deployment and at
\* the runs it changes.
LEMMA FrameKeeps ==
    ASSUME HooksInv, NEW d \in Deployments, NEW T, \A t \in T : t[1] = d, Frame(d, T),
           HooksTypeOK', WorkOK(d)', PhaseOK(d)', StopsUnused',
           \A t \in Runs \cap T : RunOK(t)' /\ (Partial = {} => GroupsOK(t)' /\ OrderOK(t)')
    PROVE  HooksInv'
<1>1. \A t \in Runs : RunOK(t)' /\ (Partial = {} => GroupsOK(t)' /\ OrderOK(t)')
  BY OtherRuns
<1>2. \A e \in Deployments : WorkOK(e)' /\ PhaseOK(e)'
  BY OtherWork
<1>3. ListedOK'
  BY DEF HooksInv, ListedOK, Frame, Begun
<1>4. QED  BY <1>1, <1>2, <1>3 DEF HooksInv

\* What is to be stopped stays unused while no deployment comes to need more.
LEMMA UnusedStays ==
    ASSUME HooksInv, frozen' = frozen, gc' = gc,
           \A e \in Deployments : state'[e] \in Active => state[e] \in Active
    PROVE  StopsUnused'
<1>1. \A t \in Runs : t[1] \in Deployments
  BY DEF Runs
<1>2. HookRevisionsInUse' \subseteq HookRevisionsInUse
  BY <1>1 DEF HookRevisionsInUse, Frozen, RevisionOf
<1>3. QED  BY <1>2 DEF HooksInv, StopsUnused

-----------------------------------------------------------------------------
(***************************************************************************)
(* Steps that change nothing but what the goroutine holds.                 *)
(***************************************************************************)
\* What WorkOK asks of a goroutine of d that holds w.
Fits(d, w) ==
    w.pc # "idle" =>
      /\ Begun(d)
      /\ w.pos \in 1..Len(frozen[d][w.phase])
      /\ RowOK(w, <<d, w.phase, w.pos>>)
      /\ Partial = {} => HooksBefore(<<d, w.phase, w.pos>>) \subseteq completed

LEMMA LocalKeeps ==
    ASSUME HooksInv, NEW d \in Deployments, NEW w \in WorkRecord, Fits(d, w),
           work' = [work EXCEPT ![d] = w],
           listed' \subseteq listed, UNCHANGED <<rowVars, clockVars, gc, nomadVars>>, faults' \in 0..MaxFaults
    PROVE  HooksInv'
<1>1. HooksTypeOK /\ PhaseOK(d)
  BY DEF HooksInv
<1>2. work \in [Deployments -> WorkRecord] /\ work' \in [Deployments -> WorkRecord]
  BY <1>1 DEF HooksTypeOK
<1>3. work'[d] = w /\ \A e \in Deployments \ {d} : work'[e] = work[e]
  BY <1>2
<1>4. HooksTypeOK'
  BY <1>1, <1>2 DEF HooksTypeOK, rowVars, clockVars, nomadVars, childVars
<1>5. Frame(d, {})
  BY <1>3 DEF Frame, Begun, rowVars, nomadVars, childVars
<1>6. Current(d)' = <<d, w.phase, w.pos>>
  BY <1>3 DEF Current
<1>7. WorkOK(d)'
  <2> SUFFICES ASSUME w.pc # "idle"
               PROVE  WorkOK(d)'
    BY <1>3 DEF WorkOK
  <2> DEFINE t == <<d, w.phase, w.pos>>
  <2>1. RowOK(w, t)'
    <3>1. RowOK(w, t)
      BY DEF Fits
    <3>2. QED  BY <3>1 DEF RowOK, Ready, Alive, RevisionOf, rowVars, nomadVars, childVars
  <2>2. QED  BY <1>3, <1>6, <2>1 DEF Fits, WorkOK, Begun, rowVars, nomadVars, childVars
<1>8. PhaseOK(d)'
  BY <1>1 DEF PhaseOK, rowVars, nomadVars, childVars
<1>9. StopsUnused'
  BY UnusedStays DEF rowVars
<1>10. QED  BY <1>4, <1>5, <1>7, <1>8, <1>9, FrameKeeps

\* A goroutine that gives up holds nothing.
LEMMA LeaveKeeps ==
    ASSUME HooksInv, NEW d \in Deployments, Leave(d),
           UNCHANGED <<rowVars, clockVars, listed, gc, nomadVars>>, faults' \in 0..MaxFaults
    PROVE  HooksInv'
<1>1. Idle \in WorkRecord /\ Fits(d, Idle)
  BY HooksAssumption DEF Idle, WorkRecord, Phases, Unsettled, Fits
<1>2. QED  BY <1>1, LocalKeeps DEF Leave

\* One that goes on at the same run has only to know of it what RowOK asks.
LEMMA MoveKeeps ==
    ASSUME HooksInv, NEW d \in Deployments, work[d].pc # "idle", NEW w \in WorkRecord,
           w.phase = work[d].phase, w.pos = work[d].pos, RowOK(w, Current(d)),
           work' = [work EXCEPT ![d] = w],
           UNCHANGED <<rowVars, clockVars, listed, gc, nomadVars>>, faults' \in 0..MaxFaults
    PROVE  HooksInv'
<1>1. WorkOK(d)
  BY DEF HooksInv
<1>2. Fits(d, w)
  BY <1>1 DEF WorkOK, Fits, Current
<1>3. QED  BY <1>2, LocalKeeps

\* In particular to another step, or to the outcome it has found.
LEMMA GotoKeeps ==
    ASSUME HooksInv, NEW d \in Deployments, work[d].pc # "idle", NEW pc, Goto(d, pc),
           pc \in {"live", "plan", "register", "ensure", "validate", "mark", "dispatch",
                   "save", "recover", "job", "allocs", "stop"},
           NEW v, RowOK(v, Current(d)), v.pc = pc,
           UNCHANGED <<rowVars, clockVars, listed, gc, nomadVars, faults>>
    PROVE  HooksInv'
<1> DEFINE w == [work[d] EXCEPT !.pc = pc]
<1>1. work[d] \in WorkRecord /\ work \in [Deployments -> WorkRecord] /\ faults' \in 0..MaxFaults
  BY DEF HooksInv, HooksTypeOK
<1>2. w \in WorkRecord /\ w.phase = work[d].phase /\ w.pos = work[d].pos /\ w.pc = pc
  BY <1>1 DEF WorkRecord
<1>3. work' = [work EXCEPT ![d] = w]
  BY <1>1 DEF Goto
<1> HIDE DEF w
<1>4. RowOK(w, Current(d))
  BY <1>2 DEF RowOK, Ready
<1>5. QED  BY <1>1, <1>2, <1>3, <1>4, MoveKeeps

LEMMA JudgeKeeps ==
    ASSUME HooksInv, NEW d \in Deployments, work[d].pc # "idle", NEW to \in Settled, Judge(d, to),
           runs[Current(d)].state \in {"dispatching", "running"},
           to = "succeeded" => runs[Current(d)].child /\ (Partial = {} => Current(d) \in completed),
           to = "timed_out" => ~Alive(Current(d)) /\ Current(d) \notin wire,
           UNCHANGED <<rowVars, clockVars, listed, gc, nomadVars>>, faults' \in 0..MaxFaults
    PROVE  HooksInv'
<1> DEFINE w == [work[d] EXCEPT !.pc = "finish", !.state = to]
<1>1. work[d] \in WorkRecord /\ work \in [Deployments -> WorkRecord]
  BY DEF HooksInv, HooksTypeOK
<1>2. w \in WorkRecord /\ w.phase = work[d].phase /\ w.pos = work[d].pos /\ w.pc = "finish" /\ w.state = to
  BY <1>1 DEF WorkRecord
<1>3. work' = [work EXCEPT ![d] = w]
  BY <1>1 DEF Judge
<1> HIDE DEF w
<1>4. RowOK(w, Current(d))
  BY <1>2 DEF RowOK, Ready
<1>5. QED  BY <1>2, <1>3, <1>4, MoveKeeps

\* Where a goroutine is, its run is as WorkOK says.
LEMMA AtRun ==
    ASSUME HooksInv, NEW d \in Deployments, work[d].pc # "idle"
    PROVE  /\ RowOK(work[d], Current(d)) /\ RunOK(Current(d))
           /\ Partial = {} => GroupsOK(Current(d)) /\ HooksBefore(Current(d)) \subseteq completed
           /\ Current(d) \in Frozen /\ Current(d) \in Runs
           /\ RevisionOf(Current(d)) \in Revisions
           /\ Begun(d)
           /\ work[d].pos \in 1..Len(frozen[d][work[d].phase])
<1>1. HooksTypeOK /\ WorkOK(d)
  BY DEF HooksInv
<1>2. Current(d) \in Frozen /\ RevisionOf(Current(d)) \in Revisions /\ Current(d) \in Runs
  BY <1>1, CurrentFrozen, CurrentRun
<1>3. RunOK(Current(d)) /\ (Partial = {} => GroupsOK(Current(d)))
  BY <1>2 DEF HooksInv
<1>4. QED  BY <1>1, <1>2, <1>3 DEF WorkOK

\* Begin, the steps of registerRevision that read, and the checks before a dispatch.
LEMMA ReadingKeeps ==
    ASSUME HooksInv, NEW d \in Deployments,
           Begin(d) \/ ReadLive(d) \/ Plan(d) \/ Validate(d) \/ RecoverChild(d)
    PROVE  HooksInv'
<1>1. HooksTypeOK /\ work \in [Deployments -> WorkRecord] /\ work[d] \in WorkRecord
  BY DEF HooksInv, HooksTypeOK
<1>2. CASE Begin(d)
  <2>0. UNCHANGED <<rowVars, clockVars, gc, nomadVars>> /\ listed' \subseteq listed /\ faults' \in 0..MaxFaults
    BY <1>1, <1>2 DEF Begin, HooksTypeOK
  <2>1. PICK ph \in Phases : /\ <<d, ph>> \in listed
                             /\ \/ work' = [work EXCEPT ![d] = [Idle EXCEPT !.pc = "live", !.phase = ph]]
                                \/ work' = work
    BY <1>2 DEF Begin
  <2>2. CASE work' = work
    <3>1. Fits(d, work[d])
      BY DEF HooksInv, WorkOK, Fits, Current
    <3>2. work' = [work EXCEPT ![d] = work[d]]
      BY <1>1, <2>2
    <3>3. QED  BY <1>1, <2>0, <3>1, <3>2, LocalKeeps
  <2>3. CASE work' = [work EXCEPT ![d] = [Idle EXCEPT !.pc = "live", !.phase = ph]]
    <3>1. PICK w : w = [Idle EXCEPT !.pc = "live", !.phase = ph]
      OBVIOUS
    <3>2. Idle \in WorkRecord /\ Idle.pos = 1
      BY HooksAssumption DEF Idle, WorkRecord, Phases, Unsettled
    <3>3. w \in WorkRecord /\ w.pc = "live" /\ w.phase = ph /\ w.pos = 1
      BY <3>1, <3>2 DEF WorkRecord
    <3>4. work' = [work EXCEPT ![d] = w]
      BY <2>3, <3>1
    <3>5. Begun(d) /\ frozen[d][ph] # <<>>
      <4>1. PICK x \in Deployments \X Phases : x = <<d, ph>>
        OBVIOUS
      <4>2. QED  BY <2>1, <4>1 DEF HooksInv, ListedOK
    <3>6. 1 \in 1..Len(frozen[d][ph])
      BY <1>1, <3>5, FrozenHooks
    <3>7. HooksBefore(<<d, ph, 1>>) = {}
      BY HooksAssumption DEF HooksBefore, Runs
    <3>8. Fits(d, w)
      BY <3>3, <3>5, <3>6, <3>7 DEF Fits, RowOK
    <3>9. QED  BY <2>0, <3>3, <3>4, <3>8, LocalKeeps
  <2>4. QED  BY <2>1, <2>2, <2>3
<1>3. CASE ReadLive(d)
  <2> DEFINE r == RevisionOf(Current(d))
             w == [work[d] EXCEPT !.pc = "plan", !.index = revision[r].index]
  <2>1. work[d].pc # "idle"
    BY <1>3 DEF ReadLive, At
  <2>2. revision[r].index \in Nat
    BY <1>1, <2>1, AtRun DEF HooksTypeOK
  <2> HIDE DEF r
  <2>3. w \in WorkRecord /\ w.phase = work[d].phase /\ w.pos = work[d].pos /\ w.pc = "plan"
    BY <1>1, <2>2 DEF WorkRecord
  <2>4. work' = [work EXCEPT ![d] = w]
    BY <1>1, <1>3 DEF ReadLive, r
  <2> HIDE DEF w
  <2>5. RowOK(w, Current(d))
    BY <2>3 DEF RowOK, Ready
  <2>6. faults' \in 0..MaxFaults
    BY <1>1, <1>3 DEF ReadLive, HooksTypeOK
  <2>7. QED  BY <1>3, <2>1, <2>3, <2>4, <2>5, <2>6, MoveKeeps DEF ReadLive
<1>4. CASE Plan(d)
  <2> DEFINE pc == IF revision[RevisionOf(Current(d))].up THEN "ensure" ELSE "register"
             v == [pc |-> pc]
  <2>1. work[d].pc # "idle" /\ Goto(d, pc)
    BY <1>4 DEF Plan, At
  <2>2. RowOK(v, Current(d)) /\ v.pc = pc
    BY DEF RowOK, Ready
  <2>3. pc \in {"ensure", "register"}
    OBVIOUS
  <2> HIDE DEF pc, v
  <2>4. QED  BY <1>4, <2>1, <2>2, <2>3, GotoKeeps DEF Plan
<1>5. CASE Validate(d)
  <2> DEFINE t == Current(d)
             v == [pc |-> "mark"]
  <2>1. work[d].pc = "validate" /\ faults' \in 0..MaxFaults
    BY <1>1, <1>5 DEF Validate, At, HooksTypeOK
  <2>2. RowOK(work[d], t) /\ RunOK(t)
    BY <2>1, AtRun
  <2>3. runs[t].state = "dispatching" /\ Ready(t)
    BY <2>1, <2>2 DEF RowOK
  <2>4. ~Alive(t) /\ t \notin wire
    BY <2>2, <2>3 DEF RunOK, Alive
  <2>5. Judge(d, "timed_out") \/ Judge(d, "failed") \/ Goto(d, "mark")
    BY <1>5 DEF Validate
  <2>6. RowOK(v, t) /\ v.pc = "mark"
    BY <2>3 DEF RowOK, Ready
  <2> HIDE DEF t, v
  <2>7. CASE Judge(d, "timed_out")
    BY <1>5, <2>1, <2>3, <2>4, <2>7, JudgeKeeps DEF t, Validate, Settled
  <2>8. CASE Judge(d, "failed")
    BY <1>5, <2>1, <2>3, <2>8, JudgeKeeps DEF t, Validate, Settled
  <2>9. CASE Goto(d, "mark")
    BY <1>5, <2>1, <2>6, <2>9, GotoKeeps DEF t, Validate
  <2>10. QED  BY <2>5, <2>7, <2>8, <2>9
<1>6. CASE RecoverChild(d)
  <2> DEFINE t == Current(d)
             v == [pc |-> "save"]
  <2>1. work[d].pc = "recover" /\ faults' \in 0..MaxFaults
    BY <1>1, <1>6 DEF RecoverChild, At, HooksTypeOK
  <2>2. RowOK(work[d], t) /\ RunOK(t)
    BY <2>1, AtRun
  <2>3. runs[t].state = "running"
    BY <2>1, <2>2 DEF RowOK, Ready
  <2>4. CASE Exists(t)
    <3>1. started[t] = 1
      BY <2>2, <2>4 DEF RunOK, Exists
    <3>2. RowOK(v, t) /\ v.pc = "save"
      BY <2>3, <3>1 DEF RowOK, Ready
    <3>3. Goto(d, "save")
      BY <1>6, <2>4 DEF RecoverChild
    <3> HIDE DEF t, v
    <3>4. QED  BY <1>6, <2>1, <3>2, <3>3, GotoKeeps DEF t, RecoverChild
  <2>5. CASE ~Exists(t)
    <3>1. Judge(d, "failed")
      BY <1>6, <2>5 DEF RecoverChild
    <3>2. QED  BY <1>6, <2>1, <2>3, <3>1, JudgeKeeps DEF RecoverChild, Settled
  <2>6. QED  BY <2>4, <2>5
<1>7. QED  BY <1>2, <1>3, <1>4, <1>5, <1>6

\* await, until it has an outcome.
LEMMA AwaitingKeeps ==
    ASSUME HooksInv, NEW d \in Deployments, AwaitJob(d) \/ AwaitAllocs(d)
    PROVE  HooksInv'
<1> DEFINE t == Current(d)
<1>1. HooksTypeOK /\ work \in [Deployments -> WorkRecord] /\ work[d] \in WorkRecord
  BY DEF HooksInv, HooksTypeOK
<1>2. work[d].pc \in {"job", "allocs"} /\ faults' \in 0..MaxFaults
  BY <1>1 DEF AwaitJob, AwaitAllocs, At, HooksTypeOK
<1>3. RowOK(work[d], t) /\ (Partial = {} => GroupsOK(t)) /\ t \in Runs
  BY <1>2, AtRun
<1>4. runs[t].state = "running" /\ runs[t].child
  BY <1>2, <1>3 DEF RowOK, Ready
<1>5. UNCHANGED <<rowVars, clockVars, listed, gc, nomadVars, faults>>
  BY DEF AwaitJob, AwaitAllocs
<1>6. ASSUME Judge(d, "failed")  PROVE HooksInv'
  BY <1>2, <1>4, <1>5, <1>6, JudgeKeeps DEF Settled
<1>7. CASE AwaitJob(d)
  <2>1. CASE Exists(t)
    <3> DEFINE dead == children[t].status = "dead"
               w == [work[d] EXCEPT !.pc = "allocs", !.dead = dead]
    <3>1. dead \in BOOLEAN
      OBVIOUS
    <3>2. work' = [work EXCEPT ![d] = w]
      BY <1>1, <1>7, <2>1 DEF AwaitJob
    <3> HIDE DEF dead
    <3>3. w \in WorkRecord /\ w.phase = work[d].phase /\ w.pos = work[d].pos /\ w.pc = "allocs"
      BY <1>1, <3>1 DEF WorkRecord
    <3> HIDE DEF w
    <3>4. RowOK(w, t)
      BY <1>4, <3>3 DEF RowOK, Ready
    <3>5. QED  BY <1>2, <1>5, <3>2, <3>3, <3>4, MoveKeeps
  <2>2. CASE ~Exists(t)
    BY <1>6, <1>7, <2>2 DEF AwaitJob
  <2>3. QED  BY <2>1, <2>2
<1>8. CASE AwaitAllocs(d)
  <2> DEFINE verdict == evaluate(work[d].dead, children[t].allocs)
  <2>1. \/ Judge(d, "failed")
        \/ verdict = "succeeded" /\ Judge(d, "succeeded")
        \/ \E pc \in {"stop", "job"} : Goto(d, pc)
    BY <1>8 DEF AwaitAllocs
  <2>2. CASE verdict = "succeeded" /\ Judge(d, "succeeded")
    <3>1. children[t].allocs = {"complete"}
      <4>1. children[t].allocs \subseteq {"live", "complete", "failed", "stopped"}
        BY <1>1, <1>3 DEF HooksTypeOK, ChildRecord
      <4>2. /\ children[t].allocs # {}
            /\ "failed" \notin children[t].allocs /\ "stopped" \notin children[t].allocs
            /\ "live" \notin children[t].allocs
        BY <2>2 DEF evaluate
      <4>3. QED  BY <4>1, <4>2
    <3>2. Partial = {} => t \in completed
      BY <1>3, <3>1 DEF GroupsOK
    <3>3. QED  BY <1>2, <1>4, <1>5, <2>2, <3>2, JudgeKeeps DEF Settled
  <2>3. ASSUME NEW pc \in {"stop", "job"}, Goto(d, pc)
        PROVE  HooksInv'
    <3> DEFINE v == [pc |-> pc]
    <3>1. RowOK(v, t) /\ v.pc = pc
      BY <1>4 DEF RowOK, Ready
    <3> HIDE DEF v
    <3>2. QED  BY <1>2, <1>5, <2>3, <3>1, GotoKeeps
  <2>4. QED  BY <1>6, <2>1, <2>2, <2>3
<1>9. QED  BY <1>7, <1>8

-----------------------------------------------------------------------------
(***************************************************************************)
(* Steps that write the row of their run.                                  *)
(***************************************************************************)
\* What RunOK asks of the row of t, and what its type does.
RowFits(row, t) ==
    /\ row.child => row.state \in Settled \cup {"running"}
    /\ row.state = "succeeded" => row.child
    /\ row.state \in {"none", "dispatching"} => started[t] = 0 /\ t \notin wire
    /\ t \in wire => row.state \in {"running", "failed"}
    /\ row.child => started[t] = 1
    /\ row.state = "timed_out" => ~Alive(t)
    /\ Partial = {} /\ row.state = "succeeded" => t \in completed

LEMMA WriteKeeps ==
    ASSUME HooksInv, NEW d \in Deployments, work[d].pc # "idle",
           NEW t, t = Current(d), NEW row \in RunRecord, RowFits(row, t),
           NEW w \in WorkRecord, w.phase = work[d].phase, w.pos = work[d].pos, RowOK(w, t)',
           runs' = [runs EXCEPT ![t] = row], work' = [work EXCEPT ![d] = w],
           UNCHANGED <<state, frozen, clockVars, listed, gc, nomadVars, faults>>
    PROVE  HooksInv'
<1>1. HooksTypeOK /\ PhaseOK(d) /\ WorkOK(d)
  BY DEF HooksInv
<1>2. /\ runs \in [Runs -> RunRecord] /\ work \in [Deployments -> WorkRecord]
      /\ t \in Runs /\ t[1] = d
  BY <1>1, CurrentRun DEF HooksTypeOK
<1>3. /\ runs' \in [Runs -> RunRecord] /\ work' \in [Deployments -> WorkRecord]
      /\ runs'[t] = row /\ \A u \in Runs \ {t} : runs'[u] = runs[u]
      /\ work'[d] = w /\ \A e \in Deployments \ {d} : work'[e] = work[e]
  BY <1>2
<1>4. HooksTypeOK'
  <2>1. \A u \in Runs : /\ runs'[u].child => runs'[u].state \in Settled \cup {"running"}
                        /\ runs'[u].state = "succeeded" => runs'[u].child
    BY <1>1, <1>3 DEF HooksTypeOK, RowFits
  <2>2. QED  BY <1>1, <1>3, <2>1 DEF HooksTypeOK, clockVars, nomadVars, childVars
<1>5. Frame(d, {t})
  BY <1>3 DEF Frame, Begun, nomadVars, childVars
<1>6. RunOK(t)'
  <2>1. RunOK(t)
    BY <1>2 DEF HooksInv
  <2>2. QED  BY <1>3, <2>1 DEF RunOK, RowFits, Alive, nomadVars, childVars
<1>7. Partial = {} => GroupsOK(t)' /\ OrderOK(t)'
  <2>1. Partial = {} => GroupsOK(t) /\ OrderOK(t)
    BY <1>2 DEF HooksInv
  <2>2. Partial = {} => GroupsOK(t)'
    BY <1>3, <2>1 DEF GroupsOK, RowFits, nomadVars, childVars
  <2>3. Partial = {} => OrderOK(t)'
    BY <2>1 DEF OrderOK, nomadVars, childVars
  <2>4. QED  BY <2>2, <2>3
<1>8. Current(d)' = t
  BY <1>3 DEF Current
<1>9. WorkOK(d)'
  BY <1>1, <1>3, <1>8 DEF WorkOK, Begun, nomadVars, childVars
<1>10. PhaseOK(d)'
  BY <1>1 DEF PhaseOK, nomadVars, childVars
<1>11. StopsUnused'
  BY UnusedStays
<1>12. QED
  <2>1. \A u \in {t} : u[1] = d
    BY <1>2
  <2>2. \A u \in Runs \cap {t} : RunOK(u)' /\ (Partial = {} => GroupsOK(u)' /\ OrderOK(u)')
    BY <1>6, <1>7
  <2>3. QED  BY <1>4, <1>5, <1>9, <1>10, <1>11, <2>1, <2>2, FrameKeeps

\* EnsureHookRun, and the three writes of a run: sent, found, settled.
LEMMA WritingKeeps ==
    ASSUME HooksInv, NEW d \in Deployments,
           Ensure(d) \/ Mark(d) \/ SaveChild(d) \/ Finish(d)
    PROVE  HooksInv'
<1>0. PICK t : t = Current(d)
  OBVIOUS
<1>1. HooksTypeOK /\ work \in [Deployments -> WorkRecord] /\ work[d] \in WorkRecord
  BY DEF HooksInv, HooksTypeOK
<1>2. work[d].pc \in {"ensure", "mark", "save", "finish"}
  BY DEF Ensure, Mark, SaveChild, Finish, At
<1>3. /\ RowOK(work[d], t) /\ RunOK(t) /\ (Partial = {} => GroupsOK(t))
      /\ t \in Runs /\ RevisionOf(t) \in Revisions
  BY <1>0, <1>2, AtRun
<1>4. runs \in [Runs -> RunRecord] /\ runs[t] \in RunRecord
  BY <1>1, <1>3 DEF HooksTypeOK
<1>5. /\ runs[t].child => runs[t].state \in Settled \cup {"running"}
      /\ runs[t].state = "succeeded" => runs[t].child
  BY <1>1, <1>3 DEF HooksTypeOK
<1>6. UNCHANGED <<state, frozen, clockVars, listed, gc, nomadVars, faults>>
  BY DEF Ensure, Mark, SaveChild, Finish
<1>7. CASE Ensure(d)
  <2>1. PICK row : row = IF runs[t].state = "none" THEN [NoRun EXCEPT !.state = "dispatching"] ELSE runs[t]
    OBVIOUS
  <2>2. PICK pc : pc = IF row.state \in Settled THEN "result"
                       ELSE IF row.child THEN "job"
                       ELSE IF row.state = "dispatching" THEN "validate" ELSE "recover"
    OBVIOUS
  <2>3. PICK w : w = [work[d] EXCEPT !.state = row.state, !.pc = pc]
    OBVIOUS
  <2>4. runs' = [runs EXCEPT ![t] = row] /\ work' = [work EXCEPT ![d].state = row.state, ![d].pc = pc]
    BY <1>0, <1>7, <2>1, <2>2, Zenon DEF Ensure
  <2>5. work' = [work EXCEPT ![d] = w]
    BY <1>1, <2>3, <2>4
  <2>6. /\ row \in RunRecord /\ row.state # "none"
        /\ runs[t].state # "none" => row = runs[t]
        /\ runs[t].state = "none" => row.state = "dispatching" /\ row.child = FALSE
    BY <1>4, <2>1 DEF RunRecord, NoRun, Unsettled, Settled
  <2>7. RowFits(row, t)
    BY <1>3, <1>5, <2>6 DEF RowFits, RunOK, GroupsOK, Settled
  <2>8. /\ row.child /\ row.state \notin Settled => row.state = "running"
        /\ row.state \in {"dispatching", "running"} \cup Settled
    BY <2>6, <2>7 DEF RowFits, RunRecord, Unsettled
  <2>9. pc \in {"result", "job", "validate", "recover"}
    BY <2>2
  <2>10. w \in WorkRecord /\ w.phase = work[d].phase /\ w.pos = work[d].pos /\ w.pc = pc /\ w.state = row.state
    BY <1>1, <2>3, <2>6, <2>9 DEF WorkRecord, RunRecord
  <2>11. work[d].pc = "ensure" /\ Ready(t)
    BY <1>3, <1>7 DEF Ensure, At, RowOK, Ready
  <2>12. RowOK(w, t)'
    <3>1. runs'[t] = row
      BY <1>3, <1>4, <2>4
    <3>2. Ready(t)'
      BY <1>6, <2>11 DEF Ready, RevisionOf, nomadVars
    <3>3. QED  BY <2>2, <2>8, <2>9, <2>10, <3>1, <3>2 DEF RowOK, Ready, Settled
  <2>13. QED  BY <1>0, <1>2, <1>6, <2>4, <2>5, <2>6, <2>7, <2>10, <2>12, WriteKeeps
<1>8. CASE Mark(d)
  <2> DEFINE row == [runs[t] EXCEPT !.state = "running"]
  <2>0. PICK w : w = [work[d] EXCEPT !.pc = "dispatch"]
    OBVIOUS
  <2>1. runs' = [runs EXCEPT ![t] = row] /\ work' = [work EXCEPT ![d] = w]
    BY <1>0, <1>1, <2>0, <1>4, <1>8 DEF Mark, Goto
  <2>2. work[d].pc = "mark" /\ Ready(t) /\ runs[t].state = "dispatching"
    BY <1>3, <1>8 DEF Mark, At, RowOK, Ready
  <2>3. started[t] = 0 /\ t \notin wire /\ ~runs[t].child
    BY <1>3, <2>2 DEF RunOK
  <2>4. row \in RunRecord /\ row.state = "running" /\ row.child = runs[t].child
    BY <1>4 DEF RunRecord, Unsettled
  <2>5. w \in WorkRecord /\ w.phase = work[d].phase /\ w.pos = work[d].pos /\ w.pc = "dispatch"
    BY <1>1, <2>0, <2>2 DEF WorkRecord
  <2> HIDE DEF row
  <2>6. RowFits(row, t)
    BY <2>3, <2>4 DEF RowFits, Settled
  <2>7. RowOK(w, t)'
    <3>1. runs'[t] = row
      BY <1>3, <1>4, <2>1
    <3>2. Ready(t)'
      BY <1>6, <2>2 DEF Ready, RevisionOf, nomadVars
    <3>3. started'[t] = 0 /\ t \notin wire'
      BY <1>6, <2>3 DEF nomadVars, childVars
    <3>4. QED  BY <2>4, <2>5, <3>1, <3>2, <3>3 DEF RowOK, Ready
  <2>8. QED  BY <1>0, <1>2, <1>6, <2>1, <2>4, <2>5, <2>6, <2>7, WriteKeeps
<1>9. CASE SaveChild(d)
  <2> DEFINE row == [state |-> "running", child |-> TRUE]
  <2>0. PICK w : w = [work[d] EXCEPT !.pc = "job"]
    OBVIOUS
  <2>1. runs' = [runs EXCEPT ![t] = row] /\ work' = [work EXCEPT ![d] = w]
    BY <1>0, <1>1, <2>0, <1>9 DEF SaveChild, Goto
  <2>2. work[d].pc = "save" /\ started[t] = 1
    BY <1>3, <1>9 DEF SaveChild, At, RowOK, Ready
  <2>3. t \notin wire
    BY <1>3, <2>2 DEF RunOK
  <2>4. row \in RunRecord /\ row.state = "running" /\ row.child = TRUE
    BY DEF RunRecord, Unsettled
  <2>5. w \in WorkRecord /\ w.phase = work[d].phase /\ w.pos = work[d].pos /\ w.pc = "job"
    BY <1>1, <2>0, <2>2 DEF WorkRecord
  <2> HIDE DEF row
  <2>6. RowFits(row, t)
    BY <2>2, <2>3, <2>4 DEF RowFits, Settled
  <2>7. RowOK(w, t)'
    <3>1. runs'[t] = row
      BY <1>3, <1>4, <2>1
    <3>2. QED  BY <2>4, <2>5, <3>1 DEF RowOK, Ready
  <2>8. QED  BY <1>0, <1>2, <1>6, <2>1, <2>4, <2>5, <2>6, <2>7, WriteKeeps
<1>10. CASE Finish(d)
  <2> DEFINE row == [runs[t] EXCEPT !.state = work[d].state]
  <2>0. PICK w : w = [work[d] EXCEPT !.pc = "result"]
    OBVIOUS
  <2>1. runs' = [runs EXCEPT ![t] = row] /\ work' = [work EXCEPT ![d] = w]
    BY <1>0, <1>1, <2>0, <1>4, <1>10 DEF Finish, Goto
  <2>2. /\ work[d].pc = "finish" /\ work[d].state \in Settled
        /\ runs[t].state \in {"dispatching", "running"}
        /\ work[d].state = "succeeded" => runs[t].child /\ (Partial = {} => t \in completed)
        /\ work[d].state = "timed_out" => ~Alive(t) /\ t \notin wire
    BY <1>3, <1>10 DEF Finish, At, RowOK, Ready
  <2>3. row \in RunRecord /\ row.state = work[d].state /\ row.child = runs[t].child
    BY <1>4, <2>2 DEF RunRecord
  <2>4. w \in WorkRecord /\ w.phase = work[d].phase /\ w.pos = work[d].pos /\ w.pc = "result" /\ w.state = work[d].state
    BY <1>1, <2>0, <2>2 DEF WorkRecord
  <2> HIDE DEF row
  <2>5. t \in wire => work[d].state \in {"failed", "running"}
    BY <1>3, <2>2 DEF RunOK, Settled
  <2>6. RowFits(row, t)
    BY <1>3, <2>2, <2>3, <2>5 DEF RowFits, RunOK, Settled
  <2>7. RowOK(w, t)'
    <3>1. runs'[t] = row
      BY <1>3, <1>4, <2>1
    <3>2. QED  BY <2>2, <2>3, <2>4, <3>1 DEF RowOK, Ready
  <2>8. QED  BY <1>0, <1>2, <1>6, <2>1, <2>3, <2>4, <2>6, <2>7, WriteKeeps
<1>11. QED  BY <1>7, <1>8, <1>9, <1>10

-----------------------------------------------------------------------------
(***************************************************************************)
(* Steps that change a child, or a dispatch on its way.                    *)
(***************************************************************************)
LEMMA NomadKeeps ==
    ASSUME HooksInv, NEW d \in Deployments, NEW t \in Runs, t[1] = d,
           work' \in [Deployments -> WorkRecord], \A e \in Deployments \ {d} : work'[e] = work[e],
           children' \in [Runs -> ChildRecord], started' \in [Runs -> Nat],
           wire' \subseteq Runs, completed \subseteq completed', completed' \subseteq Runs,
           \A u \in Runs \ {t} : children'[u] = children[u] /\ started'[u] = started[u]
                                 /\ (u \in wire' <=> u \in wire),
           UNCHANGED <<rowVars, clockVars, listed, gc, revision>>, faults' \in 0..MaxFaults,
           RunOK(t)', Partial = {} => GroupsOK(t)' /\ OrderOK(t)', WorkOK(d)'
    PROVE  HooksInv'
<1>1. HooksTypeOK /\ PhaseOK(d)
  BY DEF HooksInv
<1>2. HooksTypeOK'
  BY <1>1 DEF HooksTypeOK, rowVars, clockVars
<1>3. Frame(d, {t})
  BY DEF Frame, Begun, rowVars
<1>4. PhaseOK(d)'
  BY <1>1 DEF PhaseOK, rowVars
<1>5. StopsUnused'
  BY UnusedStays DEF rowVars
<1>6. QED
  <2>1. \A u \in {t} : u[1] = d
    OBVIOUS
  <2>2. \A u \in Runs \cap {t} : RunOK(u)' /\ (Partial = {} => GroupsOK(u)' /\ OrderOK(u)')
    OBVIOUS
  <2>3. QED  BY <1>2, <1>3, <1>4, <1>5, <2>1, <2>2, FrameKeeps

\* A dispatch Nomad takes starts a child, the first of its run.
LEMMA DispatchStarts ==
    ASSUME HooksInv, NEW t \in Runs, started[t] = 0, NomadDispatch(t)
    PROVE  /\ children' = [children EXCEPT ![t] = NewChild]
           /\ started' = [started EXCEPT ![t] = 1]
           /\ completed' = completed
           /\ children' \in [Runs -> ChildRecord] /\ started' \in [Runs -> Nat]
           /\ children'[t].status = "pending" /\ children'[t].allocs = {} /\ started'[t] = 1
<1>1. HooksTypeOK /\ RunOK(t)
  BY DEF HooksInv
<1>2. ~Exists(t)
  BY <1>1 DEF RunOK, Exists
<1>3. children \in [Runs -> ChildRecord] /\ started \in [Runs -> Nat]
  BY <1>1 DEF HooksTypeOK
<1>4. NewChild \in ChildRecord /\ NewChild.status = "pending" /\ NewChild.allocs = {}
  BY DEF NewChild, ChildRecord
<1>5. /\ children' = [children EXCEPT ![t] = NewChild]
      /\ started' = [started EXCEPT ![t] = @ + 1]
      /\ completed' = completed
  BY <1>2, Zenon DEF NomadDispatch
<1>6. started' = [started EXCEPT ![t] = 1]
  BY <1>3, <1>5
<1>7. QED  BY <1>3, <1>4, <1>5, <1>6

\* The same for the goroutine's run: w is what it goes on with.
LEMMA SendKeeps ==
    ASSUME HooksInv, NEW d \in Deployments, work[d].pc = "dispatch",
           NEW w \in WorkRecord, work' = [work EXCEPT ![d] = w],
           \/ w.pc = "idle"
           \/ w.pc = "save" /\ w.phase = work[d].phase /\ w.pos = work[d].pos,
           NomadDispatch(Current(d)), wire' = wire,
           UNCHANGED <<rowVars, clockVars, listed, gc, revision>>, faults' \in 0..MaxFaults
    PROVE  HooksInv'
<1>0. PICK t : t = Current(d)
  OBVIOUS
<1>1. HooksTypeOK /\ WorkOK(d) /\ work \in [Deployments -> WorkRecord]
  BY DEF HooksInv, HooksTypeOK
<1>2. /\ RowOK(work[d], t) /\ RunOK(t) /\ t \in Runs /\ t[1] = d
      /\ Partial = {} => GroupsOK(t) /\ HooksBefore(t) \subseteq completed
  BY <1>0, <1>1, AtRun, CurrentRun
<1>3. runs[t].state = "running" /\ started[t] = 0 /\ t \notin wire
  BY <1>2 DEF RowOK, Ready
<1>4. /\ children' = [children EXCEPT ![t] = NewChild]
      /\ started' = [started EXCEPT ![t] = 1] /\ completed' = completed
      /\ children' \in [Runs -> ChildRecord] /\ started' \in [Runs -> Nat]
      /\ children'[t].status = "pending" /\ children'[t].allocs = {} /\ started'[t] = 1
  BY <1>0, <1>2, <1>3, DispatchStarts
<1>5. \A u \in Runs \ {t} : children'[u] = children[u] /\ started'[u] = started[u] /\ (u \in wire' <=> u \in wire)
  BY <1>1, <1>4 DEF HooksTypeOK
<1>6. /\ work' \in [Deployments -> WorkRecord]
      /\ work'[d] = w /\ \A e \in Deployments \ {d} : work'[e] = work[e]
  BY <1>1
<1>7. runs'[t] = runs[t] /\ t \notin wire'
  BY <1>3 DEF rowVars
<1>8. RunOK(t)'
  BY <1>2, <1>3, <1>4, <1>7 DEF RunOK, Alive
<1>9. Partial = {} => GroupsOK(t)' /\ OrderOK(t)'
  BY <1>2, <1>3, <1>4, <1>7 DEF GroupsOK, OrderOK
<1>10. WorkOK(d)'
  <2>1. CASE w.pc = "idle"
    BY <1>6, <2>1 DEF WorkOK
  <2>2. CASE w.pc = "save" /\ w.phase = work[d].phase /\ w.pos = work[d].pos
    <3>1. Current(d)' = t
      BY <1>0, <1>6, <2>2 DEF Current
    <3>2. RowOK(w, t)'
      BY <1>3, <1>4, <1>7, <2>2 DEF RowOK, Ready
    <3>3. QED  BY <1>1, <1>2, <1>4, <1>6, <2>2, <3>1, <3>2 DEF WorkOK, Begun, rowVars
  <2>3. QED  BY <2>1, <2>2
<1>11. wire' \subseteq Runs /\ completed' \subseteq Runs
  BY <1>1, <1>4 DEF HooksTypeOK
<1>12. QED  BY <1>2, <1>4, <1>5, <1>6, <1>8, <1>9, <1>10, <1>11, NomadKeeps

\* A dispatch, and what may become of one that ends in an error.
LEMMA DispatchKeeps ==
    ASSUME HooksInv, NEW d \in Deployments,
           \/ Dispatch(d)
           \/ DispatchError(d) /\ faults' \in 0..MaxFaults
    PROVE  HooksInv'
<1>0. PICK t : t = Current(d)
  OBVIOUS
<1>1. HooksTypeOK /\ work \in [Deployments -> WorkRecord] /\ work[d] \in WorkRecord
  BY DEF HooksInv, HooksTypeOK
<1>2. work[d].pc = "dispatch" /\ faults' \in 0..MaxFaults
  BY <1>1 DEF Dispatch, DispatchError, At, HooksTypeOK
<1>3. /\ RowOK(work[d], t) /\ RunOK(t) /\ t \in Runs /\ t[1] = d
      /\ Partial = {} => GroupsOK(t) /\ HooksBefore(t) \subseteq completed
  BY <1>0, <1>1, <1>2, AtRun, CurrentRun
<1>4. runs[t].state = "running" /\ started[t] = 0 /\ t \notin wire
  BY <1>2, <1>3 DEF RowOK, Ready
<1>5. Idle \in WorkRecord /\ Idle.pc = "idle"
  BY HooksAssumption DEF Idle, WorkRecord, Phases, Unsettled
<1>6. CASE Dispatch(d)
  <2>1. UNCHANGED <<rowVars, clockVars, listed, gc, revision>> /\ wire' = wire
    BY <1>6 DEF Dispatch
  <2>2. CASE NomadDispatch(t) /\ Goto(d, "save")
    <3>1. PICK w : w = [work[d] EXCEPT !.pc = "save"]
      OBVIOUS
    <3>2. w \in WorkRecord /\ w.phase = work[d].phase /\ w.pos = work[d].pos /\ w.pc = "save"
      BY <1>1, <3>1 DEF WorkRecord
    <3>3. work' = [work EXCEPT ![d] = w]
      BY <1>1, <2>2, <3>1 DEF Goto
    <3>4. QED  BY <1>0, <1>2, <2>1, <2>2, <3>2, <3>3, SendKeeps
  <2>3. CASE Leave(d) /\ UNCHANGED childVars
    BY <1>2, <2>1, <2>3, LeaveKeeps DEF nomadVars
  <2>4. QED  BY <1>0, <1>6, <2>2, <2>3 DEF Dispatch
<1>7. CASE DispatchError(d)
  <2>1. UNCHANGED <<rowVars, clockVars, listed, gc, revision>>
    BY <1>7 DEF DispatchError
  <2>2. CASE Judge(d, "failed") /\ UNCHANGED <<wire, childVars>>
    BY <1>0, <1>2, <1>4, <2>1, <2>2, JudgeKeeps DEF Settled, nomadVars
  <2>3. CASE Leave(d) /\ UNCHANGED <<wire, childVars>>
    BY <1>2, <2>1, <2>3, LeaveKeeps DEF nomadVars
  <2>4. CASE Leave(d) /\ NomadDispatch(t) /\ UNCHANGED wire
    BY <1>0, <1>2, <1>5, <2>1, <2>4, SendKeeps DEF Leave
  <2>5. CASE Leave(d) /\ wire' = wire \cup {t} /\ UNCHANGED childVars
    <3>1. /\ work' \in [Deployments -> WorkRecord]
          /\ work'[d] = Idle /\ \A e \in Deployments \ {d} : work'[e] = work[e]
      BY <1>1, <1>5, <2>5 DEF Leave
    <3>2. /\ children' = children /\ started' = started /\ completed' = completed /\ runs' = runs
          /\ children \in [Runs -> ChildRecord] /\ started \in [Runs -> Nat]
          /\ wire' \subseteq Runs /\ completed \subseteq Runs
      BY <1>1, <1>3, <2>1, <2>5 DEF HooksTypeOK, childVars, rowVars
    <3>3. RunOK(t)'
      BY <1>3, <1>4, <2>5, <3>2 DEF RunOK, Alive
    <3>4. Partial = {} => GroupsOK(t)' /\ OrderOK(t)'
      BY <1>3, <3>2 DEF GroupsOK, OrderOK
    <3>5. WorkOK(d)'
      BY <1>5, <3>1 DEF WorkOK
    <3>6. QED  BY <1>2, <1>3, <2>1, <2>5, <3>1, <3>2, <3>3, <3>4, <3>5, NomadKeeps
  <2>6. QED  BY <1>0, <1>7, <2>2, <2>3, <2>4, <2>5 DEF DispatchError
<1>8. QED  BY <1>6, <1>7

\* The stop of a child that is out of time.
LEMMA StopKeeps ==
    ASSUME HooksInv, NEW d \in Deployments, Stop(d)
    PROVE  HooksInv'
<1>0. PICK t : t = Current(d)
  OBVIOUS
<1>1. HooksTypeOK /\ WorkOK(d) /\ work \in [Deployments -> WorkRecord] /\ work[d] \in WorkRecord
  BY DEF HooksInv, HooksTypeOK
<1>2. /\ work[d].pc = "stop" /\ faults' \in 0..MaxFaults
      /\ UNCHANGED <<rowVars, clockVars, listed, gc, revision, wire, started, completed>>
  BY <1>1 DEF Stop, At, HooksTypeOK
<1>3. /\ RowOK(work[d], t) /\ RunOK(t) /\ t \in Runs /\ t[1] = d
      /\ Partial = {} => GroupsOK(t) /\ OrderOK(t) /\ HooksBefore(t) \subseteq completed
  BY <1>0, <1>1, <1>2, AtRun, CurrentRun DEF HooksInv
<1>4. runs[t].state = "running" /\ runs[t].child /\ started[t] = 1 /\ t \notin wire
  BY <1>2, <1>3 DEF RowOK, Ready, RunOK
<1>5. children \in [Runs -> ChildRecord] /\ children[t] \in ChildRecord
  BY <1>1, <1>3 DEF HooksTypeOK
<1>6. /\ children' \in [Runs -> ChildRecord]
      /\ \A u \in Runs \ {t} : children'[u] = children[u]
      /\ children'[t].allocs = children[t].allocs /\ children'[t].unplaced = children[t].unplaced
      /\ children'[t].status \notin {"none", "pending", "running"}
  <2>1. PICK st : st = IF Alive(t) THEN "dead" ELSE children[t].status
    OBVIOUS
  <2>2. children[t].status # "none"
    BY <1>3, <1>4 DEF RunOK
  <2>3. st \in {"dead", "gone"}
    BY <1>5, <2>1, <2>2 DEF ChildRecord, Alive
  <2>4. children' = [children EXCEPT ![t].status = st]
    BY <1>0, <1>5, <2>1 DEF Stop, StopChild
  <2>5. QED  BY <1>3, <1>5, <2>3, <2>4 DEF ChildRecord
<1>7. PICK w : w = [work[d] EXCEPT !.pc = "finish", !.state = "timed_out"]
  OBVIOUS
<1>8. /\ w \in WorkRecord /\ w.phase = work[d].phase /\ w.pos = work[d].pos
      /\ w.pc = "finish" /\ w.state = "timed_out"
  BY <1>1, <1>7 DEF WorkRecord, Settled
<1>9. /\ work' = [work EXCEPT ![d] = w] /\ work' \in [Deployments -> WorkRecord]
      /\ work'[d] = w /\ \A e \in Deployments \ {d} : work'[e] = work[e]
  BY <1>1, <1>7, <1>8 DEF Stop, Judge
<1>10. runs' = runs /\ state' = state /\ frozen' = frozen
  BY <1>2 DEF rowVars
<1>11. RunOK(t)'
  BY <1>2, <1>3, <1>4, <1>6, <1>10 DEF RunOK, Alive
<1>12. Partial = {} => GroupsOK(t)' /\ OrderOK(t)'
  BY <1>2, <1>3, <1>6, <1>10 DEF GroupsOK, OrderOK
<1>13. WorkOK(d)'
  <2>1. Current(d)' = t
    BY <1>0, <1>8, <1>9 DEF Current
  <2>2. RowOK(w, t)'
    BY <1>2, <1>4, <1>6, <1>8, <1>10 DEF RowOK, Ready, Alive, Settled
  <2>3. QED  BY <1>1, <1>2, <1>3, <1>8, <1>9, <1>10, <2>1, <2>2 DEF WorkOK, Begun
<1>14. /\ started' \in [Runs -> Nat] /\ wire' \subseteq Runs
       /\ completed' \subseteq Runs /\ completed \subseteq completed'
  BY <1>1, <1>2 DEF HooksTypeOK
<1>15. QED  BY <1>2, <1>3, <1>6, <1>9, <1>11, <1>12, <1>13, <1>14, NomadKeeps

\* What happens to a run in Nomad while nobody works on it, or somebody waits for it:
\* a goroutine at it still knows what it knew.
LEMMA OutsideKeeps ==
    ASSUME HooksInv, NEW t \in Runs,
           UNCHANGED <<rowVars, clockVars, listed, work, gc, revision, faults>>,
           children' \in [Runs -> ChildRecord], started' \in [Runs -> Nat],
           wire' \subseteq wire, completed \subseteq completed', completed' \subseteq Runs,
           \A u \in Runs \ {t} : children'[u] = children[u] /\ started'[u] = started[u]
                                 /\ (u \in wire' <=> u \in wire),
           \/ t \in wire
           \/ started'[t] = started[t] /\ (Alive(t)' => Alive(t)),
           RunOK(t)', Partial = {} => GroupsOK(t)' /\ OrderOK(t)'
    PROVE  HooksInv'
<1> DEFINE d == t[1]
<1>1. d \in Deployments /\ HooksTypeOK
  BY DEF Runs, HooksInv
<1>2. WorkOK(d) /\ RunOK(t)
  BY <1>1 DEF HooksInv
<1>3. wire' \subseteq Runs /\ faults' \in 0..MaxFaults /\ work' \in [Deployments -> WorkRecord]
  BY <1>1 DEF HooksTypeOK
<1>4. WorkOK(d)'
  <2> SUFFICES ASSUME work[d].pc # "idle"
               PROVE  WorkOK(d)'
    BY DEF WorkOK
  <2>1. PICK u : u = Current(d)
    OBVIOUS
  <2>2. PICK w : w = work[d]
    OBVIOUS
  <2>3. RowOK(w, u) /\ u \in Runs
    BY <1>1, <1>2, <2>1, <2>2, CurrentRun DEF WorkOK
  <2>4. RowOK(w, u)'
    <3>1. runs'[u] = runs[u] /\ (Ready(u) <=> Ready(u)')
      BY DEF rowVars, Ready, RevisionOf
    <3>2. CASE u # t
      <4>1. children'[u] = children[u] /\ started'[u] = started[u] /\ (u \in wire' <=> u \in wire)
        BY <2>3, <3>2
      <4>2. QED  BY <2>3, <3>1, <4>1 DEF RowOK, Alive
    <3>3. CASE u = t /\ t \in wire
      <4>1. started[u] = 0 /\ u \in wire
        BY <1>2, <3>3 DEF RunOK
      <4>2. w.pc \notin {"dispatch", "save"} /\ (w.pc = "finish" => w.state # "timed_out")
        BY <2>3, <4>1 DEF RowOK
      <4>3. QED  BY <2>3, <3>1, <4>2 DEF RowOK
    <3>4. CASE u = t /\ started'[t] = started[t] /\ (Alive(t)' => Alive(t))
      BY <2>3, <3>1, <3>4 DEF RowOK
    <3>5. QED  BY <3>2, <3>3, <3>4
  <2>5. work'[d] = w /\ Current(d)' = u /\ state' = state /\ frozen' = frozen
    BY <2>1, <2>2 DEF Current, rowVars
  <2>6. QED  BY <1>2, <2>1, <2>2, <2>4, <2>5 DEF WorkOK, Begun
<1>5. \A e \in Deployments \ {d} : work'[e] = work[e]
  OBVIOUS
<1> HIDE DEF d
<1>6. t[1] = d
  BY DEF d
<1>7. QED  BY <1>1, <1>3, <1>4, <1>5, <1>6, NomadKeeps

\* The child itself, while its run is unsettled.
LEMMA ChildKeeps ==
    ASSUME HooksInv, NEW t \in Runs, Child(t)
    PROVE  HooksInv'
<1>1. HooksTypeOK /\ RunOK(t) /\ (Partial = {} => GroupsOK(t) /\ OrderOK(t))
  BY DEF HooksInv
<1>2. /\ children \in [Runs -> ChildRecord] /\ children[t] \in ChildRecord
      /\ started \in [Runs -> Nat] /\ completed \subseteq Runs /\ wire \subseteq Runs
  BY <1>1 DEF HooksTypeOK
<1>3. UNCHANGED <<rowVars, clockVars, listed, work, gc, revision, wire, started, faults>>
  BY DEF Child, applyVars
<1>4. runs' = runs
  BY <1>3 DEF rowVars
<1>5. runs[t].state \notin Settled
  BY DEF Child, Unsettled, Settled
<1>6. /\ children' \in [Runs -> ChildRecord]
      /\ \A u \in Runs \ {t} : children'[u] = children[u]
      /\ children'[t].status # "none" /\ children[t].status # "none"
      /\ Alive(t)' => Alive(t)
      /\ completed \subseteq completed' /\ completed' \subseteq Runs
      /\ Partial = {} => GroupsOK(t)'
  <2>1. CASE ChildPlaced(t)
    <3>1. PICK unplaced \in {FALSE, RevisionOf(t) \in Partial /\ children[t].unplaced} :
            children' = [children EXCEPT ![t] = [status |-> "running", allocs |-> @.allocs \cup {"live"},
                                                 unplaced |-> unplaced]]
      BY <2>1 DEF ChildPlaced
    <3>2. unplaced \in BOOLEAN /\ (Partial = {} => unplaced = FALSE)
      BY <1>2 DEF ChildRecord
    <3>3. PICK c : c = [status |-> "running", allocs |-> children[t].allocs \cup {"live"}, unplaced |-> unplaced]
      OBVIOUS
    <3>4. c \in ChildRecord /\ c.status = "running" /\ "live" \in c.allocs /\ c.unplaced = unplaced
      BY <1>2, <3>2, <3>3 DEF ChildRecord
    <3>5. children' = [children EXCEPT ![t] = c]
      BY <3>1, <3>3
    <3>6. completed' = completed /\ Alive(t)
      BY <2>1 DEF ChildPlaced
    <3>7. children'[t] = c
      BY <1>2, <3>5
    <3>8. Partial = {} => GroupsOK(t)'
      BY <1>4, <1>5, <3>2, <3>4, <3>7 DEF GroupsOK, Settled
    <3>9. QED  BY <1>2, <3>4, <3>5, <3>6, <3>7, <3>8 DEF Alive
  <2>2. CASE AllocEnds(t)
    <3>1. PICK end \in {"complete", "failed", "stopped"} :
            LET allocs == (children[t].allocs \ {"live"}) \cup {end}
            IN  /\ children' = [children EXCEPT ![t].allocs = allocs]
                /\ completed' = IF allocs = {"complete"} /\ ~children[t].unplaced
                                THEN completed \cup {t} ELSE completed
      BY <2>2 DEF AllocEnds
    <3>2. PICK allocs : allocs = (children[t].allocs \ {"live"}) \cup {end}
      OBVIOUS
    <3>3. /\ children' = [children EXCEPT ![t].allocs = allocs]
          /\ completed' = IF allocs = {"complete"} /\ ~children[t].unplaced
                          THEN completed \cup {t} ELSE completed
      BY <3>1, <3>2
    <3>4. allocs \subseteq {"live", "complete", "failed", "stopped"}
      BY <1>2, <3>2 DEF ChildRecord
    <3>5. /\ children' \in [Runs -> ChildRecord] /\ children'[t].allocs = allocs
          /\ children'[t].status = children[t].status /\ children'[t].unplaced = children[t].unplaced
          /\ \A u \in Runs \ {t} : children'[u] = children[u]
      BY <1>2, <3>3, <3>4 DEF ChildRecord
    <3>6. children[t].status # "none" /\ children[t].allocs # {}
      BY <2>2 DEF AllocEnds, Exists
    <3>7. completed \subseteq completed' /\ completed' \subseteq Runs
      BY <1>2, <3>3
    <3>8. Partial = {} => GroupsOK(t)'
      BY <1>1, <1>4, <1>5, <3>3, <3>5, <3>6 DEF GroupsOK, Settled
    <3>9. QED  BY <3>5, <3>6, <3>7, <3>8 DEF Alive
  <2>3. CASE ChildEnds(t) \/ StoppedOutside(t)
    <3>1. Alive(t) /\ completed' = completed /\ children' = [children EXCEPT ![t].status = "dead"]
      BY <2>3 DEF ChildEnds, StoppedOutside, StopChild
    <3>2. /\ children' \in [Runs -> ChildRecord] /\ children'[t].allocs = children[t].allocs
          /\ children'[t].status = "dead" /\ children'[t].unplaced = children[t].unplaced
          /\ \A u \in Runs \ {t} : children'[u] = children[u]
      BY <1>2, <3>1 DEF ChildRecord
    <3>3. Partial = {} => GroupsOK(t)'
      BY <1>1, <1>4, <3>1, <3>2 DEF GroupsOK
    <3>4. QED  BY <1>2, <3>1, <3>2, <3>3 DEF Alive
  <2>4. CASE ChildGone(t)
    <3>1. PICK c : c = [NoChild EXCEPT !.status = "gone"]
      OBVIOUS
    <3>2. /\ children[t].status = "dead" /\ completed' = completed
          /\ children' = [children EXCEPT ![t] = c]
      BY <2>4, <3>1, Zenon DEF ChildGone
    <3>3. c \in ChildRecord /\ c.status = "gone" /\ c.allocs = {} /\ c.unplaced = FALSE
      BY <3>1 DEF NoChild, ChildRecord
    <3>4. /\ children' \in [Runs -> ChildRecord] /\ children'[t] = c
          /\ \A u \in Runs \ {t} : children'[u] = children[u]
      BY <1>2, <3>2, <3>3
    <3>5. Partial = {} => GroupsOK(t)'
      BY <1>4, <1>5, <3>3, <3>4 DEF GroupsOK, Settled
    <3>6. QED  BY <1>2, <3>2, <3>3, <3>4, <3>5 DEF Alive
  <2>5. QED  BY <2>1, <2>2, <2>3, <2>4 DEF Child
<1>7. started'[t] = started[t] /\ started' \in [Runs -> Nat] /\ wire' = wire
  BY <1>2, <1>3
<1>8. RunOK(t)'
  BY <1>1, <1>4, <1>6, <1>7 DEF RunOK
<1>9. Partial = {} => OrderOK(t)'
  BY <1>1, <1>6, <1>7 DEF OrderOK
<1>10. QED  BY <1>3, <1>6, <1>7, <1>8, <1>9, OutsideKeeps

\* A dispatch that arrives late.
LEMMA ArriveKeeps ==
    ASSUME HooksInv, NEW t \in Runs, Arrive(t)
    PROVE  HooksInv'
<1>1. HooksTypeOK /\ RunOK(t) /\ (Partial = {} => GroupsOK(t) /\ OrderOK(t))
  BY DEF HooksInv
<1>2. /\ t \in wire /\ wire' = wire \ {t}
      /\ UNCHANGED <<rowVars, clockVars, listed, work, gc, revision, faults>>
  BY DEF Arrive, applyVars
<1>3. runs' = runs /\ started[t] = 0 /\ runs[t].state \in {"running", "failed"}
  BY <1>1, <1>2 DEF RunOK, rowVars
<1>4. /\ children \in [Runs -> ChildRecord] /\ started \in [Runs -> Nat] /\ completed \subseteq Runs
  BY <1>1 DEF HooksTypeOK
<1>5. CASE UNCHANGED childVars
  <2>1. children' = children /\ started' = started /\ completed' = completed
    BY <1>5 DEF childVars
  <2>2. RunOK(t)'
    BY <1>1, <1>2, <1>3, <2>1 DEF RunOK, Alive
  <2>3. Partial = {} => GroupsOK(t)' /\ OrderOK(t)'
    BY <1>1, <1>2, <1>3, <2>1 DEF GroupsOK, OrderOK
  <2>4. QED  BY <1>2, <1>4, <2>1, <2>2, <2>3, OutsideKeeps
<1>6. CASE NomadDispatch(t)
  <2>1. /\ children' = [children EXCEPT ![t] = NewChild]
        /\ started' = [started EXCEPT ![t] = 1] /\ completed' = completed
        /\ children' \in [Runs -> ChildRecord] /\ started' \in [Runs -> Nat]
        /\ children'[t].status = "pending" /\ children'[t].allocs = {} /\ started'[t] = 1
    BY <1>3, <1>6, DispatchStarts
  <2>2. RunOK(t)'
    BY <1>1, <1>2, <1>3, <2>1 DEF RunOK, Alive
  <2>3. Partial = {} => GroupsOK(t)' /\ OrderOK(t)'
    BY <1>1, <1>2, <1>3, <2>1 DEF GroupsOK, OrderOK
  <2>4. \A u \in Runs \ {t} : children'[u] = children[u] /\ started'[u] = started[u]
                              /\ (u \in wire' <=> u \in wire)
    BY <1>2, <1>4, <2>1
  <2>5. QED  BY <1>2, <1>4, <2>1, <2>2, <2>3, <2>4, OutsideKeeps
<1>7. QED  BY <1>5, <1>6 DEF Arrive

-----------------------------------------------------------------------------
(***************************************************************************)
(* Steps that register a revision or move a deployment.                    *)
(***************************************************************************)
\* A deployment that is moved by its own step: to a state in which it needs no more.
LEMMA MovedKeeps ==
    ASSUME HooksInv, NEW d \in Deployments, NEW w \in WorkRecord, work' = [work EXCEPT ![d] = w],
           w.pc # "idle" => w.pc = "ensure" /\ Current(d) = <<d, w.phase, w.pos>> /\ work[d].pc # "idle"
                            /\ state'[d] = state[d] /\ revision'[RevisionOf(Current(d))].up,
           state' \in [Deployments -> {"none", "completed", "failed"} \cup Active],
           \A e \in Deployments \ {d} : state'[e] = state[e],
           state'[d] \in Active => state[d] \in Active, Begun(d) => Begun(d)', PhaseOK(d)',
           revision' \in [Revisions -> [up: BOOLEAN, index: Nat]],
           \A r \in Revisions : revision[r].up => revision'[r].up,
           UNCHANGED <<frozen, runs, clockVars, listed, gc, wire, childVars>>, faults' \in 0..MaxFaults
    PROVE  HooksInv'
<1>1. HooksTypeOK /\ WorkOK(d) /\ work \in [Deployments -> WorkRecord]
  BY DEF HooksInv, HooksTypeOK
<1>2. /\ work' \in [Deployments -> WorkRecord]
      /\ work'[d] = w /\ \A e \in Deployments \ {d} : work'[e] = work[e]
  BY <1>1
<1>3. HooksTypeOK'
  BY <1>1, <1>2 DEF HooksTypeOK, clockVars, childVars
<1>4. Frame(d, {})
  BY <1>2 DEF Frame, Begun, childVars
<1>5. WorkOK(d)'
  <2> SUFFICES ASSUME w.pc # "idle"
               PROVE  WorkOK(d)'
    BY <1>2 DEF WorkOK
  <2>1. PICK t : t = Current(d)
    OBVIOUS
  <2>2. t = <<d, w.phase, w.pos>> /\ t = <<d, work[d].phase, work[d].pos>>
    BY <2>1 DEF Current
  <2>3. w.phase = work[d].phase /\ w.pos = work[d].pos
    BY <2>2
  <2>4. Current(d)' = t
    BY <1>2, <2>2 DEF Current
  <2>5. RowOK(w, t)'
    <3>1. revision'[RevisionOf(t)'].up
      BY <2>1 DEF RevisionOf
    <3>2. QED  BY <3>1 DEF RowOK, Ready
  <2>6. QED  BY <1>1, <1>2, <2>1, <2>3, <2>4, <2>5 DEF WorkOK, childVars
<1>6. StopsUnused'
  BY UnusedStays
<1>7. QED  BY <1>3, <1>4, <1>5, <1>6, FrameKeeps

\* A register, refused or not, and an error around it.
LEMMA RegisterKeeps ==
    ASSUME HooksInv, NEW d \in Deployments,
           \/ Register(d)
           \/ RegisterError(d) /\ faults' \in 0..MaxFaults
    PROVE  HooksInv'
<1> DEFINE r == RevisionOf(Current(d))
<1>1. HooksTypeOK /\ work \in [Deployments -> WorkRecord] /\ work[d] \in WorkRecord /\ PhaseOK(d)
  BY DEF HooksInv, HooksTypeOK
<1>2. work[d].pc # "idle" /\ faults' \in 0..MaxFaults
  BY <1>1 DEF Register, RegisterError, At, HooksTypeOK
<1>3. r \in Revisions
  BY <1>2, AtRun
<1>4. /\ revision \in [Revisions -> [up: BOOLEAN, index: Nat]]
      /\ state \in [Deployments -> {"none", "completed", "failed"} \cup Active]
  BY <1>1 DEF HooksTypeOK
<1>5. ASSUME Registered(r)
      PROVE  /\ revision' \in [Revisions -> [up: BOOLEAN, index: Nat]]
             /\ \A q \in Revisions : revision[q].up => revision'[q].up
             /\ revision'[r].up
  <2> HIDE DEF r
  <2>1. PICK v : v = [up |-> TRUE, index |-> revision[r].index + 1]
    OBVIOUS
  <2>2. revision' = [revision EXCEPT ![r] = v]
    BY <1>4, <1>5, <2>1 DEF Registered
  <2>3. v \in [up: BOOLEAN, index: Nat] /\ v.up
    BY <1>3, <1>4, <2>1
  <2>4. QED  BY <1>3, <1>4, <2>2, <2>3
<1>6. ASSUME RegisterFails(d), Registered(r) \/ revision' = revision
      PROVE  HooksInv'
  <2>1. Idle \in WorkRecord /\ Idle.pc = "idle"
    BY HooksAssumption DEF Idle, WorkRecord, Phases, Unsettled
  <2>2. work' = [work EXCEPT ![d] = Idle] /\ UNCHANGED <<frozen, runs, clockVars, listed, gc, wire, childVars>>
    BY <1>6 DEF RegisterFails, Leave
  <2>3. state' = state \/ \E to \in {"failed", state[d]} : state' = [state EXCEPT ![d] = to]
    BY <1>6 DEF RegisterFails, Transition
  <2>4. /\ revision' \in [Revisions -> [up: BOOLEAN, index: Nat]]
        /\ \A q \in Revisions : revision[q].up => revision'[q].up
    BY <1>4, <1>5, <1>6
  <2>5. /\ state' \in [Deployments -> {"none", "completed", "failed"} \cup Active]
        /\ \A e \in Deployments \ {d} : state'[e] = state[e]
        /\ state'[d] = state[d] \/ state'[d] = "failed"
    BY <1>4, <2>3
  <2>6. (state'[d] \in Active => state[d] \in Active) /\ (Begun(d) => Begun(d)')
    BY <2>5 DEF Active, Begun
  <2>7. PhaseOK(d)'
    BY <1>1, <2>2, <2>5 DEF PhaseOK, HookPhase, PastHooks, childVars
  <2>8. QED  BY <1>2, <2>1, <2>2, <2>4, <2>5, <2>6, <2>7, MovedKeeps
<1>7. CASE Register(d)
  <2>1. CASE Registered(r) /\ Goto(d, "ensure") /\ UNCHANGED <<rowVars, clockVars, listed, gc, wire, childVars>>
    <3>1. PICK w : w = [work[d] EXCEPT !.pc = "ensure"]
      OBVIOUS
    <3>2. w \in WorkRecord /\ w.phase = work[d].phase /\ w.pos = work[d].pos /\ w.pc = "ensure"
      BY <1>1, <3>1 DEF WorkRecord
    <3>3. work' = [work EXCEPT ![d] = w]
      BY <1>1, <2>1, <3>1 DEF Goto
    <3>4. Current(d) = <<d, w.phase, w.pos>>
      BY <3>2 DEF Current
    <3>5. state' = state /\ frozen' = frozen /\ runs' = runs /\ completed' = completed
      BY <2>1 DEF rowVars, childVars
    <3>6. PhaseOK(d)' /\ (Begun(d) => Begun(d)')
      BY <1>1, <3>5 DEF PhaseOK, Begun
    <3>7. UNCHANGED <<frozen, runs, clockVars, listed, gc, wire, childVars>>
      BY <2>1, <3>5
    <3>8. QED  BY <1>2, <1>4, <1>5, <2>1, <3>2, <3>3, <3>4, <3>5, <3>6, <3>7, MovedKeeps
  <2>2. CASE RegisterFails(d) /\ UNCHANGED revision
    BY <1>6, <2>2
  <2>3. QED  BY <1>7, <2>1, <2>2 DEF Register
<1>8. CASE RegisterError(d)
  BY <1>6, <1>8 DEF RegisterError
<1>9. QED  BY <1>7, <1>8

\* After an outcome: the next hook, the end of the phase, or a failure.
LEMMA ResultKeeps ==
    ASSUME HooksInv, NEW d \in Deployments, Result(d)
    PROVE  HooksInv'
<1>0. PICK t : t = Current(d)
  OBVIOUS
<1>1. HooksTypeOK /\ work \in [Deployments -> WorkRecord] /\ work[d] \in WorkRecord /\ PhaseOK(d)
  BY DEF HooksInv, HooksTypeOK
<1>2. work[d].pc = "result"
  BY DEF Result, At
<1>3. /\ RowOK(work[d], t) /\ t \in Runs
      /\ Partial = {} => GroupsOK(t) /\ HooksBefore(t) \subseteq completed
      /\ Begun(d)
      /\ work[d].pos \in 1..Len(frozen[d][work[d].phase])
  BY <1>0, <1>2, AtRun
<1>4. work[d].state = runs[t].state
  BY <1>2, <1>3 DEF RowOK, Ready
<1>5. PICK ph : ph = work[d].phase
  OBVIOUS
<1>6. PICK pos : pos = work[d].pos
  OBVIOUS
<1>7. /\ ph \in Phases /\ pos \in 1..Len(frozen[d][ph]) /\ t = <<d, ph, pos>>
      /\ Len(frozen[d][ph]) \in Nat /\ Len(frozen[d][ph]) <= MaxPosition
  BY <1>0, <1>1, <1>3, <1>5, <1>6, FrozenHooks DEF WorkRecord, Current
<1>8. work[d].state = "succeeded" /\ Partial = {} => \A i \in 1..pos : <<d, ph, i>> \in completed
  <2> SUFFICES ASSUME work[d].state = "succeeded", Partial = {}, NEW i \in 1..pos
               PROVE  <<d, ph, i>> \in completed
    OBVIOUS
  <2>1. CASE i = pos
    BY <1>3, <1>4, <1>7, <2>1 DEF GroupsOK
  <2>2. CASE i < pos
    <3>1. <<d, ph, i>> \in HooksBefore(t)
      BY <1>7, <2>2, HooksAssumption DEF HooksBefore, Runs
    <3>2. QED  BY <1>3, <3>1
  <2>3. QED  BY <1>7, <2>1, <2>2
<1>9. CASE work[d].state = "succeeded" /\ pos # Len(frozen[d][ph])
  <2>1. /\ work' = [work EXCEPT ![d] = [Idle EXCEPT !.pc = "live", !.phase = ph, !.pos = pos + 1]]
        /\ UNCHANGED state
    BY <1>5, <1>6, <1>9 DEF Result
  <2>2. PICK w : w = [Idle EXCEPT !.pc = "live", !.phase = ph, !.pos = pos + 1]
    OBVIOUS
  <2>3. Idle \in WorkRecord
    BY HooksAssumption DEF Idle, WorkRecord, Phases, Unsettled
  <2>4. pos + 1 \in 1..Len(frozen[d][ph]) /\ pos + 1 \in 1..MaxPosition
    BY <1>7, <1>9, HooksAssumption
  <2>5. w \in WorkRecord /\ w.pc = "live" /\ w.phase = ph /\ w.pos = pos + 1
    BY <1>7, <2>2, <2>3, <2>4 DEF WorkRecord
  <2>6. work' = [work EXCEPT ![d] = w]
    BY <2>1, <2>2
  <2>7. Partial = {} => HooksBefore(<<d, ph, pos + 1>>) \subseteq completed
    <3> SUFFICES ASSUME Partial = {}, NEW u \in HooksBefore(<<d, ph, pos + 1>>)
                 PROVE  u \in completed
      OBVIOUS
    <3>1. u \in Runs /\ u[1] = d /\ u[2] = ph /\ u[3] < pos + 1
      BY DEF HooksBefore
    <3>2. u[3] \in 1..pos /\ u = <<d, ph, u[3]>>
      BY <1>7, <3>1 DEF Runs
    <3>3. QED  BY <1>8, <1>9, <3>2
  <2>8. Fits(d, w)
    BY <1>3, <1>5, <2>4, <2>5, <2>7 DEF Fits, RowOK, Ready
  <2>9. UNCHANGED <<rowVars, clockVars, listed, gc, nomadVars, faults>> /\ faults' \in 0..MaxFaults
    BY <1>1, <2>1 DEF Result, rowVars, HooksTypeOK
  <2>10. QED  BY <2>5, <2>6, <2>8, <2>9, LocalKeeps
<1>10. CASE ~(work[d].state = "succeeded" /\ pos # Len(frozen[d][ph])) /\ state[d] # HookPhase(ph)
  <2>1. Leave(d) /\ UNCHANGED <<frozen, runs, clockVars, listed, gc, nomadVars, faults>>
    BY <1>5, <1>6, <1>10 DEF Result
  <2>2. state' = state
    <3>1. \E to : state' = [state EXCEPT ![d] = IF @ = HookPhase(ph) THEN to ELSE @]
      BY <1>5, <1>6, <1>10 DEF Result, Transition
    <3>2. state' = [state EXCEPT ![d] = state[d]]
      BY <1>10, <3>1
    <3>3. QED  BY <1>1, <3>2 DEF HooksTypeOK
  <2>3. UNCHANGED <<rowVars, clockVars, listed, gc, nomadVars>> /\ faults' \in 0..MaxFaults
    BY <1>1, <2>1, <2>2 DEF HooksTypeOK, rowVars
  <2>4. QED  BY <2>1, <2>3, LeaveKeeps
<1>11. CASE ~(work[d].state = "succeeded" /\ pos # Len(frozen[d][ph])) /\ state[d] = HookPhase(ph)
  <2>1. PICK to : to = IF work[d].state # "succeeded" THEN "failed"
                       ELSE IF ph = "pre" THEN "applying" ELSE "completed"
    OBVIOUS
  <2>2. /\ state' = [state EXCEPT ![d] = to] /\ Leave(d)
        /\ UNCHANGED <<frozen, runs, clockVars, listed, gc, nomadVars, faults>>
    BY <1>1, <1>5, <1>6, <1>11, <2>1 DEF Result, Transition
  <2>3. Idle \in WorkRecord /\ Idle.pc = "idle"
    BY HooksAssumption DEF Idle, WorkRecord, Phases, Unsettled
  <2>4. to \in {"failed", "applying", "completed"} /\ state[d] \in Active
    BY <1>11, <2>1 DEF Active, HookPhase
  <2>5. /\ state' \in [Deployments -> {"none", "completed", "failed"} \cup Active]
        /\ \A e \in Deployments \ {d} : state'[e] = state[e]
        /\ state'[d] = to
    BY <1>1, <2>2, <2>4 DEF HooksTypeOK, Active
  <2>6. frozen' = frozen /\ completed' = completed /\ revision' = revision
    BY <2>2 DEF nomadVars, childVars
  <2>7. PhaseOK(d)'
    <3>1. \A q \in Phases : state'[d] # HookPhase(q)
      BY <2>4, <2>5 DEF HookPhase
    <3>2. ASSUME NEW q \in Phases, Partial = {}, state'[d] \in PastHooks(q)
          PROVE  \A i \in 1..Len(frozen[d][q]) : <<d, q, i>> \in completed
      <4>1. to # "failed" /\ work[d].state = "succeeded" /\ pos = Len(frozen[d][ph])
        BY <1>11, <2>1, <2>5, <3>2 DEF PastHooks
      <4>2. CASE q = ph
        BY <1>8, <3>2, <4>1, <4>2
      <4>3. CASE q # ph
        <5>1. ph = "post" /\ q = "pre"
          BY <1>7, <2>1, <2>5, <3>2, <4>1, <4>3 DEF Phases, PastHooks
        <5>2. state[d] \in PastHooks(q)
          BY <1>11, <5>1 DEF PastHooks, HookPhase
        <5>3. QED  BY <1>1, <3>2, <5>2 DEF PhaseOK
      <4>4. QED  BY <4>2, <4>3
    <3>3. QED  BY <2>6, <3>1, <3>2 DEF PhaseOK
  <2>8. /\ revision' \in [Revisions -> [up: BOOLEAN, index: Nat]] /\ faults' \in 0..MaxFaults
        /\ \A r \in Revisions : revision[r].up => revision'[r].up
        /\ UNCHANGED <<frozen, runs, clockVars, listed, gc, wire, childVars>>
    BY <1>1, <2>2, <2>6 DEF HooksTypeOK, nomadVars
  <2>9. Begun(d) => Begun(d)'
    BY <2>4, <2>5 DEF Begun
  <2>10. QED  BY <2>2, <2>3, <2>4, <2>5, <2>7, <2>8, <2>9, MovedKeeps DEF Leave
<1>12. QED  BY <1>9, <1>10, <1>11

\* A deployment that has not come to its hooks has no goroutine and no listed row.
LEMMA NotBegun ==
    ASSUME HooksInv, NEW d \in Deployments, ~Begun(d)
    PROVE  work[d].pc = "idle" /\ \A x \in listed : x[1] # d
<1>1. WorkOK(d) /\ work[d] \in WorkRecord /\ listed \subseteq Deployments \X Phases /\ ListedOK
  BY DEF HooksInv, HooksTypeOK
<1>2. QED  BY <1>1 DEF WorkOK, WorkRecord, ListedOK

\* A deployment is created, decided on, or applied.
LEMMA DeployKeeps ==
    ASSUME HooksInv, NEW d \in Deployments, Deploy(d)
    PROVE  HooksInv'
<1>1. /\ HooksTypeOK /\ PhaseOK(d)
      /\ work \in [Deployments -> WorkRecord] /\ work[d] \in WorkRecord
      /\ state \in [Deployments -> {"none", "completed", "failed"} \cup Active]
      /\ revision \in [Revisions -> [up: BOOLEAN, index: Nat]]
      /\ frozen \in [Deployments -> Declared \cup {NoHooks}]
  BY DEF HooksInv, HooksTypeOK
<1>2. UNCHANGED <<runs, clockVars, listed, work, gc, nomadVars, faults>> /\ faults' \in 0..MaxFaults
  BY <1>1 DEF Deploy, applyVars, HooksTypeOK
<1>4. work[d].pc = "idle"
  <2>1. CASE Create(d) \/ Decide(d)
    <3>1. ~Begun(d)
      BY <2>1 DEF Create, Decide, Begun
    <3>2. QED  BY <3>1, NotBegun
  <2>2. CASE Applied(d)
    BY <2>2 DEF Applied, At
  <2>3. QED  BY <2>1, <2>2 DEF Deploy
<1>5. CASE Create(d)
  <2>1. PICK h \in Declared : frozen' = [frozen EXCEPT ![d] = h]
    BY <1>5 DEF Create
  <2>2. state' = [state EXCEPT ![d] = "waiting"] /\ gc.pc = "idle"
    BY <1>5 DEF Create
  <2>3. /\ frozen' \in [Deployments -> Declared \cup {NoHooks}]
        /\ state' \in [Deployments -> {"none", "completed", "failed"} \cup Active]
        /\ state'[d] = "waiting"
        /\ \A e \in Deployments \ {d} : state'[e] = state[e] /\ frozen'[e] = frozen[e]
    BY <1>1, <2>1, <2>2 DEF Active
  <2>4. HooksTypeOK'
    BY <1>1, <1>2, <2>3 DEF HooksTypeOK, clockVars, nomadVars, childVars
  <2>5. \A t \in Runs : RunOK(t)' /\ (Partial = {} => GroupsOK(t)' /\ OrderOK(t)')
    <3> SUFFICES ASSUME NEW t \in Runs
                 PROVE  RunOK(t)' /\ (Partial = {} => GroupsOK(t)' /\ OrderOK(t)')
      OBVIOUS
    <3>1. RunOK(t) /\ (Partial = {} => GroupsOK(t) /\ OrderOK(t))
      BY DEF HooksInv
    <3>2. QED  BY <1>2, <3>1 DEF RunOK, GroupsOK, OrderOK, Alive, nomadVars, childVars
  <2>6. \A e \in Deployments : WorkOK(e)' /\ PhaseOK(e)'
    <3> SUFFICES ASSUME NEW e \in Deployments
                 PROVE  WorkOK(e)' /\ PhaseOK(e)'
      OBVIOUS
    <3>1. CASE e = d
      <4>1. WorkOK(e)'
        BY <1>2, <1>4, <3>1 DEF WorkOK
      <4>2. PhaseOK(e)'
        BY <2>3, <3>1 DEF PhaseOK, HookPhase, PastHooks
      <4>3. QED  BY <4>1, <4>2
    <3>2. CASE e # d
      <4>1. WorkOK(e) /\ PhaseOK(e)
        BY DEF HooksInv
      <4>2. state'[e] = state[e] /\ frozen'[e] = frozen[e]
        BY <2>3, <3>2
      <4>3. PICK t : t = Current(e)
        OBVIOUS
      <4>4. t[1] = e /\ Current(e)' = t
        BY <1>1, <1>2, <4>3, CurrentRun DEF Current
      <4>5. PICK w : w = work[e]
        OBVIOUS
      <4>6. RowOK(w, t) => RowOK(w, t)'
        BY <1>2, <4>2, <4>4 DEF RowOK, Ready, RevisionOf, Alive, nomadVars, childVars
      <4>7. WorkOK(e)'
        BY <1>2, <4>1, <4>2, <4>3, <4>4, <4>5, <4>6 DEF WorkOK, Begun, nomadVars, childVars
      <4>8. PhaseOK(e)'
        BY <1>2, <4>1, <4>2 DEF PhaseOK, nomadVars, childVars
      <4>9. QED  BY <4>7, <4>8
    <3>3. QED  BY <3>1, <3>2
  <2>7. StopsUnused'
    BY <1>2, <2>2 DEF StopsUnused
  <2>8. ListedOK'
    <3> SUFFICES ASSUME NEW x \in Deployments \X Phases, x \in listed'
                 PROVE  Begun(x[1])' /\ frozen'[x[1]][x[2]] # <<>>
      BY DEF ListedOK
    <3>1. x \in listed
      BY <1>2
    <3>2. ~Begun(d)
      BY <1>5 DEF Create, Begun
    <3>3. x[1] \in Deployments \ {d}
      BY <3>1, <3>2, NotBegun
    <3>4. QED  BY <2>3, <3>1, <3>3 DEF HooksInv, ListedOK, Begun
  <2>9. QED  BY <2>4, <2>5, <2>6, <2>7, <2>8 DEF HooksInv
<1>6. CASE (Decide(d) \/ Applied(d)) /\ UNCHANGED frozen
  <2>0. PICK to : /\ state' = [state EXCEPT ![d] = to]
                  /\ \/ state[d] \in {"waiting", "applying"} /\ to = "failed"
                     \/ state[d] = "waiting" /\ to = "pre_hook" /\ frozen[d]["pre"] # <<>>
                     \/ state[d] = "waiting" /\ to = "applying" /\ frozen[d]["pre"] = <<>>
                     \/ state[d] = "applying" /\ to = "post_hook" /\ frozen[d]["post"] # <<>>
                     \/ state[d] = "applying" /\ to = "completed" /\ frozen[d]["post"] = <<>>
    <3>1. CASE Decide(d) /\ state' = [state EXCEPT ![d] = "failed"]
      BY <3>1 DEF Decide
    <3>2. CASE Decide(d) /\ state' = [state EXCEPT ![d] = IF frozen[d]["pre"] # <<>> THEN "pre_hook" ELSE "applying"]
      <4>1. CASE frozen[d]["pre"] = <<>>
        BY <3>2, <4>1 DEF Decide
      <4>2. CASE frozen[d]["pre"] # <<>>
        BY <3>2, <4>2 DEF Decide
      <4>3. QED  BY <4>1, <4>2
    <3>3. CASE Applied(d)
      <4>1. PICK to \in {"failed", IF frozen[d]["post"] # <<>> THEN "post_hook" ELSE "completed"} :
              state' = [state EXCEPT ![d] = to]
        BY <3>3 DEF Applied
      <4>2. state[d] = "applying"
        BY <3>3 DEF Applied
      <4>3. CASE to = "failed"
        BY <4>1, <4>2, <4>3
      <4>4. CASE to = "post_hook" /\ frozen[d]["post"] # <<>>
        BY <4>1, <4>2, <4>4
      <4>5. CASE to = "completed" /\ frozen[d]["post"] = <<>>
        BY <4>1, <4>2, <4>5
      <4>6. QED  BY <4>3, <4>4, <4>5
    <3>4. QED  BY <1>6, <3>1, <3>2, <3>3 DEF Decide
  <2>1. /\ state' = [state EXCEPT ![d] = to]
        /\ to \in {"failed", "applying", "completed", "pre_hook", "post_hook"}
        /\ \A ph \in Phases : to = HookPhase(ph) => frozen[d][ph] # <<>>
        /\ \A ph \in Phases : to \in PastHooks(ph)
                                => state[d] \in PastHooks(ph) \/ frozen[d][ph] = <<>>
    BY <2>0 DEF HookPhase, PastHooks, Phases
  <2>2. /\ state' \in [Deployments -> {"none", "completed", "failed"} \cup Active]
        /\ \A e \in Deployments \ {d} : state'[e] = state[e]
        /\ state'[d] = to
    BY <1>1, <2>1 DEF Active, HookPhase
  <2>3. state[d] \in Active
    BY <1>6 DEF Decide, Applied, Active
  <2>4. PhaseOK(d)'
    <3>1. frozen' = frozen /\ completed' = completed
      BY <1>2, <1>6 DEF nomadVars, childVars
    <3>2. ASSUME NEW ph \in Phases, Partial = {}, to \in PastHooks(ph)
          PROVE  \A i \in 1..Len(frozen[d][ph]) : <<d, ph, i>> \in completed
      <4>1. CASE state[d] \in PastHooks(ph)
        BY <1>1, <3>2, <4>1 DEF PhaseOK
      <4>2. CASE frozen[d][ph] = <<>>
        BY <4>2
      <4>3. QED  BY <2>1, <3>2, <4>1, <4>2
    <3>3. QED  BY <2>1, <2>2, <3>1, <3>2 DEF PhaseOK
  <2>5. work' = [work EXCEPT ![d] = work[d]]
    BY <1>1, <1>2
  <2>6. /\ revision' = revision /\ \A r \in Revisions : revision[r].up => revision'[r].up
        /\ UNCHANGED <<frozen, runs, clockVars, listed, gc, wire, childVars>>
    BY <1>2, <1>6 DEF nomadVars
  <2>7. Begun(d) => Begun(d)'
    BY <2>1, <2>2 DEF Begun
  <2>8. QED  BY <1>1, <1>2, <1>4, <2>2, <2>3, <2>4, <2>5, <2>6, <2>7, MovedKeeps
<1>7. QED  BY <1>5, <1>6 DEF Deploy

-----------------------------------------------------------------------------
(***************************************************************************)
(* The collector, the clocks, and a crash.                                 *)
(***************************************************************************)
\* A step that leaves deployments, runs and children alone.
LEMMA AroundKeeps ==
    ASSUME HooksInv, UNCHANGED <<rowVars, wire, childVars>>,
           HooksTypeOK', ListedOK', StopsUnused', \A d \in Deployments : WorkOK(d)'
    PROVE  HooksInv'
<1>1. \A t \in Runs : RunOK(t)' /\ (Partial = {} => GroupsOK(t)' /\ OrderOK(t)')
  <2> SUFFICES ASSUME NEW t \in Runs
               PROVE  RunOK(t)' /\ (Partial = {} => GroupsOK(t)' /\ OrderOK(t)')
    OBVIOUS
  <2>1. RunOK(t) /\ (Partial = {} => GroupsOK(t) /\ OrderOK(t))
    BY DEF HooksInv
  <2>2. QED  BY <2>1 DEF RunOK, GroupsOK, OrderOK, Alive, rowVars, childVars
<1>2. \A d \in Deployments : PhaseOK(d)'
  BY DEF HooksInv, PhaseOK, rowVars, childVars
<1>3. QED  BY <1>1, <1>2 DEF HooksInv

\* What is listed stays so while no deployment is moved.
LEMMA ListedStays ==
    ASSUME HooksInv, UNCHANGED rowVars, listed' \subseteq listed
    PROVE  ListedOK'
BY DEF HooksInv, ListedOK, Begun, rowVars

\* A goroutine keeps its place while the revision it needs stays up.
LEMMA WorkStays ==
    ASSUME HooksInv, UNCHANGED <<rowVars, work, wire, childVars>>, NEW d \in Deployments,
           work[d].pc # "idle" /\ state[d] \in Active /\ revision[RevisionOf(Current(d))].up
             => revision'[RevisionOf(Current(d))].up
    PROVE  WorkOK(d)'
<1>1. WorkOK(d)
  BY DEF HooksInv
<1>2. PICK t : t = Current(d)
  OBVIOUS
<1>3. PICK w : w = work[d]
  OBVIOUS
<1>4. Current(d)' = t /\ work'[d] = w /\ RevisionOf(t)' = RevisionOf(t) /\ t[1] = d
  BY <1>2, <1>3 DEF Current, RevisionOf, rowVars
<1>5. w.pc # "idle" /\ RowOK(w, t) => RowOK(w, t)'
  BY <1>2, <1>3, <1>4 DEF RowOK, Ready, Alive, rowVars, childVars
<1>6. QED  BY <1>1, <1>2, <1>3, <1>4, <1>5 DEF WorkOK, Begun, rowVars, childVars

\* The collector stops what no deployment needs.
LEMMA CollectKeeps ==
    ASSUME HooksInv,
           \/ Collect
           \/ GCError /\ faults' \in 0..MaxFaults
    PROVE  HooksInv'
<1>1. /\ HooksTypeOK /\ StopsUnused
      /\ gc \in [pc: {"idle", "used", "stop"}, stop: SUBSET Revisions]
      /\ revision \in [Revisions -> [up: BOOLEAN, index: Nat]]
  BY DEF HooksInv, HooksTypeOK
<1>2. UNCHANGED <<rowVars, clockVars, listed, work, wire, childVars>> /\ faults' \in 0..MaxFaults
  BY <1>1 DEF applyVars, Collect, GCList, GCUsed, GCStop, GCError, nomadVars, HooksTypeOK
<1>3. HookRevisionsInUse' = HookRevisionsInUse
  BY <1>2 DEF HookRevisionsInUse, Frozen, RevisionOf, rowVars
<1>4. ASSUME gc' \in [pc: {"idle", "used", "stop"}, stop: SUBSET Revisions],
             gc'.pc = "stop" => gc'.stop \cap HookRevisionsInUse = {},
             revision' \in [Revisions -> [up: BOOLEAN, index: Nat]],
             \A d \in Deployments : /\ work[d].pc # "idle" /\ state[d] \in Active
                                     /\ revision[RevisionOf(Current(d))].up
                                      => revision'[RevisionOf(Current(d))].up
      PROVE  HooksInv'
  <2>1. HooksTypeOK'
    BY <1>1, <1>2, <1>4 DEF HooksTypeOK, rowVars, clockVars, childVars
  <2>2. StopsUnused'
    BY <1>3, <1>4 DEF StopsUnused
  <2>3. \A d \in Deployments : WorkOK(d)'
    BY <1>2, <1>4, WorkStays
  <2>4. QED  BY <1>2, <2>1, <2>2, <2>3, AroundKeeps, ListedStays
<1>5. IdleGC \in [pc: {"idle", "used", "stop"}, stop: SUBSET Revisions] /\ IdleGC.pc = "idle"
  BY DEF IdleGC
<1>6. CASE GCList
  <2>1. PICK up : up = {r \in Revisions : revision[r].up}
    OBVIOUS
  <2>2. gc' = [pc |-> "used", stop |-> up] /\ revision' = revision /\ up \subseteq Revisions
    BY <1>6, <2>1 DEF GCList, nomadVars
  <2>3. QED  BY <1>1, <1>4, <2>2
<1>7. CASE GCUsed
  <2>1. PICK unused : unused = gc.stop \ HookRevisionsInUse
    OBVIOUS
  <2>2. gc' = IdleGC \/ gc' = [pc |-> "stop", stop |-> unused]
    BY <1>7, <2>1 DEF GCUsed
  <2>3. revision' = revision
    BY <1>7 DEF GCUsed, nomadVars
  <2>4. unused \subseteq Revisions /\ unused \cap HookRevisionsInUse = {}
    BY <1>1, <2>1
  <2>5. QED  BY <1>1, <1>4, <1>5, <2>2, <2>3, <2>4
<1>8. ASSUME NEW r \in Revisions, GCStop(r)
      PROVE  HooksInv'
  <2>1. gc.pc = "stop" /\ r \in gc.stop /\ r \notin HookRevisionsInUse
    BY <1>1, <1>8 DEF GCStop, StopsUnused
  <2>2. gc' = IdleGC \/ gc' = [gc EXCEPT !.stop = gc.stop \ {r}]
    BY <1>8 DEF GCStop
  <2>3. /\ gc' \in [pc: {"idle", "used", "stop"}, stop: SUBSET Revisions]
        /\ gc'.pc = "stop" => gc'.stop \cap HookRevisionsInUse = {}
    BY <1>1, <1>5, <2>1, <2>2 DEF StopsUnused
  <2>4. PICK v : v = IF revision[r].up THEN [up |-> FALSE, index |-> revision[r].index + 1] ELSE revision[r]
    OBVIOUS
  <2>5. v \in [up: BOOLEAN, index: Nat]
    BY <1>1, <2>4
  <2>6. revision' = [revision EXCEPT ![r] = v]
    BY <1>1, <1>8, <2>4 DEF GCStop
  <2>7. /\ revision' \in [Revisions -> [up: BOOLEAN, index: Nat]]
        /\ \A q \in Revisions \ {r} : revision'[q] = revision[q]
    BY <1>1, <2>5, <2>6
  <2>8. ASSUME NEW d \in Deployments, work[d].pc # "idle", state[d] \in Active
        PROVE  RevisionOf(Current(d)) \in Revisions \ {r}
    <3>1. Current(d) \in Frozen /\ RevisionOf(Current(d)) \in Revisions /\ Current(d)[1] = d
      BY <1>1, <2>8, AtRun, CurrentRun
    <3>2. RevisionOf(Current(d)) \in HookRevisionsInUse
      BY <2>8, <3>1 DEF HookRevisionsInUse
    <3>3. QED  BY <2>1, <3>1, <3>2
  <2>9. QED  BY <1>4, <2>3, <2>7, <2>8
<1>9. CASE GCError
  <2>1. PICK left \in {{}} \cup {gc.stop \ {r} : r \in gc.stop} :
          gc' = IF gc.pc = "used" \/ left = {} THEN IdleGC ELSE [gc EXCEPT !.stop = left]
    BY <1>9 DEF GCError
  <2>2. left \subseteq gc.stop
    OBVIOUS
  <2>3. gc' = IdleGC \/ gc' = [gc EXCEPT !.stop = left]
    BY <2>1
  <2>4. /\ gc' \in [pc: {"idle", "used", "stop"}, stop: SUBSET Revisions]
        /\ gc'.pc = "stop" => gc'.stop \cap HookRevisionsInUse = {}
    BY <1>1, <1>5, <2>2, <2>3 DEF StopsUnused
  <2>5. revision' = revision
    BY <1>9 DEF GCError, nomadVars
  <2>6. QED  BY <1>1, <1>4, <2>4, <2>5
<1>10. QED  BY <1>6, <1>7, <1>8, <1>9 DEF Collect

\* Time passes.
LEMMA ExpireKeeps ==
    ASSUME HooksInv, NEW t \in Runs, Expire(t)
    PROVE  HooksInv'
<1>1. HooksTypeOK /\ StopsUnused
  BY DEF HooksInv
<1>2. UNCHANGED <<rowVars, listed, work, gc, nomadVars, faults>>
  BY DEF Expire, applyVars
<1>3. late' \subseteq Runs /\ overdue' \subseteq late'
  BY <1>1 DEF Expire, HooksTypeOK
<1>4. HooksTypeOK'
  BY <1>1, <1>2, <1>3 DEF HooksTypeOK, rowVars, nomadVars, childVars
<1>5. StopsUnused'
  BY <1>2, UnusedStays DEF rowVars
<1>6. \A d \in Deployments : WorkOK(d)'
  BY <1>2, WorkStays DEF nomadVars
<1>7. QED  BY <1>2, <1>4, <1>5, <1>6, AroundKeeps, ListedStays DEF nomadVars

\* What is in memory is lost; the rows and Nomad say the rest.
LEMMA CrashKeeps ==
    ASSUME HooksInv, Crash, faults' \in 0..MaxFaults
    PROVE  HooksInv'
<1>1. HooksTypeOK
  BY DEF HooksInv
<1>2. /\ work' = [d \in Deployments |-> Idle] /\ listed' = {} /\ gc' = IdleGC
      /\ UNCHANGED <<rowVars, clockVars, nomadVars>>
  BY DEF Crash
<1>3. Idle \in WorkRecord /\ Idle.pc = "idle"
  BY HooksAssumption DEF Idle, WorkRecord, Phases, Unsettled
<1>4. work' \in [Deployments -> WorkRecord]
  BY <1>2, <1>3
<1>5. IdleGC \in [pc: {"idle", "used", "stop"}, stop: SUBSET Revisions] /\ IdleGC.pc = "idle"
  BY DEF IdleGC
<1>6. HooksTypeOK'
  BY <1>1, <1>2, <1>4, <1>5 DEF HooksTypeOK, rowVars, clockVars, nomadVars, childVars
<1>7. StopsUnused'
  BY <1>2, <1>5 DEF StopsUnused
<1>8. \A d \in Deployments : WorkOK(d)'
  BY <1>2, <1>3 DEF WorkOK
<1>9. QED  BY <1>2, <1>6, <1>7, <1>8, AroundKeeps, ListedStays DEF nomadVars

\* A listing of the rows in a hook phase.
LEMMA ListKeeps ==
    ASSUME HooksInv, ListActive
    PROVE  HooksInv'
<1>1. HooksTypeOK
  BY DEF HooksInv
<1>2. /\ UNCHANGED <<rowVars, clockVars, work, gc, nomadVars, faults>>
      /\ listed' = {x \in Deployments \X Phases : state[x[1]] = HookPhase(x[2])}
  BY DEF ListActive
<1>3. HooksTypeOK'
  BY <1>1, <1>2 DEF HooksTypeOK, rowVars, clockVars, nomadVars, childVars
<1>4. ListedOK'
  <2> SUFFICES ASSUME NEW x \in Deployments \X Phases, x \in listed'
               PROVE  Begun(x[1])' /\ frozen'[x[1]][x[2]] # <<>>
    BY DEF ListedOK
  <2>1. x[1] \in Deployments /\ x[2] \in Phases /\ state[x[1]] = HookPhase(x[2])
    BY <1>2
  <2>2. frozen[x[1]][x[2]] # <<>>
    BY <2>1 DEF HooksInv, PhaseOK
  <2>3. Begun(x[1])
    BY <2>1 DEF Begun, HookPhase
  <2>4. QED  BY <1>2, <2>2, <2>3 DEF Begun, rowVars
<1>5. StopsUnused'
  BY <1>2, UnusedStays DEF rowVars
<1>6. \A d \in Deployments : WorkOK(d)'
  BY <1>2, WorkStays DEF nomadVars
<1>7. QED  BY <1>2, <1>3, <1>4, <1>5, <1>6, AroundKeeps DEF nomadVars

\* Nothing has happened yet.
LEMMA InitKeeps == Init => HooksInv
<1> SUFFICES ASSUME Init
             PROVE  HooksInv
  OBVIOUS
<1>1. HooksTypeOK
  <2>1. /\ NoRun \in RunRecord /\ NoRun.child = FALSE /\ NoRun.state = "none"
        /\ NoChild \in ChildRecord /\ Idle \in WorkRecord
        /\ IdleGC \in [pc: {"idle", "used", "stop"}, stop: SUBSET Revisions]
    BY HooksAssumption DEF NoRun, RunRecord, NoChild, ChildRecord, Idle, WorkRecord, IdleGC,
                           Phases, Unsettled
  <2>2. 0 \in 0..MaxFaults
    BY HooksAssumption
  <2>3. [r \in Revisions |-> [up |-> FALSE, index |-> 0]] \in [Revisions -> [up: BOOLEAN, index: Nat]]
    OBVIOUS
  <2>4. \A t \in Runs : runs[t] = NoRun
    BY DEF Init
  <2>5. QED  BY <2>1, <2>2, <2>3, <2>4 DEF Init, HooksTypeOK
<1>2. ASSUME NEW t \in Runs
      PROVE  RunOK(t) /\ GroupsOK(t) /\ OrderOK(t)
  <2>1. runs[t] = NoRun /\ children[t] = NoChild /\ started[t] = 0 /\ t \notin wire
    BY DEF Init
  <2>2. QED  BY <2>1 DEF NoRun, NoChild, RunOK, GroupsOK, OrderOK, Alive
<1>3. ASSUME NEW d \in Deployments
      PROVE  WorkOK(d) /\ PhaseOK(d)
  <2>1. work[d].pc = "idle" /\ state[d] = "none"
    BY DEF Init, Idle
  <2>2. QED  BY <2>1 DEF WorkOK, PhaseOK, HookPhase, PastHooks
<1>4. ListedOK /\ StopsUnused
  BY DEF Init, IdleGC, ListedOK, StopsUnused
<1>5. QED  BY <1>1, <1>2, <1>3, <1>4 DEF HooksInv

\* Every step keeps it.
LEMMA NextKeeps ==
    ASSUME HooksInv, Next
    PROVE  HooksInv'
<1>1. ASSUME NEW d \in Deployments, Step(d)
      PROVE  HooksInv'
  <2>1. CASE ReadLive(d) \/ Plan(d) \/ Validate(d) \/ RecoverChild(d)
    BY <2>1, ReadingKeeps
  <2>2. CASE Ensure(d) \/ Mark(d) \/ SaveChild(d) \/ Finish(d)
    BY <2>2, WritingKeeps
  <2>3. CASE AwaitJob(d) \/ AwaitAllocs(d)
    BY <2>3, AwaitingKeeps
  <2>4. CASE Register(d)
    BY <2>4, RegisterKeeps
  <2>5. CASE Dispatch(d)
    BY <2>5, DispatchKeeps
  <2>6. CASE Stop(d)
    BY <2>6, StopKeeps
  <2>7. CASE Result(d)
    BY <2>7, ResultKeeps
  <2>8. QED  BY <1>1, <2>1, <2>2, <2>3, <2>4, <2>5, <2>6, <2>7 DEF Step
<1>2. ASSUME NEW t \in Runs, Child(t) \/ Arrive(t) \/ Expire(t)
      PROVE  HooksInv'
  BY <1>2, ChildKeeps, ArriveKeeps, ExpireKeeps
<1>3. CASE Fault
  <2>1. faults' \in 0..MaxFaults
    BY <1>3, HooksAssumption DEF Fault, HooksInv, HooksTypeOK
  <2>2. ASSUME NEW d \in Deployments, StepError(d)
        PROVE  HooksInv'
    BY <2>1, <2>2, LeaveKeeps DEF StepError
  <2>3. ASSUME NEW d \in Deployments, RegisterError(d) \/ DispatchError(d)
        PROVE  HooksInv'
    BY <2>1, <2>3, RegisterKeeps, DispatchKeeps
  <2>4. CASE GCError
    BY <2>1, <2>4, CollectKeeps
  <2>5. CASE Crash
    BY <2>1, <2>5, CrashKeeps
  <2>6. QED  BY <1>3, <2>2, <2>3, <2>4, <2>5 DEF Fault
<1>4. CASE applyCycle
  BY <1>4, ListKeeps, ReadingKeeps DEF applyCycle
<1>5. QED  BY <1>1, <1>2, <1>3, <1>4, DeployKeeps, CollectKeeps DEF Next

\* So does one that changes nothing.
LEMMA StutterKeeps ==
    ASSUME HooksInv, UNCHANGED vars
    PROVE  HooksInv'
<1>1. UNCHANGED <<rowVars, clockVars, listed, work, gc, nomadVars, revision, wire, childVars, faults>>
  BY DEF vars, applyVars, nomadVars
<1>2. HooksTypeOK' /\ StopsUnused'
  <2>1. HooksTypeOK'
    BY <1>1 DEF HooksInv, HooksTypeOK, rowVars, clockVars, childVars
  <2>2. StopsUnused'
    BY <1>1, UnusedStays DEF rowVars
  <2>3. QED  BY <2>1, <2>2
<1>3. \A d \in Deployments : WorkOK(d)'
  BY <1>1, WorkStays
<1>4. QED  BY <1>1, <1>2, <1>3, AroundKeeps, ListedStays

-----------------------------------------------------------------------------
(***************************************************************************)
(* Theorems.                                                               *)
(***************************************************************************)

\* The inductive invariant holds in every state.
THEOREM HooksInvariant == Spec => []HooksInv
<1>1. HooksInv /\ [Next]_vars => HooksInv'
  BY NextKeeps, StutterKeeps
<1>2. QED  BY <1>1, InitKeeps, PTL DEF Spec

\* Every row, goroutine, revision and child keeps its shape; a settled success has a
\* child on record.
THEOREM HooksTypes == Spec => []HooksTypeOK
<1>1. HooksInv => HooksTypeOK  BY DEF HooksInv
<1>2. QED  BY <1>1, HooksInvariant, PTL

\* A run recorded as timed out has no child left running: the runner stops it first,
\* and no dispatch still on its way can start one.
THEOREM TimedOutAreStopped == Spec => []TimedOutStopped
<1>1. HooksInv => TimedOutStopped  BY DEF HooksInv, RunOK, TimedOutStopped
<1>2. QED  BY <1>1, HooksInvariant, PTL

\* gcHookRevisions never stops the revision of an active deployment between its
\* register and its dispatch, however its reads of Nomad and of the database
\* interleave with other deployments.
THEOREM RevisionsReady == Spec => []RevisionReady
<1>1. HooksInv => RevisionReady
  <2> SUFFICES ASSUME HooksInv, NEW d \in Deployments,
                      state[d] \in Active, work[d].pc \in {"ensure", "validate", "mark", "dispatch"}
               PROVE  revision[RevisionOf(Current(d))].up
    BY DEF RevisionReady
  <2>1. RowOK(work[d], Current(d)) /\ Current(d)[1] = d
    BY AtRun DEF Current
  <2>2. QED  BY <2>1 DEF RowOK, Ready
<1>2. QED  BY <1>1, HooksInvariant, PTL

\* With hooks of one group each, a success on record was one.
THEOREM SuccessesRan ==
    ASSUME Partial = {}
    PROVE  Spec => []SucceededRan
<1>1. HooksInv => SucceededRan  BY DEF HooksInv, GroupsOK, SucceededRan
<1>2. QED  BY <1>1, HooksInvariant, PTL

\* With hooks of one group each, stepHook takes a deployment past a phase only when
\* all its hooks ended well, and starts none before those ahead of it did.
THEOREM InOrder ==
    ASSUME Partial = {}
    PROVE  Spec => []PhaseFollowsHooks
<1>1. HooksInv => PhaseFollowsHooks
  <2> SUFFICES ASSUME HooksInv
               PROVE  PhaseFollowsHooks
    OBVIOUS
  <2>1. ASSUME NEW t \in Frozen, state[t[1]] \in PastHooks(t[2])
        PROVE  t \in completed
    <3>1. /\ t[1] \in Deployments /\ t[2] \in Phases /\ t[3] \in 1..MaxPosition
          /\ t = <<t[1], t[2], t[3]>> /\ t[3] <= Len(frozen[t[1]][t[2]])
      BY DEF Frozen, Runs
    <3>2. Len(frozen[t[1]][t[2]]) \in Nat
      BY <3>1, FrozenHooks DEF HooksInv
    <3>3. t[3] \in 1..Len(frozen[t[1]][t[2]])
      BY <3>1, <3>2, HooksAssumption
    <3>4. PhaseOK(t[1])
      BY <3>1 DEF HooksInv
    <3>5. <<t[1], t[2], t[3]>> \in completed
      BY <2>1, <3>1, <3>3, <3>4 DEF PhaseOK
    <3>6. QED  BY <3>1, <3>5
  <2>2. ASSUME NEW t \in Runs, started[t] > 0
        PROVE  HooksBefore(t) \subseteq completed
    BY <2>2 DEF HooksInv, OrderOK
  <2>3. QED  BY <2>1, <2>2 DEF PhaseFollowsHooks
<1>2. QED  BY <1>1, HooksInvariant, PTL
-----------------------------------------------------------------------------
(***************************************************************************)
(* The hooks implement HookOnce.                                           *)
(***************************************************************************)
\* Seen from afar, nothing happens while no outcome is settled and Nomad reports
\* nothing.
LEMMA OnceStays ==
    ASSUME \A t \in Runs : runs'[t] = runs[t] \/ {runs[t].state, runs'[t].state} \cap Settled = {},
           started' = started, completed' = completed
    PROVE  UNCHANGED Once!onceVars
<1>1. \A t \in Runs : (IF runs[t].state \in Settled THEN runs[t].state ELSE "none")'
                        = IF runs[t].state \in Settled THEN runs[t].state ELSE "none"
  OBVIOUS
<1>2. QED  BY <1>1 DEF Once!onceVars

\* A child that starts is a run, if there was none and none is needed no more.
LEMMA OnceRuns ==
    ASSUME NEW t \in Runs, started[t] = 0, runs[t].state \in Unsettled \cup {"failed"},
           started' = [started EXCEPT ![t] = 1], completed' = completed, runs' = runs
    PROVE  Once!OnceNext
<1>1. (IF runs[t].state \in Settled THEN runs[t].state ELSE "none") \in {"none", "failed"}
  BY DEF Unsettled, Settled
<1>2. Once!Run(t)
  BY <1>1 DEF Once!Run
<1>3. QED  BY <1>2 DEF Once!OnceNext

\* A dispatch Nomad takes for a run it has not started.
LEMMA OnceDispatched ==
    ASSUME HooksInv, NEW t \in Runs, started[t] = 0, runs[t].state \in Unsettled \cup {"failed"},
           NomadDispatch(t), runs' = runs
    PROVE  Once!OnceNext
<1>1. started' = [started EXCEPT ![t] = 1] /\ completed' = completed
  BY DispatchStarts
<1>2. QED  BY <1>1, OnceRuns

\* What the goroutine settles on is settled once, and true.
LEMMA OnceSettled ==
    ASSUME HooksInv, Partial = {}, NEW d \in Deployments, Finish(d)
    PROVE  Once!OnceNext
<1>0. PICK t : t = Current(d)
  OBVIOUS
<1>1. PICK to : to = work[d].state
  OBVIOUS
<1>2. /\ work[d].pc = "finish" /\ runs' = [runs EXCEPT ![t].state = to]
      /\ started' = started /\ completed' = completed
  BY <1>0, <1>1, Zenon DEF Finish, At, nomadVars, childVars
<1>3. RowOK(work[d], t) /\ t \in Runs /\ runs \in [Runs -> RunRecord]
  BY <1>0, <1>2, AtRun DEF HooksInv, HooksTypeOK
<1>4. to \in Settled /\ runs[t].state \notin Settled /\ (to = "succeeded" => t \in completed)
  BY <1>1, <1>2, <1>3 DEF RowOK, Ready, Settled
<1>5. runs'[t].state = to /\ \A u \in Runs \ {t} : runs'[u] = runs[u]
  BY <1>2, <1>3 DEF RunRecord
<1>6. Once!Settle(t, to)
  BY <1>2, <1>3, <1>4, <1>5 DEF Once!Settle
<1>7. QED  BY <1>3, <1>4, <1>6 DEF Once!OnceNext, Settled

\* A child that ends well ends the run it is of.
LEMMA OnceEnds ==
    ASSUME HooksInv, NEW t \in Runs, Child(t)
    PROVE  Once!OnceNext \/ UNCHANGED Once!onceVars
<1>1. runs' = runs /\ started' = started
  BY DEF Child, rowVars
<1>2. CASE completed' = completed
  BY <1>1, <1>2, OnceStays
<1>3. CASE completed' = completed \cup {t} /\ AllocEnds(t)
  <2>1. started[t] = 1
    BY <1>3 DEF AllocEnds, Exists, HooksInv, RunOK
  <2>2. Once!End(t)
    BY <1>1, <1>3, <2>1 DEF Once!End
  <2>3. QED  BY <2>2 DEF Once!OnceNext
<1>4. completed' = completed \/ (completed' = completed \cup {t} /\ AllocEnds(t))
  <2>1. ASSUME AllocEnds(t)
        PROVE  completed' = completed \/ completed' = completed \cup {t}
    <3>1. PICK allocs : completed' = IF allocs = {"complete"} /\ ~children[t].unplaced
                                     THEN completed \cup {t} ELSE completed
      BY <2>1, Zenon DEF AllocEnds
    <3>2. QED  BY <3>1
  <2>2. QED  BY <2>1, Zenon DEF Child, ChildPlaced, ChildEnds, StoppedOutside, ChildGone
<1>5. QED  BY <1>2, <1>3, <1>4

\* Every step is one of HookOnce, or none.
LEMMA OnceStep ==
    ASSUME HooksInv, Partial = {}, Next
    PROVE  Once!OnceNext \/ UNCHANGED Once!onceVars
<1> SUFFICES ASSUME ~Once!OnceNext, ~UNCHANGED Once!onceVars
             PROVE  FALSE
  OBVIOUS
<1>1. ASSUME runs' = runs, started' = started, completed' = completed
      PROVE  FALSE
  BY <1>1, OnceStays
<1>2. ASSUME NEW d \in Deployments, Step(d)
      PROVE  FALSE
  <2>1. PICK t : t = Current(d)
    OBVIOUS
  <2>2. CASE \/ ReadLive(d) \/ Plan(d) \/ Register(d) \/ Validate(d)
             \/ RecoverChild(d) \/ AwaitJob(d) \/ AwaitAllocs(d) \/ Stop(d) \/ Result(d)
    <3>1. runs' = runs /\ started' = started /\ completed' = completed
      BY <2>2, Zenon DEF ReadLive, Plan, Register, RegisterFails, Validate, RecoverChild,
                         AwaitJob, AwaitAllocs, Stop, Result, rowVars, nomadVars, childVars
    <3>2. QED  BY <1>1, <3>1
  <2>3. CASE Ensure(d) \/ Mark(d) \/ SaveChild(d)
    <3>1. /\ work[d].pc \in {"ensure", "mark", "save"} /\ started' = started /\ completed' = completed
      BY <2>3 DEF Ensure, Mark, SaveChild, At, nomadVars, childVars
    <3>2. RowOK(work[d], t) /\ t \in Runs /\ runs \in [Runs -> RunRecord]
      BY <2>1, <3>1, AtRun DEF HooksInv, HooksTypeOK
    <3>3. PICK row : /\ runs' = [runs EXCEPT ![t] = row]
                     /\ row = runs[t] \/ {runs[t].state, row.state} \cap Settled = {}
      <4>1. CASE Ensure(d)
        <5>1. PICK row : row = IF runs[t].state = "none" THEN [NoRun EXCEPT !.state = "dispatching"]
                               ELSE runs[t]
          OBVIOUS
        <5>2. runs' = [runs EXCEPT ![t] = row]
          BY <2>1, <4>1, <5>1, Zenon DEF Ensure
        <5>3. row = runs[t] \/ {runs[t].state, row.state} \cap Settled = {}
          BY <5>1 DEF NoRun, Settled
        <5>4. QED  BY <5>2, <5>3
      <4>2. CASE Mark(d)
        <5>1. runs[t].state = "dispatching"
          BY <3>2, <4>2 DEF Mark, At, RowOK, Ready
        <5>2. PICK row : row = [runs[t] EXCEPT !.state = "running"]
          OBVIOUS
        <5>3. row.state = "running"
          BY <3>2, <5>2 DEF RunRecord
        <5>4. runs' = [runs EXCEPT ![t] = row]
          BY <2>1, <3>2, <4>2, <5>2 DEF Mark
        <5>5. QED  BY <5>1, <5>3, <5>4 DEF Settled
      <4>3. CASE SaveChild(d)
        <5>1. runs[t].state = "running"
          BY <3>2, <4>3 DEF SaveChild, At, RowOK, Ready
        <5>2. PICK row : row = [state |-> "running", child |-> TRUE]
          OBVIOUS
        <5>3. runs' = [runs EXCEPT ![t] = row] /\ row.state = "running"
          BY <2>1, <4>3, <5>2 DEF SaveChild
        <5>4. QED  BY <5>1, <5>3 DEF Settled
      <4>4. QED  BY <2>3, <4>1, <4>2, <4>3
    <3>4. \A u \in Runs : runs'[u] = runs[u] \/ {runs[u].state, runs'[u].state} \cap Settled = {}
      BY <3>2, <3>3
    <3>5. QED  BY <3>1, <3>4, OnceStays
  <2>4. CASE Finish(d)
    BY <2>4, OnceSettled
  <2>5. CASE Dispatch(d)
    <3>1. runs' = runs /\ work[d].pc = "dispatch"
      BY <2>5 DEF Dispatch, At, rowVars
    <3>2. t \in Runs /\ runs[t].state = "running" /\ started[t] = 0
      BY <2>1, <3>1, AtRun DEF RowOK, Ready
    <3>3. CASE NomadDispatch(t)
      BY <3>1, <3>2, <3>3, OnceDispatched DEF Unsettled
    <3>4. CASE UNCHANGED childVars
      BY <1>1, <3>1, <3>4 DEF childVars
    <3>5. QED  BY <2>1, <2>5, <3>3, <3>4 DEF Dispatch
  <2>6. QED  BY <1>2, <2>2, <2>3, <2>4, <2>5 DEF Step
<1>3. ASSUME NEW t \in Runs, Arrive(t)
      PROVE  FALSE
  <2>1. runs' = runs /\ t \in wire
    BY <1>3 DEF Arrive, rowVars
  <2>2. started[t] = 0 /\ runs[t].state \in {"running", "failed"}
    BY <2>1 DEF HooksInv, RunOK
  <2>3. CASE NomadDispatch(t)
    BY <2>1, <2>2, <2>3, OnceDispatched DEF Unsettled
  <2>4. CASE UNCHANGED childVars
    BY <1>1, <2>1, <2>4 DEF childVars
  <2>5. QED  BY <1>3, <2>3, <2>4 DEF Arrive
<1>4. ASSUME NEW d \in Deployments, DispatchError(d)
      PROVE  FALSE
  <2>1. PICK t : t = Current(d)
    OBVIOUS
  <2>2. runs' = runs /\ work[d].pc = "dispatch"
    BY <1>4 DEF DispatchError, At, rowVars
  <2>3. t \in Runs /\ runs[t].state = "running" /\ started[t] = 0
    BY <2>1, <2>2, AtRun DEF RowOK, Ready
  <2>4. CASE NomadDispatch(t)
    BY <2>2, <2>3, <2>4, OnceDispatched DEF Unsettled
  <2>5. CASE UNCHANGED childVars
    BY <1>1, <2>2, <2>5 DEF childVars
  <2>6. QED  BY <1>4, <2>1, <2>4, <2>5, Zenon DEF DispatchError
<1>5. ASSUME NEW d \in Deployments, Deploy(d) \/ RegisterError(d) \/ StepError(d)
      PROVE  FALSE
  <2>1. runs' = runs /\ started' = started /\ completed' = completed
    BY <1>5, Zenon DEF Deploy, RegisterError, RegisterFails, StepError, rowVars, nomadVars, childVars
  <2>2. QED  BY <1>1, <2>1
<1>6. ASSUME applyCycle \/ Collect \/ GCError \/ Crash \/ \E t \in Runs : Expire(t)
      PROVE  FALSE
  <2>1. runs' = runs /\ started' = started /\ completed' = completed
    BY <1>6, Zenon DEF applyCycle, ListActive, Begin, Collect, GCList, GCUsed, GCStop, GCError, Crash, Expire,
                       rowVars, nomadVars, childVars
  <2>2. QED  BY <1>1, <2>1
<1>7. ASSUME NEW t \in Runs, Child(t)
      PROVE  FALSE
  BY <1>7, OnceEnds
<1>8. CASE Fault
  BY <1>4, <1>5, <1>6, <1>8 DEF Fault
<1>9. QED  BY <1>2, <1>3, <1>5, <1>6, <1>7, <1>8 DEF Next

\* Through lost and late dispatches, crashes and collected children, a hook of one
\* group is dispatched once at most, and what its row settles on is final and true.
THEOREM RunsOnce ==
    ASSUME Partial = {}
    PROVE  Spec => ImplementsOnce
<1>1. Init => Once!OnceInit
  <2>1. Init => Once!Before({})
    BY DEF Init, NoRun, Settled, Once!Before
  <2>2. QED  BY <2>1 DEF Once!OnceInit
<1>2. HooksInv /\ [Next]_vars => [Once!OnceNext]_(Once!onceVars)
  <2>1. ASSUME UNCHANGED vars
        PROVE  UNCHANGED Once!onceVars
    <3>1. runs' = runs /\ started' = started /\ completed' = completed
      BY <2>1 DEF vars, rowVars, nomadVars, childVars
    <3>2. QED  BY <3>1, OnceStays
  <2>2. QED  BY <2>1, OnceStep
<1>3. QED  BY <1>1, <1>2, HooksInvariant, PTL DEF Spec, ImplementsOnce, Once!OnceSpec

=============================================================================
